---------------------------- MODULE ApprovalProofs ----------------------------
(* The requests of any number of users implement one decision, and a script    *)
(* whose hash a request carries runs as it was requested, but for an edit      *)
(* between the comparison and the read.                                        *)
EXTENDS Approval, FiniteSetTheorems, TLAPS

USE DEF scriptVars

\* The steps of the execution of a request.
Exec == {"check", "load", "run"}

\* Who decided is visible in the row; nothing is in flight before the insert;
\* nobody executes before the claim and one task at most after it; what it still
\* has to do has not been done; nobody claims his own request.
ClaimInv ==
    /\ TypeOK
    /\ claimer # Nobody \/ refused => status \notin {"absent", "pending"}
    /\ status = "absent" => \A t \in Tasks : task[t].pc = "idle"
    /\ claimer = Nobody => /\ \A t \in Tasks : task[t].pc \notin Exec
                           /\ \A e \in Effects : effects[e] = 0
    /\ \A t1, t2 \in Tasks : task[t1].pc \in Exec /\ task[t2].pc \in Exec => t1 = t2
    /\ \A t \in Tasks : task[t].pc \in {"check", "load"} => \A e \in Effects : effects[e] = 0
    /\ \A t \in Tasks : task[t].pc = "run" => \A e \in task[t].todo : effects[e] = 0
    /\ \A t \in Tasks : task[t].pc = "claim" => task[t].user # Requester

\* A task that ended or was never started.
LEMMA IdleTaskType == IdleTask \in Task /\ IdleTask.pc = "idle" /\ IdleTask.user = Requester
BY ApprovalAssumption DEF IdleTask, Task, Steps

\* Only task t moves.
LEMMA BecomeFacts ==
    ASSUME TypeOK, NEW t \in Tasks, NEW k \in Task, Become(t, k)
    PROVE  /\ task' \in [Tasks -> Task]
           /\ task'[t] = k
           /\ \A x \in Tasks : x # t => task'[x] = task[x]
BY DEF TypeOK, Become

\* A step in which one task moves and neither the row's decision nor the effects
\* change, and that does not start an execution or a claim.
LEMMA TaskMoves ==
    ASSUME ClaimInv, TypeOK', NEW t \in Tasks, NEW k \in Task, Become(t, k),
           UNCHANGED <<claimer, effects>>,
           claimer # Nobody \/ refused' => status' \notin {"absent", "pending"},
           status' # "absent",
           k.pc \in Exec => task[t].pc \in Exec,
           k.pc \in {"check", "load"} => task[t].pc \in {"check", "load"},
           k.pc = "run" => \/ task[t].pc \in {"check", "load"}
                           \/ task[t].pc = "run" /\ k.todo \subseteq task[t].todo,
           k.pc = "claim" => k.user # Requester
    PROVE  ClaimInv'
<1>1. TypeOK
  BY DEF ClaimInv
<1>2. /\ task'[t] = k /\ k.todo \subseteq Effects
      /\ \A x \in Tasks : x # t => task'[x] = task[x]
  BY <1>1, BecomeFacts DEF Task
<1>3. claimer' = Nobody => /\ \A x \in Tasks : task'[x].pc \notin Exec
                           /\ \A e \in Effects : effects'[e] = 0
  BY <1>2 DEF ClaimInv
<1>4. \A t1, t2 \in Tasks : task'[t1].pc \in Exec /\ task'[t2].pc \in Exec => t1 = t2
  BY <1>2 DEF ClaimInv
<1>5. \A x \in Tasks : task'[x].pc \in {"check", "load"} => \A e \in Effects : effects'[e] = 0
  BY <1>2 DEF ClaimInv
<1>6. \A x \in Tasks : task'[x].pc = "run" => \A e \in task'[x].todo : effects'[e] = 0
  BY <1>2 DEF ClaimInv
<1>7. \A x \in Tasks : task'[x].pc = "claim" => task'[x].user # Requester
  BY <1>2 DEF ClaimInv
<1> QED BY <1>3, <1>4, <1>5, <1>6, <1>7 DEF ClaimInv

\* A step of the execution that leaves the row and the history alone.
LEMMA ExecMoves ==
    ASSUME ClaimInv, NEW t \in Tasks, NEW k \in Task, Become(t, k),
           UNCHANGED <<rowVars, scriptVars, histVars, crashes>>,
           task[t].pc # "idle",
           k.pc \in Exec => task[t].pc \in Exec,
           k.pc \in {"check", "load"} => task[t].pc \in {"check", "load"},
           k.pc = "run" => \/ task[t].pc \in {"check", "load"}
                           \/ task[t].pc = "run" /\ k.todo \subseteq task[t].todo,
           k.pc # "claim"
    PROVE  ClaimInv'
<1>1. TypeOK
  BY DEF ClaimInv
<1>2. task' \in [Tasks -> Task]
  BY <1>1, BecomeFacts
<1>3. TypeOK'
  BY <1>1, <1>2 DEF TypeOK, rowVars, histVars
<1>4. status' # "absent" /\ UNCHANGED <<claimer, effects, refused, status>>
  BY DEF ClaimInv, rowVars, histVars
<1> QED BY <1>3, <1>4, TaskMoves DEF ClaimInv

\* A task that begins is not executing.
LEMMA BeginInv ==
    ASSUME ClaimInv, NEW t \in Tasks, NEW u \in Users, NEW pc \in {"expire", "claim", "deny", "cancel"},
           Begin(t, u, pc), status = "pending", pc = "claim" => u # Requester,
           UNCHANGED <<rowVars, scriptVars, histVars, crashes>>
    PROVE  ClaimInv'
<1> DEFINE k == [IdleTask EXCEPT !.pc = pc, !.user = u]
<1>1. TypeOK
  BY DEF ClaimInv
<1>2. k \in Task /\ k.pc = pc /\ k.user = u
  BY IdleTaskType DEF Task, Steps
<1>3. Become(t, k)
  BY DEF Begin
<1> HIDE DEF k
<1>4. task' \in [Tasks -> Task]
  BY <1>1, <1>2, <1>3, BecomeFacts
<1>5. TypeOK'
  BY <1>1, <1>4 DEF TypeOK, rowVars, histVars
<1>6. UNCHANGED <<claimer, effects, refused, status>>
  BY DEF rowVars, histVars
<1> QED BY <1>2, <1>3, <1>5, <1>6, TaskMoves DEF ClaimInv, Exec

\* The conditional UPDATE: it succeeds only while nothing is decided.
LEMMA ClaimKeeps ==
    ASSUME ClaimInv, NEW t \in Tasks, Claim(t)
    PROVE  ClaimInv'
<1>1. TypeOK /\ task[t].pc = "claim" /\ task[t] \in Task
  BY DEF ClaimInv, Claim, TypeOK
<1>2. CASE status = "pending"
  <2> DEFINE k == [task[t] EXCEPT !.pc = FirstStep, !.todo = Effects]
  <2>1. k \in Task /\ k.pc = FirstStep /\ k.todo = Effects /\ FirstStep \in {"check", "run"}
    BY <1>1 DEF Task, Steps, FirstStep
  <2>2. /\ Become(t, k) /\ status' = "approved" /\ reviewer' = task[t].user
        /\ claimer' = task[t].user /\ atClaim' = content
        /\ UNCHANGED <<kind, due, asked, scriptVars, refused, effects, ran, crashes>>
    BY <1>2 DEF Claim
  <2> HIDE DEF k
  <2>3. /\ task' \in [Tasks -> Task] /\ task'[t] = k
        /\ \A x \in Tasks : x # t => task'[x] = task[x]
    BY <1>1, <2>1, <2>2, BecomeFacts
  <2>4. claimer = Nobody /\ task[t].user \in Users /\ claimer' # Nobody
    BY <1>1, <1>2, <2>2, ApprovalAssumption DEF ClaimInv, Task
  <2>5. /\ \A x \in Tasks : task[x].pc \notin Exec
        /\ \A e \in Effects : effects[e] = 0
    BY <2>4 DEF ClaimInv
  <2>6. TypeOK'
    BY <1>1, <2>2, <2>3, <2>4 DEF TypeOK, Status
  <2>7. \A t1, t2 \in Tasks : task'[t1].pc \in Exec /\ task'[t2].pc \in Exec => t1 = t2
    BY <2>3, <2>5
  <2>8. \A x \in Tasks : task'[x].pc = "run" => \A e \in task'[x].todo : effects'[e] = 0
    BY <2>1, <2>2, <2>3, <2>5 DEF Exec
  <2>9. \A x \in Tasks : task'[x].pc = "claim" => task'[x].user # Requester
    BY <2>1, <2>3 DEF ClaimInv
  <2> QED BY <2>2, <2>4, <2>5, <2>6, <2>7, <2>8, <2>9 DEF ClaimInv
<1>3. CASE status # "pending"
  <2>1. Become(t, IdleTask) /\ UNCHANGED <<rowVars, scriptVars, histVars, crashes>>
    BY <1>3 DEF Claim, End, rowVars, histVars
  <2> QED BY <1>1, <2>1, IdleTaskType, ExecMoves DEF Exec
<1> QED BY <1>2, <1>3

\* A refusal writes the row by id.
LEMMA RefusalKeeps ==
    ASSUME ClaimInv, NEW t \in Tasks, WriteRefusal(t)
    PROVE  ClaimInv'
<1>1. TypeOK /\ task[t] \in Task /\ task[t].pc \in {"deny", "cancel", "expire"}
  BY DEF ClaimInv, WriteRefusal, TypeOK
<1>2. status' \in {"denied", "cancelled", "expired"}
  BY DEF WriteRefusal, Refusal
<1>3. /\ Become(t, IdleTask) /\ refused' = (refused \/ claimer = Nobody)
      /\ reviewer' \in {reviewer, task[t].user}
      /\ UNCHANGED <<kind, due, asked, scriptVars, claimer, atClaim, effects, ran, crashes>>
  BY DEF WriteRefusal, End
<1>4. task' \in [Tasks -> Task]
  BY <1>1, <1>3, IdleTaskType, BecomeFacts
<1>5. refused' \in BOOLEAN
  BY <1>1, <1>3 DEF TypeOK
<1>6. reviewer' \in Users \cup {Nobody}
  BY <1>1, <1>3 DEF TypeOK, Task
<1>7. TypeOK'
  BY <1>1, <1>2, <1>3, <1>4, <1>5, <1>6 DEF TypeOK, Status
<1> QED BY <1>1, <1>2, <1>3, <1>7, IdleTaskType, TaskMoves DEF Exec

\* One effect happens: it was still to be done, and only this task executes.
LEMMA EffectKeeps ==
    ASSUME ClaimInv, NEW t \in Tasks, NEW e \in Effects, ExecuteOne(t, e)
    PROVE  ClaimInv'
<1> DEFINE k == [task[t] EXCEPT !.todo = @ \ {e}]
<1>1. TypeOK /\ task[t] \in Task /\ task[t].pc = "run" /\ e \in task[t].todo
  BY DEF ClaimInv, ExecuteOne, TypeOK
<1>2. k \in Task /\ k.pc = "run" /\ k.todo = task[t].todo \ {e} /\ k.todo \subseteq Effects
  BY <1>1 DEF Task
<1>3. /\ Become(t, k) /\ effects' = [effects EXCEPT ![e] = @ + 1]
      /\ ran' \in {ran, ran \cup {task[t].ver}}
      /\ UNCHANGED <<status, reviewer, kind, due, asked, scriptVars, claimer, refused, atClaim, crashes>>
  BY DEF ExecuteOne, rowVars
<1> HIDE DEF k
<1>4. /\ task' \in [Tasks -> Task] /\ task'[t] = k
      /\ \A x \in Tasks : x # t => task'[x] = task[x]
  BY <1>1, <1>2, <1>3, BecomeFacts
<1>5. /\ effects' \in [Effects -> Nat]
      /\ \A d \in Effects : d # e => effects'[d] = effects[d]
  BY <1>1, <1>3 DEF TypeOK
<1>6. ran' \subseteq Nat
  BY <1>1, <1>3 DEF TypeOK, Task
<1>7. TypeOK'
  BY <1>1, <1>3, <1>4, <1>5, <1>6 DEF TypeOK
<1>8. claimer # Nobody /\ \A x \in Tasks : x # t => task'[x].pc \notin Exec
  BY <1>1, <1>4 DEF ClaimInv, Exec
<1>9. \A d \in k.todo : effects'[d] = 0
  BY <1>1, <1>2, <1>5 DEF ClaimInv
<1>10. \A x \in Tasks : task'[x].pc = "claim" => task'[x].user # Requester
  BY <1>2, <1>4 DEF ClaimInv
<1> QED BY <1>2, <1>3, <1>4, <1>7, <1>8, <1>9, <1>10 DEF ClaimInv, Exec

\* No step of any request breaks the claim.
LEMMA ClaimStep == ClaimInv /\ [Next]_vars => ClaimInv'
<1> SUFFICES ASSUME ClaimInv, [Next]_vars PROVE ClaimInv'
  OBVIOUS
<1>0. TypeOK
  BY DEF ClaimInv
<1>1. CASE Create
  <2>1. /\ status = "absent" /\ status' = "pending" /\ asked' = content
        /\ UNCHANGED <<reviewer, kind, due, scriptVars, task, claimer, refused, atClaim, effects, ran,
                       crashes>>
    BY <1>1 DEF Create, histVars
  <2>2. TypeOK'
    BY <1>0, <2>1 DEF TypeOK, Status
  <2> QED BY <2>1, <2>2 DEF ClaimInv
<1>2. CASE DeadlinePasses
  <2>1. TypeOK'
    BY <1>0, <1>2 DEF DeadlinePasses, TypeOK, histVars
  <2> QED BY <1>2, <2>1 DEF DeadlinePasses, ClaimInv, histVars
<1>3. CASE EditScript
  <2>1. TypeOK'
    BY <1>0, <1>3 DEF EditScript, TypeOK, rowVars, histVars
  <2> QED BY <1>3, <2>1 DEF EditScript, ClaimInv, rowVars, histVars
<1>4. CASE ServerCrash
  <2>1. /\ task' = [t \in Tasks |-> IdleTask] /\ crashes' = crashes + 1
        /\ UNCHANGED <<status, reviewer, kind, due, asked, scriptVars, claimer, refused, atClaim,
                       effects, ran>>
    BY <1>4 DEF ServerCrash, rowVars, histVars
  <2>2. TypeOK' /\ \A t \in Tasks : task'[t].pc = "idle"
    BY <1>0, <2>1, IdleTaskType DEF TypeOK
  <2> QED BY <2>1, <2>2 DEF ClaimInv, Exec
<1>5. ASSUME NEW t \in Tasks, NEW u \in Users, Approve(t, u) \/ Deny(t, u) PROVE ClaimInv'
  BY <1>5, BeginInv DEF Approve, Deny
<1>6. ASSUME NEW t \in Tasks, Cancel(t) PROVE ClaimInv'
  BY <1>6, BeginInv, ApprovalAssumption DEF Cancel
<1>7. ASSUME NEW t \in Tasks, WriteRefusal(t) PROVE ClaimInv'
  BY <1>7, RefusalKeeps
<1>8. ASSUME NEW t \in Tasks, Claim(t) PROVE ClaimInv'
  BY <1>8, ClaimKeeps
<1>9. ASSUME NEW t \in Tasks, CheckScript(t) PROVE ClaimInv'
  <2>1. PICK k \in Task : Become(t, k) /\ k.pc \in {"load", "idle"}
    <3>1. \A left \in SUBSET Effects :
            LET k == [task[t] EXCEPT !.pc = "load", !.todo = left] IN k \in Task /\ k.pc = "load"
      BY <1>0 DEF TypeOK, Task, Steps
    <3> QED BY <1>9, <3>1, IdleTaskType DEF CheckScript, End
  <2> QED BY <1>9, <2>1, ExecMoves DEF CheckScript, Exec
<1>10. ASSUME NEW t \in Tasks, LoadScript(t) PROVE ClaimInv'
  <2>0. CASE Become(t, IdleTask)
    BY <1>10, <2>0, IdleTaskType, ExecMoves DEF LoadScript, Exec
  <2> SUFFICES ASSUME ~Become(t, IdleTask) PROVE ClaimInv'
    BY <2>0
  <2> DEFINE k == [task[t] EXCEPT !.pc = "run", !.ver = content]
  <2>1. k \in Task /\ k.pc = "run"
    BY <1>0 DEF TypeOK, Task, Steps
  <2>2. Become(t, k) /\ task[t].pc = "load" /\ UNCHANGED <<rowVars, scriptVars, histVars, crashes>>
    BY <1>10 DEF LoadScript, End
  <2> HIDE DEF k
  <2> QED BY <2>1, <2>2, ExecMoves DEF Exec
<1>11. ASSUME NEW t \in Tasks, RecordExecuted(t) PROVE ClaimInv'
  <2>1. /\ status' = "executed" /\ Become(t, IdleTask)
        /\ UNCHANGED <<reviewer, kind, due, asked, scriptVars, claimer, refused, atClaim, effects,
                       ran, crashes>>
    BY <1>11 DEF RecordExecuted, End, histVars
  <2>2. task' \in [Tasks -> Task]
    BY <1>0, <2>1, IdleTaskType, BecomeFacts
  <2>3. TypeOK'
    BY <1>0, <2>1, <2>2 DEF TypeOK, Status
  <2> QED BY <2>1, <2>3, IdleTaskType, TaskMoves DEF Exec
<1>12. ASSUME NEW t \in Tasks, NEW e \in Effects, ExecuteOne(t, e) PROVE ClaimInv'
  BY <1>12, EffectKeeps
<1>13. ASSUME NEW t \in Tasks, NEW e \in Effects, ExecuteFails(t, e) PROVE ClaimInv'
  <2> DEFINE k == [task[t] EXCEPT !.todo = @ \ {e}]
  <2>1. k \in Task /\ k.pc = task[t].pc /\ k.todo \subseteq task[t].todo
    BY <1>0 DEF TypeOK, Task
  <2>2. /\ Become(t, k) \/ Become(t, IdleTask)
        /\ task[t].pc = "run" /\ UNCHANGED <<rowVars, scriptVars, histVars, crashes>>
    BY <1>13 DEF ExecuteFails, End
  <2> HIDE DEF k
  <2> QED BY <2>1, <2>2, IdleTaskType, ExecMoves DEF Exec
<1>14. CASE UNCHANGED vars
  <2>1. TypeOK'
    BY <1>0, <1>14 DEF vars, TypeOK
  <2> QED BY <1>14, <2>1 DEF vars, ClaimInv
<1> QED BY <1>1, <1>2, <1>3, <1>4, <1>5, <1>6, <1>7, <1>8, <1>9, <1>10, <1>11, <1>12, <1>13,
           <1>14 DEF Next, TaskStep

\* Nothing is decided, in flight or done at first.
LEMMA ClaimInit == Init => ClaimInv
<1> SUFFICES ASSUME Init PROVE ClaimInv
  OBVIOUS
<1>1. TypeOK
  BY IdleTaskType DEF Init, TypeOK, Status
<1>2. \A t \in Tasks : task[t].pc = "idle"
  BY IdleTaskType DEF Init
<1> QED BY <1>1, <1>2 DEF Init, ClaimInv, Exec

\* The claim invariant, and with it type correctness, holds throughout.
THEOREM ClaimSafety == Spec => []ClaimInv
BY ClaimInit, ClaimStep, PTL DEF Spec

\* Every column, version and request in flight keeps its type.
THEOREM ApprovalTypes == Spec => []TypeOK
<1>1. ClaimInv => TypeOK
  BY DEF ClaimInv
<1> QED BY <1>1, ClaimSafety, PTL

-----------------------------------------------------------------------------
(* One decision *)

decisionVars == <<CurrentDecision, claimer, effects>>

\* Every step is a step of the decision or leaves it as it is.
LEMMA DecisionStep == ClaimInv /\ [Next]_vars => [D!Next]_decisionVars
<1> SUFFICES ASSUME ClaimInv, [Next]_vars PROVE D!Next \/ UNCHANGED decisionVars
  BY DEF decisionVars
<1> USE DEF CurrentDecision, decisionVars, rowVars, histVars
<1>0. TypeOK
  BY DEF ClaimInv
<1>a. ASSUME UNCHANGED <<status, histVars>> PROVE UNCHANGED decisionVars
  BY <1>a
<1>1. CASE Create
  <2>1. /\ status = "absent" /\ status' = "pending" /\ claimer = Nobody /\ ~refused
        /\ UNCHANGED <<claimer, refused, effects>>
    BY <1>1 DEF Create, ClaimInv
  <2>2. CurrentDecision = "none" /\ CurrentDecision' = "open"
    BY <2>1
  <2>3. D!Request
    BY <2>1, <2>2 DEF D!Request
  <2> QED BY <2>3 DEF D!Next
<1>2. CASE DeadlinePasses \/ EditScript \/ ServerCrash
  BY <1>2, <1>a DEF DeadlinePasses, EditScript, ServerCrash
<1>3. ASSUME NEW t \in Tasks, NEW u \in Users, Approve(t, u) \/ Deny(t, u)
      PROVE  UNCHANGED decisionVars
  BY <1>3, <1>a DEF Approve, Deny
<1>4. ASSUME NEW t \in Tasks, Cancel(t) PROVE UNCHANGED decisionVars
  BY <1>4, <1>a DEF Cancel
<1>5. ASSUME NEW t \in Tasks, WriteRefusal(t) PROVE D!Next \/ UNCHANGED decisionVars
  <2>1. /\ status # "absent"
        /\ refused' = (refused \/ claimer = Nobody)
        /\ UNCHANGED <<claimer, effects>>
    BY <1>5 DEF WriteRefusal, ClaimInv
  <2>2. status' # "absent"
    BY <1>5 DEF WriteRefusal, Refusal
  <2>3. CASE claimer # Nobody
    BY <2>1, <2>3
  <2>4. CASE claimer = Nobody /\ refused
    BY <2>1, <2>4
  <2>5. CASE claimer = Nobody /\ ~refused
    <3>1. CurrentDecision = "open" /\ CurrentDecision' = "refused"
      BY <2>1, <2>2, <2>5
    <3>2. D!Refuse
      BY <2>1, <3>1 DEF D!Refuse
    <3> QED BY <3>2 DEF D!Next
  <2> QED BY <2>3, <2>4, <2>5
<1>6. ASSUME NEW t \in Tasks, Claim(t) PROVE D!Next \/ UNCHANGED decisionVars
  <2>1. CASE status = "pending"
    <3>1. /\ claimer = Nobody /\ ~refused
          /\ task[t].user \in Users /\ task[t].user # Requester
      BY <1>0, <1>6, <2>1 DEF Claim, ClaimInv, TypeOK, Task
    <3>2. claimer' = task[t].user /\ UNCHANGED effects /\ claimer' # Nobody
      BY <1>6, <2>1, <3>1, ApprovalAssumption DEF Claim
    <3>3. CurrentDecision = "open" /\ CurrentDecision' = "granted"
      BY <2>1, <3>1, <3>2
    <3>4. D!Grant(task[t].user)
      BY <3>1, <3>2, <3>3 DEF D!Grant
    <3> QED BY <3>1, <3>4 DEF D!Next
  <2>2. CASE status # "pending"
    BY <1>6, <1>a, <2>2 DEF Claim
  <2> QED BY <2>1, <2>2
<1>7. ASSUME NEW t \in Tasks, CheckScript(t) \/ LoadScript(t) PROVE UNCHANGED decisionVars
  BY <1>7, <1>a DEF CheckScript, LoadScript
<1>8. ASSUME NEW t \in Tasks, RecordExecuted(t) PROVE UNCHANGED decisionVars
  <2>1. claimer # Nobody /\ UNCHANGED <<claimer, refused, effects>>
    BY <1>8 DEF RecordExecuted, ClaimInv, Exec
  <2> QED BY <2>1
<1>9. ASSUME NEW t \in Tasks, NEW e \in Effects, ExecuteOne(t, e)
      PROVE  D!Next \/ UNCHANGED decisionVars
  <2>1. /\ claimer # Nobody /\ effects[e] = 0
        /\ effects' = [effects EXCEPT ![e] = 1]
        /\ UNCHANGED <<claimer, refused, status>>
    <3>1. claimer # Nobody /\ effects[e] = 0
      BY <1>9 DEF ExecuteOne, ClaimInv, Exec
    <3> QED BY <1>0, <1>9, <3>1 DEF ExecuteOne, TypeOK
  <2>2. D!Execute(e)
    BY <2>1 DEF D!Execute
  <2> QED BY <2>2 DEF D!Next
<1>10. ASSUME NEW t \in Tasks, NEW e \in Effects, ExecuteFails(t, e) PROVE UNCHANGED decisionVars
  BY <1>10, <1>a DEF ExecuteFails
<1>11. CASE UNCHANGED vars
  BY <1>11, <1>a DEF vars
<1> QED BY <1>1, <1>2, <1>3, <1>4, <1>5, <1>6, <1>7, <1>8, <1>9, <1>10, <1>11 DEF Next, TaskStep

\* The tasks implement one decision: granted once and by somebody else than the
\* requester, or refused; effects only after a grant, and each of them once.
THEOREM ApprovalImplementsDecision == Spec => ImplementsDecision
<1>1. Init => D!Init
  BY DEF Init, D!Init, CurrentDecision
<1>2. ClaimInv /\ [Next]_vars => [D!Next]_<<CurrentDecision, claimer, effects>>
  BY DecisionStep DEF decisionVars
<1> QED BY <1>1, <1>2, ClaimSafety, PTL DEF Spec, ImplementsDecision, D!Spec

-----------------------------------------------------------------------------
(* The reviewed script *)

\* Versions only grow, so a script that is at the requested version when it is
\* compared was at it when the claim succeeded; one task loads it, once; and between
\* the two an edit is remembered.
VersionInv ==
    /\ asked <= content
    /\ claimer # Nobody => asked <= atClaim /\ atClaim <= content
    /\ claimer = Nobody => ran = {}
    /\ \A t \in Tasks : task[t].pc \in {"check", "load"} => kind \in ScriptRuns /\ ran = {}
    /\ \A t \in Tasks : task[t].pc = "load" /\ kind = "script" =>
                            atClaim = asked /\ (lateEdit \/ content = asked)
    /\ \A t \in Tasks : task[t].pc = "run" /\ kind \in ScriptRuns => ran \subseteq {task[t].ver}
    /\ \A t \in Tasks : task[t].pc = "run" /\ kind = "script" =>
                            atClaim = asked /\ (lateEdit \/ task[t].ver = asked)
    /\ ran # {} => \E v \in Nat : ran = {v}
    /\ ran # {} /\ kind = "script" => atClaim = asked /\ (lateEdit \/ ran = {asked})

\* A step that runs nothing and only ends or begins a task, or passes an effect over.
LEMMA VersionsStay ==
    ASSUME ClaimInv, VersionInv, NEW t \in Tasks, NEW k \in Task, Become(t, k),
           UNCHANGED <<kind, asked, scriptVars, claimer, atClaim, ran>>,
           k.pc \notin {"check", "load"},
           k.pc = "run" => task[t].pc = "run" /\ k.ver = task[t].ver
    PROVE  VersionInv'
<1>1. task'[t] = k /\ \A x \in Tasks : x # t => task'[x] = task[x]
  BY BecomeFacts DEF ClaimInv
<1> QED BY <1>1 DEF VersionInv

\* No step runs another version without such an edit.
LEMMA VersionStep == ClaimInv /\ VersionInv /\ [Next]_vars => VersionInv'
<1> SUFFICES ASSUME ClaimInv, VersionInv, [Next]_vars PROVE VersionInv'
  OBVIOUS
<1> USE DEF rowVars, histVars
<1>0. TypeOK
  BY DEF ClaimInv
<1>1. CASE Create
  <2>1. claimer = Nobody /\ ran = {} /\ \A t \in Tasks : task[t].pc = "idle"
    BY <1>1 DEF Create, ClaimInv, VersionInv
  <2>2. /\ asked' = content /\ UNCHANGED <<scriptVars, claimer, ran, task>>
    BY <1>1 DEF Create
  <2> QED BY <1>0, <2>1, <2>2 DEF VersionInv, TypeOK
<1>2. CASE DeadlinePasses
  BY <1>2 DEF DeadlinePasses, VersionInv
<1>3. CASE EditScript
  <2>1. /\ content' = content + 1 /\ content \in Nat /\ asked \in Nat /\ atClaim \in Nat
        /\ lateEdit \in BOOLEAN
        /\ lateEdit' = (lateEdit \/ \E t \in Tasks : task[t].pc = "load")
        /\ UNCHANGED <<kind, asked, claimer, atClaim, ran, task>>
    BY <1>0, <1>3 DEF EditScript, TypeOK
  <2>2. asked <= content' /\ (claimer # Nobody => asked <= atClaim /\ atClaim <= content')
    BY <2>1 DEF VersionInv
  <2> QED BY <2>1, <2>2 DEF VersionInv
<1>4. CASE ServerCrash
  <2>1. \A t \in Tasks : task'[t].pc = "idle"
    BY <1>4, IdleTaskType DEF ServerCrash
  <2> QED BY <1>4, <2>1 DEF ServerCrash, VersionInv
<1>5. ASSUME NEW t \in Tasks, NEW u \in Users, NEW pc \in {"expire", "claim", "deny", "cancel"},
             Begin(t, u, pc), UNCHANGED <<rowVars, scriptVars, histVars, crashes>>
      PROVE  VersionInv'
  <2> DEFINE k == [IdleTask EXCEPT !.pc = pc, !.user = u]
  <2>1. k \in Task /\ k.pc = pc
    BY IdleTaskType DEF Task, Steps
  <2>2. Become(t, k)
    BY <1>5 DEF Begin
  <2> HIDE DEF k
  <2> QED BY <1>5, <2>1, <2>2, VersionsStay
<1>6. ASSUME NEW t \in Tasks, NEW u \in Users, Approve(t, u) \/ Deny(t, u) PROVE VersionInv'
  BY <1>5, <1>6 DEF Approve, Deny
<1>7. ASSUME NEW t \in Tasks, Cancel(t) PROVE VersionInv'
  BY <1>5, <1>7, ApprovalAssumption DEF Cancel
<1>8. ASSUME NEW t \in Tasks, WriteRefusal(t) \/ RecordExecuted(t) PROVE VersionInv'
  BY <1>8, IdleTaskType, VersionsStay DEF WriteRefusal, RecordExecuted, End
<1>9. ASSUME NEW t \in Tasks, Claim(t) PROVE VersionInv'
  <2>1. CASE status = "pending"
    <3> DEFINE k == [task[t] EXCEPT !.pc = FirstStep, !.todo = Effects]
    <3>1. k \in Task /\ k.pc = FirstStep
      BY <1>0 DEF TypeOK, Task, Steps, FirstStep
    <3>2. /\ Become(t, k) /\ atClaim' = content
          /\ UNCHANGED <<kind, asked, scriptVars, ran>>
      BY <1>9, <2>1 DEF Claim
    <3> HIDE DEF k
    <3>3. task'[t] = k /\ \A x \in Tasks : x # t => task'[x] = task[x]
      BY <1>0, <3>1, <3>2, BecomeFacts
    <3>4. claimer = Nobody /\ ran = {} /\ \A x \in Tasks : task[x].pc \notin Exec
      BY <2>1 DEF ClaimInv, VersionInv
    <3>5. \A x \in Tasks : task'[x].pc \in {"check", "load"} => kind \in ScriptRuns
      BY <3>1, <3>3, <3>4 DEF Exec, FirstStep
    <3>6. \A x \in Tasks : task'[x].pc # "load" /\ (task'[x].pc = "run" => kind \notin ScriptRuns)
      BY <3>1, <3>3, <3>4 DEF Exec, FirstStep
    <3>7. asked <= atClaim' /\ atClaim' <= content'
      BY <1>0, <3>2 DEF VersionInv, TypeOK
    <3> QED BY <3>2, <3>4, <3>5, <3>6, <3>7 DEF VersionInv, ScriptRuns
  <2>2. CASE status # "pending"
    BY <1>9, <2>2, IdleTaskType, VersionsStay DEF Claim, End
  <2> QED BY <2>1, <2>2
<1>10. ASSUME NEW t \in Tasks, CheckScript(t) PROVE VersionInv'
  <2>1. CASE Become(t, IdleTask)
    BY <1>10, <2>1, IdleTaskType, VersionsStay DEF CheckScript
  <2>2. CASE ~Become(t, IdleTask)
    <3>1. PICK left \in SUBSET Effects :
            (kind = "script" => content = asked) /\ Become(t, [task[t] EXCEPT !.pc = "load", !.todo = left])
      BY <1>10, <2>2 DEF CheckScript, End
    <3> DEFINE k == [task[t] EXCEPT !.pc = "load", !.todo = left]
    <3>2. k \in Task /\ k.pc = "load" /\ Become(t, k)
      BY <1>0, <3>1 DEF TypeOK, Task, Steps
    <3> HIDE DEF k
    <3>3. task'[t] = k /\ \A x \in Tasks : x # t => task'[x] = task[x]
      BY <1>0, <3>2, BecomeFacts
    <3>4. /\ task[t].pc = "check" /\ claimer # Nobody
          /\ UNCHANGED <<kind, asked, scriptVars, claimer, atClaim, ran>>
      BY <1>10 DEF CheckScript, ClaimInv, Exec
    <3>5. /\ kind \in ScriptRuns /\ ran = {}
          /\ kind = "script" => atClaim = asked /\ content = asked
      BY <1>0, <3>1, <3>4 DEF VersionInv, TypeOK
    <3> QED BY <3>2, <3>3, <3>4, <3>5 DEF VersionInv
  <2> QED BY <2>1, <2>2
<1>11. ASSUME NEW t \in Tasks, LoadScript(t) PROVE VersionInv'
  <2>0. CASE Become(t, IdleTask)
    BY <1>11, <2>0, IdleTaskType, VersionsStay DEF LoadScript
  <2> SUFFICES ASSUME ~Become(t, IdleTask) PROVE VersionInv'
    BY <2>0
  <2> DEFINE k == [task[t] EXCEPT !.pc = "run", !.ver = content]
  <2>1. k \in Task /\ k.pc = "run"
    BY <1>0 DEF TypeOK, Task, Steps
  <2>2. /\ Become(t, k) /\ task[t].pc = "load"
        /\ UNCHANGED <<kind, asked, scriptVars, claimer, atClaim, ran>>
        /\ k.ver = content
    BY <1>0, <1>11 DEF LoadScript, End, TypeOK, Task
  <2> HIDE DEF k
  <2>3. task'[t] = k /\ \A x \in Tasks : x # t => task'[x] = task[x]
    BY <1>0, <2>1, <2>2, BecomeFacts
  <2>4. ran = {} /\ (kind = "script" => atClaim = asked /\ (lateEdit \/ content = asked))
    BY <2>2 DEF VersionInv
  <2> QED BY <2>1, <2>2, <2>3, <2>4 DEF VersionInv
<1>12. ASSUME NEW t \in Tasks, NEW e \in Effects, ExecuteOne(t, e) PROVE VersionInv'
  <2> DEFINE k == [task[t] EXCEPT !.todo = @ \ {e}]
  <2>1. k \in Task /\ k.pc = task[t].pc /\ k.ver = task[t].ver /\ k.ver \in Nat
    BY <1>0 DEF TypeOK, Task
  <2>2. /\ Become(t, k) /\ task[t].pc = "run"
        /\ ran' = IF kind \in ScriptRuns THEN ran \cup {task[t].ver} ELSE ran
        /\ UNCHANGED <<kind, asked, scriptVars, claimer, atClaim>>
    BY <1>12 DEF ExecuteOne
  <2> HIDE DEF k
  <2>3. CASE kind \notin ScriptRuns
    BY <2>1, <2>2, <2>3, VersionsStay
  <2>4. CASE kind \in ScriptRuns
    <3>1. task'[t] = k /\ \A x \in Tasks : x # t => task'[x] = task[x]
      BY <1>0, <2>1, <2>2, BecomeFacts
    <3>2. claimer # Nobody /\ \A x \in Tasks : x # t => task[x].pc \notin Exec
      BY <2>2 DEF ClaimInv, Exec
    <3>3. /\ ran' = {task[t].ver}
          /\ kind = "script" => atClaim = asked /\ (lateEdit \/ task[t].ver = asked)
      BY <2>2, <2>4 DEF VersionInv
    <3>4. /\ \A x \in Tasks : task'[x].pc \notin {"check", "load"}
          /\ \A x \in Tasks : task'[x].pc = "run" => x = t
      BY <2>1, <2>2, <3>1, <3>2 DEF Exec
    <3> QED BY <2>1, <2>2, <3>1, <3>2, <3>3, <3>4 DEF VersionInv
  <2> QED BY <2>3, <2>4
<1>13. ASSUME NEW t \in Tasks, NEW e \in Effects, ExecuteFails(t, e) PROVE VersionInv'
  <2> DEFINE k == [task[t] EXCEPT !.todo = @ \ {e}]
  <2>1. k \in Task /\ k.pc = task[t].pc /\ k.ver = task[t].ver
    BY <1>0 DEF TypeOK, Task
  <2>2. /\ Become(t, k) \/ Become(t, IdleTask)
        /\ task[t].pc = "run" /\ UNCHANGED <<kind, asked, scriptVars, claimer, atClaim, ran>>
    BY <1>13 DEF ExecuteFails, End
  <2> HIDE DEF k
  <2> QED BY <2>1, <2>2, IdleTaskType, VersionsStay
<1>14. CASE UNCHANGED vars
  BY <1>14 DEF vars, VersionInv
<1> QED BY <1>1, <1>2, <1>3, <1>4, <1>6, <1>7, <1>8, <1>9, <1>10, <1>11, <1>12, <1>13, <1>14
        DEF Next, TaskStep

\* One request sends one version, and if it carries a hash, the script was at the
\* requested version when the claim succeeded and runs at it, unless it was edited
\* after _executeManualScript compared and before executeNow read it.
THEOREM OnlyReviewedContent == Spec => []ReviewedContentRuns
<1>1. Init => VersionInv
  BY IdleTaskType DEF Init, VersionInv
<1>2. VersionInv => ReviewedContentRuns
  BY FS_Singleton DEF VersionInv, ReviewedContentRuns
<1> QED BY <1>1, <1>2, VersionStep, ClaimSafety, PTL DEF Spec

=============================================================================
