-------------------------- MODULE CommandQueueProofs --------------------------
(* CommandInv is an inductive invariant of CommandQueue, for any set of      *)
(* commands and tasks, any origins and priorities, and any number of faults. *)
EXTENDS CommandQueue, FiniteSetTheorems, TLAPS

USE DEF NoTask

\* The range of a sequence, and of its tail, head and concatenation.
LEMMA ElementsFacts ==
    ASSUME NEW S, NEW s \in Seq(S)
    PROVE  /\ Elements(s) \subseteq S
           /\ s # <<>> => Head(s) \in Elements(s) /\ Head(s) \in S
           /\ s # <<>> => Tail(s) \in Seq(S) /\ Elements(Tail(s)) \subseteq Elements(s)
           /\ Elements(<<>>) = {}
BY DEF Elements

\* A sequence that does not have length 1 has a tail.
LEMMA TailNonEmpty ==
    ASSUME NEW S, NEW s \in Seq(S), s # <<>>, Len(s) # 1
    PROVE  Tail(s) # <<>>
<1>1. Len(s) \in Nat /\ Len(s) # 0
  OBVIOUS
<1>2. Len(Tail(s)) = Len(s) - 1
  OBVIOUS
<1>3. Len(Tail(s)) # 0
  BY <1>1, <1>2
<1>4. Len(<<>>) = 0
  OBVIOUS
<1> QED BY <1>3, <1>4, Zenon

\* A response's ack_running acks: one per command of the batch.
LEMMA RunningAcks ==
    ASSUME NEW b \in Seq(Commands), NEW p \in Seq(Ack)
    PROVE  LET n == [i \in 1..Len(b) |-> [cmd |-> b[i], st |-> "ack_running"]]
           IN  /\ p \o n \in Seq(Ack)
               /\ \A a \in Elements(p \o n) : a \in Elements(p) \/ a.cmd \in Elements(b)
<1> DEFINE n == [i \in 1..Len(b) |-> [cmd |-> b[i], st |-> "ack_running"]]
<1>1. n \in Seq(Ack)
  BY DEF Ack, AckStatus
<1>2. p \o n \in Seq(Ack)
  BY <1>1
<1>3. Len(n) = Len(b) /\ \A i \in 1..Len(b) : n[i].cmd = b[i]
  OBVIOUS
<1>4. ASSUME NEW i \in 1..Len(p \o n)
      PROVE  (p \o n)[i] \in Elements(p) \/ (p \o n)[i].cmd \in Elements(b)
  <2>1. CASE i <= Len(p)
    <3>1. (p \o n)[i] = p[i] /\ i \in 1..Len(p)
      BY <1>1, <2>1
    <3> QED BY <3>1 DEF Elements
  <2>2. CASE i > Len(p)
    <3>1. (p \o n)[i] = n[i - Len(p)] /\ i - Len(p) \in 1..Len(n)
      BY <1>1, <2>2
    <3>2. (p \o n)[i].cmd = b[i - Len(p)] /\ i - Len(p) \in 1..Len(b)
      BY <3>1, <1>3
    <3> QED BY <3>2 DEF Elements
  <2> QED BY <2>1, <2>2, <1>1
<1>5. ASSUME NEW a \in Elements(p \o n)
      PROVE  a \in Elements(p) \/ a.cmd \in Elements(b)
  <2>1. PICK i \in 1..Len(p \o n) : a = (p \o n)[i]
    BY DEF Elements
  <2> QED BY <2>1, <1>4
<1> QED BY <1>2, <1>5

\* A SELECT answers with a sequence of pending rows, an expiry with expirable ones.
LEMMA SelectionsFacts ==
    ASSUME TypeOK
    PROVE  /\ \A s \in Selections : s \in Seq(Commands) /\ \A c \in Elements(s) : status[c] = "pending"
           /\ \A s \in [1..Cardinality(Expirable) -> Expirable] : s \in Seq(Commands)
           /\ Expirable # {} => \A s \in [1..Cardinality(Expirable) -> Expirable] :
                 Elements(s) = Expirable => s # <<>>
<1>1. Pending \subseteq Commands /\ Expirable \subseteq Commands
  BY DEF Pending, Expirable, TypeOK
<1>2. Cardinality(Pending) \in Nat /\ Cardinality(Expirable) \in Nat
  BY <1>1, FS_Subset, FS_CardinalityType, CommandQueueAssumption
<1>3. SelectSize \in Nat
  BY <1>2, CommandQueueAssumption DEF SelectSize
<1>4. ASSUME NEW s \in Selections
      PROVE  s \in Seq(Commands) /\ \A c \in Elements(s) : status[c] = "pending"
  <2>1. s \in [1..SelectSize -> Pending]
    BY DEF Selections
  <2>2. s \in Seq(Pending)
    BY <2>1, <1>3
  <2>3. Elements(s) \subseteq Pending
    BY <2>2, ElementsFacts
  <2>4. s \in Seq(Commands)
    BY <2>1, <1>3, <1>1
  <2> QED BY <2>3, <2>4 DEF Pending
<1>5. \A s \in [1..Cardinality(Expirable) -> Expirable] : s \in Seq(Commands)
  BY <1>1, <1>2
<1>6. ASSUME Expirable # {}, NEW s \in [1..Cardinality(Expirable) -> Expirable], Elements(s) = Expirable
      PROVE  s # <<>>
  BY <1>6 DEF Elements
<1> QED BY <1>4, <1>5, <1>6

-----------------------------------------------------------------------------
(* What every action has in common: rows and executions only move forward.  *)

RowInv == StartedExists /\ StartedIsNotPending /\ ResultComesFromARun

\* A row never disappears, never becomes pending again, and a start is never undone.
Forward ==
    \A c \in Commands :
        /\ status[c] # "absent" => status'[c] # "absent"
        /\ status[c] \notin {"absent", "pending"} => status'[c] \notin {"absent", "pending"}
        /\ starts[c] > 0 => starts'[c] > 0

\* What a task knows about its rows stays true while rows move forward.
LEMMA KeepsCarrying ==
    ASSUME Forward, NEW k \in Task, Carries(k)
    PROVE  Carries(k)'
<1>1. k.batch \in Seq(Commands) /\ k.acks \in Seq(Ack)
  BY DEF Task
<1>2. Elements(k.batch) \subseteq Commands /\ Elements(k.acks) \subseteq Ack
  BY <1>1, ElementsFacts
<1>3. \A a \in Elements(k.acks) : a.cmd \in Commands
  BY <1>2 DEF Ack
<1> QED BY <1>2, <1>3 DEF Carries, Forward

\* One task moves on, the others keep what they know.
LEMMA TaskMoves ==
    ASSUME CommandInv, Forward, NEW t \in Tasks, NEW k \in Task, Become(t, k), Carries(k)'
    PROVE  task' \in [Tasks -> Task] /\ TasksCarry'
<1>1. task' \in [Tasks -> Task] /\ task'[t] = k /\ \A u \in Tasks \ {t} : task'[u] = task[u]
  BY DEF Become, CommandInv, TypeOK
<1>2. ASSUME NEW u \in Tasks PROVE Carries(task[u])'
  <2>1. CASE u = t
    BY <1>1, <2>1 DEF Carries
  <2>2. CASE u # t
    <3>1. PICK j \in Task : j = task[u]
      BY DEF CommandInv, TypeOK
    <3>2. Carries(j)
      BY <3>1 DEF CommandInv, TasksCarry
    <3>3. Carries(j)'
      BY <3>2, KeepsCarrying
    <3> QED BY <3>1, <3>3, <1>1, <2>2 DEF Carries
  <2> QED BY <2>1, <2>2
<1> QED BY <1>1, <1>2 DEF TasksCarry

\* A task that ends carries nothing.
LEMMA TaskEnds ==
    ASSUME CommandInv, Forward, NEW t \in Tasks, End(t)
    PROVE  task' \in [Tasks -> Task] /\ TasksCarry'
<1>1. IdleTask \in Task
  BY DEF IdleTask, Task, Steps, Paths
<1>2. Carries(IdleTask)'
  BY DEF Carries, IdleTask, Elements
<1> QED BY <1>1, <1>2, TaskMoves DEF End

\* No task moves.
LEMMA TasksStay ==
    ASSUME CommandInv, Forward, task' = task
    PROVE  task' \in [Tasks -> Task] /\ TasksCarry'
<1>1. ASSUME NEW u \in Tasks PROVE Carries(task[u])'
  <2>1. PICK j \in Task : j = task[u]
    BY DEF CommandInv, TypeOK
  <2>2. Carries(j)'
    BY <2>1, KeepsCarrying DEF CommandInv, TasksCarry
  <2> QED BY <2>1, <2>2 DEF Carries
<1> QED BY <1>1 DEF TasksCarry, CommandInv, TypeOK

\* The agent drops executions or acks, or leaves them alone.
LEMMA AgentStays ==
    ASSUME CommandInv, Forward, runs' \subseteq runs, pendingAcks' \in {pendingAcks, <<>>}
    PROVE  AgentReportsRuns' /\ runs' \subseteq Run /\ pendingAcks' \in Seq(Ack)
<1>1. pendingAcks \in Seq(Ack) /\ runs \subseteq Run
  BY DEF CommandInv, TypeOK
<1>2. Elements(pendingAcks) \subseteq Ack
  BY <1>1, ElementsFacts
<1>3. \A a \in Elements(pendingAcks) : starts'[a.cmd] > 0
  BY <1>2 DEF Ack, CommandInv, AgentReportsRuns, Forward
<1>5. Elements(<<>>) = {} /\ <<>> \in Seq(Ack)
  BY DEF Elements
<1>4. \A r \in runs : starts'[r.cmd] > 0
  BY <1>1 DEF Run, CommandInv, AgentReportsRuns, Forward
<1>6. pendingAcks' \in Seq(Ack) /\ \A a \in Elements(pendingAcks') : starts'[a.cmd] > 0
  <2>1. CASE pendingAcks' = pendingAcks
    BY <2>1, <1>1, <1>3
  <2>2. CASE pendingAcks' = <<>>
    BY <2>2, <1>5
  <2> QED BY <2>1, <2>2
<1> QED BY <1>1, <1>4, <1>6 DEF AgentReportsRuns

\* Rows change to a status that stands for no result; nothing starts.
LEMMA RowsMove ==
    ASSUME CommandInv, starts' = starts,
           \A c \in Commands : status'[c] \in {status[c], "sent", "timeout", "cancelled"}
    PROVE  Forward /\ RowInv'
<1>1. Forward
  BY DEF Forward
<1>2. StartedExists' /\ StartedIsNotPending'
  BY DEF CommandInv, StartedExists, StartedIsNotPending
<1>3. ResultComesFromARun'
  BY DEF CommandInv, ResultComesFromARun, AckStatus
<1> QED BY <1>1, <1>2, <1>3 DEF RowInv

\* The agent starts executions of rows that are past the dispatch.
LEMMA RunsStart ==
    ASSUME CommandInv, NEW cs \in SUBSET Commands, NEW conn \in Nat, StartRuns(cs, conn), status' = status,
           \A c \in cs : status[c] # "absent" /\ (Origin[c] = "queue" => status[c] # "pending")
    PROVE  /\ Forward
           /\ RowInv'
           /\ starts' \in [Commands -> Nat]
           /\ runs' \subseteq Run
           /\ \A c \in cs : starts'[c] > 0
           /\ \A r \in runs' : starts'[r.cmd] > 0
<1>1. starts \in [Commands -> Nat] /\ runs \subseteq Run
  BY DEF CommandInv, TypeOK
<1>2. starts' \in [Commands -> Nat] /\ \A c \in Commands : starts'[c] > 0 <=> (starts[c] > 0 \/ c \in cs)
  BY <1>1 DEF StartRuns
<1>3. Forward
  BY <1>2 DEF Forward
<1>4. RowInv'
  BY <1>2 DEF RowInv, CommandInv, StartedExists, StartedIsNotPending, ResultComesFromARun
<1>5. runs' \subseteq Run
  BY <1>1 DEF StartRuns, Run
<1>6. ASSUME NEW r \in runs' PROVE starts'[r.cmd] > 0
  <2>1. r \in runs \/ r.cmd \in cs
    BY DEF StartRuns
  <2>2. r.cmd \in Commands
    BY <1>5 DEF Run
  <2> QED BY <2>1, <2>2, <1>2 DEF CommandInv, AgentReportsRuns
<1> QED BY <1>2, <1>3, <1>4, <1>5, <1>6

-----------------------------------------------------------------------------

\* The initial state, an empty queue, satisfies the invariant.
THEOREM InitInv == Init => CommandInv
<1> SUFFICES ASSUME Init PROVE CommandInv
  OBVIOUS
<1>1. IdleTask \in Task
  BY DEF IdleTask, Task, Steps, Paths
<1>2. TypeOK
  BY <1>1 DEF Init, TypeOK, RowStatus
<1>3. Carries(IdleTask)
  BY DEF Carries, IdleTask, Elements
<1>4. TasksCarry
  BY <1>3 DEF TasksCarry, Init
<1>5. StartedExists /\ StartedIsNotPending /\ ResultComesFromARun
  BY DEF Init, StartedExists, StartedIsNotPending, ResultComesFromARun, AckStatus
<1>6. AgentReportsRuns
  BY DEF AgentReportsRuns, Init, Elements
<1> QED BY <1>2, <1>4, <1>5, <1>6 DEF CommandInv

\* Every action preserves the invariant.
LEMMA StepInv == CommandInv /\ [Next]_vars => CommandInv'
<1> SUFFICES ASSUME CommandInv, [Next]_vars PROVE CommandInv'
  OBVIOUS
<1> USE DEF dbVars, serverVars, agentVars
<1>1. ASSUME NEW c \in Commands, Enqueue(c) PROVE CommandInv'
  <2> USE <1>1 DEF Enqueue, Insert
  <2>1. status' = [status EXCEPT ![c] = "pending"] /\ status[c] = "absent" /\ starts' = starts
    OBVIOUS
  <2>2. Forward
    BY <2>1 DEF Forward, CommandInv, TypeOK
  <2>3. RowInv'
    BY <2>1 DEF RowInv, CommandInv, TypeOK, StartedExists, StartedIsNotPending, ResultComesFromARun, AckStatus
  <2>4. Cardinality({d \in Commands : status[d] # "absent"}) \in Nat
    BY FS_Subset, FS_CardinalityType, CommandQueueAssumption
  <2>5. TasksCarry' /\ AgentReportsRuns'
    BY <2>2, TasksStay, AgentStays
  <2>6. TypeOK'
    BY <2>4 DEF CommandInv, TypeOK, RowStatus
  <2> QED BY <2>3, <2>5, <2>6 DEF CommandInv, RowInv
<1>2. ASSUME NEW c \in Commands, NEW t \in Tasks, EnqueueAndPush(c, t) PROVE CommandInv'
  <2> USE <1>2 DEF EnqueueAndPush, Insert
  <2> DEFINE k == [pc |-> "hubpush", path |-> "route", conn |-> 0, acks |-> <<>>, batch |-> <<c>>]
  <2>1. status' = [status EXCEPT ![c] = "pending"] /\ status[c] = "absent" /\ starts' = starts
    OBVIOUS
  <2>2. Forward
    BY <2>1 DEF Forward, CommandInv, TypeOK
  <2>3. RowInv'
    BY <2>1 DEF RowInv, CommandInv, TypeOK, StartedExists, StartedIsNotPending, ResultComesFromARun, AckStatus
  <2>4. Cardinality({d \in Commands : status[d] # "absent"}) \in Nat
    BY FS_Subset, FS_CardinalityType, CommandQueueAssumption
  <2>5. k \in Task
    BY DEF Task, Steps, Paths
  <2>6. Carries(k)'
    <3>1. Elements(<<c>>) = {c} /\ Elements(<<>>) = {} /\ Len(<<c>>) = 1 /\ <<c>>[1] = c
      BY DEF Elements
    <3>2. status'[c] = "pending"
      BY <2>1 DEF CommandInv, TypeOK
    <3> QED BY <3>1, <3>2 DEF Carries
  <2>7. task' \in [Tasks -> Task] /\ TasksCarry'
    BY <2>2, <2>5, <2>6, TaskMoves DEF Begin
  <2>8. AgentReportsRuns'
    BY <2>2, AgentStays
  <2>9. TypeOK'
    BY <2>4, <2>7 DEF CommandInv, TypeOK, RowStatus
  <2> QED BY <2>3, <2>7, <2>8, <2>9 DEF CommandInv, RowInv
<1>3. ASSUME NEW c \in Commands, CancelCommand(c) PROVE CommandInv'
  <2> USE <1>3 DEF CancelCommand
  <2>1. Forward /\ RowInv'
    BY RowsMove DEF CommandInv, TypeOK
  <2>2. TasksCarry' /\ AgentReportsRuns'
    BY <2>1, TasksStay, AgentStays
  <2>3. TypeOK'
    BY DEF CommandInv, TypeOK, RowStatus
  <2> QED BY <2>1, <2>2, <2>3 DEF CommandInv, RowInv
<1>4. ASSUME NEW c \in Commands, ExpiryPasses(c) PROVE CommandInv'
  <2> USE <1>4 DEF ExpiryPasses
  <2>1. Forward /\ RowInv'
    BY RowsMove
  <2>2. TasksCarry' /\ AgentReportsRuns'
    BY <2>1, TasksStay, AgentStays
  <2>3. TypeOK'
    BY DEF CommandInv, TypeOK
  <2> QED BY <2>1, <2>2, <2>3 DEF CommandInv, RowInv
<1>5. ASSUME NEW r \in runs, NEW st \in {"success", "failure"}, FinishHttpRun(r, st) PROVE CommandInv'
  <2> USE <1>5 DEF FinishHttpRun
  <2> DEFINE a == [cmd |-> r.cmd, st |-> st]
  <2>1. Forward /\ RowInv'
    BY RowsMove
  <2>2. TasksCarry'
    BY <2>1, TasksStay
  <2>3. a \in Ack /\ starts[a.cmd] > 0 /\ pendingAcks \in Seq(Ack)
    BY DEF CommandInv, TypeOK, Run, Ack, AckStatus, AgentReportsRuns
  <2>4. pendingAcks' = Append(pendingAcks, a)
    OBVIOUS
  <2> HIDE DEF a
  <2>5. pendingAcks' \in Seq(Ack) /\ \A b \in Elements(pendingAcks') : b \in Elements(pendingAcks) \/ b = a
    BY <2>3, <2>4 DEF Elements
  <2>6. AgentReportsRuns'
    BY <2>3, <2>5 DEF CommandInv, AgentReportsRuns
  <2>7. TypeOK'
    BY <2>5 DEF CommandInv, TypeOK
  <2> QED BY <2>1, <2>2, <2>6, <2>7 DEF CommandInv, RowInv
<1>6. ASSUME NEW r \in runs, NEW st \in {"success", "failure"}, NEW t \in Tasks, FinishWsRun(r, st, t)
      PROVE  CommandInv'
  <2> USE <1>6 DEF FinishWsRun
  <2> DEFINE a == [cmd |-> r.cmd, st |-> st]
             k == [pc |-> "acks", path |-> "wsack", conn |-> 0, acks |-> <<a>>, batch |-> <<>>]
  <2>1. Forward /\ RowInv'
    BY RowsMove
  <2>2. a \in Ack /\ starts[a.cmd] > 0
    BY DEF CommandInv, TypeOK, Run, Ack, AckStatus, AgentReportsRuns
  <2>3. Become(t, k)
    BY DEF Begin
  <2> HIDE DEF a
  <2>4. k \in Task
    BY <2>2 DEF Task, Steps, Paths
  <2>5. Carries(k)'
    <3>1. Elements(<<a>>) = {a} /\ Elements(<<>>) = {}
      BY DEF Elements
    <3> QED BY <3>1, <2>2 DEF Carries
  <2>6. task' \in [Tasks -> Task] /\ TasksCarry'
    BY <2>1, <2>3, <2>4, <2>5, TaskMoves
  <2>7. AgentReportsRuns' /\ runs' \subseteq Run
    BY <2>1, AgentStays
  <2>8. TypeOK'
    BY <2>6, <2>7 DEF CommandInv, TypeOK
  <2> QED BY <2>1, <2>6, <2>7, <2>8 DEF CommandInv, RowInv
<1>7. ASSUME NEW r \in runs, FinishWsRunLost(r) PROVE CommandInv'
  <2> USE <1>7 DEF FinishWsRunLost
  <2>1. Forward /\ RowInv'
    BY RowsMove
  <2>2. TasksCarry' /\ AgentReportsRuns' /\ runs' \subseteq Run
    BY <2>1, TasksStay, AgentStays
  <2>3. TypeOK'
    BY <2>2 DEF CommandInv, TypeOK
  <2> QED BY <2>1, <2>2, <2>3 DEF CommandInv, RowInv
<1>8. ASSUME NEW t \in Tasks, AgentPush(t) PROVE CommandInv'
  <2> USE <1>8 DEF AgentPush
  <2> DEFINE k == [pc |-> "acks", path |-> "push", conn |-> 0, acks |-> pendingAcks, batch |-> <<>>]
  <2>1. Forward /\ RowInv'
    BY RowsMove
  <2>2. PICK p \in Seq(Ack) : p = pendingAcks
    BY DEF CommandInv, TypeOK
  <2>3. Become(t, [pc |-> "acks", path |-> "push", conn |-> 0, acks |-> p, batch |-> <<>>])
    BY <2>2 DEF Begin
  <2>4. [pc |-> "acks", path |-> "push", conn |-> 0, acks |-> p, batch |-> <<>>] \in Task
    BY DEF Task, Steps, Paths
  <2>5. Carries([pc |-> "acks", path |-> "push", conn |-> 0, acks |-> p, batch |-> <<>>])'
    <3>1. \A a \in Elements(p) : starts'[a.cmd] > 0
      BY <2>2 DEF CommandInv, AgentReportsRuns
    <3>2. Elements(<<>>) = {}
      BY DEF Elements
    <3> QED BY <3>1, <3>2 DEF Carries
  <2>6. task' \in [Tasks -> Task] /\ TasksCarry'
    BY <2>1, <2>3, <2>4, <2>5, TaskMoves
  <2>7. AgentReportsRuns' /\ pendingAcks' \in Seq(Ack)
    BY <2>1, AgentStays
  <2>8. TypeOK'
    BY <2>6, <2>7 DEF CommandInv, TypeOK
  <2> QED BY <2>1, <2>6, <2>7, <2>8 DEF CommandInv, RowInv
<1>9. ASSUME AgentPushFails PROVE CommandInv'
  <2> USE <1>9 DEF AgentPushFails, SpendFault
  <2>1. Forward /\ RowInv'
    BY RowsMove
  <2>2. TasksCarry' /\ AgentReportsRuns' /\ pendingAcks' \in Seq(Ack)
    BY <2>1, TasksStay, AgentStays
  <2>3. TypeOK'
    BY <2>2 DEF CommandInv, TypeOK
  <2> QED BY <2>1, <2>2, <2>3 DEF CommandInv, RowInv
<1>10. ASSUME NEW loop \in {"push", "poll"}, AgentGivesUp(loop) PROVE CommandInv'
  <2> USE <1>10 DEF AgentGivesUp, SpendFault
  <2>1. Forward /\ RowInv'
    BY RowsMove
  <2>2. TasksCarry' /\ AgentReportsRuns' /\ pendingAcks' \in Seq(Ack)
    BY <2>1, TasksStay, AgentStays
  <2>3. TypeOK'
    BY <2>2 DEF CommandInv, TypeOK
  <2> QED BY <2>1, <2>2, <2>3 DEF CommandInv, RowInv
<1>11. ASSUME Disconnect PROVE CommandInv'
  <2> USE <1>11 DEF Disconnect, SpendFault
  <2>1. Forward /\ RowInv'
    BY RowsMove
  <2>2. TasksCarry' /\ AgentReportsRuns' /\ pendingAcks' \in Seq(Ack)
    BY <2>1, TasksStay, AgentStays
  <2>3. TypeOK'
    BY <2>2 DEF CommandInv, TypeOK
  <2> QED BY <2>1, <2>2, <2>3 DEF CommandInv, RowInv
<1>12. ASSUME AgentCrash PROVE CommandInv'
  <2> USE <1>12 DEF AgentCrash, SpendFault
  <2>1. Forward /\ RowInv'
    BY RowsMove
  <2>2. TasksCarry' /\ AgentReportsRuns' /\ pendingAcks' \in Seq(Ack)
    BY <2>1, TasksStay, AgentStays
  <2>3. TypeOK'
    BY <2>2 DEF CommandInv, TypeOK
  <2> QED BY <2>1, <2>2, <2>3 DEF CommandInv, RowInv
<1>13. ASSUME NEW t \in Tasks, AgentPoll(t) PROVE CommandInv'
  <2> USE <1>13 DEF AgentPoll
  <2> DEFINE k == [pc |-> "select", path |-> "poll", conn |-> 0, acks |-> <<>>, batch |-> <<>>]
  <2>1. Forward /\ RowInv'
    BY RowsMove
  <2>2. k \in Task
    BY DEF Task, Steps, Paths, CommandInv, TypeOK
  <2>3. Carries(k)'
    BY DEF Carries, Elements
  <2>4. task' \in [Tasks -> Task] /\ TasksCarry'
    BY <2>1, <2>2, <2>3, TaskMoves DEF Begin
  <2>5. AgentReportsRuns'
    BY <2>1, AgentStays
  <2>6. TypeOK'
    BY <2>4 DEF CommandInv, TypeOK
  <2> QED BY <2>1, <2>4, <2>5, <2>6 DEF CommandInv, RowInv
<1>14. ASSUME NEW t \in Tasks, Register(t) PROVE CommandInv'
  <2> USE <1>14 DEF Register
  <2>1. Forward /\ RowInv'
    BY RowsMove
  <2>2. PICK n \in Nat : n = connSeq + 1
    BY DEF CommandInv, TypeOK
  <2> DEFINE k == [pc |-> "select", path |-> "drain", conn |-> n, acks |-> <<>>, batch |-> <<>>]
  <2>3. k \in Task
    BY DEF Task, Steps, Paths
  <2>4. Carries(k)'
    BY DEF Carries, Elements
  <2>5. task' \in [Tasks -> Task] /\ TasksCarry'
    BY <2>1, <2>2, <2>3, <2>4, TaskMoves DEF Begin
  <2>6. AgentReportsRuns'
    BY <2>1, AgentStays
  <2>7. TypeOK'
    BY <2>2, <2>5 DEF CommandInv, TypeOK
  <2> QED BY <2>1, <2>5, <2>6, <2>7 DEF CommandInv, RowInv
<1>15. ASSUME ServerCrash PROVE CommandInv'
  <2> USE <1>15 DEF ServerCrash, SpendFault
  <2>1. Forward /\ RowInv'
    BY RowsMove
  <2>2. IdleTask \in Task
    BY DEF IdleTask, Task, Steps, Paths
  <2>3. TasksCarry'
    BY DEF TasksCarry, Carries, IdleTask, Elements
  <2>4. AgentReportsRuns'
    BY <2>1, AgentStays
  <2>5. TypeOK'
    BY <2>2 DEF CommandInv, TypeOK
  <2> QED BY <2>1, <2>3, <2>4, <2>5 DEF CommandInv, RowInv
<1>16. ASSUME NEW t \in Tasks, ProcessAckUpdate(t) PROVE CommandInv'
  <2> USE <1>16 DEF ProcessAckUpdate
  <2>1. PICK j \in Task : j = task[t] /\ Carries(j)
    BY DEF CommandInv, TypeOK, TasksCarry
  <2>2. j.acks \in Seq(Ack) /\ j.acks # <<>>
    BY <2>1 DEF Task
  <2>3. PICK ack \in Ack : ack = Head(j.acks) /\ ack \in Elements(j.acks)
    BY <2>2, ElementsFacts
  <2>4. ack.cmd \in Commands /\ ack.st \in AckStatus /\ starts[ack.cmd] > 0
    BY <2>1, <2>3 DEF Ack, Carries
  <2>5. status' = [status EXCEPT ![ack.cmd] = ack.st] /\ starts' = starts
    BY <2>1, <2>3
  <2>6. Forward /\ RowInv'
    BY <2>4, <2>5 DEF Forward, RowInv, CommandInv, TypeOK, StartedExists, StartedIsNotPending,
                      ResultComesFromARun, AckStatus
  <2>7. task' \in [Tasks -> Task] /\ TasksCarry'
    <3>1. CASE ack.st \in Terminal
      <4> DEFINE k == [j EXCEPT !.pc = "notify"]
      <4>1. Become(t, k)
        BY <3>1, <2>1, <2>3 DEF Goto
      <4>2. k \in Task
        BY DEF Task, Steps
      <4>3. Carries(j)'
        BY <2>1, <2>6, KeepsCarrying
      <4>4. Carries(k)'
        BY <4>3, <2>2 DEF Carries, Task
      <4> QED BY <4>1, <4>2, <4>4, <2>6, TaskMoves
    <3>2. CASE ack.st \notin Terminal
      <4> DEFINE k == [j EXCEPT !.acks = Tail(j.acks)]
      <4>1. Become(t, k)
        BY <3>2, <2>1, <2>3
      <4>2. Tail(j.acks) \in Seq(Ack) /\ Elements(Tail(j.acks)) \subseteq Elements(j.acks)
        BY <2>2, ElementsFacts
      <4>3. k \in Task
        BY <4>2 DEF Task
      <4>4. Carries(j)'
        BY <2>1, <2>6, KeepsCarrying
      <4>5. k.pc = "acks" /\ k.batch = j.batch /\ k.acks = Tail(j.acks)
        BY <2>1 DEF Task
      <4>6. Carries(k)'
        BY <4>2, <4>4, <4>5 DEF Carries
      <4> QED BY <4>1, <4>3, <4>6, <2>6, TaskMoves
    <3> QED BY <3>1, <3>2
  <2>8. AgentReportsRuns'
    BY <2>6, AgentStays
  <2>9. TypeOK'
    BY <2>4, <2>5, <2>7, ZenonT(40) DEF CommandInv, TypeOK, RowStatus, AckStatus
  <2> QED BY <2>6, <2>7, <2>8, <2>9 DEF CommandInv, RowInv
<1>17. ASSUME NEW t \in Tasks, ProcessAckNotify(t) PROVE CommandInv'
  <2> USE <1>17 DEF ProcessAckNotify
  <2>1. PICK j \in Task : j = task[t] /\ Carries(j)
    BY DEF CommandInv, TypeOK, TasksCarry
  <2>2. j.acks \in Seq(Ack) /\ j.acks # <<>>
    BY <2>1 DEF Task, Carries
  <2>3. Tail(j.acks) \in Seq(Ack) /\ Elements(Tail(j.acks)) \subseteq Elements(j.acks) /\ Head(j.acks) \in Ack
    BY <2>2, ElementsFacts
  <2>4. Forward /\ RowInv'
    BY RowsMove
  <2> DEFINE k == [j EXCEPT !.pc = "acks", !.acks = Tail(j.acks)]
  <2>5. Become(t, k)
    BY <2>1
  <2>6. k \in Task /\ k.pc = "acks" /\ k.batch = j.batch /\ k.acks = Tail(j.acks)
    BY <2>3 DEF Task, Steps
  <2>7. Carries(j)'
    BY <2>1, <2>4, KeepsCarrying
  <2>8. Carries(k)'
    BY <2>3, <2>6, <2>7 DEF Carries
  <2>9. task' \in [Tasks -> Task] /\ TasksCarry'
    BY <2>4, <2>5, <2>6, <2>8, TaskMoves
  <2>10. AgentReportsRuns'
    BY <2>4, AgentStays
  <2>11. Head(j.acks).cmd \in Commands
    BY <2>3 DEF Ack
  <2>12. TypeOK'
    BY <2>1, <2>9, <2>11, SMTT(40) DEF CommandInv, TypeOK
  <2> QED BY <2>4, <2>9, <2>10, <2>12 DEF CommandInv, RowInv
<1>18. ASSUME NEW t \in Tasks, ProcessAcksDone(t) PROVE CommandInv'
  <2> USE <1>18 DEF ProcessAcksDone
  <2>1. Forward /\ RowInv'
    BY RowsMove
  <2>2. task' \in [Tasks -> Task] /\ TasksCarry'
    <3>1. CASE task[t].path = "push"
      <4>1. PICK j \in Task : j = task[t] /\ Carries(j)
        BY DEF CommandInv, TypeOK, TasksCarry
      <4> DEFINE k == [j EXCEPT !.pc = "select"]
      <4>2. Become(t, k)
        BY <3>1, <4>1 DEF Goto
      <4>3. k \in Task
        BY DEF Task, Steps
      <4>4. Carries(j)'
        BY <2>1, <4>1, KeepsCarrying
      <4>5. Carries(k)'
        BY <4>4 DEF Carries, Task
      <4> QED BY <4>2, <4>3, <4>5, <2>1, TaskMoves
    <3>2. CASE task[t].path # "push"
      BY <3>2, <2>1, TaskEnds
    <3> QED BY <3>1, <3>2
  <2>3. AgentReportsRuns'
    BY <2>1, AgentStays
  <2>4. TypeOK'
    BY <2>2 DEF CommandInv, TypeOK
  <2> QED BY <2>1, <2>2, <2>3, <2>4 DEF CommandInv, RowInv
<1>19. ASSUME NEW t \in Tasks, SelectPending(t) PROVE CommandInv'
  <2> USE <1>19 DEF SelectPending
  <2>1. PICK s \in Selections :
           Become(t, [task[t] EXCEPT !.batch = s, !.pc = IF s = <<>> THEN "reply" ELSE "mark"])
    OBVIOUS
  <2>2. PICK b \in Seq(Commands) : b = s /\ \A c \in Elements(b) : status[c] = "pending"
    BY <2>1, SelectionsFacts DEF CommandInv
  <2>3. PICK j \in Task : j = task[t] /\ Carries(j)
    BY DEF CommandInv, TypeOK, TasksCarry
  <2> DEFINE k == [j EXCEPT !.batch = b, !.pc = IF b = <<>> THEN "reply" ELSE "mark"]
  <2>4. Forward /\ RowInv'
    BY RowsMove
  <2>5. k \in Task /\ k.batch = b /\ k.acks = j.acks /\ k.pc \in {"reply", "mark"} /\ (k.pc = "reply" => b = <<>>)
    BY DEF Task, Steps
  <2>6. b = <<>> => Elements(b) = {}
    BY DEF Elements
  <2>7. Carries(j)'
    BY <2>3, <2>4, KeepsCarrying
  <2>8. Carries(k)'
    BY <2>2, <2>5, <2>6, <2>7 DEF Carries
  <2>9. task' \in [Tasks -> Task] /\ TasksCarry'
    BY <2>1, <2>2, <2>3, <2>4, <2>5, <2>8, TaskMoves
  <2>10. AgentReportsRuns'
    BY <2>4, AgentStays
  <2>11. TypeOK'
    BY <2>9 DEF CommandInv, TypeOK
  <2> QED BY <2>4, <2>9, <2>10, <2>11 DEF CommandInv, RowInv
<1>20. ASSUME NEW t \in Tasks, MarkSent(t) PROVE CommandInv'
  <2> USE <1>20 DEF MarkSent
  <2>1. Forward /\ RowInv'
    BY RowsMove
  <2>2. task' \in [Tasks -> Task] /\ TasksCarry'
    <3>1. CASE task[t].path = "route"
      BY <3>1, <2>1, TaskEnds
    <3>2. CASE task[t].path # "route"
      <4>1. PICK j \in Task : j = task[t] /\ Carries(j)
        BY DEF CommandInv, TypeOK, TasksCarry
      <4> DEFINE k == [j EXCEPT !.pc = "reply"]
      <4>2. Become(t, k)
        BY <3>2, <4>1 DEF Goto
      <4>3. k \in Task /\ k.batch = j.batch /\ k.acks = j.acks /\ k.pc = "reply"
        BY DEF Task, Steps
      <4>4. Carries(j)'
        BY <2>1, <4>1, KeepsCarrying
      <4>5. j.batch \in Seq(Commands)
        BY DEF Task
      <4>6. \A c \in Elements(j.batch) : c \in Commands
        BY <4>5, ElementsFacts
      <4>7. \A c \in Elements(j.batch) : status'[c] = "sent"
        BY <4>1, <4>6
      <4>8. Carries(k)'
        BY <4>3, <4>4, <4>7 DEF Carries
      <4> QED BY <4>2, <4>3, <4>8, <2>1, TaskMoves
    <3> QED BY <3>1, <3>2
  <2>3. AgentReportsRuns'
    BY <2>1, AgentStays
  <2>4. TypeOK'
    BY <2>2 DEF CommandInv, TypeOK, RowStatus
  <2> QED BY <2>1, <2>2, <2>3, <2>4 DEF CommandInv, RowInv
<1>21. ASSUME NEW t \in Tasks, ReplyHttp(t) PROVE CommandInv'
  <2> USE <1>21 DEF ReplyHttp
  <2>1. CASE awaiting[task[t].path] # t
    <3>1. Forward /\ RowInv'
      BY <2>1, RowsMove
    <3>2. task' \in [Tasks -> Task] /\ TasksCarry'
      BY <3>1, TaskEnds
    <3>3. AgentReportsRuns'
      BY <2>1, <3>1, AgentStays
    <3>4. TypeOK'
      BY <2>1, <3>2 DEF CommandInv, TypeOK
    <3> QED BY <3>1, <3>2, <3>3, <3>4 DEF CommandInv, RowInv
  <2>2. CASE awaiting[task[t].path] = t
    <3>1. PICK j \in Task : j = task[t] /\ Carries(j)
      BY DEF CommandInv, TypeOK, TasksCarry
    <3>2. PICK b \in Seq(Commands) : b = j.batch
      BY DEF Task
    <3>3. HandleCommands(b) /\ awaiting' = [awaiting EXCEPT ![j.path] = NoTask]
      BY <2>2, <3>1, <3>2
    <3>4. Elements(b) \in SUBSET Commands
      BY ElementsFacts
    <3>5. \A c \in Elements(b) : status[c] \notin {"absent", "pending"}
      BY <3>1, <3>2 DEF Carries
    <3>6. /\ Forward /\ RowInv' /\ starts' \in [Commands -> Nat] /\ runs' \subseteq Run
          /\ \A c \in Elements(b) : starts'[c] > 0
          /\ \A r \in runs' : starts'[r.cmd] > 0
      BY <3>3, <3>4, <3>5, RunsStart DEF HandleCommands
    <3>7. task' \in [Tasks -> Task] /\ TasksCarry'
      BY <3>6, TaskEnds
    <3>8. PICK p \in Seq(Ack) : p = pendingAcks
      BY DEF CommandInv, TypeOK
    <3>9. /\ pendingAcks' \in Seq(Ack)
          /\ \A a \in Elements(pendingAcks') : a \in Elements(p) \/ a.cmd \in Elements(b)
      BY <3>3, <3>8, RunningAcks DEF HandleCommands
    <3>10. Elements(p) \subseteq Ack
      BY ElementsFacts
    <3>11. \A a \in Elements(p) : starts'[a.cmd] > 0
      BY <3>6, <3>8, <3>10 DEF CommandInv, AgentReportsRuns, Forward, Ack
    <3>12. AgentReportsRuns'
      BY <3>6, <3>9, <3>11 DEF AgentReportsRuns
    <3>13. TypeOK'
      BY <3>3, <3>6, <3>7, <3>9 DEF CommandInv, TypeOK
    <3> QED BY <3>6, <3>7, <3>12, <3>13 DEF CommandInv, RowInv
  <2> QED BY <2>1, <2>2
<1>22. ASSUME NEW t \in Tasks, ReplyDrain(t) PROVE CommandInv'
  <2> USE <1>22 DEF ReplyDrain
  <2>1. CASE task[t].conn # hubConn
    <3>1. Forward /\ RowInv'
      BY <2>1, RowsMove
    <3>2. task' \in [Tasks -> Task] /\ TasksCarry'
      BY <3>1, TaskEnds
    <3>3. AgentReportsRuns'
      BY <2>1, <3>1, AgentStays
    <3>4. TypeOK'
      BY <2>1, <3>2 DEF CommandInv, TypeOK
    <3> QED BY <3>1, <3>2, <3>3, <3>4 DEF CommandInv, RowInv
  <2>2. CASE task[t].conn = hubConn
    <3>1. PICK j \in Task : j = task[t] /\ Carries(j)
      BY DEF CommandInv, TypeOK, TasksCarry
    <3>2. PICK cs \in SUBSET Commands : cs = Elements(j.batch)
      BY ElementsFacts DEF Task
    <3>3. PICK n \in Nat : n = hubConn
      BY DEF CommandInv, TypeOK
    <3>4. StartRuns(cs, n)
      BY <2>2, <3>1, <3>2, <3>3
    <3>5. \A c \in cs : status[c] \notin {"absent", "pending"}
      BY <3>1, <3>2 DEF Carries
    <3>6. /\ Forward /\ RowInv' /\ starts' \in [Commands -> Nat] /\ runs' \subseteq Run
          /\ \A r \in runs' : starts'[r.cmd] > 0
      BY <3>4, <3>5, RunsStart
    <3>7. task' \in [Tasks -> Task] /\ TasksCarry'
      BY <3>6, TaskEnds
    <3>8. pendingAcks \in Seq(Ack) /\ Elements(pendingAcks) \subseteq Ack
      BY ElementsFacts DEF CommandInv, TypeOK
    <3>9. AgentReportsRuns'
      BY <3>6, <3>8 DEF CommandInv, AgentReportsRuns, Forward, Ack
    <3>10. TypeOK'
      BY <3>6, <3>7 DEF CommandInv, TypeOK
    <3> QED BY <3>6, <3>7, <3>9, <3>10 DEF CommandInv, RowInv
  <2> QED BY <2>1, <2>2
<1>23. ASSUME NEW t \in Tasks, HubPush(t) PROVE CommandInv'
  <2> USE <1>23 DEF HubPush
  <2>1. CASE hubConn = 0
    <3>1. Forward /\ RowInv'
      BY <2>1, RowsMove
    <3>2. task' \in [Tasks -> Task] /\ TasksCarry'
      BY <2>1, <3>1, TaskEnds
    <3>3. AgentReportsRuns'
      BY <2>1, <3>1, AgentStays
    <3>4. TypeOK'
      BY <2>1, <3>2 DEF CommandInv, TypeOK
    <3> QED BY <3>1, <3>2, <3>3, <3>4 DEF CommandInv, RowInv
  <2>2. CASE hubConn # 0
    <3>1. PICK j \in Task : j = task[t] /\ Carries(j)
      BY DEF CommandInv, TypeOK, TasksCarry
    <3>2. j.batch \in Seq(Commands) /\ Len(j.batch) = 1 /\ Origin[j.batch[1]] # "queue"
      BY <3>1 DEF Carries, Task
    <3>3. PICK c \in Commands : c = j.batch[1] /\ Origin[c] # "queue" /\ c \in Elements(j.batch)
      BY <3>2 DEF Elements
    <3>4. PICK n \in Nat : n = hubConn
      BY DEF CommandInv, TypeOK
    <3>5. StartRuns({c}, n)
      BY <2>2, <3>1, <3>3, <3>4
    <3>6. /\ {c} \in SUBSET Commands
          /\ \A d \in {c} : status[d] # "absent" /\ (Origin[d] = "queue" => status[d] # "pending")
      BY <3>1, <3>3 DEF Carries
    <3>7. /\ Forward /\ RowInv' /\ starts' \in [Commands -> Nat] /\ runs' \subseteq Run
          /\ \A r \in runs' : starts'[r.cmd] > 0
      BY <3>5, <3>6, RunsStart
    <3>8. task' \in [Tasks -> Task] /\ TasksCarry'
      <4>1. CASE Origin[c] # "live"
        BY <4>1, <2>2, <3>1, <3>3, <3>7, TaskEnds
      <4>2. CASE Origin[c] = "live"
        <5> DEFINE k == [j EXCEPT !.pc = "mark"]
        <5>1. Become(t, k)
          BY <4>2, <2>2, <3>1, <3>3 DEF Goto
        <5>2. k \in Task /\ k.batch = j.batch /\ k.acks = j.acks /\ k.pc = "mark"
          BY DEF Task, Steps
        <5>3. Carries(j)'
          BY <3>1, <3>7, KeepsCarrying
        <5>4. Carries(k)'
          BY <5>2, <5>3 DEF Carries
        <5> QED BY <5>1, <5>2, <5>4, <3>7, TaskMoves
      <4> QED BY <4>1, <4>2
    <3>9. pendingAcks \in Seq(Ack) /\ Elements(pendingAcks) \subseteq Ack
      BY ElementsFacts DEF CommandInv, TypeOK
    <3>10. AgentReportsRuns'
      BY <3>7, <3>9 DEF CommandInv, AgentReportsRuns, Forward, Ack
    <3>11. TypeOK'
      BY <3>7, <3>8 DEF CommandInv, TypeOK
    <3> QED BY <3>7, <3>8, <3>10, <3>11 DEF CommandInv, RowInv
  <2> QED BY <2>1, <2>2
<1>24. ASSUME NEW t \in Tasks, CleanupExpire(t) PROVE CommandInv'
  <2> USE <1>24 DEF CleanupExpire
  <2>1. PICK s \in [1..Cardinality(Expirable) -> Expirable] :
           Elements(s) = Expirable /\ Begin(t, "cleanup", "expired", 0, <<>>, s)
    OBVIOUS
  <2>2. PICK b \in Seq(Commands) : b = s /\ b # <<>> /\ \A c \in Elements(b) : c \in Expirable
    BY <2>1, SelectionsFacts DEF CommandInv
  <2>3. \A c \in Commands : status'[c] \in {status[c], "timeout"}
    OBVIOUS
  <2>4. Forward /\ RowInv'
    BY <2>3, RowsMove
  <2> DEFINE k == [pc |-> "expired", path |-> "cleanup", conn |-> 0, acks |-> <<>>, batch |-> b]
  <2>5. k \in Task
    BY DEF Task, Steps, Paths
  <2>6. Carries(k)'
    <3>1. Expirable \subseteq Commands
      BY DEF Expirable, CommandInv, TypeOK
    <3>2. \A c \in Elements(b) : status'[c] = "timeout"
      BY <2>2, <3>1
    <3>3. Elements(<<>>) = {}
      BY DEF Elements
    <3> QED BY <2>2, <3>2, <3>3 DEF Carries
  <2>7. task' \in [Tasks -> Task] /\ TasksCarry'
    BY <2>1, <2>2, <2>4, <2>5, <2>6, TaskMoves DEF Begin
  <2>8. AgentReportsRuns'
    BY <2>4, AgentStays
  <2>9. TypeOK'
    BY <2>7 DEF CommandInv, TypeOK, RowStatus
  <2> QED BY <2>4, <2>7, <2>8, <2>9 DEF CommandInv, RowInv
<1>25. ASSUME NEW t \in Tasks, CleanupNotify(t) PROVE CommandInv'
  <2> USE <1>25 DEF CleanupNotify
  <2>1. Forward /\ RowInv'
    BY RowsMove
  <2>2. PICK j \in Task : j = task[t] /\ Carries(j)
    BY DEF CommandInv, TypeOK, TasksCarry
  <2>3. j.batch \in Seq(Commands) /\ j.batch # <<>>
    BY <2>2 DEF Task, Carries
  <2>4. Head(j.batch) \in Commands /\ Tail(j.batch) \in Seq(Commands) /\ Elements(Tail(j.batch)) \subseteq Elements(j.batch)
    BY <2>3, ElementsFacts
  <2>5. task' \in [Tasks -> Task] /\ TasksCarry'
    <3>1. CASE Len(j.batch) = 1
      BY <3>1, <2>1, <2>2, TaskEnds
    <3>2. CASE Len(j.batch) # 1
      <4> DEFINE k == [j EXCEPT !.batch = Tail(j.batch)]
      <4>1. Become(t, k)
        BY <3>2, <2>2
      <4>2. k \in Task /\ k.batch = Tail(j.batch) /\ k.acks = j.acks /\ k.pc = "expired"
        BY <2>2, <2>4 DEF Task
      <4>3. Carries(j)'
        BY <2>1, <2>2, KeepsCarrying
      <4>4. Tail(j.batch) # <<>>
        BY <2>3, <3>2, TailNonEmpty
      <4>5. Carries(k)'
        BY <2>4, <4>2, <4>3, <4>4 DEF Carries
      <4> QED BY <4>1, <4>2, <4>5, <2>1, TaskMoves
    <3> QED BY <3>1, <3>2
  <2>6. AgentReportsRuns'
    BY <2>1, AgentStays
  <2>7. notified' \in [Commands -> Nat]
    <3>1. PICK h \in Commands : h = Head(j.batch)
      BY <2>4
    <3>2. notified' = [notified EXCEPT ![h] = @ + 1]
      BY <3>1, <2>2, Zenon
    <3>3. notified \in [Commands -> Nat]
      BY DEF CommandInv, TypeOK
    <3> HIDE <1>25 DEF CleanupNotify
    <3> QED BY <3>2, <3>3
  <2>8. TypeOK'
    BY <2>5, <2>7 DEF CommandInv, TypeOK
  <2> QED BY <2>1, <2>5, <2>6, <2>8 DEF CommandInv, RowInv
<1>26. ASSUME UNCHANGED vars PROVE CommandInv'
  <2> USE <1>26 DEF vars
  <2>1. Forward /\ RowInv'
    BY RowsMove
  <2>2. TasksCarry' /\ AgentReportsRuns'
    BY <2>1, TasksStay, AgentStays
  <2>3. TypeOK'
    BY DEF CommandInv, TypeOK
  <2> QED BY <2>1, <2>2, <2>3 DEF CommandInv, RowInv
<1>27. ASSUME NEW r \in runs, Finish(r) PROVE CommandInv'
  BY <1>5, <1>6, <1>7, <1>27 DEF Finish
<1>28. ASSUME NEW t \in Tasks, TaskStep(t) PROVE CommandInv'
  BY <1>16, <1>17, <1>18, <1>19, <1>20, <1>21, <1>22, <1>23, <1>25, <1>28 DEF TaskStep
<1> QED
  BY <1>1, <1>2, <1>3, <1>4, <1>8, <1>9, <1>10, <1>11, <1>12, <1>13, <1>14, <1>15, <1>24, <1>26, <1>27, <1>28
  DEF Next

\* CommandInv holds in every reachable state, whatever the commands, their origins
\* and priorities, the number of overlapping requests and the number of faults.
THEOREM CommandSafety == Spec => []CommandInv
<1>1. CommandInv /\ [Next]_vars => CommandInv'
  BY StepInv
<1> QED BY InitInv, <1>1, PTL DEF Spec

\* No command of the queue is offered to an agent again once it has started there
\* (the mark-before-send order of handlePush, the poll route and the drain).
THEOREM NoRequeue == Spec => []StartedIsNotPending
<1>1. CommandInv => StartedIsNotPending
  BY DEF CommandInv
<1> QED BY CommandSafety, <1>1, PTL

\* A result stored by processAcks comes from an execution on the agent.
THEOREM ResultsAreReal == Spec => []ResultComesFromARun
<1>1. CommandInv => ResultComesFromARun
  BY DEF CommandInv
<1> QED BY CommandSafety, <1>1, PTL

-----------------------------------------------------------------------------
(* Cancellation. *)

\* What a step leaves a withdrawn command: no start, no request that carries it,
\* and its row, unless an old execution reports.
KeepsWithdrawn(c) ==
    /\ starts'[c] = starts[c]
    /\ status'[c] \in {"cancelled"} \cup AckStatus
    /\ \A u \in Tasks : c \notin Elements(task'[u].batch)

\* One task moves on without taking the command up.
LEMMA TaskLeavesOut ==
    ASSUME CommandInv, NEW c \in Commands, Withdrawn(c),
           NEW t \in Tasks, NEW k \in Task, Become(t, k), c \notin Elements(k.batch)
    PROVE  \A u \in Tasks : c \notin Elements(task'[u].batch)
<1>1. task'[t] = k /\ \A u \in Tasks \ {t} : task'[u] = task[u]
  BY DEF Become, CommandInv, TypeOK
<1>2. \A u \in Tasks : c \notin Elements(task[u].batch)
  BY DEF Withdrawn
<1> QED BY <1>1, <1>2

\* A task that moves on with the rows it has, or with no row, does not take it up.
LEMMA TaskKeepsBatch ==
    ASSUME CommandInv, NEW c \in Commands, Withdrawn(c), NEW t \in Tasks,
           End(t) \/ \E k \in Task : Become(t, k) /\ Elements(k.batch) \subseteq Elements(task[t].batch)
    PROVE  \A u \in Tasks : c \notin Elements(task'[u].batch)
<1>1. c \notin Elements(task[t].batch)
  BY DEF Withdrawn
<1>2. CASE End(t)
  <2>1. IdleTask \in Task /\ Elements(IdleTask.batch) = {}
    BY DEF IdleTask, Task, Steps, Paths, Elements
  <2> QED BY <1>2, <2>1, TaskLeavesOut DEF End
<1>3. CASE \E k \in Task : Become(t, k) /\ Elements(k.batch) \subseteq Elements(task[t].batch)
  <2>1. PICK k \in Task : Become(t, k) /\ Elements(k.batch) \subseteq Elements(task[t].batch)
    BY <1>3
  <2> QED BY <1>1, <2>1, TaskLeavesOut
<1> QED BY <1>2, <1>3

\* A start comes from a request that carries the command.
LEMMA NoStart ==
    ASSUME CommandInv, NEW c \in Commands, NEW cs, NEW conn, StartRuns(cs, conn), c \notin cs
    PROVE  starts'[c] = starts[c]
BY DEF StartRuns, CommandInv, TypeOK

\* Every step keeps a withdrawn command withdrawn, but for a late result.
LEMMA StepWithdrawn ==
    ASSUME CommandInv, [Next]_vars, NEW c \in Commands, Withdrawn(c)
    PROVE  KeepsWithdrawn(c)
<1> USE DEF dbVars, serverVars, agentVars
<1>a. status[c] = "cancelled" /\ \A u \in Tasks : c \notin Elements(task[u].batch)
  BY DEF Withdrawn
<1>b. ASSUME NEW t \in Tasks
      PROVE  /\ task[t] \in Task
             /\ task[t].batch \in Seq(Commands)
             /\ task[t].acks \in Seq(Ack)
             /\ Elements(<<>>) = {}
             /\ <<>> \in Seq(Ack) /\ <<>> \in Seq(Commands)
  BY DEF CommandInv, TypeOK, Task, Elements
<1>1. ASSUME NEW d \in Commands, Enqueue(d) PROVE KeepsWithdrawn(c)
  BY <1>1, <1>a DEF Enqueue, Insert, KeepsWithdrawn, CommandInv, TypeOK
<1>2. ASSUME NEW d \in Commands, NEW t \in Tasks, EnqueueAndPush(d, t) PROVE KeepsWithdrawn(c)
  <2> USE <1>2 DEF EnqueueAndPush, Insert
  <2> DEFINE k == [pc |-> "hubpush", path |-> "route", conn |-> 0, acks |-> <<>>, batch |-> <<d>>]
  <2>1. status'[c] = status[c] /\ d # c /\ starts' = starts
    BY <1>a DEF CommandInv, TypeOK
  <2>2. k \in Task /\ Become(t, k) /\ Elements(k.batch) = {d}
    BY DEF Task, Steps, Paths, Begin, Elements
  <2>3. \A u \in Tasks : c \notin Elements(task'[u].batch)
    BY <2>1, <2>2, TaskLeavesOut
  <2> QED BY <1>a, <2>1, <2>3 DEF KeepsWithdrawn
<1>3. ASSUME NEW d \in Commands, CancelCommand(d) PROVE KeepsWithdrawn(c)
  BY <1>3, <1>a DEF CancelCommand, KeepsWithdrawn, CommandInv, TypeOK
<1>4. ASSUME NEW d \in Commands, ExpiryPasses(d) PROVE KeepsWithdrawn(c)
  BY <1>4, <1>a DEF ExpiryPasses, KeepsWithdrawn
<1>5. ASSUME NEW r \in runs, NEW st \in {"success", "failure"}, FinishHttpRun(r, st) PROVE KeepsWithdrawn(c)
  BY <1>5, <1>a DEF FinishHttpRun, KeepsWithdrawn
<1>6. ASSUME NEW r \in runs, NEW st \in {"success", "failure"}, NEW t \in Tasks, FinishWsRun(r, st, t)
      PROVE  KeepsWithdrawn(c)
  <2> USE <1>6 DEF FinishWsRun
  <2> DEFINE a == [cmd |-> r.cmd, st |-> st]
             k == [pc |-> "acks", path |-> "wsack", conn |-> 0, acks |-> <<a>>, batch |-> <<>>]
  <2>1. a \in Ack
    BY DEF CommandInv, TypeOK, Run, Ack, AckStatus
  <2>2. Become(t, k)
    BY DEF Begin
  <2> HIDE DEF a
  <2>3. k \in Task /\ Elements(k.batch) = {}
    BY <2>1 DEF Task, Steps, Paths, Elements
  <2>4. \A u \in Tasks : c \notin Elements(task'[u].batch)
    BY <2>2, <2>3, TaskLeavesOut
  <2> QED BY <1>a, <2>4 DEF KeepsWithdrawn
<1>7. ASSUME NEW r \in runs, FinishWsRunLost(r) PROVE KeepsWithdrawn(c)
  BY <1>7, <1>a DEF FinishWsRunLost, KeepsWithdrawn
<1>8. ASSUME NEW t \in Tasks, NEW path \in {"push", "poll", "drain"}, NEW pc \in {"acks", "select"}, NEW conn \in Nat,
             NEW acks \in Seq(Ack), Begin(t, path, pc, conn, acks, <<>>), UNCHANGED <<dbVars, starts>>
      PROVE  KeepsWithdrawn(c)
  <2> USE <1>8
  <2> DEFINE k == [pc |-> pc, path |-> path, conn |-> conn, acks |-> acks, batch |-> <<>>]
  <2>1. k \in Task /\ Elements(k.batch) = {}
    BY DEF Task, Steps, Paths, Elements
  <2>2. Become(t, k)
    BY DEF Begin
  <2>3. \A u \in Tasks : c \notin Elements(task'[u].batch)
    BY <2>1, <2>2, TaskLeavesOut
  <2> QED BY <1>a, <2>3 DEF KeepsWithdrawn
<1>9. ASSUME NEW t \in Tasks, AgentPush(t) \/ AgentPoll(t) \/ Register(t) PROVE KeepsWithdrawn(c)
  <2>1. pendingAcks \in Seq(Ack) /\ connSeq + 1 \in Nat /\ 0 \in Nat
    BY DEF CommandInv, TypeOK
  <2>2. CASE AgentPush(t)
    BY <2>1, <2>2, <1>8 DEF AgentPush
  <2>3. CASE AgentPoll(t)
    BY <2>3, <1>8, <1>b DEF AgentPoll
  <2>4. CASE Register(t)
    BY <2>1, <2>4, <1>8, <1>b DEF Register
  <2> QED BY <1>9, <2>2, <2>3, <2>4
<1>10. ASSUME NEW t \in Tasks, ProcessAckUpdate(t) PROVE KeepsWithdrawn(c)
  <2> USE <1>10 DEF ProcessAckUpdate
  <2>1. PICK j \in Task : j = task[t] /\ j.acks \in Seq(Ack) /\ j.acks # <<>>
    BY <1>b
  <2>2. Head(j.acks) \in Ack /\ Tail(j.acks) \in Seq(Ack)
    BY <2>1, ElementsFacts
  <2>3. status'[c] \in {"cancelled"} \cup AckStatus
    BY <1>a, <2>1, <2>2 DEF CommandInv, TypeOK, Ack
  <2>4. \A u \in Tasks : c \notin Elements(task'[u].batch)
    <3>1. [j EXCEPT !.pc = "notify"] \in Task /\ [j EXCEPT !.pc = "notify"].batch = j.batch
      BY DEF Task, Steps
    <3>2. [j EXCEPT !.acks = Tail(j.acks)] \in Task /\ [j EXCEPT !.acks = Tail(j.acks)].batch = j.batch
      BY <2>2 DEF Task
    <3>3. Become(t, [j EXCEPT !.pc = "notify"]) \/ Become(t, [j EXCEPT !.acks = Tail(j.acks)])
      BY <2>1 DEF Goto
    <3> HIDE <1>10 DEF ProcessAckUpdate
    <3>4. \E k \in Task : Become(t, k) /\ k.batch = task[t].batch
      BY <2>1, <3>1, <3>2, <3>3, Zenon
    <3> QED BY <3>4, TaskKeepsBatch
  <2> QED BY <2>3, <2>4 DEF KeepsWithdrawn
<1>11. ASSUME NEW t \in Tasks, ProcessAckNotify(t) PROVE KeepsWithdrawn(c)
  <2> USE <1>11 DEF ProcessAckNotify
  <2>1. PICK j \in Task : j = task[t] /\ j.acks \in Seq(Ack) /\ j.acks # <<>>
    BY <1>b DEF CommandInv, TasksCarry, Carries
  <2>2. Tail(j.acks) \in Seq(Ack)
    BY <2>1, ElementsFacts
  <2> DEFINE k == [j EXCEPT !.pc = "acks", !.acks = Tail(j.acks)]
  <2>3. k \in Task /\ k.batch = j.batch
    BY <2>2 DEF Task, Steps
  <2>4. Become(t, k)
    BY <2>1
  <2>5. \A u \in Tasks : c \notin Elements(task'[u].batch)
    <3> HIDE <1>11 DEF ProcessAckNotify
    <3>1. \E i \in Task : Become(t, i) /\ i.batch = task[t].batch
      BY <2>1, <2>3, <2>4, Zenon
    <3> QED BY <3>1, TaskKeepsBatch
  <2> QED BY <1>a, <2>5 DEF KeepsWithdrawn
<1>12. ASSUME NEW t \in Tasks, ProcessAcksDone(t) PROVE KeepsWithdrawn(c)
  <2> USE <1>12 DEF ProcessAcksDone
  <2>1. PICK j \in Task : j = task[t]
    BY <1>b
  <2>2. [j EXCEPT !.pc = "select"] \in Task /\ [j EXCEPT !.pc = "select"].batch = j.batch
    BY DEF Task, Steps
  <2>3. End(t) \/ Become(t, [j EXCEPT !.pc = "select"])
    BY <2>1 DEF Goto
  <2>4. \A u \in Tasks : c \notin Elements(task'[u].batch)
    BY <2>1, <2>2, <2>3, TaskKeepsBatch, ZenonT(40)
  <2> QED BY <1>a, <2>4 DEF KeepsWithdrawn
<1>13. ASSUME NEW t \in Tasks, SelectPending(t) PROVE KeepsWithdrawn(c)
  <2> USE <1>13 DEF SelectPending
  <2>1. PICK s \in Selections :
           Become(t, [task[t] EXCEPT !.batch = s, !.pc = IF s = <<>> THEN "reply" ELSE "mark"])
    OBVIOUS
  <2>2. PICK b \in Seq(Commands) : b = s /\ \A d \in Elements(b) : status[d] = "pending"
    BY <2>1, SelectionsFacts DEF CommandInv
  <2>3. PICK j \in Task : j = task[t]
    BY <1>b
  <2> DEFINE k == [j EXCEPT !.batch = b, !.pc = IF b = <<>> THEN "reply" ELSE "mark"]
  <2>4. k \in Task /\ k.batch = b
    BY DEF Task, Steps
  <2>5. c \notin Elements(b)
    BY <1>a, <2>2
  <2>6. \A u \in Tasks : c \notin Elements(task'[u].batch)
    BY <2>1, <2>2, <2>3, <2>4, <2>5, TaskLeavesOut
  <2> QED BY <1>a, <2>6 DEF KeepsWithdrawn
<1>14. ASSUME NEW t \in Tasks, MarkSent(t) PROVE KeepsWithdrawn(c)
  <2> USE <1>14 DEF MarkSent
  <2>1. PICK j \in Task : j = task[t]
    BY <1>b
  <2>2. [j EXCEPT !.pc = "reply"] \in Task /\ [j EXCEPT !.pc = "reply"].batch = j.batch
    BY DEF Task, Steps
  <2>3. End(t) \/ Become(t, [j EXCEPT !.pc = "reply"])
    BY <2>1 DEF Goto
  <2>4. \A u \in Tasks : c \notin Elements(task'[u].batch)
    BY <2>1, <2>2, <2>3, TaskKeepsBatch
  <2>5. status'[c] = status[c]
    BY <1>a
  <2> QED BY <1>a, <2>4, <2>5 DEF KeepsWithdrawn
<1>15. ASSUME NEW t \in Tasks, ReplyHttp(t) \/ ReplyDrain(t) PROVE KeepsWithdrawn(c)
  <2>1. End(t) /\ status' = status
    BY <1>15 DEF ReplyHttp, ReplyDrain
  <2>2. \A u \in Tasks : c \notin Elements(task'[u].batch)
    BY <2>1, TaskKeepsBatch
  <2>3. starts' = starts \/ \E n : StartRuns(Elements(task[t].batch), n)
    BY <1>15 DEF ReplyHttp, ReplyDrain, HandleCommands
  <2>4. starts'[c] = starts[c]
    BY <1>a, <2>3, NoStart
  <2> QED BY <1>a, <2>1, <2>2, <2>4 DEF KeepsWithdrawn
<1>16. ASSUME NEW t \in Tasks, HubPush(t) PROVE KeepsWithdrawn(c)
  <2> USE <1>16 DEF HubPush
  <2>1. PICK j \in Task : j = task[t] /\ Carries(j)
    BY <1>b DEF CommandInv, TasksCarry
  <2>2. j.batch[1] \in Elements(j.batch)
    BY <2>1 DEF Carries, Elements
  <2>3. [j EXCEPT !.pc = "mark"] \in Task /\ [j EXCEPT !.pc = "mark"].batch = j.batch
    BY DEF Task, Steps
  <2>4. End(t) \/ Become(t, [j EXCEPT !.pc = "mark"])
    BY <2>1 DEF Goto
  <2>5. \A u \in Tasks : c \notin Elements(task'[u].batch)
    <3> HIDE <1>16 DEF HubPush
    <3>1. End(t) \/ \E i \in Task : Become(t, i) /\ i.batch = task[t].batch
      BY <2>1, <2>3, <2>4, Zenon
    <3> QED BY <3>1, TaskKeepsBatch
  <2>6. starts' = starts \/ \E n : StartRuns({j.batch[1]}, n)
    BY <2>1
  <2>7. starts'[c] = starts[c]
    BY <1>a, <2>1, <2>2, <2>6, NoStart
  <2> QED BY <1>a, <2>5, <2>7 DEF KeepsWithdrawn
<1>17. ASSUME NEW t \in Tasks, CleanupExpire(t) PROVE KeepsWithdrawn(c)
  <2> USE <1>17 DEF CleanupExpire
  <2>1. PICK s \in [1..Cardinality(Expirable) -> Expirable] :
           Elements(s) = Expirable /\ Begin(t, "cleanup", "expired", 0, <<>>, s)
    OBVIOUS
  <2>2. PICK b \in Seq(Commands) : b = s /\ Elements(b) = Expirable
    BY <2>1, SelectionsFacts DEF CommandInv
  <2>3. c \notin Expirable
    BY <1>a DEF Expirable
  <2> DEFINE k == [pc |-> "expired", path |-> "cleanup", conn |-> 0, acks |-> <<>>, batch |-> b]
  <2>4. k \in Task
    BY DEF Task, Steps, Paths
  <2>5. \A u \in Tasks : c \notin Elements(task'[u].batch)
    BY <2>1, <2>2, <2>3, <2>4, TaskLeavesOut DEF Begin
  <2>6. status'[c] = status[c]
    BY <2>3
  <2> QED BY <1>a, <2>5, <2>6 DEF KeepsWithdrawn
<1>18. ASSUME NEW t \in Tasks, CleanupNotify(t) PROVE KeepsWithdrawn(c)
  <2> USE <1>18 DEF CleanupNotify
  <2>1. PICK j \in Task : j = task[t] /\ j.batch \in Seq(Commands) /\ j.batch # <<>>
    BY <1>b DEF CommandInv, TasksCarry, Carries
  <2>2. Tail(j.batch) \in Seq(Commands) /\ Elements(Tail(j.batch)) \subseteq Elements(j.batch)
    BY <2>1, ElementsFacts
  <2>3. [j EXCEPT !.batch = Tail(j.batch)] \in Task /\ [j EXCEPT !.batch = Tail(j.batch)].batch = Tail(j.batch)
    BY <2>2 DEF Task
  <2>4. End(t) \/ Become(t, [j EXCEPT !.batch = Tail(j.batch)])
    BY <2>1
  <2>5. \A u \in Tasks : c \notin Elements(task'[u].batch)
    BY <2>1, <2>2, <2>3, <2>4, TaskKeepsBatch
  <2> QED BY <1>a, <2>5 DEF KeepsWithdrawn
<1>19. ASSUME ServerCrash PROVE KeepsWithdrawn(c)
  BY <1>19, <1>a DEF ServerCrash, KeepsWithdrawn, IdleTask, Elements
<1>20. ASSUME (\E loop \in {"push", "poll"} : AgentGivesUp(loop)) \/ AgentPushFails \/ Disconnect \/ AgentCrash
             \/ UNCHANGED vars
       PROVE  KeepsWithdrawn(c)
  BY <1>20, <1>a DEF AgentGivesUp, AgentPushFails, Disconnect, AgentCrash, vars, KeepsWithdrawn
<1>21. ASSUME NEW r \in runs, Finish(r) PROVE KeepsWithdrawn(c)
  BY <1>5, <1>6, <1>7, <1>21 DEF Finish
<1>22. ASSUME NEW t \in Tasks, TaskStep(t) PROVE KeepsWithdrawn(c)
  BY <1>10, <1>11, <1>12, <1>13, <1>14, <1>15, <1>16, <1>18, <1>22 DEF TaskStep
<1> QED
  BY <1>1, <1>2, <1>3, <1>4, <1>9, <1>17, <1>19, <1>20, <1>21, <1>22 DEF Next

\* cancelCommand holds: once no request carries the row, no dispatcher selects it
\* and the agent is not given it; only the ack of an earlier execution can still
\* overwrite the row.
THEOREM CancellationSafety == Spec => CancellationHolds
<1>1. CommandInv /\ [Next]_vars =>
        [\A c \in Commands :
            Withdrawn(c) => /\ starts'[c] = starts[c]
                            /\ Withdrawn(c)' \/ status'[c] \in AckStatus]_vars
  <2>1. ASSUME CommandInv, [Next]_vars, NEW c \in Commands, Withdrawn(c)
        PROVE  starts'[c] = starts[c] /\ (Withdrawn(c)' \/ status'[c] \in AckStatus)
    BY <2>1, StepWithdrawn DEF KeepsWithdrawn, Withdrawn
  <2> QED BY <2>1
<1> QED BY CommandSafety, <1>1, PTL DEF Spec, CancellationHolds

-----------------------------------------------------------------------------
(* How often a row runs.  A task that may still start a row has selected it  *)
(* or is about to push it; the starts so far and those still to come stay    *)
(* within the number of tasks that can overlap.                              *)

\* A dispatcher that has selected c and has not sent it yet.
Holds(k, c) == k.pc \in {"mark", "reply"} /\ k.path # "route" /\ c \in Elements(k.batch)

\* A route that enqueued c and has not pushed it yet.
Pushes(k, c) == k.pc = "hubpush" /\ c \in Elements(k.batch)

Pushers(c) == {t \in Tasks : Pushes(task[t], c)}

Carriers(c) == {t \in Tasks : Holds(task[t], c) \/ Pushes(task[t], c)}

PushAllowance(c) == IF Origin[c] = "queue" THEN 0 ELSE 1

\* Starts so far and starts to come of c.  While c is pending no dispatcher has
\* sent it, so that every dispatcher that selected it is one of Tasks.
OverlapOf(c) ==
    /\ starts[c] + Cardinality(Carriers(c)) <= Cardinality(Tasks) + PushAllowance(c)
    /\ status[c] = "pending" => starts[c] + Cardinality(Pushers(c)) <= PushAllowance(c)

OverlapInv ==
    /\ \A t \in Tasks : task[t].pc = "hubpush" => task[t].path = "route"
    /\ \A c \in Commands : OverlapOf(c)

\* Carriers are tasks, so they can be counted.
LEMMA CarriersFinite ==
    ASSUME NEW S \in SUBSET Tasks
    PROVE  IsFiniteSet(S) /\ Cardinality(S) \in Nat /\ Cardinality(S) <= Cardinality(Tasks)
BY FS_Subset, FS_CardinalityType, CommandQueueAssumption

\* Nobody takes the command up and nobody starts it.
LEMMA OverlapQuiet ==
    ASSUME CommandInv, NEW c \in Commands, OverlapOf(c),
           starts'[c] = starts[c], status'[c] = "pending" => status[c] = "pending",
           Carriers(c)' \subseteq Carriers(c), Pushers(c)' \subseteq Pushers(c)
    PROVE  OverlapOf(c)'
<1> DEFINE A == Carriers(c)
           B == Carriers(c)'
           P == Pushers(c)
           Q == Pushers(c)'
<1>1. A \in SUBSET Tasks /\ P \in SUBSET Tasks /\ B \in SUBSET A /\ Q \in SUBSET P
  BY DEF Carriers, Pushers
<1>2. starts[c] \in Nat /\ PushAllowance(c) \in Nat /\ Cardinality(Tasks) \in Nat
  BY CarriersFinite, FS_CardinalityType, CommandQueueAssumption DEF CommandInv, TypeOK, PushAllowance
<1> HIDE DEF A, B, P, Q
<1>3. Cardinality(B) <= Cardinality(A) /\ Cardinality(Q) <= Cardinality(P)
  BY <1>1, CarriersFinite, FS_Subset
<1>4. Cardinality(A) \in Nat /\ Cardinality(B) \in Nat /\ Cardinality(P) \in Nat /\ Cardinality(Q) \in Nat
  BY <1>1, CarriersFinite
<1>5. /\ starts[c] + Cardinality(A) <= Cardinality(Tasks) + PushAllowance(c)
      /\ status[c] = "pending" => starts[c] + Cardinality(P) <= PushAllowance(c)
  BY DEF OverlapOf, A, P
<1>6. /\ starts'[c] + Cardinality(B) <= Cardinality(Tasks) + PushAllowance(c)
      /\ status'[c] = "pending" => starts'[c] + Cardinality(Q) <= PushAllowance(c)
  BY <1>2, <1>3, <1>4, <1>5
<1> QED BY <1>6 DEF OverlapOf, B, Q, PushAllowance

\* A carrier starts the command and is done with it; if the row is still pending the
\* carrier was the route that pushes it.
LEMMA OverlapStart ==
    ASSUME CommandInv, NEW c \in Commands, OverlapOf(c), NEW t \in Carriers(c),
           starts'[c] = starts[c] + 1, Carriers(c)' \subseteq Carriers(c) \ {t},
           status'[c] = "pending" =>
               status[c] = "pending" /\ t \in Pushers(c) /\ Pushers(c)' \subseteq Pushers(c) \ {t}
    PROVE  OverlapOf(c)'
<1> DEFINE A == Carriers(c)
           B == Carriers(c)'
           P == Pushers(c)
           Q == Pushers(c)'
<1>1. A \in SUBSET Tasks /\ P \in SUBSET Tasks /\ B \in SUBSET (A \ {t})
  BY DEF Carriers, Pushers
<1>2. starts[c] \in Nat /\ PushAllowance(c) \in Nat /\ Cardinality(Tasks) \in Nat
  BY CarriersFinite, FS_CardinalityType, CommandQueueAssumption DEF CommandInv, TypeOK, PushAllowance
<1>3. /\ starts[c] + Cardinality(A) <= Cardinality(Tasks) + PushAllowance(c)
      /\ status[c] = "pending" => starts[c] + Cardinality(P) <= PushAllowance(c)
  BY DEF OverlapOf
<1>4. t \in A /\ (status'[c] = "pending" => status[c] = "pending" /\ t \in P /\ Q \in SUBSET (P \ {t}))
  OBVIOUS
<1>5. Q \in SUBSET Tasks
  BY DEF Pushers
<1>6. OverlapOf(c)' <=> /\ starts'[c] + Cardinality(B) <= Cardinality(Tasks) + PushAllowance(c)
                        /\ status'[c] = "pending" => starts'[c] + Cardinality(Q) <= PushAllowance(c)
  BY DEF OverlapOf, PushAllowance
<1> HIDE DEF A, B, P, Q
<1>7. IsFiniteSet(A) /\ IsFiniteSet(P) /\ IsFiniteSet(A \ {t}) /\ IsFiniteSet(P \ {t})
  BY <1>1, CarriersFinite, FS_RemoveElement
<1>8. Cardinality(A \ {t}) = Cardinality(A) - 1 /\ (t \in P => Cardinality(P \ {t}) = Cardinality(P) - 1)
  BY <1>4, <1>7, FS_RemoveElement
<1>9. Cardinality(B) <= Cardinality(A \ {t}) /\ (Q \in SUBSET (P \ {t}) => Cardinality(Q) <= Cardinality(P \ {t}))
  BY <1>1, <1>7, FS_Subset
<1>10. Cardinality(A) \in Nat /\ Cardinality(B) \in Nat /\ Cardinality(P) \in Nat /\ Cardinality(Q) \in Nat
  BY <1>1, <1>5, CarriersFinite
<1>11. /\ starts'[c] + Cardinality(B) <= Cardinality(Tasks) + PushAllowance(c)
       /\ status'[c] = "pending" => starts'[c] + Cardinality(Q) <= PushAllowance(c)
  BY <1>2, <1>3, <1>4, <1>8, <1>9, <1>10
<1> QED BY <1>6, <1>11

\* While the row is pending, who has selected it does not matter: there are at most
\* as many as there are tasks.
LEMMA OverlapPending ==
    ASSUME CommandInv, NEW c \in Commands,
           starts'[c] \in Nat, starts'[c] + Cardinality(Pushers(c)') <= PushAllowance(c)
    PROVE  OverlapOf(c)'
<1> DEFINE B == Carriers(c)'
           Q == Pushers(c)'
<1>1. B \in SUBSET Tasks /\ Q \in SUBSET Tasks
  BY DEF Carriers, Pushers
<1>2. OverlapOf(c)' <=> /\ starts'[c] + Cardinality(B) <= Cardinality(Tasks) + PushAllowance(c)
                        /\ status'[c] = "pending" => starts'[c] + Cardinality(Q) <= PushAllowance(c)
  BY DEF OverlapOf, PushAllowance
<1>3. starts'[c] + Cardinality(Q) <= PushAllowance(c)
  OBVIOUS
<1> HIDE DEF B, Q
<1>4. Cardinality(B) \in Nat /\ Cardinality(Q) \in Nat /\ Cardinality(B) <= Cardinality(Tasks)
  BY <1>1, CarriersFinite
<1>5. PushAllowance(c) \in Nat /\ Cardinality(Tasks) \in Nat
  BY FS_CardinalityType, CommandQueueAssumption DEF PushAllowance
<1>6. starts'[c] + Cardinality(B) <= Cardinality(Tasks) + PushAllowance(c)
  BY <1>3, <1>4, <1>5
<1> QED BY <1>2, <1>3, <1>6

\* Who carries a command after one task has moved.
LEMMA CarriersAfter ==
    ASSUME CommandInv, NEW c \in Commands, NEW t \in Tasks, NEW k, Become(t, k)
    PROVE  /\ Carriers(c)' = (Carriers(c) \ {t}) \cup (IF Holds(k, c) \/ Pushes(k, c) THEN {t} ELSE {})
           /\ Pushers(c)' = (Pushers(c) \ {t}) \cup (IF Pushes(k, c) THEN {t} ELSE {})
           /\ \A u \in Tasks : task'[u] = IF u = t THEN k ELSE task[u]
<1>1. task'[t] = k /\ \A u \in Tasks \ {t} : task'[u] = task[u]
  BY DEF Become, CommandInv, TypeOK
<1>2. Carriers(c)' = {u \in Tasks : Holds(task'[u], c) \/ Pushes(task'[u], c)}
  BY DEF Carriers, Holds, Pushes
<1>3. Pushers(c)' = {u \in Tasks : Pushes(task'[u], c)}
  BY DEF Pushers, Pushes
<1> QED BY <1>1, <1>2, <1>3 DEF Carriers, Pushers

\* A task ends, or moves on without taking a command up; no row becomes pending.
LEMMA TaskDrops ==
    ASSUME CommandInv, OverlapInv, starts' = starts,
           \A c \in Commands : status'[c] = "pending" => status[c] = "pending",
           NEW t \in Tasks, NEW k, Become(t, k), k.pc # "hubpush",
           \A c \in Commands : Holds(k, c) => Holds(task[t], c)
    PROVE  OverlapInv'
<1>1. ASSUME NEW c \in Commands PROVE OverlapOf(c)'
  <2>1. ~Pushes(k, c)
    BY DEF Pushes
  <2>2. Carriers(c)' \subseteq Carriers(c) /\ Pushers(c)' \subseteq Pushers(c)
    BY <2>1, CarriersAfter DEF Carriers
  <2> QED BY <2>2, OverlapQuiet DEF OverlapInv
<1>2. \A u \in Tasks : task'[u].pc = "hubpush" => task'[u].path = "route"
  BY DEF Become, CommandInv, TypeOK, OverlapInv
<1> QED BY <1>1, <1>2 DEF OverlapInv

\* No task moves.
LEMMA TasksStand ==
    ASSUME CommandInv, OverlapInv, starts' = starts, task' = task,
           \A c \in Commands : status'[c] = "pending" =>
               status[c] = "pending" \/ (status[c] = "absent" /\ Origin[c] = "queue")
    PROVE  OverlapInv'
<1>1. ASSUME NEW c \in Commands PROVE OverlapOf(c)'
  <2>1. Carriers(c)' = Carriers(c) /\ Pushers(c)' = Pushers(c)
    BY DEF Carriers, Pushers, Holds, Pushes
  <2>2. CASE status'[c] = "pending" => status[c] = "pending"
    BY <2>1, <2>2, OverlapQuiet DEF OverlapInv
  <2>3. CASE status[c] = "absent" /\ Origin[c] = "queue"
    <3>1. starts[c] = 0
      BY <2>3 DEF CommandInv, TypeOK, StartedExists
    <3>2. Pushers(c) = {}
      BY <2>3 DEF Pushers, Pushes, CommandInv, TasksCarry, Carries
    <3>3. starts'[c] + Cardinality(Pushers(c)') <= PushAllowance(c)
      BY <2>1, <2>3, <3>1, <3>2, FS_EmptySet DEF PushAllowance
    <3> QED BY <3>1, <3>3, OverlapPending
  <2> QED BY <2>2, <2>3
<1> QED BY <1>1 DEF OverlapInv

\* The initial state: nothing started, nobody carries anything.
LEMMA InitOverlap == Init => OverlapInv
<1> SUFFICES ASSUME Init PROVE OverlapInv
  OBVIOUS
<1>1. ASSUME NEW c \in Commands PROVE OverlapOf(c)
  <2>1. Carriers(c) = {} /\ Pushers(c) = {} /\ starts[c] = 0
    BY DEF Init, Carriers, Pushers, Holds, Pushes, IdleTask
  <2>2. Cardinality(Tasks) \in Nat /\ PushAllowance(c) \in Nat
    BY FS_CardinalityType, CommandQueueAssumption DEF PushAllowance
  <2> QED BY <2>1, <2>2, FS_EmptySet DEF OverlapOf
<1>2. \A t \in Tasks : task[t].pc = "hubpush" => task[t].path = "route"
  BY DEF Init, IdleTask
<1> QED BY <1>1, <1>2 DEF OverlapInv

\* The starts so far and still to come of a row stay bounded through every step.
LEMMA StepOverlap == CommandInv /\ OverlapInv /\ [Next]_vars => OverlapInv'
<1> SUFFICES ASSUME CommandInv, OverlapInv, [Next]_vars PROVE OverlapInv'
  OBVIOUS
<1> USE DEF dbVars, serverVars, agentVars
<1>a. ASSUME NEW t \in Tasks
      PROVE  /\ task[t] \in Task
             /\ task[t].batch \in Seq(Commands)
             /\ Elements(task[t].batch) \subseteq Commands
             /\ task[t].acks \in Seq(Ack)
  BY ElementsFacts DEF CommandInv, TypeOK, Task
<1>b. ASSUME NEW t \in Tasks, End(t), starts' = starts,
             \A c \in Commands : status'[c] = "pending" => status[c] = "pending"
      PROVE  OverlapInv'
  <2>1. IdleTask.pc = "idle" /\ \A c \in Commands : ~Holds(IdleTask, c)
    BY DEF IdleTask, Holds
  <2> QED BY <1>b, <2>1, TaskDrops DEF End
<1>c. ASSUME NEW t \in Tasks, NEW cs, NEW conn, StartRuns(cs, conn), status' = status,
             NEW k, Become(t, k), k.pc # "hubpush", \A c \in Commands : ~Holds(k, c),
             \A c \in cs \cap Commands : t \in Carriers(c) /\ (status[c] = "pending" => t \in Pushers(c))
      PROVE  OverlapInv'
  <2>1. ASSUME NEW c \in Commands PROVE OverlapOf(c)'
    <3>1. ~Pushes(k, c) /\ ~Holds(k, c)
      BY <1>c DEF Pushes
    <3>2. Carriers(c)' = Carriers(c) \ {t} /\ Pushers(c)' = Pushers(c) \ {t}
      BY <1>c, <3>1, CarriersAfter
    <3>3. OverlapOf(c)
      BY DEF OverlapInv
    <3>4. CASE c \in cs
      <4>1. starts'[c] = starts[c] + 1
        BY <1>c, <3>4 DEF StartRuns, CommandInv, TypeOK
      <4> QED BY <1>c, <3>2, <3>3, <3>4, <4>1, OverlapStart
    <3>5. CASE c \notin cs
      <4>1. starts'[c] = starts[c]
        BY <1>c, <3>5, NoStart
      <4> QED BY <1>c, <3>2, <3>3, <4>1, OverlapQuiet
    <3> QED BY <3>4, <3>5
  <2>2. \A u \in Tasks : task'[u].pc = "hubpush" => task'[u].path = "route"
    BY <1>c DEF Become, CommandInv, TypeOK, OverlapInv
  <2> QED BY <2>1, <2>2 DEF OverlapInv
<1>1. ASSUME NEW c \in Commands, Enqueue(c) PROVE OverlapInv'
  <2>1. \A d \in Commands : status'[d] = "pending" =>
               status[d] = "pending" \/ (status[d] = "absent" /\ Origin[d] = "queue")
    BY <1>1 DEF Enqueue, Insert, CommandInv, TypeOK
  <2> QED BY <1>1, <2>1, TasksStand DEF Enqueue
<1>2. ASSUME NEW c \in Commands, NEW t \in Tasks, EnqueueAndPush(c, t) PROVE OverlapInv'
  <2> USE <1>2 DEF EnqueueAndPush, Insert
  <2> DEFINE k == [pc |-> "hubpush", path |-> "route", conn |-> 0, acks |-> <<>>, batch |-> <<c>>]
  <2>1. Become(t, k) /\ starts' = starts
    BY DEF Begin
  <2>2. Elements(<<c>>) = {c}
    BY DEF Elements
  <2>3. \A d \in Commands : ~Holds(k, d) /\ (Pushes(k, d) <=> d = c)
    BY <2>2 DEF Holds, Pushes
  <2>4. \A d \in Commands : d # c => status'[d] = status[d]
    BY DEF CommandInv, TypeOK
  <2>5. status[c] = "absent" /\ Origin[c] # "queue"
    OBVIOUS
  <2>6. \A u \in Tasks : task'[u].pc = "hubpush" => task'[u].path = "route"
    BY <2>1 DEF Become, CommandInv, TypeOK, OverlapInv
  <2> HIDE <1>2 DEF EnqueueAndPush, Insert, k
  <2>7. ASSUME NEW d \in Commands, d # c PROVE OverlapOf(d)'
    <3>1. Carriers(d)' \subseteq Carriers(d) /\ Pushers(d)' \subseteq Pushers(d)
      BY <2>1, <2>3, <2>7, CarriersAfter
    <3> QED BY <2>1, <2>4, <2>7, <3>1, OverlapQuiet DEF OverlapInv
  <2>8. OverlapOf(c)'
    <3>1. starts'[c] = 0
      BY <2>1, <2>5 DEF CommandInv, TypeOK, StartedExists
    <3>2. Pushers(c) = {}
      BY <2>5 DEF Pushers, Pushes, CommandInv, TasksCarry, Carries
    <3>3. Pushers(c)' = {t}
      BY <2>1, <2>3, <3>2, CarriersAfter
    <3>4. Cardinality({t}) = 1
      BY FS_Singleton
    <3>5. starts'[c] + Cardinality(Pushers(c)') <= PushAllowance(c)
      BY <2>5, <3>1, <3>3, <3>4 DEF PushAllowance
    <3> QED BY <3>1, <3>5, OverlapPending
  <2> QED BY <2>6, <2>7, <2>8 DEF OverlapInv
<1>3. ASSUME (\E c \in Commands : CancelCommand(c) \/ ExpiryPasses(c))
             \/ (\E r \in runs, st \in {"success", "failure"} : FinishHttpRun(r, st) \/ FinishWsRunLost(r))
             \/ (\E loop \in {"push", "poll"} : AgentGivesUp(loop))
             \/ AgentPushFails \/ Disconnect \/ AgentCrash \/ UNCHANGED vars
      PROVE  OverlapInv'
  <2>1. task' = task /\ starts' = starts
    BY <1>3 DEF CancelCommand, ExpiryPasses, FinishHttpRun, FinishWsRunLost, AgentGivesUp, AgentPushFails,
                Disconnect, AgentCrash, vars
  <2>2. \A c \in Commands : status'[c] = "pending" => status[c] = "pending"
    BY <1>3 DEF CancelCommand, ExpiryPasses, FinishHttpRun, FinishWsRunLost, AgentGivesUp, AgentPushFails,
                Disconnect, AgentCrash, vars, CommandInv, TypeOK
  <2> QED BY <2>1, <2>2, TasksStand
<1>4. ASSUME NEW t \in Tasks, NEW path, NEW pc \in {"acks", "select", "expired"}, NEW conn, NEW acks, NEW batch,
             Begin(t, path, pc, conn, acks, batch), starts' = starts,
             \A c \in Commands : status'[c] = "pending" => status[c] = "pending"
      PROVE  OverlapInv'
  <2> DEFINE k == [pc |-> pc, path |-> path, conn |-> conn, acks |-> acks, batch |-> batch]
  <2>1. Become(t, k)
    BY <1>4 DEF Begin
  <2>2. k.pc = pc
    OBVIOUS
  <2> HIDE DEF k
  <2>3. k.pc # "hubpush" /\ \A c \in Commands : ~Holds(k, c)
    BY <2>2, <1>4 DEF Holds
  <2> QED BY <1>4, <2>1, <2>3, TaskDrops
<1>5. ASSUME NEW t \in Tasks,
             AgentPush(t) \/ AgentPoll(t) \/ Register(t)
             \/ \E r \in runs, st \in {"success", "failure"} : FinishWsRun(r, st, t)
      PROVE  OverlapInv'
  <2>1. starts' = starts /\ status' = status
    BY <1>5 DEF AgentPush, AgentPoll, Register, FinishWsRun
  <2>2. \E path, conn, acks, batch : \E pc \in {"acks", "select", "expired"} : Begin(t, path, pc, conn, acks, batch)
    BY <1>5 DEF AgentPush, AgentPoll, Register, FinishWsRun
  <2> QED BY <2>1, <2>2, <1>4
<1>6. ASSUME NEW t \in Tasks, CleanupExpire(t) PROVE OverlapInv'
  <2>1. starts' = starts /\ \A c \in Commands : status'[c] = "pending" => status[c] = "pending"
    BY <1>6 DEF CleanupExpire
  <2>2. \E batch : Begin(t, "cleanup", "expired", 0, <<>>, batch)
    BY <1>6 DEF CleanupExpire
  <2> QED BY <2>1, <2>2, <1>4
<1>7. ASSUME ServerCrash PROVE OverlapInv'
  <2>1. \A t \in Tasks : task'[t] = IdleTask
    BY <1>7 DEF ServerCrash
  <2>2. starts' = starts /\ status' = status
    BY <1>7 DEF ServerCrash
  <2>3. ASSUME NEW c \in Commands PROVE OverlapOf(c)'
    <3>1. Carriers(c)' = {} /\ Pushers(c)' = {}
      BY <2>1 DEF Carriers, Pushers, Holds, Pushes, IdleTask
    <3> QED BY <2>2, <3>1, OverlapQuiet DEF OverlapInv
  <2>4. \A u \in Tasks : task'[u].pc = "hubpush" => task'[u].path = "route"
    BY <2>1 DEF IdleTask
  <2> QED BY <2>3, <2>4 DEF OverlapInv
<1>8. ASSUME NEW t \in Tasks, ProcessAckUpdate(t) PROVE OverlapInv'
  <2> USE <1>8 DEF ProcessAckUpdate
  <2>1. PICK j \in Task : j = task[t] /\ j.acks \in Seq(Ack) /\ j.acks # <<>> /\ j.pc = "acks"
    BY <1>a
  <2>2. Head(j.acks) \in Ack /\ Tail(j.acks) \in Seq(Ack)
    BY <2>1, ElementsFacts
  <2>3. \A c \in Commands : status'[c] = "pending" => status[c] = "pending"
    BY <2>1, <2>2 DEF CommandInv, TypeOK, Ack, AckStatus
  <2>4. PICK k \in Task : Become(t, k) /\ k.pc \in {"acks", "notify"}
    <3>1. [j EXCEPT !.pc = "notify"] \in Task /\ [j EXCEPT !.pc = "notify"].pc = "notify"
      BY DEF Task, Steps
    <3>2. [j EXCEPT !.acks = Tail(j.acks)] \in Task /\ [j EXCEPT !.acks = Tail(j.acks)].pc = "acks"
      BY <2>1, <2>2 DEF Task
    <3>3. Become(t, [j EXCEPT !.pc = "notify"]) \/ Become(t, [j EXCEPT !.acks = Tail(j.acks)])
      BY <2>1 DEF Goto
    <3> HIDE <1>8 DEF ProcessAckUpdate
    <3> QED BY <3>1, <3>2, <3>3
  <2>5. k.pc # "hubpush" /\ \A c \in Commands : ~Holds(k, c)
    BY <2>4 DEF Holds
  <2>6. starts' = starts
    OBVIOUS
  <2> HIDE <1>8 DEF ProcessAckUpdate
  <2> QED BY <2>3, <2>4, <2>5, <2>6, TaskDrops
<1>9. ASSUME NEW t \in Tasks, ProcessAckNotify(t) PROVE OverlapInv'
  <2> DEFINE k == [task[t] EXCEPT !.pc = "acks", !.acks = Tail(task[t].acks)]
  <2>1. Become(t, k) /\ k.pc = "acks" /\ starts' = starts /\ status' = status
    BY <1>9, <1>a DEF ProcessAckNotify, Task
  <2> HIDE DEF k
  <2>2. k.pc # "hubpush" /\ \A c \in Commands : ~Holds(k, c)
    BY <2>1 DEF Holds
  <2> QED BY <2>1, <2>2, TaskDrops
<1>10. ASSUME NEW t \in Tasks, ProcessAcksDone(t) PROVE OverlapInv'
  <2> DEFINE k == [task[t] EXCEPT !.pc = "select"]
  <2>1. starts' = starts /\ status' = status /\ (End(t) \/ Become(t, k))
    BY <1>10 DEF ProcessAcksDone, Goto
  <2>2. k.pc = "select"
    BY <1>a DEF Task
  <2> HIDE DEF k
  <2>3. k.pc # "hubpush" /\ \A c \in Commands : ~Holds(k, c)
    BY <2>2 DEF Holds
  <2>4. CASE End(t)
    BY <2>1, <2>4, <1>b
  <2>5. CASE Become(t, k)
    BY <2>1, <2>3, <2>5, TaskDrops
  <2> QED BY <2>1, <2>4, <2>5
<1>11. ASSUME NEW t \in Tasks, SelectPending(t) PROVE OverlapInv'
  <2> USE <1>11 DEF SelectPending
  <2>1. PICK s \in Selections :
           Become(t, [task[t] EXCEPT !.batch = s, !.pc = IF s = <<>> THEN "reply" ELSE "mark"])
    OBVIOUS
  <2>2. \A d \in Elements(s) : status[d] = "pending"
    BY <2>1, SelectionsFacts DEF CommandInv
  <2>3. PICK j \in Task : j = task[t]
    BY <1>a
  <2> DEFINE k == [j EXCEPT !.batch = s, !.pc = IF s = <<>> THEN "reply" ELSE "mark"]
  <2>4. k.batch = s /\ k.pc \in {"reply", "mark"}
    BY DEF Task
  <2>5. Become(t, k) /\ starts' = starts /\ status' = status
    BY <2>1, <2>3
  <2> HIDE <1>11 DEF SelectPending, k
  <2>6. ASSUME NEW c \in Commands PROVE OverlapOf(c)'
    <3>1. ~Pushes(k, c)
      BY <2>4 DEF Pushes
    <3>2. Pushers(c)' \subseteq Pushers(c)
      BY <2>5, <3>1, CarriersAfter
    <3>3. CASE c \in Elements(s)
      <4>1. starts[c] + Cardinality(Pushers(c)) <= PushAllowance(c)
        BY <2>2, <3>3 DEF OverlapInv, OverlapOf
      <4>2. Pushers(c) \in SUBSET Tasks
        BY DEF Pushers
      <4>3. Cardinality(Pushers(c)') \in Nat /\ Cardinality(Pushers(c)) \in Nat
            /\ Cardinality(Pushers(c)') <= Cardinality(Pushers(c))
        BY <3>2, <4>2, CarriersFinite, FS_Subset
      <4>4. starts[c] \in Nat /\ PushAllowance(c) \in Nat
        BY DEF CommandInv, TypeOK, PushAllowance
      <4>5. starts'[c] + Cardinality(Pushers(c)') <= PushAllowance(c)
        BY <2>5, <4>1, <4>3, <4>4
      <4> QED BY <2>5, <4>4, <4>5, OverlapPending
    <3>4. CASE c \notin Elements(s)
      <4>1. Carriers(c)' \subseteq Carriers(c)
        BY <2>4, <2>5, <3>1, <3>4, CarriersAfter DEF Holds
      <4> QED BY <2>5, <3>2, <4>1, OverlapQuiet DEF OverlapInv
    <3> QED BY <3>3, <3>4
  <2>7. \A u \in Tasks : task'[u].pc = "hubpush" => task'[u].path = "route"
    BY <2>4, <2>5 DEF Become, CommandInv, TypeOK, OverlapInv
  <2> QED BY <2>6, <2>7 DEF OverlapInv
<1>12. ASSUME NEW t \in Tasks, MarkSent(t) PROVE OverlapInv'
  <2> DEFINE k == [task[t] EXCEPT !.pc = "reply"]
  <2>1. task[t].pc = "mark" /\ starts' = starts /\ \A c \in Commands : status'[c] = "pending" => status[c] = "pending"
    BY <1>12 DEF MarkSent
  <2>2. CASE task[t].path = "route"
    BY <1>12, <2>1, <2>2, <1>b DEF MarkSent
  <2>3. CASE task[t].path # "route"
    <3>1. Become(t, k)
      BY <1>12, <2>3 DEF MarkSent, Goto
    <3>2. k.pc = "reply" /\ k.batch = task[t].batch /\ k.path = task[t].path
      BY <1>a DEF Task
    <3> HIDE DEF k
    <3>3. k.pc # "hubpush" /\ \A c \in Commands : Holds(k, c) => Holds(task[t], c)
      BY <2>1, <3>2 DEF Holds
    <3> QED BY <2>1, <3>1, <3>3, TaskDrops
  <2> QED BY <2>2, <2>3
<1>13. ASSUME NEW t \in Tasks, ReplyHttp(t) \/ ReplyDrain(t) PROVE OverlapInv'
  <2>1. End(t) /\ status' = status /\ task[t].pc = "reply" /\ task[t].path # "route"
    BY <1>13 DEF ReplyHttp, ReplyDrain
  <2>2. starts' = starts \/ \E n : StartRuns(Elements(task[t].batch), n)
    BY <1>13 DEF ReplyHttp, ReplyDrain, HandleCommands
  <2>3. \A c \in Elements(task[t].batch) \cap Commands : t \in Carriers(c) /\ status[c] # "pending"
    BY <2>1 DEF Carriers, Holds, CommandInv, TasksCarry, Carries
  <2>4. IdleTask.pc # "hubpush" /\ \A c \in Commands : ~Holds(IdleTask, c)
    BY DEF IdleTask, Holds
  <2>5. CASE starts' = starts
    BY <2>1, <2>5, <1>b
  <2>6. CASE \E n : StartRuns(Elements(task[t].batch), n)
    BY <2>1, <2>3, <2>4, <2>6, <1>c DEF End
  <2> QED BY <2>2, <2>5, <2>6
<1>14. ASSUME NEW t \in Tasks, HubPush(t) PROVE OverlapInv'
  <2>1. PICK j \in Task : j = task[t] /\ Carries(j) /\ j.pc = "hubpush" /\ j.path = "route"
    BY <1>14, <1>a DEF HubPush, CommandInv, TasksCarry, OverlapInv
  <2>2. j.batch[1] \in Elements(j.batch)
    BY <2>1 DEF Carries, Elements
  <2> DEFINE k == [j EXCEPT !.pc = "mark"]
  <2>3. k.pc = "mark" /\ k.path = "route"
    BY <2>1 DEF Task
  <2>4. status' = status /\ (End(t) \/ Become(t, k))
    BY <1>14, <2>1 DEF HubPush, Goto
  <2>5. (End(t) /\ starts' = starts) \/ \E n : StartRuns({j.batch[1]}, n)
    BY <1>14, <2>1 DEF HubPush
  <2> HIDE DEF k
  <2>6. PICK i : Become(t, i) /\ i.pc # "hubpush" /\ \A c \in Commands : ~Holds(i, c)
    <3>1. IdleTask.pc # "hubpush" /\ \A c \in Commands : ~Holds(IdleTask, c)
      BY DEF IdleTask, Holds
    <3>2. k.pc # "hubpush" /\ \A c \in Commands : ~Holds(k, c)
      BY <2>3 DEF Holds
    <3> QED BY <2>4, <3>1, <3>2 DEF End
  <2>7. \A c \in {j.batch[1]} \cap Commands : t \in Carriers(c) /\ t \in Pushers(c)
    BY <2>1, <2>2 DEF Carriers, Pushers, Pushes
  <2>8. CASE End(t) /\ starts' = starts
    BY <2>4, <2>8, <1>b
  <2>9. CASE \E n : StartRuns({j.batch[1]}, n)
    BY <2>4, <2>6, <2>7, <2>9, <1>c
  <2> QED BY <2>5, <2>8, <2>9
<1>15. ASSUME NEW t \in Tasks, CleanupNotify(t) PROVE OverlapInv'
  <2> DEFINE k == [task[t] EXCEPT !.batch = Tail(task[t].batch)]
  <2>1. starts' = starts /\ status' = status /\ task[t].pc = "expired" /\ (End(t) \/ Become(t, k))
    BY <1>15 DEF CleanupNotify
  <2>2. k.pc = "expired"
    BY <1>a, <2>1 DEF Task
  <2> HIDE DEF k
  <2>3. k.pc # "hubpush" /\ \A c \in Commands : ~Holds(k, c)
    BY <2>2 DEF Holds
  <2>4. CASE End(t)
    BY <2>1, <2>4, <1>b
  <2>5. CASE Become(t, k)
    BY <2>1, <2>3, <2>5, TaskDrops
  <2> QED BY <2>1, <2>4, <2>5
<1>16. ASSUME NEW r \in runs, Finish(r) PROVE OverlapInv'
  BY <1>3, <1>5, <1>16 DEF Finish
<1>17. ASSUME NEW t \in Tasks, TaskStep(t) PROVE OverlapInv'
  BY <1>8, <1>9, <1>10, <1>11, <1>12, <1>13, <1>14, <1>15, <1>17 DEF TaskStep
<1> QED
  BY <1>1, <1>2, <1>3, <1>5, <1>6, <1>7, <1>16, <1>17 DEF Next

\* However requests overlap, crash and reconnect, a row runs at most once per request
\* that can be in flight with its dispatch, and once more if a route pushes it.
THEOREM OverlapBound == Spec => []RunsBoundedByOverlap
<1>1. CommandInv /\ OverlapInv => RunsBoundedByOverlap
  <2> SUFFICES ASSUME CommandInv, OverlapInv, NEW c \in Commands
               PROVE  starts[c] <= Cardinality(Tasks) + (IF Origin[c] = "queue" THEN 0 ELSE 1)
    BY DEF RunsBoundedByOverlap
  <2>1. starts[c] + Cardinality(Carriers(c)) <= Cardinality(Tasks) + PushAllowance(c)
    BY DEF OverlapInv, OverlapOf
  <2>2. Carriers(c) \in SUBSET Tasks
    BY DEF Carriers
  <2>3. Cardinality(Carriers(c)) \in Nat /\ Cardinality(Tasks) \in Nat /\ starts[c] \in Nat
    BY <2>2, CarriersFinite, FS_CardinalityType, CommandQueueAssumption DEF CommandInv, TypeOK
  <2> QED BY <2>1, <2>3 DEF PushAllowance
<1>2. CommandInv /\ OverlapInv /\ [Next]_vars => OverlapInv'
  BY StepOverlap
<1> QED BY InitOverlap, CommandSafety, <1>1, <1>2, PTL DEF Spec

-----------------------------------------------------------------------------
(* Where the result of a running command is.  As long as no fault happened   *)
(* there is one push in flight at most, so that the acks of the agent reach  *)
(* the rows in the order the agent wrote them.                               *)

\* The commands that a list of acks ends, and those it leaves running.
Ended(s) == {c \in Commands : \E i \in 1..Len(s) : s[i].cmd = c /\ s[i].st \in Terminal}

LeftRunning(s) ==
    {c \in Commands : \E i \in 1..Len(s) :
        /\ s[i].cmd = c
        /\ s[i].st = "ack_running"
        /\ \A j \in (i + 1)..Len(s) : ~(s[j].cmd = c /\ s[j].st \in Terminal)}

HttpRunning == {c \in Commands : \E r \in runs : r.cmd = c /\ r.conn = 0}

\* The acks of a task that processAcks has not stored yet.
Unstored(k) == IF k.pc = "notify" THEN Tail(k.acks) ELSE k.acks

\* Where the result of c is: still to be written, in the agent's buffer, or in the
\* push that is being processed.
Awaited(c) ==
    \/ c \in HttpRunning \cup Ended(pendingAcks)
    \/ \E t \in Tasks : task[t].path = "push" /\ c \in Ended(Unstored(task[t]))

\* What one task in flight has to do with the results of running commands.
PushOrder(t, k) ==
    /\ k.path = "push" => awaiting["push"] = t
    /\ k.path # "push" => \A a \in Elements(k.acks) : a.st \in Terminal
    /\ k.pc \notin {"acks", "notify"} => k.acks = <<>>
    /\ LeftRunning(k.acks) \subseteq HttpRunning \cup Ended(pendingAcks)

ResultInv ==
    faults = 0 =>
        /\ \A t \in Tasks : PushOrder(t, task[t])
        /\ LeftRunning(pendingAcks) \subseteq HttpRunning
        /\ \A c \in Commands : status[c] = "ack_running" => Awaited(c)

\* What taking the first ack off a list does to the commands it ends or leaves running.
LEMMA TailOfAcks ==
    ASSUME NEW s \in Seq(Ack), s # <<>>
    PROVE  /\ Head(s) \in Ack /\ Tail(s) \in Seq(Ack)
           /\ LeftRunning(Tail(s)) \subseteq LeftRunning(s)
           /\ Ended(Tail(s)) \subseteq Ended(s)
           /\ \A c \in Ended(s) : c \in Ended(Tail(s)) \/ (c = Head(s).cmd /\ Head(s).st \in Terminal)
           /\ Head(s).st = "ack_running" => Head(s).cmd \in LeftRunning(s) \cup Ended(Tail(s))
<1> DEFINE r == Tail(s)
<1>1. Head(s) = s[1] /\ s[1] \in Ack /\ r \in Seq(Ack) /\ Len(r) = Len(s) - 1 /\ Len(s) \in Nat /\ Len(s) >= 1
  OBVIOUS
<1>2. \A i \in 1..Len(r) : r[i] = s[i + 1]
  OBVIOUS
<1> HIDE DEF r
<1>3. ASSUME NEW c \in LeftRunning(r) PROVE c \in LeftRunning(s)
  <2>1. PICK i \in 1..Len(r) : /\ r[i].cmd = c /\ r[i].st = "ack_running"
                               /\ \A j \in (i + 1)..Len(r) : ~(r[j].cmd = c /\ r[j].st \in Terminal)
    BY DEF LeftRunning
  <2>2. i + 1 \in 1..Len(s) /\ s[i + 1].cmd = c /\ s[i + 1].st = "ack_running"
    BY <1>1, <1>2, <2>1
  <2>3. ASSUME NEW j \in (i + 2)..Len(s) PROVE ~(s[j].cmd = c /\ s[j].st \in Terminal)
    <3>1. j - 1 \in (i + 1)..Len(r) /\ j - 1 \in 1..Len(r) /\ (j - 1) + 1 = j
      BY <1>1
    <3>2. s[j] = r[j - 1]
      BY <1>2, <3>1
    <3> QED BY <2>1, <3>1, <3>2
  <2>4. (i + 1) + 1 = i + 2
    OBVIOUS
  <2> QED BY <2>2, <2>3, <2>4 DEF LeftRunning
<1>4. ASSUME NEW c \in Ended(r) PROVE c \in Ended(s)
  <2>1. PICK i \in 1..Len(r) : r[i].cmd = c /\ r[i].st \in Terminal
    BY DEF Ended
  <2>2. i + 1 \in 1..Len(s) /\ s[i + 1].cmd = c /\ s[i + 1].st \in Terminal
    BY <1>1, <1>2, <2>1
  <2> QED BY <2>2 DEF Ended
<1>5. ASSUME NEW c \in Commands, NEW i \in 2..Len(s), s[i].cmd = c, s[i].st \in Terminal PROVE c \in Ended(r)
  <2>1. i - 1 \in 1..Len(r) /\ (i - 1) + 1 = i
    BY <1>1
  <2>2. r[i - 1] = s[i]
    BY <1>2, <2>1
  <2> QED BY <1>5, <2>1, <2>2 DEF Ended
<1>6. ASSUME NEW c \in Ended(s) PROVE c \in Ended(r) \/ (c = s[1].cmd /\ s[1].st \in Terminal)
  <2>1. PICK i \in 1..Len(s) : s[i].cmd = c /\ s[i].st \in Terminal
    BY DEF Ended
  <2>2. c \in Commands
    BY DEF Ended
  <2>3. i = 1 \/ i \in 2..Len(s)
    BY <1>1
  <2> QED BY <1>5, <2>1, <2>2, <2>3
<1>7. ASSUME s[1].st = "ack_running" PROVE s[1].cmd \in LeftRunning(s) \cup Ended(r)
  <2>1. s[1].cmd \in Commands /\ 1 \in 1..Len(s) /\ 1 + 1 = 2
    BY <1>1 DEF Ack
  <2>2. CASE \E j \in 2..Len(s) : s[j].cmd = s[1].cmd /\ s[j].st \in Terminal
    BY <1>5, <2>1, <2>2
  <2>3. CASE ~ \E j \in 2..Len(s) : s[j].cmd = s[1].cmd /\ s[j].st \in Terminal
    BY <1>7, <2>1, <2>3 DEF LeftRunning
  <2> QED BY <2>2, <2>3
<1> QED BY <1>1, <1>3, <1>4, <1>6, <1>7 DEF r

\* A list of terminal acks leaves nothing running.
LEMMA NoRunningAcks ==
    ASSUME NEW s \in Seq(Ack), \A a \in Elements(s) : a.st \in Terminal
    PROVE  LeftRunning(s) = {}
BY DEF LeftRunning, Elements, Terminal

\* The empty list of acks says nothing.
LEMMA EmptyAcks == LeftRunning(<<>>) = {} /\ Ended(<<>>) = {} /\ Elements(<<>>) = {}
BY DEF LeftRunning, Ended, Elements

\* A terminal ack is appended: it ends its command, whatever comes before.
LEMMA AppendTerminal ==
    ASSUME NEW s \in Seq(Ack), NEW a \in Ack, a.st \in Terminal
    PROVE  /\ LeftRunning(Append(s, a)) \subseteq LeftRunning(s) \ {a.cmd}
           /\ Ended(s) \cup {a.cmd} \subseteq Ended(Append(s, a))
<1> DEFINE r == Append(s, a)
<1>1. Len(r) = Len(s) + 1 /\ Len(s) \in Nat /\ r[Len(s) + 1] = a /\ \A i \in 1..Len(s) : r[i] = s[i]
  OBVIOUS
<1>2. a.cmd \in Commands /\ a.st # "ack_running"
  BY DEF Ack, Terminal
<1> HIDE DEF r
<1>3. Ended(s) \cup {a.cmd} \subseteq Ended(r)
  <2>1. a.cmd \in Ended(r)
    <3>1. Len(s) + 1 \in 1..Len(r)
      BY <1>1
    <3> QED BY <1>1, <1>2, <3>1 DEF Ended
  <2>2. ASSUME NEW c \in Ended(s) PROVE c \in Ended(r)
    <3>1. PICK i \in 1..Len(s) : s[i].cmd = c /\ s[i].st \in Terminal
      BY DEF Ended
    <3>2. i \in 1..Len(r) /\ r[i] = s[i]
      BY <1>1
    <3> QED BY <3>1, <3>2 DEF Ended
  <2> QED BY <2>1, <2>2
<1>4. ASSUME NEW c \in LeftRunning(r) PROVE c \in LeftRunning(s) \ {a.cmd}
  <2>1. PICK i \in 1..Len(r) : /\ r[i].cmd = c /\ r[i].st = "ack_running"
                               /\ \A j \in (i + 1)..Len(r) : ~(r[j].cmd = c /\ r[j].st \in Terminal)
    BY DEF LeftRunning
  <2>2. i \in 1..Len(s) /\ r[i] = s[i]
    BY <1>1, <1>2, <2>1
  <2>3. Len(s) + 1 \in (i + 1)..Len(r)
    BY <1>1, <2>2
  <2>4. c # a.cmd
    BY <1>1, <2>1, <2>3
  <2>5. \A j \in (i + 1)..Len(s) : j \in (i + 1)..Len(r) /\ r[j] = s[j]
    BY <1>1, <2>2
  <2> QED BY <2>1, <2>2, <2>4, <2>5 DEF LeftRunning
<1> QED BY <1>3, <1>4 DEF r

\* The ack_running acks of a response are appended: the commands they leave running
\* are those of the response.
LEMMA AppendRunning ==
    ASSUME NEW p \in Seq(Ack), NEW b \in Seq(Commands)
    PROVE  LET n == [i \in 1..Len(b) |-> [cmd |-> b[i], st |-> "ack_running"]]
           IN  /\ LeftRunning(p \o n) \subseteq LeftRunning(p) \cup Elements(b)
               /\ Ended(p) \subseteq Ended(p \o n)
<1> DEFINE n == [i \in 1..Len(b) |-> [cmd |-> b[i], st |-> "ack_running"]]
           q == p \o n
<1>1. n \in Seq(Ack) /\ Len(n) = Len(b) /\ \A i \in 1..Len(b) : n[i].cmd = b[i]
  BY DEF Ack, AckStatus
<1> HIDE DEF n
<1>2. /\ Len(p) \in Nat /\ Len(n) \in Nat /\ Len(q) = Len(p) + Len(n)
      /\ \A i \in 1..Len(p) : q[i] = p[i]
      /\ \A i \in (Len(p) + 1)..(Len(p) + Len(n)) : q[i] = n[i - Len(p)]
  <2>0. n \in Seq(Ack)
    BY <1>1
  <2>1. Len(p) \in Nat /\ Len(n) \in Nat /\ Len(q) = Len(p) + Len(n)
    BY <2>0
  <2>2. ASSUME NEW i \in 1..Len(p) PROVE q[i] = p[i]
    BY <2>0
  <2>3. ASSUME NEW i \in (Len(p) + 1)..(Len(p) + Len(n)) PROVE q[i] = n[i - Len(p)]
    BY <2>0
  <2> QED BY <2>1, <2>2, <2>3
<1> HIDE DEF q
<1>3. ASSUME NEW c \in Ended(p) PROVE c \in Ended(q)
  <2>1. PICK i \in 1..Len(p) : p[i].cmd = c /\ p[i].st \in Terminal
    BY DEF Ended
  <2>2. i \in 1..Len(q) /\ q[i] = p[i]
    BY <1>2
  <2> QED BY <2>1, <2>2 DEF Ended
<1>4. ASSUME NEW c \in LeftRunning(q) PROVE c \in LeftRunning(p) \cup Elements(b)
  <2>1. PICK i \in 1..Len(q) : /\ q[i].cmd = c /\ q[i].st = "ack_running"
                               /\ \A j \in (i + 1)..Len(q) : ~(q[j].cmd = c /\ q[j].st \in Terminal)
    BY DEF LeftRunning
  <2>2. CASE i \in 1..Len(p)
    <3>1. \A j \in (i + 1)..Len(p) : j \in (i + 1)..Len(q) /\ q[j] = p[j]
      BY <1>2, <2>2
    <3>2. q[i] = p[i] /\ c \in Commands
      BY <1>2, <2>2 DEF LeftRunning
    <3> QED BY <2>1, <2>2, <3>1, <3>2 DEF LeftRunning
  <2>3. CASE i \notin 1..Len(p)
    <3>1. i \in (Len(p) + 1)..(Len(p) + Len(n)) /\ i - Len(p) \in 1..Len(b)
      BY <1>1, <1>2, <2>3
    <3>2. c = b[i - Len(p)]
      BY <1>1, <1>2, <2>1, <3>1
    <3> QED BY <3>1, <3>2 DEF Elements
  <2> QED BY <2>2, <2>3
<1> QED BY <1>3, <1>4 DEF n, q

\* The tasks and the agent after a step: enough for the result of every running
\* command to be still on its way.  Every task either stands still or meets its
\* own conditions again, nothing that was to come is dropped, and a row that is
\* running after the step was running before or has its result on the way.
LEMMA ResultKept ==
    ASSUME CommandInv, ResultInv, faults = 0, task' \in [Tasks -> Task],
           HttpRunning \cup Ended(pendingAcks) \subseteq (HttpRunning \cup Ended(pendingAcks))',
           \A u \in Tasks : \/ task'[u] = task[u] /\ (task[u].path = "push" => awaiting'["push"] = u)
                            \/ PushOrder(u, task[u])',
           LeftRunning(pendingAcks)' \subseteq HttpRunning',
           \A c \in Commands : status'[c] = "ack_running" => status[c] = "ack_running" \/ Awaited(c)',
           \A u \in Tasks, c \in Commands :
               task[u].path = "push" /\ c \in Ended(Unstored(task[u])) /\ status'[c] = "ack_running" => Awaited(c)'
    PROVE  ResultInv'
<1>1. ASSUME NEW u \in Tasks PROVE PushOrder(u, task[u])'
  <2>1. CASE PushOrder(u, task[u])'
    BY <2>1 DEF PushOrder
  <2>2. CASE task'[u] = task[u] /\ (task[u].path = "push" => awaiting'["push"] = u)
    <3>1. PushOrder(u, task[u])
      BY DEF ResultInv
    <3> QED BY <2>2, <3>1 DEF PushOrder
  <2> QED BY <2>1, <2>2
<1>2. ASSUME NEW c \in Commands, status'[c] = "ack_running" PROVE Awaited(c)'
  <2>1. CASE Awaited(c)'
    BY <2>1
  <2>2. CASE status[c] = "ack_running"
    <3>1. Awaited(c)
      BY <2>2 DEF ResultInv
    <3>2. CASE c \in HttpRunning \cup Ended(pendingAcks)
      BY <3>2 DEF Awaited
    <3>3. CASE \E u \in Tasks : task[u].path = "push" /\ c \in Ended(Unstored(task[u]))
      BY <1>2, <3>3
    <3> QED BY <3>1, <3>2, <3>3 DEF Awaited
  <2> QED BY <1>2, <2>1, <2>2
<1> QED BY <1>1, <1>2 DEF ResultInv

\* No task moves: the agent writes acks or starts executions, rows may change.
LEMMA ResultAgent ==
    ASSUME CommandInv, ResultInv, faults = 0, task' = task, awaiting' = awaiting,
           HttpRunning \cup Ended(pendingAcks) \subseteq (HttpRunning \cup Ended(pendingAcks))',
           LeftRunning(pendingAcks)' \subseteq HttpRunning',
           \A c \in Commands : status'[c] = "ack_running" => status[c] = "ack_running"
    PROVE  ResultInv'
<1>1. \A u \in Tasks : task[u].path = "push" => awaiting'["push"] = u
  BY DEF ResultInv, PushOrder
<1>2. ASSUME NEW u \in Tasks, NEW c \in Commands, task[u].path = "push", c \in Ended(Unstored(task[u]))
      PROVE  Awaited(c)'
  BY <1>2 DEF Awaited, Unstored, Ended
<1>3. task' \in [Tasks -> Task]
  BY DEF CommandInv, TypeOK
<1> QED BY <1>1, <1>2, <1>3, ResultKept

\* Every action leaves the result of every running command on its way.
LEMMA StepResult == CommandInv /\ ResultInv /\ [Next]_vars => ResultInv'
<1> SUFFICES ASSUME CommandInv, ResultInv, [Next]_vars PROVE ResultInv'
  OBVIOUS
<1> USE DEF dbVars, serverVars, agentVars
<1>a. ASSUME NEW t \in Tasks
      PROVE  /\ task[t] \in Task
             /\ task[t].batch \in Seq(Commands)
             /\ task[t].acks \in Seq(Ack)
  BY DEF CommandInv, TypeOK, Task
<1>b. pendingAcks \in Seq(Ack) /\ runs \subseteq Run /\ faults \in Nat /\ <<>> \in Seq(Ack) /\ <<>> \in Seq(Commands)
  BY DEF CommandInv, TypeOK
<1>1. CASE \/ \E loop \in {"push", "poll"} : AgentGivesUp(loop)
           \/ AgentPushFails \/ Disconnect \/ ServerCrash \/ AgentCrash
  <2>1. faults' = faults + 1
    BY <1>1 DEF AgentGivesUp, AgentPushFails, Disconnect, ServerCrash, AgentCrash, SpendFault
  <2> QED BY <1>b, <2>1 DEF ResultInv
<1>2. ASSUME faults' = faults, faults # 0 PROVE ResultInv'
  BY <1>2 DEF ResultInv
<1>3. ASSUME faults = 0 PROVE \A t \in Tasks : PushOrder(t, task[t])
  BY <1>3 DEF ResultInv
<1>4. ASSUME NEW cs, NEW n, StartRuns(cs, n) PROVE HttpRunning \subseteq HttpRunning'
  BY <1>4 DEF StartRuns, HttpRunning
<1>5. CASE \/ \E c \in Commands : Enqueue(c) \/ CancelCommand(c) \/ ExpiryPasses(c)
           \/ \E r \in runs : FinishWsRunLost(r)
           \/ UNCHANGED vars
  <2>1. task' = task /\ awaiting' = awaiting /\ pendingAcks' = pendingAcks /\ faults' = faults
    BY <1>5 DEF Enqueue, CancelCommand, ExpiryPasses, FinishWsRunLost, vars
  <2>2. HttpRunning \subseteq HttpRunning'
    BY <1>5 DEF Enqueue, CancelCommand, ExpiryPasses, FinishWsRunLost, vars, HttpRunning
  <2>3. \A c \in Commands : status'[c] = "ack_running" => status[c] = "ack_running"
    BY <1>5 DEF Enqueue, Insert, CancelCommand, ExpiryPasses, FinishWsRunLost, vars, CommandInv, TypeOK
  <2>4. (HttpRunning \cup Ended(pendingAcks)) \subseteq (HttpRunning \cup Ended(pendingAcks))'
    BY <2>1, <2>2 DEF Ended
  <2>5. ASSUME faults = 0 PROVE LeftRunning(pendingAcks)' \subseteq HttpRunning'
    BY <2>1, <2>2, <2>5 DEF LeftRunning, ResultInv
  <2>6. CASE faults = 0
    BY <2>1, <2>3, <2>4, <2>5, <2>6, ResultAgent
  <2> QED BY <1>2, <2>1, <2>6
<1>6. ASSUME NEW r \in runs, NEW st \in {"success", "failure"}, FinishHttpRun(r, st), faults = 0 PROVE ResultInv'
  <2> DEFINE a == [cmd |-> r.cmd, st |-> st]
  <2>1. /\ task' = task /\ awaiting' = awaiting /\ status' = status
        /\ runs' = runs \ {r} /\ pendingAcks' = Append(pendingAcks, a)
    BY <1>6 DEF FinishHttpRun
  <2>2. a \in Ack /\ a.st \in Terminal /\ a.cmd = r.cmd
    BY <1>b DEF Ack, AckStatus, Terminal, Run
  <2> HIDE DEF a
  <2>3. /\ LeftRunning(Append(pendingAcks, a)) \subseteq LeftRunning(pendingAcks) \ {a.cmd}
        /\ Ended(pendingAcks) \cup {a.cmd} \subseteq Ended(Append(pendingAcks, a))
    BY <1>b, <2>2, AppendTerminal
  <2>4. LeftRunning(pendingAcks)' = LeftRunning(Append(pendingAcks, a))
        /\ Ended(pendingAcks)' = Ended(Append(pendingAcks, a))
    BY <2>1 DEF LeftRunning, Ended
  <2>5. HttpRunning \subseteq HttpRunning' \cup {a.cmd}
    BY <2>1, <2>2 DEF HttpRunning
  <2>6. LeftRunning(pendingAcks) \subseteq HttpRunning
    BY <1>6 DEF ResultInv
  <2>7. LeftRunning(pendingAcks)' \subseteq HttpRunning'
    BY <2>3, <2>4, <2>5, <2>6
  <2>8. HttpRunning \cup Ended(pendingAcks) \subseteq (HttpRunning \cup Ended(pendingAcks))'
    BY <2>3, <2>4, <2>5
  <2> QED BY <1>6, <2>1, <2>7, <2>8, ResultAgent
<1>7. ASSUME NEW t \in Tasks, NEW path \in Paths \ {"push"}, NEW pc \in Steps, NEW conn \in Nat, NEW acks \in Seq(Ack),
             NEW batch \in Seq(Commands), Begin(t, path, pc, conn, acks, batch),
             \A a \in Elements(acks) : a.st \in Terminal, pc \notin {"acks", "notify"} => acks = <<>>,
             pendingAcks' = pendingAcks, awaiting'["push"] = awaiting["push"], HttpRunning \subseteq HttpRunning',
             \A c \in Commands : status'[c] = "ack_running" => status[c] = "ack_running", faults = 0
      PROVE  ResultInv'
  <2> DEFINE k == [pc |-> pc, path |-> path, conn |-> conn, acks |-> acks, batch |-> batch]
  <2>1. Become(t, k) /\ task[t].pc = "idle"
    BY <1>7 DEF Begin, Idle
  <2>2. k \in Task /\ k.path # "push" /\ k.acks = acks /\ k.pc = pc
    BY DEF Task
  <2> HIDE DEF k
  <2>3. PushOrder(t, task[t]) /\ task[t].acks = <<>> /\ Unstored(task[t]) = <<>>
    BY <1>3, <1>7, <2>1 DEF PushOrder, Unstored
  <2>4. (\A a \in Elements(k.acks) : a.st \in Terminal) /\ (k.pc \notin {"acks", "notify"} => k.acks = <<>>)
    BY <1>7, <2>2
  <2>5. task' \in [Tasks -> Task] /\ task'[t] = k /\ \A u \in Tasks \ {t} : task'[u] = task[u]
    BY <2>1, <2>2 DEF Become, CommandInv, TypeOK
  <2>6. LeftRunning(k.acks) = {}
    BY <2>2, <2>4, NoRunningAcks DEF Task
  <2>7. PushOrder(t, k)'
    BY <2>2, <2>4, <2>6 DEF PushOrder
  <2>8. HttpRunning \cup Ended(pendingAcks) \subseteq (HttpRunning \cup Ended(pendingAcks))'
    BY <1>7 DEF Ended
  <2>9. LeftRunning(pendingAcks)' \subseteq HttpRunning'
    BY <1>7 DEF ResultInv, LeftRunning
  <2>10. \A u \in Tasks : \/ task'[u] = task[u] /\ (task[u].path = "push" => awaiting'["push"] = u)
                          \/ PushOrder(u, task[u])'
    <3> TAKE u \in Tasks
    <3>1. CASE u = t
      BY <2>5, <2>7, <3>1 DEF PushOrder
    <3>2. CASE u # t
      BY <1>3, <1>7, <2>5, <3>2 DEF PushOrder
    <3> QED BY <3>1, <3>2
  <2>11. ASSUME NEW u \in Tasks, NEW c \in Commands, task[u].path = "push", c \in Ended(Unstored(task[u]))
         PROVE  Awaited(c)'
    <3>1. u # t
      BY <2>3, <2>11, EmptyAcks
    <3> QED BY <2>5, <2>11, <3>1 DEF Awaited, Unstored, Ended
  <2> QED BY <1>7, <2>5, <2>8, <2>9, <2>10, <2>11, ResultKept
<1>8. ASSUME NEW r \in runs, NEW st \in {"success", "failure"}, NEW t \in Tasks, FinishWsRun(r, st, t), faults = 0
      PROVE  ResultInv'
  <2> DEFINE a == [cmd |-> r.cmd, st |-> st]
  <2>1. a \in Ack /\ a.st \in Terminal
    BY <1>b DEF Ack, AckStatus, Terminal, Run
  <2>2. Begin(t, "wsack", "acks", 0, <<a>>, <<>>)
        /\ pendingAcks' = pendingAcks /\ awaiting' = awaiting /\ status' = status
    BY <1>8 DEF FinishWsRun
  <2>3. HttpRunning \subseteq HttpRunning'
    BY <1>8 DEF FinishWsRun, HttpRunning
  <2> HIDE DEF a
  <2>4. <<a>> \in Seq(Ack) /\ Elements(<<a>>) = {a} /\ "wsack" \in Paths \ {"push"} /\ "acks" \in Steps /\ 0 \in Nat
    BY <2>1 DEF Elements, Paths, Steps
  <2> QED BY <1>b, <1>7, <1>8, <2>1, <2>2, <2>3, <2>4
<1>9. ASSUME faults = 0, NEW t \in Tasks,
             AgentPoll(t) \/ Register(t) \/ CleanupExpire(t) \/ \E c \in Commands : EnqueueAndPush(c, t)
      PROVE  ResultInv'
  <2>1. pendingAcks' = pendingAcks /\ runs' = runs /\ awaiting'["push"] = awaiting["push"]
    BY <1>9 DEF AgentPoll, Register, CleanupExpire, EnqueueAndPush, CommandInv, TypeOK
  <2>2. \A c \in Commands : status'[c] = "ack_running" => status[c] = "ack_running"
    BY <1>9 DEF AgentPoll, Register, CleanupExpire, EnqueueAndPush, Insert, CommandInv, TypeOK
  <2>3. HttpRunning \subseteq HttpRunning'
    BY <2>1 DEF HttpRunning
  <2>4. \E path \in Paths \ {"push"}, pc \in {"select", "expired", "hubpush"}, conn \in Nat, batch \in Seq(Commands) :
            Begin(t, path, pc, conn, <<>>, batch)
    <3>1. CASE AgentPoll(t)
      BY <1>b, <3>1 DEF AgentPoll, Paths
    <3>2. CASE Register(t)
      <4>1. connSeq + 1 \in Nat
        BY DEF CommandInv, TypeOK
      <4> QED BY <1>b, <3>2, <4>1 DEF Register, Paths
    <3>3. CASE CleanupExpire(t)
      <4>1. PICK s \in [1..Cardinality(Expirable) -> Expirable] : Begin(t, "cleanup", "expired", 0, <<>>, s)
        BY <3>3 DEF CleanupExpire
      <4>2. s \in Seq(Commands)
        BY SelectionsFacts DEF CommandInv
      <4> QED BY <4>1, <4>2 DEF Paths
    <3>4. CASE \E c \in Commands : EnqueueAndPush(c, t)
      <4>1. PICK c \in Commands : EnqueueAndPush(c, t)
        BY <3>4
      <4>2. <<c>> \in Seq(Commands)
        OBVIOUS
      <4> QED BY <4>1, <4>2 DEF EnqueueAndPush, Paths
    <3> QED BY <1>9, <3>1, <3>2, <3>3, <3>4
  <2>5. PICK path \in Paths \ {"push"}, pc \in {"select", "expired", "hubpush"}, conn \in Nat, batch \in Seq(Commands) :
            Begin(t, path, pc, conn, <<>>, batch)
    BY <2>4
  <2>6. pc \in Steps /\ \A a \in Elements(<<>>) : a.st \in Terminal
    BY EmptyAcks DEF Steps
  <2> QED BY <1>b, <1>7, <1>9, <2>1, <2>2, <2>3, <2>5, <2>6
<1>10. ASSUME faults = 0, NEW t \in Tasks, AgentPush(t) PROVE ResultInv'
  <2> DEFINE k == [pc |-> "acks", path |-> "push", conn |-> 0, acks |-> pendingAcks, batch |-> <<>>]
  <2>1. /\ Become(t, k) /\ pendingAcks' = <<>> /\ awaiting["push"] = NoTask /\ awaiting'["push"] = t
        /\ runs' = runs /\ status' = status
    BY <1>10 DEF AgentPush, Begin, CommandInv, TypeOK
  <2>2. k \in Task /\ k.path = "push" /\ k.acks = pendingAcks /\ k.pc = "acks"
    BY <1>b DEF Task, Steps, Paths
  <2> HIDE DEF k
  <2>3. \A u \in Tasks : PushOrder(u, task[u]) /\ task[u].path # "push"
    BY <1>3, <1>10, <2>1, CommandQueueAssumption DEF PushOrder
  <2>4. task'[t] = k /\ \A u \in Tasks \ {t} : task'[u] = task[u]
    BY <2>1 DEF Become, CommandInv, TypeOK
  <2>5. HttpRunning' = HttpRunning /\ Unstored(k) = pendingAcks
    BY <2>1, <2>2 DEF HttpRunning, Unstored
  <2>6. ASSUME NEW u \in Tasks PROVE PushOrder(u, task[u])'
    <3>1. CASE u = t
      <4>1. LeftRunning(k.acks) \subseteq HttpRunning
        BY <1>10, <2>2 DEF ResultInv
      <4> QED BY <2>1, <2>2, <2>4, <2>5, <3>1, <4>1 DEF PushOrder
    <3>2. CASE u # t
      <4>1. task[u].acks \in Seq(Ack) /\ \A a \in Elements(task[u].acks) : a.st \in Terminal
        BY <1>a, <2>3 DEF PushOrder
      <4>2. LeftRunning(task[u].acks) = {}
        BY <4>1, NoRunningAcks
      <4> QED BY <2>3, <2>4, <3>2, <4>2 DEF PushOrder
    <3> QED BY <3>1, <3>2
  <2>7. ASSUME NEW c \in Commands, status'[c] = "ack_running" PROVE Awaited(c)'
    <3>1. Awaited(c)
      BY <1>10, <2>1, <2>7 DEF ResultInv
    <3>2. c \in HttpRunning \/ c \in Ended(pendingAcks)
      BY <2>3, <3>1 DEF Awaited
    <3>3. CASE c \in HttpRunning
      BY <2>5, <3>3 DEF Awaited
    <3>4. CASE c \in Ended(pendingAcks)
      <4>1. task'[t].path = "push" /\ c \in Ended(Unstored(task'[t]))
        BY <2>2, <2>4, <2>5, <3>4
      <4> QED BY <4>1 DEF Awaited, Unstored, Ended
    <3> QED BY <3>2, <3>3, <3>4
  <2>8. LeftRunning(pendingAcks)' \subseteq HttpRunning'
    BY <2>1, EmptyAcks DEF LeftRunning
  <2> QED BY <2>6, <2>7, <2>8 DEF ResultInv
<1>11. ASSUME faults = 0, NEW t \in Tasks, ProcessAckUpdate(t) PROVE ResultInv'
  <2>1. PICK j \in Task : j = task[t] /\ j.pc = "acks" /\ j.acks \in Seq(Ack) /\ j.acks # <<>> /\ PushOrder(t, j)
    BY <1>a, <1>3, <1>11 DEF ProcessAckUpdate
  <2> DEFINE h == Head(j.acks)
             r == Tail(j.acks)
  <2>2. /\ h \in Ack /\ r \in Seq(Ack)
        /\ LeftRunning(r) \subseteq LeftRunning(j.acks)
        /\ Ended(r) \subseteq Ended(j.acks)
        /\ \A c \in Ended(j.acks) : c \in Ended(r) \/ (c = h.cmd /\ h.st \in Terminal)
        /\ h.st = "ack_running" => h.cmd \in LeftRunning(j.acks) \cup Ended(r)
    BY <2>1, TailOfAcks
  <2>3. h \in Elements(j.acks) /\ Elements(r) \subseteq Elements(j.acks)
    BY <2>1, ElementsFacts
  <2>4. pendingAcks' = pendingAcks /\ awaiting' = awaiting /\ runs' = runs /\ status' = [status EXCEPT ![h.cmd] = h.st]
    BY <1>11, <2>1 DEF ProcessAckUpdate
  <2>5. PICK k \in Task : /\ Become(t, k) /\ k.path = j.path /\ Unstored(k) = r /\ k.pc \in {"acks", "notify"}
                          /\ k.acks = j.acks \/ k.acks = r
    <3>1. CASE h.st \in Terminal
      <4> DEFINE i == [j EXCEPT !.pc = "notify"]
      <4>1. Become(t, i)
        BY <1>11, <2>1, <3>1 DEF ProcessAckUpdate, Goto
      <4>2. i \in Task /\ i.path = j.path /\ i.pc = "notify" /\ i.acks = j.acks
        BY DEF Task, Steps
      <4> HIDE DEF i
      <4> QED BY <4>1, <4>2 DEF Unstored
    <3>2. CASE h.st \notin Terminal
      <4> DEFINE i == [j EXCEPT !.acks = r]
      <4>1. Become(t, i)
        BY <1>11, <2>1, <3>2 DEF ProcessAckUpdate
      <4>2. i \in Task /\ i.path = j.path /\ i.pc = "acks" /\ i.acks = r
        BY <2>1, <2>2 DEF Task
      <4> HIDE DEF i
      <4> QED BY <4>1, <4>2 DEF Unstored
    <3> QED BY <3>1, <3>2
  <2> HIDE DEF h, r
  <2>6. task' \in [Tasks -> Task] /\ task'[t] = k /\ \A u \in Tasks \ {t} : task'[u] = task[u]
    BY <2>5 DEF Become, CommandInv, TypeOK
  <2>7. HttpRunning' = HttpRunning /\ Ended(pendingAcks)' = Ended(pendingAcks)
    BY <2>4 DEF HttpRunning, Ended
  <2>8. PushOrder(t, k)'
    <3>1. LeftRunning(k.acks) \subseteq HttpRunning \cup Ended(pendingAcks)
      BY <2>1, <2>2, <2>5 DEF PushOrder
    <3>2. k.path = "push" => awaiting["push"] = t
      BY <2>1, <2>5 DEF PushOrder
    <3>3. k.path # "push" => \A a \in Elements(k.acks) : a.st \in Terminal
      BY <2>1, <2>3, <2>5 DEF PushOrder
    <3> QED BY <2>4, <2>5, <2>7, <3>1, <3>2, <3>3 DEF PushOrder
  <2>9. \A u \in Tasks : \/ task'[u] = task[u] /\ (task[u].path = "push" => awaiting'["push"] = u)
                         \/ PushOrder(u, task[u])'
    <3> TAKE u \in Tasks
    <3>1. CASE u = t
      BY <2>6, <2>8, <3>1 DEF PushOrder
    <3>2. CASE u # t
      BY <1>3, <1>11, <2>4, <2>6, <3>2 DEF PushOrder
    <3> QED BY <3>1, <3>2
  <2>10. ASSUME NEW c \in Ended(r), k.path = "push" PROVE Awaited(c)'
    <3>1. task'[t].path = "push" /\ c \in Ended(Unstored(task'[t]))
      BY <2>5, <2>6, <2>10
    <3> QED BY <3>1 DEF Awaited, Unstored, Ended
  <2>11. ASSUME NEW c \in Commands, status'[c] = "ack_running" PROVE status[c] = "ack_running" \/ Awaited(c)'
    <3>1. CASE c # h.cmd
      BY <2>4, <2>11, <3>1 DEF CommandInv, TypeOK
    <3>2. CASE c = h.cmd
      <4>1. h.st = "ack_running"
        BY <2>2, <2>4, <2>11, <3>2 DEF CommandInv, TypeOK, Ack
      <4>2. j.path = "push"
        BY <2>1, <2>3, <4>1 DEF PushOrder, Terminal
      <4>3. CASE c \in Ended(r)
        BY <2>5, <2>10, <4>2, <4>3
      <4>4. CASE c \in LeftRunning(j.acks)
        <5>1. c \in HttpRunning \cup Ended(pendingAcks)
          BY <2>1, <4>4 DEF PushOrder
        <5> QED BY <2>7, <5>1 DEF Awaited
      <4> QED BY <2>2, <3>2, <4>1, <4>3, <4>4
    <3> QED BY <3>1, <3>2
  <2>12. ASSUME NEW u \in Tasks, NEW c \in Commands, task[u].path = "push", c \in Ended(Unstored(task[u])),
                status'[c] = "ack_running"
         PROVE  Awaited(c)'
    <3>1. CASE u # t
      BY <2>6, <2>12, <3>1 DEF Awaited, Unstored, Ended
    <3>2. CASE u = t
      <4>1. c \in Ended(j.acks)
        BY <2>1, <2>12, <3>2 DEF Unstored
      <4>2. ~(c = h.cmd /\ h.st \in Terminal)
        <5>1. c = h.cmd => status'[c] = h.st
          BY <2>4 DEF CommandInv, TypeOK
        <5> QED BY <2>12, <5>1 DEF Terminal
      <4> QED BY <2>1, <2>2, <2>5, <2>10, <2>12, <3>2, <4>1, <4>2
    <3> QED BY <3>1, <3>2
  <2>13. HttpRunning \cup Ended(pendingAcks) \subseteq (HttpRunning \cup Ended(pendingAcks))'
    BY <2>7
  <2>14. LeftRunning(pendingAcks)' \subseteq HttpRunning'
    BY <1>11, <2>4, <2>7 DEF ResultInv, LeftRunning
  <2> QED BY <1>11, <2>6, <2>9, <2>11, <2>12, <2>13, <2>14, ResultKept
<1>12. ASSUME faults = 0, NEW t \in Tasks, ProcessAckNotify(t) PROVE ResultInv'
  <2>1. PICK j \in Task : j = task[t] /\ j.pc = "notify" /\ j.acks \in Seq(Ack) /\ j.acks # <<>> /\ PushOrder(t, j)
    BY <1>a, <1>3, <1>12 DEF ProcessAckNotify, CommandInv, TasksCarry, Carries
  <2> DEFINE r == Tail(j.acks)
             k == [j EXCEPT !.pc = "acks", !.acks = r]
  <2>2. Become(t, k) /\ pendingAcks' = pendingAcks /\ awaiting' = awaiting /\ runs' = runs /\ status' = status
    BY <1>12, <2>1 DEF ProcessAckNotify
  <2>3. r \in Seq(Ack) /\ LeftRunning(r) \subseteq LeftRunning(j.acks) /\ Elements(r) \subseteq Elements(j.acks)
    BY <2>1, TailOfAcks, ElementsFacts
  <2>4. k \in Task /\ k.path = j.path /\ k.acks = r /\ k.pc = "acks" /\ Unstored(k) = r /\ Unstored(j) = r
    BY <2>1, <2>3 DEF Task, Steps, Unstored
  <2> HIDE DEF r, k
  <2>5. task' \in [Tasks -> Task] /\ task'[t] = k /\ \A u \in Tasks \ {t} : task'[u] = task[u]
    BY <2>2, <2>4 DEF Become, CommandInv, TypeOK
  <2>6. HttpRunning' = HttpRunning /\ Ended(pendingAcks)' = Ended(pendingAcks)
    BY <2>2 DEF HttpRunning, Ended
  <2>7. PushOrder(t, k)'
    BY <2>1, <2>2, <2>3, <2>4, <2>6 DEF PushOrder
  <2>8. \A u \in Tasks : \/ task'[u] = task[u] /\ (task[u].path = "push" => awaiting'["push"] = u)
                         \/ PushOrder(u, task[u])'
    <3> TAKE u \in Tasks
    <3>1. CASE u = t
      BY <2>5, <2>7, <3>1 DEF PushOrder
    <3>2. CASE u # t
      BY <1>3, <1>12, <2>2, <2>5, <3>2 DEF PushOrder
    <3> QED BY <3>1, <3>2
  <2>9. ASSUME NEW u \in Tasks, NEW c \in Commands, task[u].path = "push", c \in Ended(Unstored(task[u]))
        PROVE  Awaited(c)'
    <3>1. task'[u].path = "push" /\ Unstored(task'[u]) = Unstored(task[u])
      BY <2>1, <2>4, <2>5, <2>9
    <3> QED BY <2>9, <3>1 DEF Awaited, Unstored, Ended
  <2>10. LeftRunning(pendingAcks)' \subseteq HttpRunning'
    BY <1>12, <2>2, <2>6 DEF ResultInv, LeftRunning
  <2>11. HttpRunning \cup Ended(pendingAcks) \subseteq (HttpRunning \cup Ended(pendingAcks))'
    BY <2>6
  <2> QED BY <1>12, <2>2, <2>5, <2>8, <2>9, <2>10, <2>11, ResultKept
<1>13. ASSUME faults = 0, NEW t \in Tasks, NEW k \in Task, Become(t, k), task[t].acks = <<>>, k.acks = <<>>,
              k.path = "push" => task[t].path = "push", pendingAcks' = pendingAcks,
              awaiting'["push"] = awaiting["push"], HttpRunning \subseteq HttpRunning',
              \A c \in Commands : status'[c] = "ack_running" => status[c] = "ack_running", task[t].pc # "notify"
       PROVE  ResultInv'
  <2>1. Unstored(task[t]) = <<>>
    BY <1>13 DEF Unstored
  <2>2. task' \in [Tasks -> Task] /\ task'[t] = k /\ \A u \in Tasks \ {t} : task'[u] = task[u]
    BY <1>13 DEF Become, CommandInv, TypeOK
  <2>3. PushOrder(t, task[t])
    BY <1>3, <1>13
  <2>4. PushOrder(t, k)'
    BY <1>13, <2>3, EmptyAcks DEF PushOrder
  <2>5. \A u \in Tasks : \/ task'[u] = task[u] /\ (task[u].path = "push" => awaiting'["push"] = u)
                         \/ PushOrder(u, task[u])'
    <3> TAKE u \in Tasks
    <3>1. CASE u = t
      BY <2>2, <2>4, <3>1 DEF PushOrder
    <3>2. CASE u # t
      BY <1>3, <1>13, <2>2, <3>2 DEF PushOrder
    <3> QED BY <3>1, <3>2
  <2>6. ASSUME NEW u \in Tasks, NEW c \in Commands, task[u].path = "push", c \in Ended(Unstored(task[u]))
        PROVE  Awaited(c)'
    <3>1. u # t
      BY <2>1, <2>6, EmptyAcks
    <3> QED BY <2>2, <2>6, <3>1 DEF Awaited, Unstored, Ended
  <2>7. HttpRunning \cup Ended(pendingAcks) \subseteq (HttpRunning \cup Ended(pendingAcks))'
    BY <1>13 DEF Ended
  <2>8. LeftRunning(pendingAcks)' \subseteq HttpRunning'
    BY <1>13 DEF ResultInv, LeftRunning
  <2> QED BY <1>13, <2>2, <2>5, <2>6, <2>7, <2>8, ResultKept
<1>14. ASSUME faults = 0, NEW t \in Tasks,
              ProcessAcksDone(t) \/ SelectPending(t) \/ MarkSent(t) \/ ReplyDrain(t) \/ HubPush(t) \/ CleanupNotify(t)
       PROVE  ResultInv'
  <2>1. task[t].acks = <<>> /\ task[t].pc # "notify"
    BY <1>3, <1>14 DEF PushOrder, ProcessAcksDone, SelectPending, MarkSent, ReplyDrain, HubPush, CleanupNotify
  <2>2. pendingAcks' = pendingAcks /\ awaiting' = awaiting
    BY <1>14 DEF ProcessAcksDone, SelectPending, MarkSent, ReplyDrain, HubPush, CleanupNotify
  <2>3. runs' = runs \/ \E cs, n : StartRuns(cs, n)
    BY <1>14 DEF ProcessAcksDone, SelectPending, MarkSent, ReplyDrain, HubPush, CleanupNotify
  <2>4. HttpRunning \subseteq HttpRunning'
    <3>1. CASE runs' = runs
      BY <3>1 DEF HttpRunning
    <3> QED BY <1>4, <2>3, <3>1
  <2>5. \A c \in Commands : status'[c] = "ack_running" => status[c] = "ack_running"
    BY <1>14 DEF ProcessAcksDone, SelectPending, MarkSent, ReplyDrain, HubPush, CleanupNotify
  <2>6. PICK j \in Task : j = task[t] /\ j.batch \in Seq(Commands) /\ Carries(j)
    BY <1>a DEF CommandInv, TasksCarry
  <2>7. \E k \in Task : Become(t, k) /\ k.acks = <<>> /\ (k.path = "push" => j.path = "push")
    <3>1. ASSUME NEW pc \in Steps
          PROVE  [j EXCEPT !.pc = pc] \in Task /\ [j EXCEPT !.pc = pc].acks = j.acks /\ [j EXCEPT !.pc = pc].path = j.path
      BY DEF Task
    <3>3. CASE End(t)
      <4>1. IdleTask \in Task /\ IdleTask.acks = <<>> /\ IdleTask.path = "none"
        BY DEF IdleTask, Task, Steps, Paths
      <4> QED BY <3>3, <4>1 DEF End
    <3>4. CASE \E pc \in {"select", "reply", "mark"} : Goto(t, pc)
      <4>1. PICK pc \in Steps : Become(t, [j EXCEPT !.pc = pc])
        BY <2>6, <3>4 DEF Goto, Steps
      <4> QED BY <2>1, <2>6, <3>1, <4>1
    <3>5. CASE SelectPending(t)
      <4>1. PICK s \in Selections : Become(t, [j EXCEPT !.batch = s, !.pc = IF s = <<>> THEN "reply" ELSE "mark"])
        BY <2>6, <3>5 DEF SelectPending
      <4>2. s \in Seq(Commands)
        BY SelectionsFacts DEF CommandInv
      <4>3. PICK pc \in Steps : pc = IF s = <<>> THEN "reply" ELSE "mark"
        BY DEF Steps
      <4> DEFINE i == [j EXCEPT !.batch = s, !.pc = pc]
      <4>4. Become(t, i)
        BY <4>1, <4>3
      <4>5. i \in Task /\ i.acks = j.acks /\ i.path = j.path
        BY <4>2 DEF Task
      <4> HIDE DEF i
      <4> QED BY <2>1, <2>6, <4>4, <4>5
    <3>6. CASE CleanupNotify(t)
      <4>1. End(t) \/ Become(t, [j EXCEPT !.batch = Tail(j.batch)])
        BY <2>6, <3>6 DEF CleanupNotify
      <4>2. j.batch # <<>>
        BY <2>6, <3>6 DEF CleanupNotify, Carries
      <4>3. Tail(j.batch) \in Seq(Commands)
        BY <2>6, <4>2, ElementsFacts
      <4> DEFINE i == [j EXCEPT !.batch = Tail(j.batch)]
      <4>4. i \in Task /\ i.acks = j.acks /\ i.path = j.path
        BY <4>3 DEF Task
      <4> HIDE DEF i
      <4>5. CASE Become(t, i)
        BY <2>1, <2>6, <4>4, <4>5
      <4> QED BY <3>3, <4>1, <4>5 DEF i
    <3> QED
      BY <1>14, <3>3, <3>4, <3>5, <3>6 DEF ProcessAcksDone, MarkSent, ReplyDrain, HubPush
  <2> QED BY <1>13, <1>14, <2>1, <2>2, <2>4, <2>5, <2>6, <2>7
<1>15. ASSUME faults = 0, NEW t \in Tasks, ReplyHttp(t) PROVE ResultInv'
  <2>1. PICK j \in Task : j = task[t] /\ j.batch \in Seq(Commands) /\ PushOrder(t, j)
    BY <1>a, <1>3, <1>15
  <2>2. j.pc = "reply" /\ j.acks = <<>> /\ Unstored(j) = <<>> /\ j.path \in {"push", "poll"} /\ status' = status /\ End(t)
    BY <1>15, <2>1 DEF ReplyHttp, PushOrder, Unstored
  <2>3. task' \in [Tasks -> Task] /\ task'[t] = IdleTask /\ \A u \in Tasks \ {t} : task'[u] = task[u]
    BY <2>2 DEF End, Become, IdleTask, Task, Steps, Paths, CommandInv, TypeOK
  <2>4. /\ LeftRunning(pendingAcks)' \subseteq HttpRunning'
        /\ HttpRunning \cup Ended(pendingAcks) \subseteq (HttpRunning \cup Ended(pendingAcks))'
        /\ \A u \in Tasks \ {t} : task[u].path = "push" => awaiting'["push"] = u
    <3>1. LeftRunning(pendingAcks) \subseteq HttpRunning
      BY <1>15 DEF ResultInv
    <3>2. \A u \in Tasks : task[u].path = "push" => awaiting["push"] = u
      BY <1>3, <1>15 DEF PushOrder
    <3>3. CASE awaiting[j.path] # t
      <4>1. UNCHANGED agentVars
        BY <1>15, <2>1, <3>3 DEF ReplyHttp
      <4> QED BY <3>1, <3>2, <4>1 DEF LeftRunning, Ended, HttpRunning
    <3>4. CASE awaiting[j.path] = t
      <4>1. HandleCommands(j.batch) /\ awaiting' = [awaiting EXCEPT ![j.path] = NoTask]
        BY <1>15, <2>1, <3>4 DEF ReplyHttp
      <4> DEFINE n == [i \in 1..Len(j.batch) |-> [cmd |-> j.batch[i], st |-> "ack_running"]]
      <4>2. pendingAcks' = pendingAcks \o n
        BY <4>1 DEF HandleCommands
      <4>3. /\ LeftRunning(pendingAcks \o n) \subseteq LeftRunning(pendingAcks) \cup Elements(j.batch)
            /\ Ended(pendingAcks) \subseteq Ended(pendingAcks \o n)
        BY <1>b, <2>1, AppendRunning
      <4> HIDE DEF n
      <4>4. Ended(pendingAcks)' = Ended(pendingAcks \o n) /\ LeftRunning(pendingAcks)' = LeftRunning(pendingAcks \o n)
        BY <4>2 DEF Ended, LeftRunning
      <4>5. Elements(j.batch) \subseteq Commands
        BY <2>1, ElementsFacts
      <4>6. HttpRunning \cup Elements(j.batch) \subseteq HttpRunning'
        <5>1. \A c \in Elements(j.batch) : [cmd |-> c, no |-> starts[c] + 1, conn |-> 0] \in runs'
          BY <4>1 DEF HandleCommands, StartRuns
        <5>2. Elements(j.batch) \subseteq HttpRunning'
          BY <4>5, <5>1 DEF HttpRunning
        <5>3. HttpRunning \subseteq HttpRunning'
          BY <4>1, <1>4 DEF HandleCommands
        <5> QED BY <5>2, <5>3
      <4>7. ASSUME NEW u \in Tasks \ {t}, task[u].path = "push" PROVE awaiting'["push"] = u
        <5>1. j.path # "push"
          BY <3>2, <3>4, <4>7
        <5> QED BY <2>2, <3>2, <4>1, <4>7, <5>1 DEF CommandInv, TypeOK
      <4> QED BY <3>1, <4>3, <4>4, <4>6, <4>7
    <3> QED BY <3>3, <3>4
  <2>5. PushOrder(t, IdleTask)'
    BY EmptyAcks DEF PushOrder, IdleTask
  <2>6. \A u \in Tasks : \/ task'[u] = task[u] /\ (task[u].path = "push" => awaiting'["push"] = u)
                         \/ PushOrder(u, task[u])'
    BY <2>3, <2>4, <2>5 DEF PushOrder
  <2>7. ASSUME NEW u \in Tasks, NEW c \in Commands, task[u].path = "push", c \in Ended(Unstored(task[u]))
        PROVE  Awaited(c)'
    <3>1. u # t
      BY <2>1, <2>2, <2>7, EmptyAcks
    <3> QED BY <2>3, <2>7, <3>1 DEF Awaited, Unstored, Ended
  <2> QED BY <1>15, <2>2, <2>3, <2>4, <2>6, <2>7, ResultKept
<1>16. ASSUME NEW r \in runs, Finish(r) PROVE ResultInv'
  <2>1. faults' = faults
    BY <1>16 DEF Finish, FinishHttpRun, FinishWsRun, FinishWsRunLost
  <2> QED BY <1>2, <1>5, <1>6, <1>8, <1>16, <2>1 DEF Finish
<1>17. ASSUME NEW t \in Tasks, TaskStep(t) PROVE ResultInv'
  <2>1. faults' = faults
    BY <1>17 DEF TaskStep, ProcessAckUpdate, ProcessAckNotify, ProcessAcksDone, SelectPending, MarkSent, ReplyHttp,
                 ReplyDrain, HubPush, CleanupNotify
  <2> QED BY <1>2, <1>11, <1>12, <1>14, <1>15, <1>17, <2>1 DEF TaskStep
<1>18. ASSUME NEW t \in Tasks, AgentPush(t) \/ AgentPoll(t) \/ Register(t) \/ CleanupExpire(t)
                               \/ \E c \in Commands : EnqueueAndPush(c, t)
       PROVE  ResultInv'
  <2>1. faults' = faults
    BY <1>18 DEF AgentPush, AgentPoll, Register, CleanupExpire, EnqueueAndPush
  <2> QED BY <1>2, <1>9, <1>10, <1>18, <2>1
<1> QED
  BY <1>1, <1>5, <1>16, <1>17, <1>18 DEF Next

\* A row in 'ack_running', which the expiry job leaves alone, always has its result on
\* the way as long as nothing was lost: one push is in flight at a time, so the acks of
\* a command reach its row in the order the agent wrote them.
THEOREM ResultArrives == Spec => []ResultIsOnItsWay
<1>1. Init => ResultInv
  BY EmptyAcks DEF Init, ResultInv, PushOrder, IdleTask, HttpRunning
<1>2. CommandInv /\ ResultInv => ResultIsOnItsWay
  <2> SUFFICES ASSUME CommandInv, ResultInv, NEW c \in Commands, status[c] = "ack_running", faults = 0
               PROVE  \/ \E r \in runs : r.cmd = c
                      \/ \E a \in Elements(pendingAcks) : a.cmd = c /\ a.st \in Terminal
                      \/ \E t \in Tasks : \E a \in Elements(task[t].acks) : a.cmd = c /\ a.st \in Terminal
    BY DEF ResultIsOnItsWay
  <2>1. Awaited(c)
    BY DEF ResultInv
  <2>2. CASE c \in HttpRunning
    BY <2>2 DEF HttpRunning
  <2>3. CASE c \in Ended(pendingAcks)
    BY <2>3 DEF Ended, Elements
  <2>4. ASSUME NEW t \in Tasks, c \in Ended(Unstored(task[t]))
        PROVE  \E a \in Elements(task[t].acks) : a.cmd = c /\ a.st \in Terminal
    <3>1. task[t].acks \in Seq(Ack) /\ (task[t].pc = "notify" => task[t].acks # <<>>)
      BY DEF CommandInv, TypeOK, Task, TasksCarry, Carries
    <3>2. c \in Ended(task[t].acks)
      BY <2>4, <3>1, TailOfAcks DEF Unstored
    <3> QED BY <3>2 DEF Ended, Elements
  <2> QED BY <2>1, <2>2, <2>3, <2>4 DEF Awaited
<1>3. CommandInv /\ ResultInv /\ [Next]_vars => ResultInv'
  BY StepResult
<1> QED BY CommandSafety, <1>1, <1>2, <1>3, PTL DEF Spec

=============================================================================
