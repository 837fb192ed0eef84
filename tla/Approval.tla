------------------------------- MODULE Approval -------------------------------
(***************************************************************************)
(* ONE two-step approval request: its pending_approvals row, the requests  *)
(* of the users who approve, deny or cancel it, and the execution of what  *)
(* it asks for.  A task is one HTTP request; an action is the code from    *)
(* one await to the next.  approve claims the row with a conditional       *)
(* UPDATE; deny, cancel and the expiry write it by id alone.  sweepExpired *)
(* has no caller, so an untouched request stays 'pending'.                 *)
(***************************************************************************)
EXTENDS Naturals, FiniteSets

CONSTANTS
    Users,      \* users of the tenant
    Requester,  \* the one who made the request
    Effects,    \* the devices it is for (one command each), or its single write
    Tasks,      \* HTTP requests in flight at the same time
    MaxEdits,   \* bound: modifications of the script
    MaxCrashes  \* bound: crashes of the server

Nobody == "nobody"

ASSUME ApprovalAssumption ==
    /\ Requester \in Users
    /\ Nobody \notin Users
    /\ MaxEdits \in Nat
    /\ MaxCrashes \in Nat

\* A batch of commands, a manual script run with and without a content hash, and the
\* requests that write once or twice and give up at the first error (uninstall,
\* setting, user management).  The route of the scripts puts a hash; a request filed
\* before there was one, or through POST /api/commands with the parameters of its
\* client, may have none.
Kinds == {"batch", "script", "bare", "direct"}

ScriptRuns == {"script", "bare"}

Status == {"absent", "pending", "approved", "denied", "executed", "expired", "cancelled"}

Steps == {"idle", "expire", "claim", "check", "load", "run", "deny", "cancel"}

Task == [pc : Steps, user : Users, todo : SUBSET Effects, ver : Nat]

VARIABLES
    status,     \* pending_approvals.status
    reviewer,   \* pending_approvals.reviewed_by
    kind,       \* pending_approvals.request_type and payload.action
    due,        \* expires_at has passed
    content,    \* scripts.content, as the number of its version
    lateEdit,   \* history: an edit fell between the comparison and executeNow's read
    asked,      \* the version at the request: payload.params.contentSha256, if it has one
    task,       \* [Tasks -> Task]
    claimer,    \* history: whose claim succeeded
    refused,    \* history: refused before any claim
    effects,    \* history: how often each effect happened
    atClaim,    \* history: the version of the script when the claim succeeded
    ran,        \* history: versions of the script that were sent to a device
    crashes     \* history: crashes so far

rowVars == <<status, reviewer, kind, due, asked>>
histVars == <<claimer, refused, atClaim, effects, ran>>
scriptVars == <<content, lateEdit>>
vars == <<status, reviewer, kind, due, content, lateEdit, asked, task, claimer, refused, effects,
          atClaim, ran, crashes>>

IdleTask == [pc |-> "idle", user |-> Requester, todo |-> {}, ver |-> 0]

Init ==
    /\ status = "absent"
    /\ reviewer = Nobody
    /\ kind \in Kinds
    /\ due = FALSE
    /\ content = 0
    /\ lateEdit = FALSE
    /\ asked = 0
    /\ task = [t \in Tasks |-> IdleTask]
    /\ claimer = Nobody
    /\ refused = FALSE
    /\ effects = [e \in Effects |-> 0]
    /\ atClaim = 0
    /\ ran = {}
    /\ crashes = 0

Become(t, k) == task' = [task EXCEPT ![t] = k]

Goto(t, pc) == Become(t, [task[t] EXCEPT !.pc = pc])

End(t) == Become(t, IdleTask)

Begin(t, u, pc) ==
    /\ task[t].pc = "idle"
    /\ Become(t, [IdleTask EXCEPT !.pc = pc, !.user = u])

-----------------------------------------------------------------------------

Create ==
    /\ status = "absent"
    /\ status' = "pending"
    /\ asked' = content
    /\ UNCHANGED <<reviewer, kind, due, scriptVars, task, histVars, crashes>>

\* EXPIRY_MINUTES go by.
DeadlinePasses ==
    /\ status # "absent"
    /\ ~due
    /\ due' = TRUE
    /\ UNCHANGED <<status, reviewer, kind, asked, scriptVars, task, histVars, crashes>>

EditScript ==
    /\ content < MaxEdits
    /\ content' = content + 1
    /\ lateEdit' = (lateEdit \/ \E t \in Tasks : task[t].pc = "load")
    /\ UNCHANGED <<rowVars, task, histVars, crashes>>

\* The read and the checks of approve, deny and cancel.  Everybody else gets an
\* error and nothing changes.
Approve(t, u) ==
    /\ status = "pending"
    /\ due \/ u # Requester
    /\ Begin(t, u, IF due THEN "expire" ELSE "claim")
    /\ UNCHANGED <<rowVars, scriptVars, histVars, crashes>>

Deny(t, u) ==
    /\ status = "pending"
    /\ u # Requester
    /\ Begin(t, u, "deny")
    /\ UNCHANGED <<rowVars, scriptVars, histVars, crashes>>

Cancel(t) ==
    /\ status = "pending"
    /\ Begin(t, Requester, "cancel")
    /\ UNCHANGED <<rowVars, scriptVars, histVars, crashes>>

\* deny, cancel and the 410 of approve: UPDATE ... WHERE id, unconditional.
Refusal(pc) == CASE pc = "deny" -> "denied" [] pc = "cancel" -> "cancelled" [] OTHER -> "expired"

WriteRefusal(t) ==
    LET pc == task[t].pc IN
    /\ pc \in {"deny", "cancel", "expire"}
    /\ status' = Refusal(pc)
    /\ reviewer' = IF pc = "deny" THEN task[t].user ELSE reviewer
    /\ refused' = (refused \/ claimer = Nobody)
    /\ End(t)
    /\ UNCHANGED <<kind, due, asked, scriptVars, claimer, atClaim, effects, ran, crashes>>

\* Where the execution of a request starts.
FirstStep == IF kind \in ScriptRuns THEN "check" ELSE "run"

\* Variant: the row is claimed by id, like a refusal.
ClaimAnyway(t) ==
    /\ task[t].pc = "claim"
    /\ status' = "approved"
    /\ reviewer' = task[t].user
    /\ claimer' = task[t].user
    /\ atClaim' = content
    /\ Become(t, [task[t] EXCEPT !.pc = FirstStep, !.todo = Effects])
    /\ UNCHANGED <<kind, due, asked, scriptVars, refused, effects, ran, crashes>>

\* UPDATE ... WHERE id AND status = 'pending'.
Claim(t) ==
    /\ task[t].pc = "claim"
    /\ IF status = "pending"
       THEN /\ status' = "approved"
            /\ reviewer' = task[t].user
            /\ claimer' = task[t].user
            /\ atClaim' = content
            /\ Become(t, [task[t] EXCEPT !.pc = FirstStep, !.todo = Effects])
       ELSE End(t) /\ UNCHANGED <<status, reviewer, claimer, atClaim>>
    /\ UNCHANGED <<kind, due, asked, scriptVars, refused, effects, ran, crashes>>

\* Variant: the approver's version is not compared.
SkipCheck(t) ==
    /\ task[t].pc = "check"
    /\ \E left \in SUBSET Effects :
          IF left # {}
          THEN Become(t, [task[t] EXCEPT !.pc = "load", !.todo = left])
          ELSE End(t)
    /\ UNCHANGED <<rowVars, scriptVars, histVars, crashes>>

\* _executeManualScript: the devices on which the requester may still execute; and
\* a hash, if the request carries one, must be that of the script now.
CheckScript(t) ==
    /\ task[t].pc = "check"
    /\ \E left \in SUBSET Effects :
          IF left # {} /\ (kind = "script" => content = asked)
          THEN Become(t, [task[t] EXCEPT !.pc = "load", !.todo = left])
          ELSE End(t)
    /\ UNCHANGED <<rowVars, scriptVars, histVars, crashes>>

\* executeNow reads the script once, for every device; it may be gone.
LoadScript(t) ==
    /\ task[t].pc = "load"
    /\ Become(t, [task[t] EXCEPT !.pc = "run", !.ver = content]) \/ End(t)
    /\ UNCHANGED <<rowVars, scriptVars, histVars, crashes>>

\* One command or write of the request.
ExecuteOne(t, e) ==
    /\ task[t].pc = "run"
    /\ e \in task[t].todo
    /\ effects' = [effects EXCEPT ![e] = @ + 1]
    /\ ran' = IF kind \in ScriptRuns THEN ran \cup {task[t].ver} ELSE ran
    /\ Become(t, [task[t] EXCEPT !.todo = @ \ {e}])
    /\ UNCHANGED <<rowVars, scriptVars, claimer, refused, atClaim, crashes>>

\* It has no effect: a batch logs the error and goes on, a device or row that is
\* gone and a setting that is not supported are passed over; any other error
\* throws, and the request stays 'approved'.
ExecuteFails(t, e) ==
    /\ task[t].pc = "run"
    /\ e \in task[t].todo
    /\ \/ Become(t, [task[t] EXCEPT !.todo = @ \ {e}])
       \/ kind # "batch" /\ End(t)
    /\ UNCHANGED <<rowVars, scriptVars, histVars, crashes>>

RecordExecuted(t) ==
    /\ task[t].pc = "run"
    /\ task[t].todo = {}
    /\ status' = "executed"
    /\ End(t)
    /\ UNCHANGED <<reviewer, kind, due, asked, scriptVars, histVars, crashes>>

ServerCrash ==
    /\ crashes < MaxCrashes
    /\ crashes' = crashes + 1
    /\ task' = [t \in Tasks |-> IdleTask]
    /\ UNCHANGED <<rowVars, scriptVars, histVars>>

-----------------------------------------------------------------------------

TaskStep(t) ==
    \/ WriteRefusal(t) \/ Claim(t) \/ CheckScript(t) \/ LoadScript(t) \/ RecordExecuted(t)
    \/ \E e \in Effects : ExecuteOne(t, e) \/ ExecuteFails(t, e)

Next ==
    \/ Create \/ DeadlinePasses \/ EditScript \/ ServerCrash
    \/ \E t \in Tasks, u \in Users : Approve(t, u) \/ Deny(t, u)
    \/ \E t \in Tasks : Cancel(t) \/ TaskStep(t)

Spec == Init /\ [][Next]_vars

-----------------------------------------------------------------------------
(* Properties *)

\* Every column and every request in flight holds a value of its type.
TypeOK ==
    /\ status \in Status
    /\ reviewer \in Users \cup {Nobody}
    /\ kind \in Kinds
    /\ due \in BOOLEAN
    /\ content \in Nat
    /\ lateEdit \in BOOLEAN
    /\ asked \in Nat
    /\ task \in [Tasks -> Task]
    /\ claimer \in Users \cup {Nobody}
    /\ refused \in BOOLEAN
    /\ effects \in [Effects -> Nat]
    /\ atClaim \in Nat
    /\ ran \subseteq Nat
    /\ crashes \in Nat

\* The decision the requests in flight have come to.
CurrentDecision ==
    IF claimer # Nobody THEN "granted"
    ELSE IF refused THEN "refused"
    ELSE IF status = "absent" THEN "none" ELSE "open"

D == INSTANCE Decision WITH decision <- CurrentDecision, by <- claimer, count <- effects

\* The requests of any number of users, in any order and with crashes between
\* their steps, implement one decision: whoever claims first decides, nobody
\* grants his own request, what was refused first never has an effect, and each
\* effect happens at most once.
ImplementsDecision == D!Spec

\* "The approver reviewed THIS content": one request sends the same version to all
\* its devices, and with a hash it never runs a script that was edited before the
\* claim.  The version that runs is then the requested one, except after an edit
\* between the comparison and executeNow's own read, which is sent although
\* script.routes.ts says that "a later edit of the script refuses execution".
ReviewedContentRuns ==
    ran # {} =>
        /\ Cardinality(ran) = 1
        /\ kind = "script" => atClaim = asked /\ (lateEdit \/ ran = {asked})

=============================================================================
