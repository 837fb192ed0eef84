----------------------------- MODULE CommandQueue -----------------------------
(***************************************************************************)
(* The command queue of ONE device: the command_queue rows, the server     *)
(* requests that work on them, the agent's dispatcher, and what may be     *)
(* lost between the two.                                                   *)
(*                                                                         *)
(* The server is one Node process: a handler runs without interruption     *)
(* between two awaits, so an action below is the code from one await to    *)
(* the next, and a task (an HTTP request, a WebSocket message, a timer     *)
(* callback) is a record with a program counter.  Rows live in PostgreSQL  *)
(* and survive a crash; tasks and the WebSocket registry do not.           *)
(***************************************************************************)
EXTENDS Naturals, Sequences, FiniteSets

CONSTANTS
    Commands,   \* the ids of the command_queue rows that may be inserted
    Tasks,      \* server tasks that may be in flight at the same time
    Prio,       \* [Commands -> Nat]: the command_priority enum, low to urgent
    Origin,     \* [Commands -> Origins]: which code inserts the row
    Expiring,   \* commands enqueued with expiresInSeconds
    Limit,      \* rows per dispatch (5 in the code)
    MaxRows,    \* bound: rows inserted over the whole behaviour
    MaxConn,    \* bound: WebSocket connections over the whole behaviour
    MaxFaults   \* bound: crashes, disconnects and losses over the behaviour

NoTask == "noTask"

Origins == {"queue", "live", "unmarked"}

ASSUME CommandQueueAssumption ==
    /\ IsFiniteSet(Commands)
    /\ IsFiniteSet(Tasks)
    /\ Prio \in [Commands -> Nat]
    /\ Origin \in [Commands -> Origins]
    /\ Expiring \subseteq Commands
    /\ Limit \in Nat \ {0}
    /\ MaxRows \in Nat
    /\ MaxConn \in Nat
    /\ MaxFaults \in Nat
    /\ NoTask \notin Tasks

Terminal == {"success", "failure", "timeout"}

AckStatus == {"ack_running", "success", "failure"}

RowStatus == {"absent", "pending", "sent", "ack_running",
              "success", "failure", "timeout", "cancelled"}

Ack == [cmd : Commands, st : AckStatus]

Paths == {"none", "push", "poll", "drain", "route", "wsack", "cleanup"}

Steps == {"idle", "acks", "notify", "select", "mark", "reply", "hubpush", "expired"}

Task == [pc : Steps, path : Paths, conn : Nat, acks : Seq(Ack), batch : Seq(Commands)]

Run == [cmd : Commands, no : Nat, conn : Nat]

VARIABLES
    status,      \* [Commands -> RowStatus]: the status column
    created,     \* [Commands -> Nat]: the created_at column
    due,         \* the commands whose expires_at has passed
    task,        \* [Tasks -> Task]
    hubConn,     \* byDevice.get(deviceId): the open WebSocket, 0 = none
    connSeq,     \* WebSockets registered so far
    awaiting,    \* the request each HTTP loop of the agent waits for
    runs,        \* command executions in progress on the agent
    pendingAcks, \* CommandDispatcher.pendingAcks
    starts,      \* history: executions of each command started so far
    notified,    \* history: results of each command handed to the engine
    faults       \* history: faults so far

dbVars == <<status, created, due>>
serverVars == <<task, hubConn, connSeq>>
agentVars == <<awaiting, runs, pendingAcks, starts>>
vars == <<status, created, due, task, hubConn, connSeq, awaiting, runs,
          pendingAcks, starts, notified, faults>>

IdleTask == [pc |-> "idle", path |-> "none", conn |-> 0, acks |-> <<>>, batch |-> <<>>]

Init ==
    /\ status = [c \in Commands |-> "absent"]
    /\ created = [c \in Commands |-> 0]
    /\ due = {}
    /\ task = [t \in Tasks |-> IdleTask]
    /\ hubConn = 0
    /\ connSeq = 0
    /\ awaiting = [l \in {"push", "poll"} |-> NoTask]
    /\ runs = {}
    /\ pendingAcks = <<>>
    /\ starts = [c \in Commands |-> 0]
    /\ notified = [c \in Commands |-> 0]
    /\ faults = 0

Idle(t) == task[t].pc = "idle"

Become(t, k) == task' = [task EXCEPT ![t] = k]

Goto(t, pc) == Become(t, [task[t] EXCEPT !.pc = pc])

End(t) == Become(t, IdleTask)

\* A request, a message or a timer callback arrives: task t runs from step pc.
Begin(t, path, pc, conn, acks, batch) ==
    /\ Idle(t)
    /\ Become(t, [pc |-> pc, path |-> path, conn |-> conn, acks |-> acks, batch |-> batch])

SpendFault == faults < MaxFaults /\ faults' = faults + 1

-----------------------------------------------------------------------------
(* Rows *)

\* The columns an insert fills in: a pending row, newer than every other one.
Insert(c) ==
    /\ status[c] = "absent"
    /\ Cardinality({d \in Commands : status[d] # "absent"}) < MaxRows
    /\ status' = [status EXCEPT ![c] = "pending"]
    /\ created' = [created EXCEPT ![c] = Cardinality({d \in Commands : status[d] # "absent"})]

\* enqueue by the schedules, the scenario engine, ...: the row waits for a dispatch.
Enqueue(c) ==
    /\ Origin[c] = "queue"
    /\ Insert(c)
    /\ UNCHANGED <<due, serverVars, agentVars, notified, faults>>

\* POST /api/commands ("live") and the privacy routes ("unmarked"): enqueue,
\* then push over the WebSocket in a later step.
EnqueueAndPush(c, t) ==
    /\ Origin[c] # "queue"
    /\ Insert(c)
    /\ Begin(t, "route", "hubpush", 0, <<>>, <<c>>)
    /\ UNCHANGED <<due, hubConn, connSeq, agentVars, notified, faults>>

\* cancelCommand: guarded by the row's status, and the engine is not told.
CancelCommand(c) ==
    /\ status[c] = "pending"
    /\ status' = [status EXCEPT ![c] = "cancelled"]
    /\ UNCHANGED <<created, due, serverVars, agentVars, notified, faults>>

\* The wall clock passes expires_at.
ExpiryPasses(c) ==
    /\ c \in Expiring \ due
    /\ status[c] # "absent"
    /\ due' = due \cup {c}
    /\ UNCHANGED <<status, created, serverVars, agentVars, notified, faults>>

-----------------------------------------------------------------------------
(* The agent *)

\* The agent starts one execution of each command of cs; conn = 0 stands for
\* the HTTP dispatcher.
StartRuns(cs, conn) ==
    /\ runs' = runs \cup {[cmd |-> c, no |-> starts[c] + 1, conn |-> conn] : c \in cs}
    /\ starts' = [c \in Commands |-> IF c \in cs THEN starts[c] + 1 ELSE starts[c]]

Elements(s) == {s[i] : i \in 1..Len(s)}

\* HandleCommand for every command of a response: "ack_running" at once, the
\* execution in a goroutine.
HandleCommands(batch) ==
    /\ StartRuns(Elements(batch), 0)
    /\ pendingAcks' = pendingAcks \o [i \in 1..Len(batch) |-> [cmd |-> batch[i], st |-> "ack_running"]]

\* executeCommand ends (HTTP path): the terminal ack waits for the next push.
FinishHttpRun(r, st) ==
    /\ r \in runs
    /\ r.conn = 0
    /\ runs' = runs \ {r}
    /\ pendingAcks' = Append(pendingAcks, [cmd |-> r.cmd, st |-> st])
    /\ UNCHANGED <<dbVars, serverVars, awaiting, starts, notified, faults>>

\* dispatchHubCommand ends: sendAck writes on the WebSocket the command came
\* from, and the server starts to handle the message.
FinishWsRun(r, st, t) ==
    /\ r \in runs
    /\ r.conn # 0
    /\ r.conn = hubConn
    /\ runs' = runs \ {r}
    /\ Begin(t, "wsack", "acks", 0, <<[cmd |-> r.cmd, st |-> st]>>, <<>>)
    /\ UNCHANGED <<dbVars, hubConn, connSeq, awaiting, pendingAcks, starts, notified, faults>>

\* The same on a WebSocket that is gone: the write error is ignored.
FinishWsRunLost(r) ==
    /\ r \in runs
    /\ r.conn # 0
    /\ r.conn # hubConn
    /\ runs' = runs \ {r}
    /\ UNCHANGED <<dbVars, serverVars, awaiting, pendingAcks, starts, notified, faults>>

\* push(): GetAndClearAcks, then the POST.
AgentPush(t) ==
    /\ awaiting["push"] = NoTask
    /\ Begin(t, "push", "acks", 0, pendingAcks, <<>>)
    /\ pendingAcks' = <<>>
    /\ awaiting' = [awaiting EXCEPT !["push"] = t]
    /\ UNCHANGED <<dbVars, hubConn, connSeq, runs, starts, notified, faults>>

\* The POST fails: the acks were already taken out of the dispatcher and, unlike
\* the watchdog counters, are not restored.
AgentPushFails ==
    /\ SpendFault
    /\ awaiting["push"] = NoTask
    /\ pendingAcks # <<>>
    /\ pendingAcks' = <<>>
    /\ UNCHANGED <<dbVars, serverVars, awaiting, runs, starts, notified>>

\* pollCommandsOnce: GET /api/agent/commands.
AgentPoll(t) ==
    /\ awaiting["poll"] = NoTask
    /\ Begin(t, "poll", "select", 0, <<>>, <<>>)
    /\ awaiting' = [awaiting EXCEPT !["poll"] = t]
    /\ UNCHANGED <<dbVars, hubConn, connSeq, runs, pendingAcks, starts, notified, faults>>

\* The client timeout, or a response lost on the way: the loop goes on while the
\* server may still be working on the request.
AgentGivesUp(loop) ==
    /\ SpendFault
    /\ awaiting[loop] # NoTask
    /\ awaiting' = [awaiting EXCEPT ![loop] = NoTask]
    /\ UNCHANGED <<dbVars, serverVars, runs, pendingAcks, starts, notified>>

-----------------------------------------------------------------------------
(* Server: acks *)

\* Variant: the loop over the acks returns where it should continue.
ProcessAckReturns(t) ==
    LET ack == Head(task[t].acks) IN
    /\ task[t].pc = "acks"
    /\ task[t].acks # <<>>
    /\ status' = [status EXCEPT ![ack.cmd] = ack.st]
    /\ IF ack.st \in Terminal
       THEN Goto(t, "notify")
       ELSE Become(t, [task[t] EXCEPT !.acks = <<>>])
    /\ UNCHANGED <<created, due, hubConn, connSeq, agentVars, notified, faults>>

\* processAcks, the UPDATE of one ack: whatever the row's status is.
ProcessAckUpdate(t) ==
    LET ack == Head(task[t].acks) IN
    /\ task[t].pc = "acks"
    /\ task[t].acks # <<>>
    /\ status' = [status EXCEPT ![ack.cmd] = ack.st]
    /\ IF ack.st \in Terminal
       THEN Goto(t, "notify")
       ELSE Become(t, [task[t] EXCEPT !.acks = Tail(task[t].acks)])
    /\ UNCHANGED <<created, due, hubConn, connSeq, agentVars, notified, faults>>

\* processAcks, the end of a terminal ack: handleNodeCommandAck.
ProcessAckNotify(t) ==
    LET ack == Head(task[t].acks) IN
    /\ task[t].pc = "notify"
    /\ notified' = [notified EXCEPT ![ack.cmd] = @ + 1]
    /\ Become(t, [task[t] EXCEPT !.pc = "acks", !.acks = Tail(task[t].acks)])
    /\ UNCHANGED <<dbVars, hubConn, connSeq, agentVars, faults>>

\* Every ack is processed: a push goes on with handlePush, a message is done.
ProcessAcksDone(t) ==
    /\ task[t].pc = "acks"
    /\ task[t].acks = <<>>
    /\ IF task[t].path = "push" THEN Goto(t, "select") ELSE End(t)
    /\ UNCHANGED <<dbVars, hubConn, connSeq, agentVars, notified, faults>>

-----------------------------------------------------------------------------
(* Server: dispatch.  handlePush, GET /api/agent/commands and the drain on  *)
(* connect share one shape: SELECT, then UPDATE by id, then send.           *)

\* Variant: whatever was not sent yet.
PendingOrCancelled == {c \in Commands : status[c] \in {"pending", "cancelled"}}

Pending == {c \in Commands : status[c] = "pending"}

\* ORDER BY priority DESC, created_at ASC
Before(c, d) == Prio[c] > Prio[d] \/ (Prio[c] = Prio[d] /\ created[c] < created[d])

SelectSize == IF Cardinality(Pending) < Limit THEN Cardinality(Pending) ELSE Limit

\* The answers of SELECT ... WHERE status = 'pending' ORDER BY ... LIMIT.
Selections ==
    {s \in [1..SelectSize -> Pending] :
        /\ \A i, j \in 1..SelectSize : i < j => Before(s[i], s[j])
        /\ \A d \in Pending \ Elements(s) : \A i \in 1..SelectSize : Before(s[i], d)}

\* Agent registers a WebSocket: it replaces the previous one and drains the queue.
Register(t) ==
    /\ connSeq < MaxConn
    /\ connSeq' = connSeq + 1
    /\ hubConn' = connSeq + 1
    /\ Begin(t, "drain", "select", connSeq + 1, <<>>, <<>>)
    /\ UNCHANGED <<dbVars, agentVars, notified, faults>>

SelectPending(t) ==
    /\ task[t].pc = "select"
    /\ \E s \in Selections :
          Become(t, [task[t] EXCEPT !.batch = s, !.pc = IF s = <<>> THEN "reply" ELSE "mark"])
    /\ UNCHANGED <<dbVars, hubConn, connSeq, agentVars, notified, faults>>

\* Variant: the rows are sent without being marked.
SendWithoutMark(t) ==
    /\ task[t].pc = "mark"
    /\ IF task[t].path = "route" THEN End(t) ELSE Goto(t, "reply")
    /\ UNCHANGED <<dbVars, hubConn, connSeq, agentVars, notified, faults>>

\* UPDATE ... SET status = 'sent' WHERE id IN batch: no condition on the status.
MarkSent(t) ==
    /\ task[t].pc = "mark"
    /\ status' = [c \in Commands |-> IF c \in Elements(task[t].batch) THEN "sent" ELSE status[c]]
    /\ IF task[t].path = "route" THEN End(t) ELSE Goto(t, "reply")
    /\ UNCHANGED <<created, due, hubConn, connSeq, agentVars, notified, faults>>

\* The HTTP response leaves; the agent gets it if it still waits for it.
ReplyHttp(t) ==
    LET loop == task[t].path IN
    /\ task[t].pc = "reply"
    /\ loop \in {"push", "poll"}
    /\ End(t)
    /\ IF awaiting[loop] = t
       THEN /\ HandleCommands(task[t].batch)
            /\ awaiting' = [awaiting EXCEPT ![loop] = NoTask]
       ELSE UNCHANGED agentVars
    /\ UNCHANGED <<dbVars, hubConn, connSeq, notified, faults>>

\* _drainPendingCommand, the sends: skipped when the WebSocket is not open any more.
ReplyDrain(t) ==
    /\ task[t].pc = "reply"
    /\ task[t].path = "drain"
    /\ End(t)
    /\ IF task[t].conn = hubConn
       THEN StartRuns(Elements(task[t].batch), hubConn)
       ELSE UNCHANGED <<runs, starts>>
    /\ UNCHANGED <<dbVars, hubConn, connSeq, awaiting, pendingAcks, notified, faults>>

\* agentHub.push after an enqueue.  Only POST /api/commands marks the row.
HubPush(t) ==
    LET c == task[t].batch[1] IN
    /\ task[t].pc = "hubpush"
    /\ IF hubConn = 0
       THEN End(t) /\ UNCHANGED <<runs, starts>>
       ELSE /\ StartRuns({c}, hubConn)
            /\ IF Origin[c] = "live" THEN Goto(t, "mark") ELSE End(t)
    /\ UNCHANGED <<dbVars, hubConn, connSeq, awaiting, pendingAcks, notified, faults>>

-----------------------------------------------------------------------------
(* Server: the cleanup job, every minute *)

\* expires_at < now AND status IN (pending, sent)
Expirable == {c \in due : status[c] \in {"pending", "sent"}}

\* Variant: an expired command is stored as a failed one.
ExpireAsFailure(t) ==
    /\ Expirable # {}
    /\ status' = [c \in Commands |-> IF c \in Expirable THEN "failure" ELSE status[c]]
    /\ \E s \in [1..Cardinality(Expirable) -> Expirable] :
          /\ Elements(s) = Expirable
          /\ Begin(t, "cleanup", "expired", 0, <<>>, s)
    /\ UNCHANGED <<created, due, hubConn, connSeq, agentVars, notified, faults>>

\* UPDATE ... RETURNING: one statement.
CleanupExpire(t) ==
    /\ Expirable # {}
    /\ status' = [c \in Commands |-> IF c \in Expirable THEN "timeout" ELSE status[c]]
    /\ \E s \in [1..Cardinality(Expirable) -> Expirable] :
          /\ Elements(s) = Expirable
          /\ Begin(t, "cleanup", "expired", 0, <<>>, s)
    /\ UNCHANGED <<created, due, hubConn, connSeq, agentVars, notified, faults>>

\* For each returned row, tell the engine (exit code -1).
CleanupNotify(t) ==
    /\ task[t].pc = "expired"
    /\ notified' = [notified EXCEPT ![Head(task[t].batch)] = @ + 1]
    /\ IF Len(task[t].batch) = 1 THEN End(t) ELSE Become(t, [task[t] EXCEPT !.batch = Tail(task[t].batch)])
    /\ UNCHANGED <<dbVars, hubConn, connSeq, agentVars, faults>>

-----------------------------------------------------------------------------
(* Faults *)

\* The WebSocket closes; _unregister removes it from the registry.
Disconnect ==
    /\ SpendFault
    /\ hubConn # 0
    /\ hubConn' = 0
    /\ UNCHANGED <<dbVars, task, connSeq, agentVars, notified>>

\* The server process dies: every task and every connection is gone.
ServerCrash ==
    /\ SpendFault
    /\ task' = [t \in Tasks |-> IdleTask]
    /\ hubConn' = 0
    /\ awaiting' = [l \in {"push", "poll"} |-> NoTask]
    /\ UNCHANGED <<dbVars, connSeq, runs, pendingAcks, starts, notified>>

\* The agent process dies: executions and unsent acks are gone.
AgentCrash ==
    /\ SpendFault
    /\ runs' = {}
    /\ pendingAcks' = <<>>
    /\ awaiting' = [l \in {"push", "poll"} |-> NoTask]
    /\ hubConn' = 0
    /\ UNCHANGED <<dbVars, task, connSeq, starts, notified>>

-----------------------------------------------------------------------------

TaskStep(t) ==
    \/ ProcessAckUpdate(t) \/ ProcessAckNotify(t) \/ ProcessAcksDone(t)
    \/ SelectPending(t) \/ MarkSent(t) \/ ReplyHttp(t) \/ ReplyDrain(t)
    \/ HubPush(t) \/ CleanupNotify(t)

Finish(r) ==
    \E st \in {"success", "failure"} :
        FinishHttpRun(r, st) \/ FinishWsRunLost(r) \/ \E t \in Tasks : FinishWsRun(r, st, t)

Next ==
    \/ \E c \in Commands : Enqueue(c) \/ CancelCommand(c) \/ ExpiryPasses(c)
    \/ \E c \in Commands, t \in Tasks : EnqueueAndPush(c, t)
    \/ \E r \in runs : Finish(r)
    \/ \E t \in Tasks : AgentPush(t) \/ AgentPoll(t) \/ Register(t) \/ CleanupExpire(t)
    \/ \E t \in Tasks : TaskStep(t)
    \/ \E loop \in {"push", "poll"} : AgentGivesUp(loop)
    \/ AgentPushFails \/ Disconnect \/ ServerCrash \/ AgentCrash

Spec == Init /\ [][Next]_vars

-----------------------------------------------------------------------------
(* Properties *)

\* Every column, task, run and buffered ack holds a value of its type, whatever
\* the agent reports and however requests overlap.
TypeOK ==
    /\ status \in [Commands -> RowStatus]
    /\ created \in [Commands -> Nat]
    /\ due \subseteq Commands
    /\ task \in [Tasks -> Task]
    /\ hubConn \in Nat
    /\ connSeq \in Nat
    /\ awaiting \in [{"push", "poll"} -> Tasks \cup {NoTask}]
    /\ runs \subseteq Run
    /\ pendingAcks \in Seq(Ack)
    /\ starts \in [Commands -> Nat]
    /\ notified \in [Commands -> Nat]
    /\ faults \in Nat

\* A command the agent has started is never offered again: a row that only the
\* dispatchers send is past 'pending' from the moment it may reach the agent,
\* through every crash, disconnect and overlap of requests.
StartedIsNotPending ==
    \A c \in Commands : Origin[c] = "queue" /\ starts[c] > 0 => status[c] # "pending"

\* A result in the queue was reported by an execution: no crash, expiry or
\* cancellation makes up a result for a command no agent ever started.
ResultComesFromARun ==
    \A c \in Commands : status[c] \in AckStatus => starts[c] > 0

\* What the unguarded SELECT / UPDATE pair does guarantee: a row runs at most once
\* per request that can overlap its dispatch - so at most once when requests are
\* served one at a time - and once more when a route pushes it at once, however
\* many crashes and reconnects there are.
RunsBoundedByOverlap ==
    \A c \in Commands :
        starts[c] <= Cardinality(Tasks) + (IF Origin[c] = "queue" THEN 0 ELSE 1)

\* A cancellation holds from the moment no request carries the row any more: no
\* dispatcher picks it up again and the agent is not given it.  (A request that
\* had selected the row before still marks and sends it.)
Withdrawn(c) == status[c] = "cancelled" /\ \A t \in Tasks : c \notin Elements(task[t].batch)

CancellationHolds ==
    [][\A c \in Commands :
          Withdrawn(c) => /\ starts'[c] = starts[c]
                          /\ Withdrawn(c)' \/ status'[c] \in AckStatus]_vars

\* A row that a started command left in 'ack_running' is outside the expiry job's
\* WHERE: only its own terminal ack can end it.  As long as nothing was lost, that
\* ack is still to come: the command executes, or its ack is on its way.
ResultIsOnItsWay ==
    \A c \in Commands :
        status[c] = "ack_running" /\ faults = 0 =>
            \/ \E r \in runs : r.cmd = c
            \/ \E a \in Elements(pendingAcks) : a.cmd = c /\ a.st \in Terminal
            \/ \E t \in Tasks : \E a \in Elements(task[t].acks) : a.cmd = c /\ a.st \in Terminal

\* Why the two invariants above hold: what a task in flight knows about the rows
\* it carries.  A row is marked before it is sent, except by the routes that push
\* at once; a selected row exists; an ack stands for a started command.
Carries(k) ==
    /\ k.pc = "reply" => \A c \in Elements(k.batch) : status[c] \notin {"absent", "pending"}
    /\ \A c \in Elements(k.batch) : status[c] # "absent"
    /\ k.pc = "hubpush" => Len(k.batch) = 1 /\ Origin[k.batch[1]] # "queue"
    /\ \A a \in Elements(k.acks) : starts[a.cmd] > 0
    /\ k.pc = "notify" => k.acks # <<>>
    /\ k.pc = "expired" => k.batch # <<>>

TasksCarry == \A t \in Tasks : Carries(task[t])

AgentReportsRuns ==
    /\ \A a \in Elements(pendingAcks) : starts[a.cmd] > 0
    /\ \A r \in runs : starts[r.cmd] > 0

StartedExists == \A c \in Commands : starts[c] > 0 => status[c] # "absent"

CommandInv ==
    /\ TypeOK
    /\ TasksCarry
    /\ AgentReportsRuns
    /\ StartedExists
    /\ StartedIsNotPending
    /\ ResultComesFromARun

=============================================================================
