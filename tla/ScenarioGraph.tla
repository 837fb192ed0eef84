---------------------------- MODULE ScenarioGraph ----------------------------
(***************************************************************************)
(* The scenario engine (scenarioGraph.service.ts): the runs of ONE         *)
(* scenario on one device, walking its graph of nodes.                     *)
(*                                                                         *)
(* A walk is a chain of awaits in the one Node process.  It stops when a   *)
(* node parks (an agent command, a timer) and a new task resumes it when   *)
(* the command reports or the timer fires.  An action below is the code    *)
(* from one SQL statement to the next; the run, node-run and command rows  *)
(* survive a crash, the tasks, pendingFanOuts and the timers do not.       *)
(*                                                                         *)
(* The commands themselves are those of CommandQueue: here they are sent,  *)
(* acknowledged as running, withdrawn or expired, and report to the engine *)
(* at most MaxReports times.  The terminal ack of a running one may be lost*)
(* (CommandQueue shows where); then it never reports, for the expiry only  *)
(* looks at commands that are 'pending' or 'sent'.                         *)
(***************************************************************************)
EXTENDS Integers, Sequences, FiniteSets

CONSTANTS
    Runs,        \* the scenario_runs that may be started
    Nodes,       \* scenario_nodes of the scenario
    Type,        \* [Nodes -> NodeTypes]
    Edges,       \* [Nodes -> Seq(Edge)]: scenario_edges by sort_order
    Targets,     \* [Nodes -> SUBSET Devices]: resolveActionTargets
    Starts,      \* the nodes a run may be started from
    Devices,     \* devices an action node may target
    ExitCodes,   \* exit codes an agent may report
    Null,        \* SQL NULL and JavaScript null
    Tasks,       \* server tasks that may be in flight at the same time
    MaxVisits,   \* MAX_NODE_VISITS (100 in the code)
    MaxReports,  \* bound: reports of one command to the engine
    MaxFaults,   \* bound: SQL statements that fail
    MaxCrashes   \* bound: server restarts

\* run_script and run_command are "action"; tag_device, move_device_to_group,
\* send_notification and branch_on_device are "sync".
NodeTypes == {"trigger", "action", "sync", "wait", "branch", "cooldown",
              "end_success", "end_failure"}

Exits == ExitCodes \cup {-1, 0, 1}

EdgeKinds == {"always", "default", "exit_code_eq", "exit_code_in", "exit_code_neq"}

Edge == [kind : EdgeKinds, values : SUBSET Int, to : Nodes]

\* The run of a task that serves none.
NoRun == "noRun"

ASSUME ScenarioGraphAssumption ==
    /\ NoRun \notin Runs
    /\ Type \in [Nodes -> NodeTypes]
    /\ Edges \in [Nodes -> Seq(Edge)]
    /\ Targets \in [Nodes -> SUBSET Devices]
    /\ Starts \subseteq Nodes
    /\ IsFiniteSet(Devices)
    /\ ExitCodes \subseteq Int
    /\ Null \notin Exits
    /\ MaxVisits \in Nat \ {0}
    /\ MaxReports \in Nat \ {0}
    /\ MaxFaults \in Nat
    /\ MaxCrashes \in Nat

RunStatus == {"none", "running", "success", "failure", "cancelled"}

NodeRunStatus == {"running", "success", "failed", "cancelled"}

\* Of command_queue.status; "over" is any terminal one, and "ack_lost" an
\* 'ack_running' whose terminal ack is lost.
CommandStatus == {"pending", "sent", "ack_running", "ack_lost", "over", "cancelled"}

Steps == {"idle", "enter", "visit", "insert", "exec", "stamp", "enqueue",
          "ack", "complete", "mirror", "advance", "success", "failure",
          "cancelRun", "cancelSelect", "cancelNodes", "cancelCommands"}

CancelSteps == {"cancelRun", "cancelSelect", "cancelNodes", "cancelCommands"}

VARIABLES
    run,       \* [Runs -> row]: the scenario_runs
    nodeRuns,  \* the scenario_node_runs, in the order of insertion
    cmds,      \* the command_queue rows of the scenario, by <<node run, device>>
    cooldown,  \* [Nodes -> BOOLEAN]: scenario_cooldown_state, is the window closed?
    fanOut,    \* pendingFanOuts, by node run
    timers,    \* the armed setTimeouts of the wait nodes
    task,      \* [Tasks -> the chain of awaits the task is in]
    booting,   \* rearmWaitTimersOnBoot has not run yet
    advanced,  \* history: [node run -> how often _advance ran for it]
    notified,  \* history: [Runs -> channel notifications sent at its end]
    faults, crashes

dbVars == <<run, nodeRuns, cmds, cooldown>>
memVars == <<fanOut, timers, booting>>
histVars == <<advanced, notified>>
vars == <<run, nodeRuns, cmds, cooldown, fanOut, timers, task, booting,
          advanced, notified, faults, crashes>>

NodeRunIds == 1 .. Len(nodeRuns)

IdleTask ==
    [pc |-> "idle", run |-> NoRun, node |-> Null, nr |-> 0, exit |-> Null,
     st |-> "success", then |-> "advance", seen |-> Null, devs |-> {}, nrs |-> {},
     guards |-> <<>>, start |-> FALSE]

\* "single" is the __single_node marker in trigger_source.
NewRun == [status |-> "none", current |-> Null, visits |-> [n \in Nodes |-> 0], exit |-> Null,
           single |-> FALSE]

Init ==
    /\ run = [r \in Runs |-> NewRun]
    /\ nodeRuns = <<>>
    /\ cmds = <<>>
    /\ cooldown = [n \in Nodes |-> FALSE]
    /\ fanOut = <<>>
    /\ timers = {}
    /\ task = [t \in Tasks |-> IdleTask]
    /\ booting = FALSE
    /\ advanced = <<>>
    /\ notified = [r \in Runs |-> 0]
    /\ faults = 0
    /\ crashes = 0

Idle(t) == task[t].pc = "idle"

Become(t, k) == task' = [task EXCEPT ![t] = k]

End(t) == Become(t, IdleTask)

-----------------------------------------------------------------------------
(* Edges *)

EdgeMatches(edge, exit) ==
    CASE edge.kind = "always"        -> TRUE
      [] edge.kind = "default"       -> FALSE
      [] edge.kind = "exit_code_eq"  -> exit \in edge.values
      [] edge.kind = "exit_code_in"  -> exit # Null /\ exit \in edge.values
      [] edge.kind = "exit_code_neq" -> exit \notin edge.values

Least(S) == CHOOSE i \in S : \A j \in S : i <= j

\* The node pickNextEdge leads to: the first edge that matches, else the first
\* default edge, else none (Null).
PickNextEdge(node, exit) ==
    LET edges    == Edges[node]
        matching == {i \in DOMAIN edges : EdgeMatches(edges[i], exit)}
        default  == {i \in DOMAIN edges : edges[i].kind = "default"}
    IN  CASE matching # {}                 -> edges[Least(matching)].to
          [] matching = {} /\ default # {} -> edges[Least(default)].to
          [] OTHER                         -> Null

-----------------------------------------------------------------------------
(* Starting a run *)

\* startRun up to its first executeNode: the run starts at a trigger's first
\* neighbour, or at the very node the user picked; it may be a test of one node.
StartRun(t, r, n, single) ==
    LET first == IF Type[n] = "trigger" THEN PickNextEdge(n, Null) ELSE n
    IN  /\ Idle(t)
        /\ run[r].status = "none"
        /\ run' = [run EXCEPT ![r].status = "running", ![r].single = single]
        /\ Become(t, [IdleTask EXCEPT !.pc = IF first = Null THEN "failure" ELSE "enter",
                                      !.run = r, !.node = first, !.start = TRUE])
        /\ UNCHANGED <<nodeRuns, cmds, cooldown, fanOut, timers, booting, histVars, faults, crashes>>

\* The accountable user may not execute on the device: the refusal is recorded.
RecordDenial(r) ==
    /\ run[r].status = "none"
    /\ run' = [run EXCEPT ![r].status = "cancelled"]
    /\ UNCHANGED <<nodeRuns, cmds, cooldown, memVars, task, histVars, faults, crashes>>

-----------------------------------------------------------------------------
(* executeNode, up to its executor *)

\* A run that is no longer running is left alone; a node visited too often
\* fails the run.
EnterNode(t) ==
    LET k == task[t]
        seen == [run[k.run] EXCEPT !.visits[k.node] = @ + 1]
    IN  /\ k.pc = "enter"
        /\ \/ /\ run[k.run].status # "running"
              /\ End(t)
           \/ /\ run[k.run].status = "running"
              /\ Become(t, [k EXCEPT !.seen = seen,
                     !.pc = IF seen.visits[k.node] > MaxVisits THEN "failure" ELSE "visit"])
        /\ UNCHANGED <<dbVars, memVars, histVars, faults, crashes>>

\* The whole visit_counts column is written back from what EnterNode read.
RecordVisit(t) ==
    LET k == task[t]
    IN  /\ k.pc = "visit"
        /\ run' = [run EXCEPT ![k.run].current = k.node, ![k.run].visits = k.seen.visits]
        /\ Become(t, [k EXCEPT !.pc = "insert"])
        /\ UNCHANGED <<nodeRuns, cmds, cooldown, memVars, histVars, faults, crashes>>

\* From here to the end of its walk the task is inside this node's try.
InsertNodeRun(t) ==
    LET k  == task[t]
        id == Len(nodeRuns) + 1
    IN  /\ k.pc = "insert"
        /\ nodeRuns' = Append(nodeRuns, [run |-> k.run, node |-> k.node,
                                         status |-> "running", exit |-> Null])
        /\ advanced' = Append(advanced, 0)
        /\ Become(t, [k EXCEPT !.pc = "exec", !.nr = id, !.guards = Append(@, id)])
        /\ UNCHANGED <<run, cmds, cooldown, memVars, notified, faults, crashes>>

-----------------------------------------------------------------------------
(* What a task does next *)

\* _completeNode with this status and exit code, then the step `then'.
Completing(k, st, exit, then) ==
    [k EXCEPT !.pc = "complete", !.st = st, !.exit = exit, !.then = then]

\* An exception reaches the innermost enclosing catch: of an executeNode, of
\* startRun, or of the caller of handleNodeCommandAck, which only logs it.
Thrown(k) ==
    CASE k.guards # <<>> ->
           [Completing(k, "failed", Null, "failure") EXCEPT
               !.nr = k.guards[Len(k.guards)],
               !.guards = SubSeq(@, 1, Len(@) - 1)]
      [] k.guards = <<>> /\ k.start -> [k EXCEPT !.pc = "failure", !.start = FALSE]
      [] OTHER -> IdleTask

Executing(t, types) == task[t].pc = "exec" /\ Type[task[t].node] \in types

-----------------------------------------------------------------------------
(* Executors *)

\* What validateTargetsInTenant may leave of the targets: devices that moved to
\* another tenant or are in privacy mode are dropped.
ValidTargets(n) == SUBSET Targets[n]

\* Variant: the fan-out is not registered.
ExecuteActionUnregistered(t) ==
    /\ Executing(t, {"action"})
    /\ \E valid \in ValidTargets(task[t].node) :
          Become(t, IF valid = {} THEN Thrown(task[t])
                    ELSE [task[t] EXCEPT !.pc = "enqueue", !.devs = valid])
    /\ UNCHANGED <<dbVars, memVars, histVars, faults, crashes>>

\* run_script and run_command: with several targets left the fan-out is
\* registered before the first enqueue; with none the executor throws.
ExecuteAction(t) ==
    LET k == task[t]
    IN  /\ Executing(t, {"action"})
        /\ \E valid \in ValidTargets(k.node) :
              /\ fanOut' = IF Cardinality(valid) <= 1 THEN fanOut
                           ELSE [i \in DOMAIN fanOut \cup {k.nr} |->
                                   IF i = k.nr THEN [expected |-> Cardinality(valid),
                                                     received |-> 0, worst |-> Null]
                                   ELSE fanOut[i]]
              /\ Become(t, IF valid = {} THEN Thrown(k)
                           ELSE [k EXCEPT !.pc = "enqueue", !.devs = valid])
        /\ UNCHANGED <<dbVars, timers, booting, histVars, faults, crashes>>

\* commandService.enqueue for one target; after the last one the run is parked.
EnqueueCommand(t) ==
    LET k == task[t]
    IN  /\ k.pc = "enqueue"
        /\ \E d \in k.devs :
              /\ cmds' = [i \in DOMAIN cmds \cup {<<k.nr, d>>} |->
                            IF i \in DOMAIN cmds THEN cmds[i]
                            ELSE [status |-> "pending", reports |-> 0, exit |-> Null]]
              /\ Become(t, IF k.devs = {d} THEN IdleTask
                           ELSE [k EXCEPT !.devs = @ \ {d}])
        /\ UNCHANGED <<run, nodeRuns, cooldown, memVars, histVars, faults, crashes>>

\* tag_device, move_device_to_group, send_notification, branch_on_device.
ExecuteSync(t) ==
    /\ Executing(t, {"sync"})
    /\ \/ \E e \in {0, 1} : Become(t, Completing(task[t], "success", e, "advance"))
       \/ Become(t, Thrown(task[t]))
    /\ UNCHANGED <<dbVars, memVars, histVars, faults, crashes>>

\* branch_exit_code passes on the exit code read when the node was entered; a
\* trigger in the middle of the graph has none.
ExecuteBranch(t) ==
    LET k == task[t]
    IN  /\ Executing(t, {"branch", "trigger"})
        /\ Become(t, Completing(k, "success",
                        IF Type[k.node] = "branch" THEN k.seen.exit ELSE Null, "advance"))
        /\ UNCHANGED <<dbVars, memVars, histVars, faults, crashes>>

\* wait arms a timer and parks (with a delay of zero it is a sync node).
ExecuteWait(t) ==
    /\ Executing(t, {"wait"})
    /\ timers' = timers \cup {<<task[t].nr, "run">>}
    /\ End(t)
    /\ UNCHANGED <<dbVars, fanOut, booting, histVars, faults, crashes>>

\* cooldown ends the run inside the window, and else goes on to stamp it.
ExecuteCooldown(t) ==
    LET k == task[t]
    IN  /\ Executing(t, {"cooldown"})
        /\ Become(t, IF cooldown[k.node]
                     THEN Completing(k, "success", -1, "success")
                     ELSE [k EXCEPT !.pc = "stamp"])
        /\ UNCHANGED <<dbVars, memVars, histVars, faults, crashes>>

StampCooldown(t) ==
    LET k == task[t]
    IN  /\ k.pc = "stamp"
        /\ cooldown' = [cooldown EXCEPT ![k.node] = TRUE]
        /\ Become(t, Completing(k, "success", 0, "advance"))
        /\ UNCHANGED <<run, nodeRuns, cmds, memVars, histVars, faults, crashes>>

CooldownElapses(n) ==
    /\ cooldown[n]
    /\ cooldown' = [cooldown EXCEPT ![n] = FALSE]
    /\ UNCHANGED <<run, nodeRuns, cmds, memVars, task, histVars, faults, crashes>>

\* Variant: the node run gets the run's word for a failure.
ExecuteEndRunWord(t) ==
    /\ Executing(t, {"end_success", "end_failure"})
    /\ Become(t, IF Type[task[t].node] = "end_success"
                 THEN Completing(task[t], "success", Null, "success")
                 ELSE Completing(task[t], "failure", Null, "failure"))
    /\ UNCHANGED <<dbVars, memVars, histVars, faults, crashes>>

ExecuteEnd(t) ==
    /\ Executing(t, {"end_success", "end_failure"})
    /\ Become(t, IF Type[task[t].node] = "end_success"
                 THEN Completing(task[t], "success", Null, "success")
                 ELSE Completing(task[t], "failed", Null, "failure"))
    /\ UNCHANGED <<dbVars, memVars, histVars, faults, crashes>>

-----------------------------------------------------------------------------
(* Leaving a node *)

\* _completeNode, first statement: the node-run row, whatever its status.
CompleteNode(t) ==
    LET k == task[t]
    IN  /\ k.pc = "complete"
        /\ nodeRuns' = [nodeRuns EXCEPT ![k.nr].status = k.st, ![k.nr].exit = k.exit]
        /\ Become(t, [k EXCEPT !.pc = "mirror"])
        /\ UNCHANGED <<run, cmds, cooldown, memVars, histVars, faults, crashes>>

\* _completeNode, second statement: last_exit_code of the run.
MirrorExit(t) ==
    LET k == task[t]
    IN  /\ k.pc = "mirror"
        /\ run' = [run EXCEPT ![k.run].exit = k.exit]
        /\ Become(t, [k EXCEPT !.pc = k.then])
        /\ UNCHANGED <<nodeRuns, cmds, cooldown, memVars, histVars, faults, crashes>>

\* Where _advance goes from a node: Null ends the run with success.
Successor(r, node, exit) == IF run[r].single THEN Null ELSE PickNextEdge(node, exit)

Advance(t) ==
    LET k    == task[t]
        next == Successor(k.run, k.node, k.exit)
    IN  /\ k.pc = "advance"
        /\ advanced' = [advanced EXCEPT ![k.nr] = @ + 1]
        /\ Become(t, IF next = Null THEN [k EXCEPT !.pc = "success"]
                     ELSE [k EXCEPT !.pc = "enter", !.node = next])
        /\ UNCHANGED <<dbVars, memVars, notified, faults, crashes>>

\* markRunSuccess and markRunFailure: by id, whatever the status was, and a
\* message to the scenario's channels.
MarkRun(t) ==
    LET k == task[t]
    IN  /\ k.pc \in {"success", "failure"}
        /\ run' = [run EXCEPT ![k.run].status = k.pc]
        /\ notified' = [notified EXCEPT ![k.run] = @ + 1]
        /\ End(t)
        /\ UNCHANGED <<nodeRuns, cmds, cooldown, memVars, advanced, faults, crashes>>

-----------------------------------------------------------------------------
(* Reports of commands and timers *)

\* exitCode != null && (worstExit == null || exitCode > worstExit)
Worse(worst, exit) == IF exit # Null /\ (worst = Null \/ exit > worst) THEN exit ELSE worst

\* Variant: a command that failed is not counted.
CollectedOnSuccess(p, exit) ==
    [p EXCEPT !.received = IF exit = 0 THEN @ + 1 ELSE @, !.worst = Worse(@, exit)]

\* The synchronous part of handleNodeCommandAck: count the report of a fan-out,
\* and go on with the worst exit code when it was the last one.
Collected(p, exit) == [p EXCEPT !.received = @ + 1, !.worst = Worse(@, exit)]

\* Variant: one report too early.
CompleteOffByOne(p) == p.received + 1 >= p.expected

Complete(p) == p.received >= p.expected

Resume(t, nr, exit) ==
    Become(t, [IdleTask EXCEPT !.pc = "ack", !.nr = nr, !.run = nodeRuns[nr].run,
                               !.node = nodeRuns[nr].node, !.exit = exit])

HandleNodeCommandAck(t, nr, exit) ==
    /\ Idle(t)
    /\ \/ /\ nr \notin DOMAIN fanOut
          /\ Resume(t, nr, exit)
          /\ UNCHANGED fanOut
       \/ /\ nr \in DOMAIN fanOut
          /\ LET p == Collected(fanOut[nr], exit)
             IN  \/ /\ ~Complete(p)
                    /\ fanOut' = [fanOut EXCEPT ![nr] = p]
                    /\ UNCHANGED task
                 \/ /\ Complete(p)
                    /\ fanOut' = [i \in DOMAIN fanOut \ {nr} |-> fanOut[i]]
                    /\ Resume(t, nr, p.worst)

\* A command's result reaches the engine.
Report(t, c, exit) ==
    /\ cmds[c].reports < MaxReports
    /\ cmds' = [cmds EXCEPT ![c] = [status |-> "over", reports |-> @.reports + 1, exit |-> exit]]
    /\ HandleNodeCommandAck(t, c[1], exit)
    /\ UNCHANGED <<run, nodeRuns, cooldown, timers, booting, histVars, faults, crashes>>

\* The row changes, the engine is not told.
Becomes(c, from, to) ==
    /\ cmds[c].status \in from
    /\ cmds' = [cmds EXCEPT ![c].status = to]
    /\ UNCHANGED <<run, nodeRuns, cooldown, memVars, task, histVars, faults, crashes>>

\* The dispatch of the device's queue.
SendCommand(c) == Becomes(c, {"pending"}, "sent")

\* An administrator withdraws a command: cancelCommand.
CancelCommand(c) == Becomes(c, {"pending"}, "cancelled")

\* The ack 'ack_running', also a late one: processAcks writes by id.  After the last
\* report that the bound allows it would change nothing that anyone reads.
AckRunning(c) == cmds[c].reports < MaxReports /\ Becomes(c, {"sent", "over"}, "ack_running")

\* The agent dies, or a push with its terminal ack is given up.
AckLost(c) == Becomes(c, {"ack_running"}, "ack_lost")

\* A terminal ack of the agent, the first one or a late one.
AgentReports(t, c) ==
    /\ cmds[c].status \in {"sent", "ack_running", "over"}
    /\ \E e \in ExitCodes : Report(t, c, e)

\* The cleanup job: exit code -1.  A command in 'ack_running' is not selected.
CommandExpires(t, c) ==
    /\ cmds[c].status \in {"pending", "sent"}
    /\ Report(t, c, -1)

TimerFires(t, w) ==
    /\ timers' = timers \ {w}
    /\ HandleNodeCommandAck(t, w[1], 0)
    /\ UNCHANGED <<dbVars, booting, histVars, faults, crashes>>

\* Variant: the status of the run is not looked at.
CheckNothing(t) ==
    /\ task[t].pc = "ack"
    /\ Become(t, Completing(task[t], "success", task[t].exit, "advance"))
    /\ UNCHANGED <<dbVars, memVars, histVars, faults, crashes>>

\* The rest of handleNodeCommandAck up to _completeNode: only the status of
\* the run is looked at, not that of the node run.
CheckRun(t) ==
    LET k == task[t]
    IN  /\ k.pc = "ack"
        /\ Become(t, IF run[k.run].status = "running"
                     THEN Completing(k, "success", k.exit, "advance") ELSE IdleTask)
        /\ UNCHANGED <<dbVars, memVars, histVars, faults, crashes>>

-----------------------------------------------------------------------------
(* cancelRun *)

BeginCancel(t, r) ==
    /\ Idle(t)
    /\ run[r].status = "running"
    /\ Become(t, [IdleTask EXCEPT !.pc = "cancelRun", !.run = r])
    /\ UNCHANGED <<dbVars, memVars, histVars, faults, crashes>>

CancelRunRow(t) ==
    LET k == task[t]
    IN  /\ k.pc = "cancelRun"
        /\ run' = [run EXCEPT ![k.run].status = "cancelled"]
        /\ Become(t, [k EXCEPT !.pc = "cancelSelect"])
        /\ UNCHANGED <<nodeRuns, cmds, cooldown, memVars, histVars, faults, crashes>>

InFlightNodeRuns(r) == {i \in NodeRunIds : nodeRuns[i].run = r /\ nodeRuns[i].status = "running"}

SelectNodeRuns(t) ==
    LET k   == task[t]
        nrs == InFlightNodeRuns(k.run)
    IN  /\ k.pc = "cancelSelect"
        /\ Become(t, IF nrs = {} THEN IdleTask ELSE [k EXCEPT !.pc = "cancelNodes", !.nrs = nrs])
        /\ UNCHANGED <<dbVars, memVars, histVars, faults, crashes>>

CancelNodeRuns(t) ==
    LET k == task[t]
    IN  /\ k.pc = "cancelNodes"
        /\ nodeRuns' = [i \in NodeRunIds |-> IF i \in k.nrs
                          THEN [nodeRuns[i] EXCEPT !.status = "cancelled"] ELSE nodeRuns[i]]
        /\ Become(t, [k EXCEPT !.pc = "cancelCommands"])
        /\ UNCHANGED <<run, cmds, cooldown, memVars, histVars, faults, crashes>>

CancelCommands(t) ==
    LET k == task[t]
    IN  /\ k.pc = "cancelCommands"
        /\ cmds' = [c \in DOMAIN cmds |-> IF c[1] \in k.nrs /\ cmds[c].status = "pending"
                      THEN [cmds[c] EXCEPT !.status = "cancelled"] ELSE cmds[c]]
        /\ End(t)
        /\ UNCHANGED <<run, nodeRuns, cooldown, memVars, histVars, faults, crashes>>

-----------------------------------------------------------------------------
(* Faults *)

\* The SQL statement a task waits for fails.  cancelRun gives up when it cannot
\* update the run and skips a later section that fails.
StatementFails(t) ==
    LET k == task[t]
    IN  /\ k.pc # "idle"
        /\ k.pc = "exec" => Executing(t, {"action", "sync", "cooldown"})
        /\ faults < MaxFaults
        /\ faults' = faults + 1
        /\ Become(t, CASE k.pc = "cancelNodes"      -> [k EXCEPT !.pc = "cancelCommands"]
                       [] k.pc \in CancelSteps \ {"cancelNodes"} -> IdleTask
                       [] k.pc \notin CancelSteps   -> Thrown(k))
        /\ UNCHANGED <<dbVars, memVars, histVars, crashes>>

\* The process exits: what it held in memory is gone.
Crash ==
    /\ crashes < MaxCrashes
    /\ crashes' = crashes + 1
    /\ task' = [t \in Tasks |-> IdleTask]
    /\ fanOut' = <<>>
    /\ timers' = {}
    /\ booting' = TRUE
    /\ UNCHANGED <<dbVars, histVars, faults>>

\* Node runs rearmWaitTimersOnBoot finds: of the current wait node of a run.
WaitOrphans ==
    {i \in NodeRunIds :
        LET nr == nodeRuns[i]
        IN  /\ nr.status = "running"
            /\ run[nr.run].status = "running"
            /\ run[nr.run].current = nr.node
            /\ Type[nr.node] = "wait"}

\* Variant: the boot finds the orphans and arms nothing.
RearmNothing ==
    /\ booting
    /\ booting' = FALSE
    /\ UNCHANGED <<dbVars, fanOut, timers, task, histVars, faults, crashes>>

\* The server answers requests while this runs.
RearmWaitTimersOnBoot ==
    /\ booting
    /\ booting' = FALSE
    /\ timers' = timers \cup (WaitOrphans \X {"boot"})
    /\ UNCHANGED <<dbVars, fanOut, task, histVars, faults, crashes>>

-----------------------------------------------------------------------------

Executor(t) ==
    \/ ExecuteAction(t) \/ EnqueueCommand(t)
    \/ ExecuteSync(t) \/ ExecuteBranch(t) \/ ExecuteWait(t)
    \/ ExecuteCooldown(t) \/ StampCooldown(t)
    \/ ExecuteEnd(t)

\* The next step of a task in flight.
TaskStep(t) ==
    \/ EnterNode(t) \/ RecordVisit(t) \/ InsertNodeRun(t)
    \/ Executor(t)
    \/ CompleteNode(t) \/ MirrorExit(t) \/ Advance(t) \/ MarkRun(t)
    \/ CheckRun(t)
    \/ CancelRunRow(t) \/ SelectNodeRuns(t) \/ CancelNodeRuns(t) \/ CancelCommands(t)

\* What happens to a command without a word to the engine.
RowMoves(c) == SendCommand(c) \/ CancelCommand(c) \/ AckRunning(c) \/ AckLost(c)

Next ==
    \/ \E t \in Tasks : TaskStep(t) \/ StatementFails(t)
    \/ \E t \in Tasks, r \in Runs : \/ \E n \in Starts, single \in BOOLEAN : StartRun(t, r, n, single)
                                    \/ BeginCancel(t, r)
    \/ \E r \in Runs : RecordDenial(r)
    \/ \E t \in Tasks, c \in DOMAIN cmds : AgentReports(t, c) \/ CommandExpires(t, c)
    \/ \E c \in DOMAIN cmds : RowMoves(c)
    \/ \E t \in Tasks, w \in timers : TimerFires(t, w)
    \/ \E n \in Nodes : CooldownElapses(n)
    \/ Crash \/ RearmWaitTimersOnBoot

Spec == Init /\ [][Next]_vars

\* Every task goes on, a command that is not acknowledged expires, one that runs
\* ends and reports (its executor has a timeout) unless its ack is lost, a timer
\* fires and a boot ends.  The code bounds the tasks in flight nowhere: that a slot
\* is free again and again is enough for a report to get one (SF).
Fairness ==
    /\ \A t \in Tasks : WF_vars(TaskStep(t))
    /\ SF_vars(\E t \in Tasks, c \in DOMAIN cmds : CommandExpires(t, c))
    /\ SF_vars(\E t \in Tasks, c \in DOMAIN cmds : cmds[c].status = "ack_running" /\ AgentReports(t, c))
    /\ SF_vars(\E t \in Tasks, w \in timers : TimerFires(t, w))
    /\ WF_vars(RearmWaitTimersOnBoot)

FairSpec == Spec /\ Fairness

-----------------------------------------------------------------------------
(* Properties *)

Engaged(r) == {t \in Tasks : task[t].run = r}

Walking(r) == {t \in Engaged(r) : task[t].pc \notin CancelSteps}

NodeRunsOf(r) == {i \in NodeRunIds : nodeRuns[i].run = r}

CommandsOf(nr) == {c \in DOMAIN cmds : c[1] = nr}

Outstanding(c) == cmds[c].reports = 0 /\ cmds[c].status \in {"pending", "sent", "ack_running"}

\* Node runs that something may still resume.
Parked(r) ==
    {i \in NodeRunsOf(r) :
        LET left == {c \in CommandsOf(i) : Outstanding(c)}
        IN  \/ \E w \in timers : w[1] = i
            \/ i \notin DOMAIN fanOut /\ left # {}
            \/ i \in DOMAIN fanOut /\ fanOut[i].received + Cardinality(left) >= fanOut[i].expected}

Row == [status : RunStatus, current : Nodes \cup {Null},
        visits : [Nodes -> Nat], exit : Exits \cup {Null}, single : BOOLEAN]

Chain ==
    [pc : Steps, run : Runs \cup {NoRun}, node : Nodes \cup {Null}, nr : {0} \cup NodeRunIds,
     exit : Exits \cup {Null}, st : NodeRunStatus, then : {"advance", "success", "failure"},
     seen : Row \cup {Null}, devs : SUBSET Devices, nrs : SUBSET NodeRunIds,
     guards : Seq(NodeRunIds), start : BOOLEAN]

\* Every row holds a value of its column's type, and every entry of the
\* engine's memory refers to a node run that exists.
TypeOK ==
    /\ run \in [Runs -> Row]
    /\ nodeRuns \in Seq([run : Runs, node : Nodes, status : NodeRunStatus,
                         exit : Exits \cup {Null}])
    /\ DOMAIN cmds \subseteq NodeRunIds \X Devices
    /\ \A c \in DOMAIN cmds : cmds[c] \in [status : CommandStatus, reports : 0 .. MaxReports,
                                           exit : Exits \cup {Null}]
    /\ cooldown \in [Nodes -> BOOLEAN]
    /\ DOMAIN fanOut \subseteq NodeRunIds
    /\ \A i \in DOMAIN fanOut : fanOut[i] \in [expected : Nat, received : Nat,
                                               worst : Exits \cup {Null}]
    /\ timers \subseteq NodeRunIds \X {"run", "boot"}
    /\ task \in [Tasks -> Chain]
    /\ booting \in BOOLEAN
    /\ advanced \in [NodeRunIds -> Nat]
    /\ notified \in [Runs -> Nat]
    /\ faults \in 0 .. MaxFaults /\ crashes \in 0 .. MaxCrashes

\* No command has reported a second time, and the server was not restarted.  Either
\* makes the engine advance early: a second report counts for another device of a
\* fan-out or starts a second walk, and a restart forgets the fan-outs.
Regular == crashes = 0 /\ \A c \in DOMAIN cmds : cmds[c].reports <= 1

\* A running run is walked by one token: one task, or else one parked node run.
\* Everything executeNode does without a lock (visit_counts, current_node_id,
\* last_exit_code) relies on it.
OneTokenPerRun ==
    Regular => \A r \in Runs : run[r].status = "running" =>
                   Cardinality(Walking(r)) + Cardinality(Parked(r)) <= 1

\* "Park until every dispatched command has acked": the graph goes on from a
\* node only when each of its commands has reported.
FanOutWaitsForAll ==
    Regular => \A i \in NodeRunIds : advanced[i] > 0 => \A c \in CommandsOf(i) : cmds[c].reports > 0

\* A run ends in the engine once: its channels get one message at most, also
\* when it is cancelled or a statement fails on the way.
NotifiedOnce == Regular => \A r \in Runs : notified[r] <= 1

Ended(r) == run[r].status \in {"success", "failure", "cancelled"}

\* The run has ended and the steps that were in flight are over; only reports
\* whose task has not looked at the run yet may be waiting.
Quiet(r) == Ended(r) /\ \A t \in Engaged(r) : task[t].pc = "ack"

\* A quiet run stays quiet for ever, with the rows it had: reports and timers
\* of its nodes, which keep arriving, neither change it nor start anything.
EndedRunsStayQuiet ==
    [][\A r \in Runs : Quiet(r) =>
          /\ Quiet(r)'
          /\ run'[r] = run[r]
          /\ NodeRunsOf(r)' = NodeRunsOf(r)
          /\ \A i \in NodeRunsOf(r) : /\ nodeRuns'[i] = nodeRuns[i]
                                      /\ CommandsOf(i)' = CommandsOf(i)]_vars

\* A command of the run will never report: it was withdrawn, or its ack is lost.
Stranded(r) ==
    \E i \in NodeRunsOf(r) : \E c \in CommandsOf(i) :
        cmds[c].reports = 0 /\ cmds[c].status \in {"cancelled", "ack_lost"}

\* Every run ends, whatever the graph loops through: commands report or expire,
\* timers fire, and the visit cap stops a cycle.  Only a command that was withdrawn
\* or lost its terminal ack, a statement that fails or a crash may strand it.
RunsEnd ==
    \A r \in Runs :
        (run[r].status = "running") ~> (Ended(r) \/ Stranded(r) \/ faults > 0 \/ crashes > 0)

\* A run parked on a wait node goes on, also when the server restarts while
\* the timer is armed; a statement that fails as it resumes strands it until the next
\* restart.
WaitResumes ==
    \A r \in Runs :
        (WaitOrphans \cap NodeRunsOf(r) # {}) ~> (WaitOrphans \cap NodeRunsOf(r) = {} \/ faults > 0)

\* "Worst (max) exit wins so any failure routes the graph through the failure
\* branch": a node that goes on with exit code 0 has no command that failed.
AnyFailureTakesTheFailureBranch ==
    \A i \in NodeRunIds : advanced[i] > 0 /\ nodeRuns[i].exit = 0 =>
        \A c \in CommandsOf(i) : cmds[c].exit = 0

=============================================================================
