-------------------------- MODULE ScenarioGraphProofs --------------------------
(* The walk of a run through its graph, for any graph, any devices, runs and    *)
(* tasks, and any number of failing statements.                                 *)
EXTENDS ScenarioGraph, FiniteSetTheorems, SequenceTheorems, WellFoundedInduction, TLAPS

-----------------------------------------------------------------------------
(* What a task holds *)

\* A task that will advance the graph from its node run.
Advancing(k) == k.pc = "advance" \/ (k.pc \in {"complete", "mirror"} /\ k.then = "advance")

\* A task whose node run has not been left yet.
Opens(k) == k.pc \in {"exec", "stamp", "enqueue"}

\* A task is about node runs of its own run, and knows what its next step needs.
Linked(k) ==
    /\ k.pc = "idle" <=> k.run = NoRun
    /\ k.pc \in {"enter", "visit", "insert", "ack"} \/ Opens(k) \/ Advancing(k) => k.node \in Nodes
    /\ k.pc \in {"visit", "insert", "exec"} => k.seen \in Row
    /\ Opens(k) \/ k.pc \in {"ack", "complete", "mirror", "advance"} => k.nr # 0
    /\ k.pc \in CancelSteps \cup {"ack"} => k.guards = <<>> /\ ~k.start
    /\ k.nr # 0 => nodeRuns[k.nr].run = k.run
    /\ \A j \in DOMAIN k.guards : nodeRuns[k.guards[j]].run = k.run
    /\ \A i \in k.nrs : nodeRuns[i].run = k.run

LinkInv == \A t \in Tasks : Linked(task[t])

-----------------------------------------------------------------------------
(* One token per run *)

Unreported(i) == {c \in CommandsOf(i) : cmds[c].reports = 0}

HasTimer(i) == \E w \in timers : w[1] = i

\* Tasks that no longer look at the status of the run.
Committed(r) == {t \in Walking(r) : task[t].pc # "ack"}

\* A report or a timer may still resume node run i.
Resumable(i) ==
    \/ HasTimer(i)
    \/ i \notin DOMAIN fanOut /\ Unreported(i) # {}
    \/ i \in DOMAIN fanOut /\ fanOut[i].received + Cardinality(Unreported(i)) >= fanOut[i].expected

\* Node run i: its fan-out is not complete and can take the reports it waits for; without
\* a fan-out there is one command at most.
NodeRunSound(i) ==
    /\ i \in DOMAIN fanOut => /\ fanOut[i].received < fanOut[i].expected
                              /\ fanOut[i].received + Cardinality(Unreported(i)) <= fanOut[i].expected
    /\ i \notin DOMAIN fanOut => \A c, d \in Unreported(i) : c = d
    /\ HasTimer(i) => i \notin DOMAIN fanOut /\ CommandsOf(i) = {}
    /\ advanced[i] > 0 => Unreported(i) = {}

\* Task k: the commands it has still to enqueue, and those that were reported before it
\* goes on.
TaskSound(k) ==
    /\ Opens(k) => advanced[k.nr] = 0 /\ ~HasTimer(k.nr)
    /\ k.pc \in {"exec", "stamp"} => CommandsOf(k.nr) = {} /\ k.nr \notin DOMAIN fanOut
    /\ k.pc = "enqueue" =>
          /\ k.devs # {}
          /\ \A d \in k.devs : <<k.nr, d>> \notin DOMAIN cmds
          /\ k.nr \in DOMAIN fanOut =>
                fanOut[k.nr].received + Cardinality(Unreported(k.nr)) + Cardinality(k.devs)
                    <= fanOut[k.nr].expected
          /\ k.nr \notin DOMAIN fanOut =>
                CommandsOf(k.nr) = {} /\ \A d, e \in k.devs : d = e
    /\ Advancing(k) => Unreported(k.nr) = {}
    /\ k.pc = "ack" /\ run[k.run].status = "running" => Unreported(k.nr) = {}

\* Run r: one task, or one node run to resume, while it runs; at most one task that
\* no longer looks, and no message before the last of them.
RunSound(r) ==
    /\ \A t, u \in Committed(r) : t = u
    /\ run[r].status = "running" =>
          /\ \A t, u \in Walking(r) : t = u
          /\ \A i, j \in NodeRunsOf(r) : Resumable(i) /\ Resumable(j) => i = j
          /\ Walking(r) # {} => \A i \in NodeRunsOf(r) : ~Resumable(i)
    /\ run[r].status = "none" => Engaged(r) = {} /\ NodeRunsOf(r) = {}
    /\ notified[r] <= 1
    /\ notified[r] > 0 => ~(run[r].status \in {"none", "running"}) /\ Committed(r) = {}

TokenInv ==
    /\ ~booting
    /\ \A w \in timers : w[2] = "run"
    /\ \A i \in NodeRunIds : NodeRunSound(i)
    /\ \A t \in Tasks : TaskSound(task[t])
    /\ \A r \in Runs : RunSound(r)

-----------------------------------------------------------------------------
(* Edges *)

\* Least is an element of its set.
LEMMA LeastIn ==
    ASSUME NEW S \in SUBSET Nat, S # {}
    PROVE  Least(S) \in S
<1> DEFINE R == {ss \in Nat \X Nat : ss[1] < ss[2]}
<1>1. IsWellFoundedOn(R, Nat)
  BY NatLessThanWellFounded DEF OpToRel
<1>2. \E x \in S : \A y \in S : ~(<<y, x>> \in R)
  <2> HIDE DEF R
  <2> QED BY <1>1, WFMin
<1>3. \A x, y \in S : ~(<<y, x>> \in R) => x <= y
  OBVIOUS
<1> HIDE DEF R
<1>4. \E x \in S : \A y \in S : x <= y
  BY <1>2, <1>3
<1> QED BY <1>4 DEF Least

\* pickNextEdge leads to a node of the graph, or nowhere.
LEMMA PickFacts ==
    ASSUME NEW n \in Nodes, NEW exit
    PROVE  PickNextEdge(n, exit) \in Nodes \cup {Null}
<1> DEFINE edges    == Edges[n]
           matching == {i \in DOMAIN edges : EdgeMatches(edges[i], exit)}
           default  == {i \in DOMAIN edges : edges[i].kind = "default"}
<1>1. edges \in Seq(Edge)
  BY ScenarioGraphAssumption
<1>2. matching \in SUBSET Nat /\ default \in SUBSET Nat /\ matching \subseteq DOMAIN edges
      /\ default \subseteq DOMAIN edges
  BY <1>1
<1>3. \A i \in DOMAIN edges : edges[i].to \in Nodes
  <2> HIDE DEF edges
  <2>1. \A i \in DOMAIN edges : edges[i] \in Edge
    BY <1>1
  <2> QED BY <2>1 DEF Edge
<1>4. PickNextEdge(n, exit) = CASE matching # {}                 -> edges[Least(matching)].to
                                [] matching = {} /\ default # {} -> edges[Least(default)].to
                                [] OTHER                         -> Null
  BY DEF PickNextEdge
<1> HIDE DEF edges, matching, default
<1>5. CASE matching # {}
  BY <1>2, <1>3, <1>4, <1>5, LeastIn
<1>6. CASE matching = {} /\ default # {}
  BY <1>2, <1>3, <1>4, <1>6, LeastIn
<1>7. CASE matching = {} /\ default = {}
  BY <1>4, <1>7
<1> QED BY <1>5, <1>6, <1>7

-----------------------------------------------------------------------------
(* Types and links *)

TypeInv == TypeOK /\ LinkInv

\* The node runs stay, and stay those of their run.
KeepsRows ==
    /\ Len(nodeRuns') = Len(nodeRuns)
    /\ \A i \in NodeRunIds : nodeRuns'[i].run = nodeRuns[i].run

\* A task in flight is one of a run.
LEMMA TaskFacts ==
    ASSUME TypeInv, NEW t \in Tasks
    PROVE  /\ task[t] \in Chain /\ Linked(task[t])
           /\ task[t].pc # "idle" => task[t].run \in Runs
BY DEF TypeInv, TypeOK, LinkInv, Linked, Chain

\* A task that serves no run.
LEMMA IdleFacts == IdleTask \in Chain /\ Linked(IdleTask) /\ IdleTask.pc = "idle"
                   /\ IdleTask.run = NoRun /\ IdleTask.guards = <<>> /\ ~IdleTask.start
                   /\ IdleTask.nr = 0 /\ IdleTask.nrs = {} /\ IdleTask.devs = {}
<1>1. <<>> \in Seq(NodeRunIds)
  OBVIOUS
<1>2. IdleTask \in Chain
  BY <1>1 DEF IdleTask, Chain, Steps, NodeRunStatus
<1>3. Linked(IdleTask)
  BY DEF Linked, IdleTask, Opens, Advancing, CancelSteps
<1> QED BY <1>2, <1>3 DEF IdleTask

\* A task becomes what its action says, the others stay.
LEMMA BecomeFacts ==
    ASSUME TypeInv, NEW t \in Tasks, NEW k, Become(t, k)
    PROVE  /\ task'[t] = k /\ \A u \in Tasks \ {t} : task'[u] = task[u]
           /\ DOMAIN task' = Tasks
           /\ \A u \in Tasks : task'[u] = IF u = t THEN k ELSE task[u]
BY DEF TypeInv, TypeOK, Become

\* A step of a task that keeps the node runs.
LEMMA LinkMove ==
    ASSUME TypeInv, KeepsRows, NEW t \in Tasks, NEW k \in Chain, Linked(k), Become(t, k)
    PROVE  task' \in [Tasks -> Chain'] /\ LinkInv'
<1>1. \A u \in Tasks : task'[u] = IF u = t THEN k ELSE task[u]
  BY BecomeFacts
<1>2. NodeRunIds' = NodeRunIds /\ Chain' = Chain
  BY DEF KeepsRows, NodeRunIds, Chain
<1>3. task' \in [Tasks -> Chain']
  BY <1>2 DEF Become, TypeInv, TypeOK
<1>4. ASSUME NEW u \in Tasks PROVE Linked(task[u])'
  <2>1. PICK x \in Chain : task'[u] = x /\ Linked(x)
    BY <1>1, TaskFacts
  <2>2. /\ x.nr \in {0} \cup NodeRunIds /\ x.nrs \subseteq NodeRunIds
        /\ \A j \in DOMAIN x.guards : x.guards[j] \in NodeRunIds
    BY <2>1 DEF Chain
  <2>3. /\ x.nr # 0 => nodeRuns'[x.nr].run = x.run
        /\ \A j \in DOMAIN x.guards : nodeRuns'[x.guards[j]].run = x.run
        /\ \A i \in x.nrs : nodeRuns'[i].run = x.run
    BY <2>1, <2>2 DEF KeepsRows, Linked
  <2> QED BY <2>1, <2>3 DEF Linked, Opens, Advancing
<1> QED BY <1>3, <1>4 DEF LinkInv

\* A step of anybody else that keeps the node runs.
LEMMA LinkRest ==
    ASSUME TypeInv, UNCHANGED <<task, nodeRuns>>
    PROVE  task' \in [Tasks -> Chain'] /\ LinkInv'
<1>1. Chain' = Chain
  BY DEF NodeRunIds, Chain
<1> QED BY <1>1 DEF TypeInv, TypeOK, LinkInv, Linked, Opens, Advancing

\* A task goes on to another step.
LEMMA GoesOn ==
    ASSUME NEW k \in Chain, NEW pc \in Steps
    PROVE  /\ [k EXCEPT !.pc = pc] \in Chain
           /\ [k EXCEPT !.pc = pc].pc = pc
           /\ [k EXCEPT !.pc = pc].run = k.run /\ [k EXCEPT !.pc = pc].node = k.node
           /\ [k EXCEPT !.pc = pc].nr = k.nr /\ [k EXCEPT !.pc = pc].seen = k.seen
           /\ [k EXCEPT !.pc = pc].then = k.then /\ [k EXCEPT !.pc = pc].guards = k.guards
           /\ [k EXCEPT !.pc = pc].start = k.start /\ [k EXCEPT !.pc = pc].nrs = k.nrs
           /\ [k EXCEPT !.pc = pc].devs = k.devs /\ [k EXCEPT !.pc = pc].exit = k.exit
BY DEF Chain

\* A task of a node run goes on to complete it.
LEMMA CompletingFacts ==
    ASSUME NEW k \in Chain, Linked(k), k.pc # "idle", k.nr # 0, k.node \in Nodes,
           NEW st \in {"success", "failed"}, NEW exit \in Exits \cup {Null},
           NEW then \in {"advance", "success", "failure"}
    PROVE  LET x == Completing(k, st, exit, then)
           IN  /\ x \in Chain /\ Linked(x) /\ x.pc = "complete" /\ x.then = then
               /\ x.run = k.run /\ x.nr = k.nr
<1> DEFINE x == Completing(k, st, exit, then)
<1>0. st \in NodeRunStatus /\ "complete" \in Steps
  BY DEF NodeRunStatus, Steps
<1>a. x = [k EXCEPT !.pc = "complete", !.st = st, !.exit = exit, !.then = then]
  BY DEF Completing
<1> HIDE DEF x
<1>1. /\ x \in Chain /\ x.pc = "complete" /\ x.then = then /\ x.run = k.run /\ x.nr = k.nr
      /\ x.node = k.node /\ x.guards = k.guards /\ x.nrs = k.nrs
  BY <1>0, <1>a DEF Chain
<1>2. Linked(x)
  BY <1>1 DEF Linked, Opens, Advancing, CancelSteps
<1> QED BY <1>1, <1>2 DEF x

\* An exception completes an enclosing node run, fails the run, or ends the task.
LEMMA ThrownFacts ==
    ASSUME NEW k \in Chain, Linked(k), k.pc # "idle"
    PROVE  LET x == Thrown(k)
           IN  /\ x \in Chain /\ Linked(x) /\ ~Advancing(x)
               /\ x.pc \in {"complete", "failure", "idle"}
               /\ x.pc # "idle" => x.run = k.run /\ k.pc \notin CancelSteps \cup {"ack"}
<1> DEFINE x == Thrown(k)
<1>1. k.guards \in Seq(NodeRunIds)
  BY DEF Chain
<1>2. CASE k.guards # <<>>
  <2> DEFINE n == Len(k.guards)
             g == SubSeq(k.guards, 1, n - 1)
             c == Completing(k, "failed", Null, "failure")
  <2>1. n \in Nat \ {0} /\ k.guards[n] \in NodeRunIds /\ n \in DOMAIN k.guards
    BY <1>1, <1>2, EmptySeq
  <2>2. g \in Seq(NodeRunIds) /\ Len(g) = n - 1 /\ \A j \in 1 .. (n - 1) : g[j] = k.guards[j]
    BY <1>1, <2>1
  <2>3. /\ c \in Chain /\ c.pc = "complete" /\ c.then = "failure" /\ c.run = k.run
        /\ c.guards = k.guards /\ c.nrs = k.nrs
    BY DEF Completing, Chain, Steps, NodeRunStatus
  <2>4. x = [c EXCEPT !.nr = k.guards[n], !.guards = SubSeq(@, 1, Len(@) - 1)]
    BY <1>2 DEF Thrown
  <2> HIDE DEF c
  <2>5. x = [c EXCEPT !.nr = k.guards[n], !.guards = g]
    BY <2>3, <2>4
  <2> HIDE DEF g, n, x
  <2>6. /\ x \in Chain /\ x.pc = "complete" /\ x.then = "failure" /\ x.run = k.run
        /\ x.nr = k.guards[n] /\ x.guards = g /\ x.nrs = k.nrs
    BY <2>1, <2>2, <2>3, <2>5 DEF Chain
  <2>7. x.nr # 0 /\ DOMAIN g = 1 .. (n - 1) /\ 1 .. (n - 1) \subseteq DOMAIN k.guards
    BY <1>1, <2>1, <2>2, <2>6 DEF NodeRunIds, n
  <2>8. \A j \in DOMAIN x.guards : nodeRuns[x.guards[j]].run = x.run
    BY <2>2, <2>6, <2>7 DEF Linked
  <2>9. nodeRuns[x.nr].run = x.run /\ \A i \in x.nrs : nodeRuns[i].run = x.run
    BY <2>1, <2>6 DEF Linked
  <2>10. k.run # NoRun /\ k.pc \notin CancelSteps \cup {"ack"}
    BY <1>2 DEF Linked
  <2>11. Linked(x) /\ ~Advancing(x)
    BY <2>6, <2>7, <2>8, <2>9, <2>10 DEF Linked, Opens, Advancing, CancelSteps
  <2> QED BY <2>6, <2>10, <2>11 DEF x
<1>3. CASE k.guards = <<>> /\ k.start
  <2>1. x = [k EXCEPT !.pc = "failure", !.start = FALSE]
    BY <1>3 DEF Thrown
  <2> HIDE DEF x
  <2>2. /\ x \in Chain /\ x.pc = "failure" /\ x.run = k.run /\ x.nr = k.nr
        /\ x.guards = k.guards /\ x.nrs = k.nrs
    BY <2>1 DEF Chain, Steps
  <2>3. Linked(x) /\ ~Advancing(x) /\ k.pc \notin CancelSteps \cup {"ack"}
    BY <1>3, <2>2 DEF Linked, Opens, Advancing, CancelSteps
  <2> QED BY <2>2, <2>3 DEF x
<1>4. CASE k.guards = <<>> /\ ~k.start
  <2>1. x = IdleTask
    BY <1>4 DEF Thrown
  <2> QED BY <2>1, IdleFacts DEF Advancing
<1> QED BY <1>2, <1>3, <1>4

\* The parts of the state, by where they live.
NodeRun == [run : Runs, node : Nodes, status : NodeRunStatus, exit : Exits \cup {Null}]

CommandsOK ==
    /\ DOMAIN cmds \subseteq NodeRunIds \X Devices
    /\ \A c \in DOMAIN cmds : cmds[c] \in [status : CommandStatus, reports : 0 .. MaxReports,
                                           exit : Exits \cup {Null}]

RowsOK ==
    /\ run \in [Runs -> Row] /\ nodeRuns \in Seq(NodeRun)
    /\ CommandsOK /\ cooldown \in [Nodes -> BOOLEAN]

FanOutOK ==
    /\ DOMAIN fanOut \subseteq NodeRunIds
    /\ \A i \in DOMAIN fanOut : fanOut[i] \in [expected : Nat, received : Nat,
                                               worst : Exits \cup {Null}]

MemoryOK == FanOutOK /\ timers \subseteq NodeRunIds \X {"run", "boot"} /\ booting \in BOOLEAN

HistoryOK ==
    /\ advanced \in [NodeRunIds -> Nat] /\ notified \in [Runs -> Nat]
    /\ faults \in 0 .. MaxFaults /\ crashes \in 0 .. MaxCrashes

\* Together they are the type invariant.
LEMMA Parts == TypeOK <=> RowsOK /\ MemoryOK /\ HistoryOK /\ task \in [Tasks -> Chain]
BY DEF TypeOK, RowsOK, MemoryOK, HistoryOK, NodeRun, CommandsOK, FanOutOK

\* A part no statement touches keeps its type.
LEMMA PartsStay ==
    ASSUME TypeInv, KeepsRows
    PROVE  /\ UNCHANGED dbVars => RowsOK'
           /\ UNCHANGED memVars => MemoryOK'
           /\ UNCHANGED <<histVars, faults, crashes>> => HistoryOK'
<1>1. NodeRunIds' = NodeRunIds
  BY DEF KeepsRows, NodeRunIds
<1>2. RowsOK /\ MemoryOK /\ HistoryOK
  BY Parts DEF TypeInv
<1>3. UNCHANGED dbVars => RowsOK'
  BY <1>1, <1>2 DEF dbVars, RowsOK, CommandsOK
<1>4. UNCHANGED memVars => MemoryOK'
  BY <1>1, <1>2 DEF memVars, MemoryOK, FanOutOK
<1>5. UNCHANGED <<histVars, faults, crashes>> => HistoryOK'
  BY <1>1, <1>2 DEF histVars, HistoryOK
<1> QED BY <1>3, <1>4, <1>5

\* A task makes a step and every part keeps its type.
LEMMA TypeMove ==
    ASSUME TypeInv, KeepsRows, NEW t \in Tasks, NEW k \in Chain, Linked(k), Become(t, k),
           UNCHANGED dbVars \/ RowsOK', UNCHANGED memVars \/ MemoryOK',
           UNCHANGED <<histVars, faults, crashes>> \/ HistoryOK'
    PROVE  TypeInv'
<1>1. task' \in [Tasks -> Chain'] /\ LinkInv'
  BY LinkMove
<1>2. RowsOK' /\ MemoryOK' /\ HistoryOK'
  BY PartsStay
<1>3. TypeOK'
  BY <1>1, <1>2 DEF TypeOK, RowsOK, MemoryOK, HistoryOK, NodeRun, CommandsOK, FanOutOK
<1> QED BY <1>1, <1>3 DEF TypeInv

\* Nobody writes the node runs.
LEMMA SameRows == UNCHANGED nodeRuns => KeepsRows
BY DEF KeepsRows

\* executeNode enters a node of a running run.
LEMMA EnterTypes ==
    ASSUME TypeInv, NEW t \in Tasks, EnterNode(t)
    PROVE  TypeInv'
<1> DEFINE k == task[t]
           seen == [run[k.run] EXCEPT !.visits[k.node] = @ + 1]
           pc == IF seen.visits[k.node] > MaxVisits THEN "failure" ELSE "visit"
           x == [k EXCEPT !.seen = seen, !.pc = pc]
<1>1. k \in Chain /\ Linked(k) /\ k.run \in Runs /\ k.pc = "enter" /\ k.node \in Nodes
  BY TaskFacts DEF EnterNode, Linked
<1>2. UNCHANGED <<dbVars, memVars, histVars, faults, crashes>> /\ UNCHANGED nodeRuns
  BY DEF EnterNode, dbVars
<1>3. CASE End(t)
  BY <1>2, <1>3, IdleFacts, SameRows, TypeMove DEF End
<1>4. CASE Become(t, x)
  <2>1. run[k.run] \in Row
    BY <1>1 DEF TypeInv, TypeOK
  <2>2. seen \in Row
    <3>1. PICK r \in Row : r = run[k.run]
      BY <2>1
    <3>2. seen = [r EXCEPT !.visits = [r.visits EXCEPT ![k.node] = r.visits[k.node] + 1]]
      BY <3>1
    <3>3. r.visits \in [Nodes -> Nat]
      BY DEF Row
    <3>4. [r.visits EXCEPT ![k.node] = r.visits[k.node] + 1] \in [Nodes -> Nat]
      BY <1>1, <3>3
    <3> QED BY <3>2, <3>4 DEF Row
  <2>3. pc \in {"failure", "visit"}
    OBVIOUS
  <2> HIDE DEF seen, pc
  <2>4. /\ x \in Chain /\ x.pc = pc /\ x.seen = seen /\ x.run = k.run /\ x.nr = k.nr
        /\ x.node = k.node /\ x.guards = k.guards /\ x.nrs = k.nrs
    BY <1>1, <2>2, <2>3 DEF Chain, Steps
  <2> HIDE DEF x
  <2>5. Linked(x)
    BY <1>1, <2>2, <2>3, <2>4 DEF Linked, Opens, Advancing, CancelSteps
  <2> QED BY <1>2, <1>4, <2>4, <2>5, SameRows, TypeMove
<1> QED BY <1>3, <1>4 DEF EnterNode

\* The columns current_node_id and visit_counts.
LEMMA VisitTypes ==
    ASSUME TypeInv, NEW t \in Tasks, RecordVisit(t)
    PROVE  TypeInv'
<1> DEFINE k == task[t]
           x == [k EXCEPT !.pc = "insert"]
<1>1. k \in Chain /\ Linked(k) /\ k.run \in Runs /\ k.pc = "visit" /\ k.node \in Nodes /\ k.seen \in Row
  BY TaskFacts DEF RecordVisit, Linked
<1>2. /\ UNCHANGED <<nodeRuns, cmds, cooldown, memVars, histVars, faults, crashes>> /\ Become(t, x)
      /\ run' = [run EXCEPT ![k.run].current = k.node, ![k.run].visits = k.seen.visits]
  BY DEF RecordVisit
<1>3. /\ x \in Chain /\ x.pc = "insert" /\ x.seen = k.seen /\ x.run = k.run /\ x.nr = k.nr
      /\ x.node = k.node /\ x.guards = k.guards /\ x.nrs = k.nrs
  <2>1. "insert" \in Steps
    BY DEF Steps
  <2> HIDE DEF k
  <2> QED BY <1>1, <2>1, GoesOn
<1>4. Linked(x)
  <2> HIDE DEF x
  <2> QED BY <1>1, <1>3 DEF Linked, Opens, Advancing, CancelSteps
<1>5. run' \in [Runs -> Row]
  <2>1. run[k.run] \in Row /\ run \in [Runs -> Row] /\ k.seen.visits \in [Nodes -> Nat]
    BY <1>1 DEF TypeInv, TypeOK, Row
  <2>2. run' = [run EXCEPT ![k.run] = [run[k.run] EXCEPT !.current = k.node, !.visits = k.seen.visits]]
    BY <1>1, <1>2, <2>1
  <2>3. [run[k.run] EXCEPT !.current = k.node, !.visits = k.seen.visits] \in Row
    BY <1>1, <2>1 DEF Row
  <2> QED BY <1>1, <2>1, <2>2, <2>3
<1>6. RowsOK'
  BY <1>2, <1>5, Parts DEF TypeInv, RowsOK, CommandsOK, NodeRunIds
<1> HIDE DEF x
<1> QED BY <1>2, <1>3, <1>4, <1>6, SameRows, TypeMove

\* A task goes on to a step that finds what it needs.
LEMMA Stepping ==
    ASSUME NEW k \in Chain, Linked(k), k.pc # "idle", NEW pc \in Steps \ {"idle"},
           \/ pc \in {"enter", "visit", "insert", "exec", "stamp", "enqueue", "ack", "advance"}
           \/ pc \in {"complete", "mirror"} /\ k.then = "advance"
           => k.node \in Nodes,
           pc \in {"visit", "insert", "exec"} => k.seen \in Row,
           pc \in {"exec", "stamp", "enqueue", "ack", "complete", "mirror", "advance"} => k.nr # 0,
           pc \in CancelSteps \cup {"ack"} => k.pc \in CancelSteps \cup {"ack"}
    PROVE  LET x == [k EXCEPT !.pc = pc]
           IN  x \in Chain /\ Linked(x) /\ x.pc = pc
<1> DEFINE x == [k EXCEPT !.pc = pc]
<1>1. /\ x \in Chain /\ x.pc = pc /\ x.seen = k.seen /\ x.run = k.run /\ x.nr = k.nr
      /\ x.node = k.node /\ x.guards = k.guards /\ x.nrs = k.nrs /\ x.start = k.start
      /\ x.then = k.then
  BY GoesOn
<1> HIDE DEF x
<1>2. Linked(x)
  BY <1>1 DEF Linked, Opens, Advancing
<1> QED BY <1>1, <1>2 DEF x

\* The steps of a task that write nothing but the task.
LEMMA QuietTypes ==
    ASSUME TypeInv, NEW t \in Tasks,
           ExecuteSync(t) \/ ExecuteBranch(t) \/ ExecuteCooldown(t) \/ ExecuteEnd(t) \/ CheckRun(t)
    PROVE  TypeInv'
<1> DEFINE k == task[t]
<1>1. k \in Chain /\ Linked(k) /\ k.pc \in {"exec", "ack"} /\ k.node \in Nodes /\ k.nr # 0
  BY TaskFacts DEF ExecuteSync, ExecuteBranch, ExecuteCooldown, ExecuteEnd, CheckRun, Executing,
                   Linked, Opens
<1>2. UNCHANGED <<dbVars, memVars, histVars, faults, crashes>> /\ UNCHANGED nodeRuns
  BY DEF ExecuteSync, ExecuteBranch, ExecuteCooldown, ExecuteEnd, CheckRun, dbVars
<1>3. ASSUME NEW x \in Chain, Linked(x), Become(t, x) PROVE TypeInv'
  BY <1>2, <1>3, SameRows, TypeMove
<1>4. \A st \in {"success", "failed"}, exit \in Exits \cup {Null},
         then \in {"advance", "success", "failure"} :
           LET x == Completing(k, st, exit, then) IN x \in Chain /\ Linked(x)
  <2> HIDE DEF k
  <2> QED BY <1>1, CompletingFacts
<1>5. Thrown(k) \in Chain /\ Linked(Thrown(k))
  <2> HIDE DEF k
  <2> QED BY <1>1, ThrownFacts
<1>6. {-1, 0, 1} \subseteq Exits
  BY DEF Exits
<1>7. CASE ExecuteSync(t)
  BY <1>3, <1>4, <1>5, <1>6, <1>7 DEF ExecuteSync
<1>8. CASE ExecuteBranch(t)
  <2> DEFINE e == IF Type[k.node] = "branch" THEN k.seen.exit ELSE Null
  <2>1. k.seen \in Row
    BY <1>1, <1>8 DEF Linked, ExecuteBranch, Executing
  <2>2. e \in Exits \cup {Null}
    BY <2>1 DEF Row
  <2>3. Become(t, Completing(k, "success", e, "advance"))
    BY <1>8 DEF ExecuteBranch
  <2> HIDE DEF e
  <2> QED BY <1>3, <1>4, <2>2, <2>3
<1>9. CASE ExecuteCooldown(t)
  <2>1. CASE cooldown[k.node]
    BY <1>3, <1>4, <1>6, <1>9, <2>1 DEF ExecuteCooldown
  <2>2. CASE ~cooldown[k.node]
    <3>1. Become(t, [k EXCEPT !.pc = "stamp"])
      BY <1>9, <2>2 DEF ExecuteCooldown
    <3>2. "stamp" \in Steps \ {"idle"} /\ "stamp" \notin CancelSteps \cup {"ack"}
      BY DEF Steps, CancelSteps
    <3>3. [k EXCEPT !.pc = "stamp"] \in Chain /\ Linked([k EXCEPT !.pc = "stamp"])
      <4> HIDE DEF k
      <4> QED BY <1>1, <3>2, Stepping
    <3> QED BY <1>3, <3>1, <3>3
  <2> QED BY <2>1, <2>2
<1>10. CASE ExecuteEnd(t)
  BY <1>3, <1>4, <1>10 DEF ExecuteEnd
<1>11. CASE CheckRun(t)
  <2>1. k.exit \in Exits \cup {Null}
    BY <1>1 DEF Chain
  <2> QED BY <1>3, <1>4, <1>11, <2>1, IdleFacts DEF CheckRun
<1> QED BY <1>7, <1>8, <1>9, <1>10, <1>11

\* A node run is inserted: the memory and the other tasks still refer to rows there are.
LEMMA InsertTypes ==
    ASSUME TypeInv, NEW t \in Tasks, InsertNodeRun(t)
    PROVE  TypeInv'
<1> DEFINE k  == task[t]
           id == Len(nodeRuns) + 1
           nr == [run |-> k.run, node |-> k.node, status |-> "running", exit |-> Null]
           x  == [k EXCEPT !.pc = "exec", !.nr = id, !.guards = Append(@, id)]
<1>1. k \in Chain /\ Linked(k) /\ k.run \in Runs /\ k.pc = "insert" /\ k.node \in Nodes /\ k.seen \in Row
  BY TaskFacts DEF InsertNodeRun, Linked
<1>2. /\ UNCHANGED <<run, cmds, cooldown, memVars, notified, faults, crashes>> /\ Become(t, x)
      /\ nodeRuns' = Append(nodeRuns, nr) /\ advanced' = Append(advanced, 0)
  BY DEF InsertNodeRun
<1>3. RowsOK /\ MemoryOK /\ HistoryOK
  BY Parts DEF TypeInv
<1>4. nr \in NodeRun
  BY <1>1 DEF NodeRun, NodeRunStatus
<1> HIDE DEF nr
<1>5. /\ nodeRuns' \in Seq(NodeRun) /\ Len(nodeRuns') = id /\ nodeRuns'[id] = nr
      /\ \A i \in NodeRunIds : nodeRuns'[i] = nodeRuns[i]
      /\ nodeRuns \in Seq(NodeRun) /\ Len(nodeRuns) \in Nat
  BY <1>2, <1>3, <1>4 DEF RowsOK, NodeRunIds
<1>6. NodeRunIds \subseteq NodeRunIds' /\ id \in NodeRunIds' /\ id # 0 /\ NodeRunIds' = 1 .. id
  BY <1>5 DEF NodeRunIds
<1>7. advanced' \in [NodeRunIds' -> Nat]
  <2>1. advanced \in [1 .. Len(nodeRuns) -> Nat]
    BY <1>3 DEF HistoryOK, NodeRunIds
  <2>2. advanced \in Seq(Nat) /\ Len(advanced) = Len(nodeRuns)
    BY <1>5, <2>1, SeqDef
  <2>3. advanced' \in Seq(Nat) /\ Len(advanced') = id
    BY <1>2, <2>2
  <2> QED BY <1>6, <2>3
<1>8. RowsOK'
  BY <1>2, <1>3, <1>5, <1>6 DEF RowsOK, CommandsOK
<1>9. MemoryOK'
  BY <1>2, <1>3, <1>6 DEF MemoryOK, FanOutOK, memVars
<1>10. HistoryOK'
  BY <1>2, <1>3, <1>7 DEF HistoryOK
<1>11. Seq(NodeRunIds) \subseteq Seq(NodeRunIds')
  <2> SUFFICES ASSUME NEW s \in Seq(NodeRunIds) PROVE s \in Seq(NodeRunIds')
    OBVIOUS
  <2>1. Len(s) \in Nat /\ s \in [1 .. Len(s) -> NodeRunIds]
    OBVIOUS
  <2>2. s \in [1 .. Len(s) -> NodeRunIds']
    BY <1>6, <2>1
  <2> QED BY <2>1, <2>2, SeqDef
<1>12. Chain \subseteq Chain'
  BY <1>6, <1>11 DEF Chain
<1>13. k.guards \in Seq(NodeRunIds) /\ k.guards \in Seq(NodeRunIds')
  BY <1>1, <1>11 DEF Chain
<1>14. /\ Append(k.guards, id) \in Seq(NodeRunIds') /\ Len(Append(k.guards, id)) = Len(k.guards) + 1
       /\ Append(k.guards, id)[Len(k.guards) + 1] = id
       /\ \A j \in 1 .. Len(k.guards) : Append(k.guards, id)[j] = k.guards[j]
       /\ DOMAIN k.guards = 1 .. Len(k.guards) /\ Len(k.guards) \in Nat
  BY <1>6, <1>13
<1>15. /\ x \in Chain' /\ x.pc = "exec" /\ x.nr = id /\ x.guards = Append(k.guards, id)
       /\ x.run = k.run /\ x.node = k.node /\ x.seen = k.seen /\ x.nrs = k.nrs
  <2>1. k \in Chain'
    BY <1>1, <1>12
  <2> DEFINE g == Append(k.guards, id)
  <2>2. x = [k EXCEPT !.pc = "exec", !.nr = id, !.guards = g]
    BY <2>1 DEF Chain
  <2>3. g \in Seq(NodeRunIds') /\ "exec" \in Steps
    BY <1>14 DEF Steps
  <2> HIDE DEF g, k, x
  <2>4. /\ x \in Chain' /\ x.pc = "exec" /\ x.nr = id /\ x.guards = g
        /\ x.run = k.run /\ x.node = k.node /\ x.seen = k.seen /\ x.nrs = k.nrs
    BY <1>6, <2>1, <2>2, <2>3 DEF Chain
  <2> QED BY <2>4 DEF g
<1>16. \A u \in Tasks : task'[u] = IF u = t THEN x ELSE task[u]
  BY <1>2, BecomeFacts
<1>17. task' \in [Tasks -> Chain']
  <2>1. task \in [Tasks -> Chain']
    BY <1>12, Parts DEF TypeInv
  <2> HIDE DEF x
  <2> QED BY <1>2, <1>15, <2>1 DEF Become
<1>18. ASSUME NEW u \in Tasks PROVE Linked(task[u])'
  <2>1. CASE u = t
    <3>1. task'[u] = x
      BY <1>16, <2>1
    <3>2. nodeRuns'[id].run = k.run /\ nr.run = k.run
      BY <1>5 DEF nr
    <3>3. \A i \in k.nrs : nodeRuns'[i].run = k.run
      BY <1>1, <1>5 DEF Linked, Chain
    <3>4. \A j \in 1 .. Len(k.guards) : nodeRuns'[k.guards[j]].run = k.run
      BY <1>1, <1>5, <1>13, <1>14 DEF Linked
    <3>5. \A j \in DOMAIN x.guards : nodeRuns'[x.guards[j]].run = k.run
      <4>1. DOMAIN x.guards = 1 .. (Len(k.guards) + 1)
        BY <1>14, <1>15
      <4>2. \A j \in 1 .. (Len(k.guards) + 1) : j \in 1 .. Len(k.guards) \/ j = Len(k.guards) + 1
        BY <1>14
      <4> QED BY <1>14, <1>15, <3>2, <3>4, <4>1, <4>2
    <3>6. k.run # NoRun
      BY <1>1 DEF Linked
    <3> HIDE DEF x
    <3> QED BY <1>1, <1>6, <1>15, <3>1, <3>2, <3>3, <3>5, <3>6 DEF Linked, Opens, Advancing, CancelSteps
  <2>2. CASE u # t
    <3>1. PICK y \in Chain : task'[u] = y /\ Linked(y)
      BY <1>16, <2>2, TaskFacts
    <3>2. /\ y.nr \in {0} \cup NodeRunIds /\ y.nrs \subseteq NodeRunIds
          /\ \A j \in DOMAIN y.guards : y.guards[j] \in NodeRunIds
      BY <3>1 DEF Chain
    <3>3. /\ y.nr # 0 => nodeRuns'[y.nr].run = y.run
          /\ \A j \in DOMAIN y.guards : nodeRuns'[y.guards[j]].run = y.run
          /\ \A i \in y.nrs : nodeRuns'[i].run = y.run
      BY <1>5, <3>1, <3>2 DEF Linked
    <3> QED BY <3>1, <3>3 DEF Linked, Opens, Advancing
  <2> QED BY <2>1, <2>2
<1>19. TypeOK'
  BY <1>8, <1>9, <1>10, <1>17 DEF TypeOK, RowsOK, MemoryOK, HistoryOK, NodeRun, CommandsOK, FanOutOK
<1> QED BY <1>18, <1>19 DEF TypeInv, LinkInv

\* The executor of an action registers its fan-out, or throws.
LEMMA ActionTypes ==
    ASSUME TypeInv, NEW t \in Tasks, ExecuteAction(t)
    PROVE  TypeInv'
<1> DEFINE k == task[t]
<1>1. k \in Chain /\ Linked(k) /\ k.pc = "exec" /\ k.node \in Nodes /\ k.nr # 0 /\ k.nr \in NodeRunIds
  BY TaskFacts DEF ExecuteAction, Executing, Linked, Opens, Chain
<1>2. PICK valid \in ValidTargets(k.node) :
        /\ fanOut' = IF Cardinality(valid) <= 1 THEN fanOut
                     ELSE [i \in DOMAIN fanOut \cup {k.nr} |->
                             IF i = k.nr THEN [expected |-> Cardinality(valid),
                                               received |-> 0, worst |-> Null]
                             ELSE fanOut[i]]
        /\ Become(t, IF valid = {} THEN Thrown(k) ELSE [k EXCEPT !.pc = "enqueue", !.devs = valid])
  BY DEF ExecuteAction
<1>3. UNCHANGED <<dbVars, timers, booting, histVars, faults, crashes>> /\ UNCHANGED nodeRuns
  BY DEF ExecuteAction, dbVars
<1>4. valid \in SUBSET Devices /\ Cardinality(valid) \in Nat
  BY <1>1, <1>2, ScenarioGraphAssumption, FS_Subset, FS_CardinalityType DEF ValidTargets
<1>5. MemoryOK'
  <2>1. MemoryOK /\ NodeRunIds' = NodeRunIds
    BY <1>3, Parts DEF TypeInv, NodeRunIds
  <2>2. CASE Cardinality(valid) <= 1
    BY <1>2, <1>3, <2>1, <2>2 DEF MemoryOK, FanOutOK
  <2>3. CASE ~(Cardinality(valid) <= 1)
    <3>1. /\ DOMAIN fanOut' = DOMAIN fanOut \cup {k.nr}
          /\ \A i \in DOMAIN fanOut' :
                fanOut'[i] = IF i = k.nr THEN [expected |-> Cardinality(valid), received |-> 0, worst |-> Null]
                             ELSE fanOut[i]
      BY <1>2, <2>3
    <3>2. FanOutOK'
      BY <1>1, <1>4, <2>1, <3>1 DEF MemoryOK, FanOutOK
    <3> QED BY <1>3, <2>1, <3>2 DEF MemoryOK
  <2> QED BY <2>2, <2>3
<1>6. CASE valid = {}
  <2>1. Become(t, Thrown(k))
    BY <1>2, <1>6
  <2>2. Thrown(k) \in Chain /\ Linked(Thrown(k))
    <3> HIDE DEF k
    <3> QED BY <1>1, ThrownFacts
  <2> QED BY <1>3, <1>5, <2>1, <2>2, SameRows, TypeMove
<1>7. CASE valid # {}
  <2> DEFINE x == [k EXCEPT !.pc = "enqueue", !.devs = valid]
  <2>1. Become(t, x)
    BY <1>2, <1>7
  <2>2. /\ x \in Chain /\ x.pc = "enqueue" /\ x.run = k.run /\ x.nr = k.nr
        /\ x.node = k.node /\ x.guards = k.guards /\ x.nrs = k.nrs
    <3> HIDE DEF k
    <3> QED BY <1>1, <1>4 DEF Chain, Steps
  <2> HIDE DEF x
  <2>3. Linked(x)
    BY <1>1, <2>2 DEF Linked, Opens, Advancing, CancelSteps
  <2> QED BY <1>3, <1>5, <2>1, <2>2, <2>3, SameRows, TypeMove
<1> QED BY <1>6, <1>7

\* A command is queued for one of the devices left.
LEMMA EnqueueTypes ==
    ASSUME TypeInv, NEW t \in Tasks, EnqueueCommand(t)
    PROVE  TypeInv'
<1> DEFINE k == task[t]
<1>1. k \in Chain /\ Linked(k) /\ k.pc = "enqueue" /\ k.nr # 0 /\ k.nr \in NodeRunIds /\ k.devs \subseteq Devices
  BY TaskFacts DEF EnqueueCommand, Linked, Opens, Chain
<1>2. PICK d \in k.devs :
        /\ cmds' = [i \in DOMAIN cmds \cup {<<k.nr, d>>} |->
                      IF i \in DOMAIN cmds THEN cmds[i]
                      ELSE [status |-> "pending", reports |-> 0, exit |-> Null]]
        /\ Become(t, IF k.devs = {d} THEN IdleTask ELSE [k EXCEPT !.devs = @ \ {d}])
  BY DEF EnqueueCommand
<1>3. UNCHANGED <<run, nodeRuns, cooldown, memVars, histVars, faults, crashes>>
  BY DEF EnqueueCommand
<1>4. RowsOK'
  <2>1. RowsOK /\ NodeRunIds' = NodeRunIds
    BY <1>3, Parts DEF TypeInv, NodeRunIds
  <2>2. /\ DOMAIN cmds' = DOMAIN cmds \cup {<<k.nr, d>>}
        /\ \A c \in DOMAIN cmds' :
              cmds'[c] = IF c \in DOMAIN cmds THEN cmds[c]
                         ELSE [status |-> "pending", reports |-> 0, exit |-> Null]
    BY <1>2
  <2>3. [status |-> "pending", reports |-> 0, exit |-> Null] \in
           [status : CommandStatus, reports : 0 .. MaxReports, exit : Exits \cup {Null}]
    BY ScenarioGraphAssumption DEF CommandStatus
  <2>4. CommandsOK'
    BY <1>1, <2>1, <2>2, <2>3 DEF RowsOK, CommandsOK
  <2> QED BY <1>3, <2>1, <2>4 DEF RowsOK
<1>5. CASE k.devs = {d}
  BY <1>2, <1>3, <1>4, <1>5, IdleFacts, SameRows, TypeMove
<1>6. CASE k.devs # {d}
  <2> DEFINE x == [k EXCEPT !.devs = @ \ {d}]
  <2>1. Become(t, x)
    BY <1>2, <1>6
  <2>2. /\ x \in Chain /\ x.pc = k.pc /\ x.run = k.run /\ x.nr = k.nr
        /\ x.node = k.node /\ x.guards = k.guards /\ x.nrs = k.nrs
    <3> HIDE DEF k
    <3> QED BY <1>1 DEF Chain
  <2> HIDE DEF x
  <2>3. Linked(x)
    BY <1>1, <2>2 DEF Linked, Opens, Advancing, CancelSteps
  <2> QED BY <1>3, <1>4, <2>1, <2>2, <2>3, SameRows, TypeMove
<1> QED BY <1>5, <1>6

\* A wait parks on its timer.
LEMMA WaitTypes ==
    ASSUME TypeInv, NEW t \in Tasks, ExecuteWait(t)
    PROVE  TypeInv'
<1>1. task[t].nr \in NodeRunIds
  BY TaskFacts DEF ExecuteWait, Executing, Linked, Opens, Chain
<1>2. /\ timers' = timers \cup {<<task[t].nr, "run">>} /\ End(t)
      /\ UNCHANGED <<dbVars, fanOut, booting, histVars, faults, crashes>> /\ UNCHANGED nodeRuns
  BY DEF ExecuteWait, dbVars
<1>3. MemoryOK'
  BY <1>1, <1>2, Parts DEF TypeInv, MemoryOK, FanOutOK, NodeRunIds
<1> QED BY <1>2, <1>3, IdleFacts, SameRows, TypeMove DEF End

\* The cooldown is stamped.
LEMMA StampTypes ==
    ASSUME TypeInv, NEW t \in Tasks, StampCooldown(t)
    PROVE  TypeInv'
<1> DEFINE k == task[t]
<1>1. k \in Chain /\ Linked(k) /\ k.pc = "stamp" /\ k.node \in Nodes /\ k.nr # 0
  BY TaskFacts DEF StampCooldown, Linked, Opens
<1>2. /\ cooldown' = [cooldown EXCEPT ![k.node] = TRUE]
      /\ Become(t, Completing(k, "success", 0, "advance"))
      /\ UNCHANGED <<run, nodeRuns, cmds, memVars, histVars, faults, crashes>>
  BY DEF StampCooldown
<1>3. RowsOK'
  BY <1>1, <1>2, Parts DEF TypeInv, RowsOK, CommandsOK, NodeRunIds
<1>4. LET x == Completing(k, "success", 0, "advance") IN x \in Chain /\ Linked(x)
  <2>1. 0 \in Exits
    BY DEF Exits
  <2> HIDE DEF k
  <2> QED BY <1>1, <2>1, CompletingFacts
<1> QED BY <1>2, <1>3, <1>4, SameRows, TypeMove

\* _completeNode: the row of the node run, then the exit code of the run.
LEMMA CompleteTypes ==
    ASSUME TypeInv, NEW t \in Tasks, CompleteNode(t)
    PROVE  TypeInv' /\ KeepsRows
<1> DEFINE k == task[t]
           x == [k EXCEPT !.pc = "mirror"]
<1>1. /\ k \in Chain /\ Linked(k) /\ k.pc = "complete" /\ k.nr # 0 /\ k.nr \in NodeRunIds
      /\ k.st \in NodeRunStatus /\ k.exit \in Exits \cup {Null}
  BY TaskFacts DEF CompleteNode, Linked, Chain
<1>2. /\ nodeRuns' = [nodeRuns EXCEPT ![k.nr].status = k.st, ![k.nr].exit = k.exit]
      /\ Become(t, x)
      /\ UNCHANGED <<run, cmds, cooldown, memVars, histVars, faults, crashes>>
  BY DEF CompleteNode
<1>3. RowsOK /\ nodeRuns \in Seq(NodeRun)
  BY Parts DEF TypeInv, RowsOK
<1>4. nodeRuns' \in Seq(NodeRun) /\ KeepsRows
  <2> DEFINE y == [nodeRuns[k.nr] EXCEPT !.status = k.st, !.exit = k.exit]
  <2>1. nodeRuns[k.nr] \in NodeRun
    BY <1>1, <1>3 DEF NodeRunIds
  <2>2. y \in NodeRun /\ y.run = nodeRuns[k.nr].run
    <3> HIDE DEF k
    <3> QED BY <1>1, <2>1 DEF NodeRun
  <2>3. nodeRuns' = [nodeRuns EXCEPT ![k.nr] = y]
    BY <1>1, <1>2, <1>3 DEF NodeRunIds
  <2> HIDE DEF y, k
  <2>4. nodeRuns' \in Seq(NodeRun) /\ Len(nodeRuns') = Len(nodeRuns)
    BY <1>1, <1>3, <2>2, <2>3 DEF NodeRunIds
  <2>5. \A i \in NodeRunIds : nodeRuns'[i] = IF i = k.nr THEN y ELSE nodeRuns[i]
    BY <1>1, <1>3, <2>3 DEF NodeRunIds
  <2> QED BY <2>2, <2>4, <2>5 DEF KeepsRows
<1>5. RowsOK'
  BY <1>2, <1>3, <1>4 DEF RowsOK, CommandsOK, KeepsRows, NodeRunIds
<1>6. x \in Chain /\ Linked(x)
  <2>1. "mirror" \in Steps \ {"idle"} /\ "mirror" \notin CancelSteps \cup {"ack"}
    BY DEF Steps, CancelSteps
  <2>2. k.then = "advance" => k.node \in Nodes
    BY <1>1 DEF Linked, Advancing
  <2> HIDE DEF k
  <2> QED BY <1>1, <2>1, <2>2, Stepping
<1> HIDE DEF x
<1> QED BY <1>2, <1>4, <1>5, <1>6, TypeMove

\* A column of one run is written.
LEMMA RunWritten ==
    ASSUME TypeInv, UNCHANGED <<nodeRuns, cmds, cooldown>>, NEW r \in Runs, NEW x \in Row,
           run' = [run EXCEPT ![r] = x]
    PROVE  RowsOK' /\ KeepsRows
<1>1. RowsOK
  BY Parts DEF TypeInv
<1> QED BY <1>1, SameRows DEF RowsOK, CommandsOK, NodeRunIds

\* The row of a run of some task.
LEMMA RunRow == ASSUME TypeInv, NEW r \in Runs PROVE run[r] \in Row /\ run \in [Runs -> Row]
BY DEF TypeInv, TypeOK

\* last_exit_code follows the node run.
LEMMA MirrorTypes ==
    ASSUME TypeInv, NEW t \in Tasks, MirrorExit(t)
    PROVE  TypeInv'
<1> DEFINE k == task[t]
           x == [k EXCEPT !.pc = k.then]
           y == [run[k.run] EXCEPT !.exit = k.exit]
<1>1. /\ k \in Chain /\ Linked(k) /\ k.pc = "mirror" /\ k.nr # 0 /\ k.run \in Runs
      /\ k.exit \in Exits \cup {Null} /\ k.then \in {"advance", "success", "failure"}
  BY TaskFacts DEF MirrorExit, Linked, Chain
<1>2. /\ run' = [run EXCEPT ![k.run].exit = k.exit] /\ Become(t, x)
      /\ UNCHANGED <<nodeRuns, cmds, cooldown, memVars, histVars, faults, crashes>>
  BY DEF MirrorExit
<1>3. y \in Row /\ run' = [run EXCEPT ![k.run] = y]
  BY <1>1, <1>2, RunRow DEF Row
<1>4. RowsOK' /\ KeepsRows
  <2> HIDE DEF y
  <2> QED BY <1>1, <1>2, <1>3, RunWritten
<1>5. x \in Chain /\ Linked(x)
  <2>1. k.then \in Steps \ {"idle"} /\ k.then \notin CancelSteps \cup {"ack"}
    BY <1>1 DEF Steps, CancelSteps
  <2>2. k.then = "advance" => k.node \in Nodes
    BY <1>1 DEF Linked, Advancing
  <2> HIDE DEF k
  <2> QED BY <1>1, <2>1, <2>2, Stepping
<1> HIDE DEF x
<1> QED BY <1>2, <1>4, <1>5, TypeMove

\* _advance goes to a node of the graph, or ends the run.
LEMMA AdvanceTypes ==
    ASSUME TypeInv, NEW t \in Tasks, Advance(t)
    PROVE  TypeInv'
<1> DEFINE k == task[t]
           next == Successor(k.run, k.node, k.exit)
<1>1. /\ k \in Chain /\ Linked(k) /\ k.pc = "advance" /\ k.nr # 0 /\ k.nr \in NodeRunIds
      /\ k.run \in Runs /\ k.node \in Nodes
  BY TaskFacts DEF Advance, Linked, Advancing, Chain
<1>2. /\ advanced' = [advanced EXCEPT ![k.nr] = @ + 1]
      /\ Become(t, IF next = Null THEN [k EXCEPT !.pc = "success"]
                   ELSE [k EXCEPT !.pc = "enter", !.node = next])
      /\ UNCHANGED <<dbVars, memVars, notified, faults, crashes>> /\ UNCHANGED nodeRuns
  BY DEF Advance, dbVars
<1>3. next \in Nodes \cup {Null}
  BY <1>1, PickFacts DEF Successor
<1> HIDE DEF next
<1>4. HistoryOK'
  BY <1>1, <1>2, Parts DEF TypeInv, HistoryOK, NodeRunIds
<1>5. CASE next = Null
  <2> DEFINE x == [k EXCEPT !.pc = "success"]
  <2>1. "success" \in Steps \ {"idle"} /\ "success" \notin CancelSteps \cup {"ack"}
    BY DEF Steps, CancelSteps
  <2>2. x \in Chain /\ Linked(x)
    <3> HIDE DEF k
    <3> QED BY <1>1, <2>1, Stepping
  <2>3. Become(t, x)
    BY <1>2, <1>5
  <2> HIDE DEF x
  <2> QED BY <1>2, <1>4, <2>2, <2>3, SameRows, TypeMove
<1>6. CASE next # Null
  <2> DEFINE x == [k EXCEPT !.pc = "enter", !.node = next]
  <2>1. /\ x \in Chain /\ x.pc = "enter" /\ x.run = k.run /\ x.nr = k.nr
        /\ x.node = next /\ x.guards = k.guards /\ x.nrs = k.nrs
    <3> HIDE DEF k
    <3> QED BY <1>1, <1>3 DEF Chain, Steps
  <2>2. Become(t, x)
    BY <1>2, <1>6
  <2> HIDE DEF x
  <2>3. Linked(x)
    BY <1>1, <1>3, <1>6, <2>1 DEF Linked, Opens, Advancing, CancelSteps
  <2> QED BY <1>2, <1>4, <2>1, <2>2, <2>3, SameRows, TypeMove
<1> QED BY <1>5, <1>6

\* The end of a run.
LEMMA MarkTypes ==
    ASSUME TypeInv, NEW t \in Tasks, MarkRun(t)
    PROVE  TypeInv'
<1> DEFINE k == task[t]
           y == [run[k.run] EXCEPT !.status = k.pc]
<1>1. k.pc \in {"success", "failure"} /\ k.run \in Runs
  BY TaskFacts DEF MarkRun
<1>2. /\ run' = [run EXCEPT ![k.run].status = k.pc] /\ End(t)
      /\ notified' = [notified EXCEPT ![k.run] = @ + 1]
      /\ UNCHANGED <<nodeRuns, cmds, cooldown, memVars, advanced, faults, crashes>>
  BY DEF MarkRun
<1>3. y \in Row /\ run' = [run EXCEPT ![k.run] = y]
  BY <1>1, <1>2, RunRow DEF Row, RunStatus
<1>4. RowsOK' /\ KeepsRows
  <2> HIDE DEF y
  <2> QED BY <1>1, <1>2, <1>3, RunWritten
<1>5. HistoryOK'
  BY <1>1, <1>2, Parts DEF TypeInv, HistoryOK, NodeRunIds
<1> QED BY <1>2, <1>4, <1>5, IdleFacts, TypeMove DEF End

\* A run starts.
LEMMA StartTypes ==
    ASSUME TypeInv, NEW t \in Tasks, NEW r \in Runs, NEW n \in Starts, NEW single \in BOOLEAN,
           StartRun(t, r, n, single)
    PROVE  TypeInv'
<1> DEFINE first == IF Type[n] = "trigger" THEN PickNextEdge(n, Null) ELSE n
           pc == IF first = Null THEN "failure" ELSE "enter"
           x == [IdleTask EXCEPT !.pc = pc, !.run = r, !.node = first, !.start = TRUE]
           y == [run[r] EXCEPT !.status = "running", !.single = single]
<1>1. first \in Nodes \cup {Null}
  BY PickFacts, ScenarioGraphAssumption
<1>2. /\ run' = [run EXCEPT ![r].status = "running", ![r].single = single] /\ Become(t, x)
      /\ UNCHANGED <<nodeRuns, cmds, cooldown, fanOut, timers, booting, histVars, faults, crashes>>
  BY DEF StartRun
<1>3. y \in Row /\ run' = [run EXCEPT ![r] = y]
  BY <1>2, RunRow DEF Row, RunStatus
<1>4. RowsOK' /\ KeepsRows
  <2> HIDE DEF y, x
  <2> QED BY <1>2, <1>3, RunWritten
<1>5. pc \in {"failure", "enter"} /\ (pc = "enter" => first # Null)
  OBVIOUS
<1> HIDE DEF first, pc
<1>6. /\ x \in Chain /\ x.pc = pc /\ x.run = r /\ x.nr = 0 /\ x.node = first
      /\ x.guards = <<>> /\ x.nrs = {}
  BY <1>1, <1>5, IdleFacts DEF Chain, Steps
<1> HIDE DEF x
<1>7. Linked(x)
  BY <1>1, <1>5, <1>6, ScenarioGraphAssumption DEF Linked, Opens, Advancing, CancelSteps
<1>8. UNCHANGED memVars
  BY <1>2 DEF memVars
<1> QED BY <1>2, <1>4, <1>6, <1>7, <1>8, TypeMove

\* A cancellation: the run, then its node runs, then their commands.
LEMMA CancelTypes ==
    ASSUME TypeInv, NEW t \in Tasks,
           \/ \E r \in Runs : BeginCancel(t, r)
           \/ CancelRunRow(t) \/ SelectNodeRuns(t) \/ CancelNodeRuns(t) \/ CancelCommands(t)
    PROVE  TypeInv' /\ KeepsRows
<1> DEFINE k == task[t]
<1>s. {"cancelRun", "cancelSelect", "cancelNodes", "cancelCommands"} \subseteq (Steps \ {"idle"}) \cap CancelSteps
      /\ {"enter", "visit", "insert", "exec", "stamp", "enqueue", "ack", "advance", "complete",
          "mirror"} \cap CancelSteps = {}
  BY DEF Steps, CancelSteps
<1>1. ASSUME NEW r \in Runs, BeginCancel(t, r) PROVE TypeInv' /\ KeepsRows
  <2> DEFINE x == [IdleTask EXCEPT !.pc = "cancelRun", !.run = r]
  <2>1. /\ Become(t, x) /\ UNCHANGED <<dbVars, memVars, histVars, faults, crashes>>
        /\ UNCHANGED nodeRuns
    BY <1>1 DEF BeginCancel, dbVars
  <2>2. /\ x \in Chain /\ x.pc = "cancelRun" /\ x.run = r /\ x.nr = 0
        /\ x.guards = <<>> /\ x.nrs = {} /\ ~x.start
    BY IdleFacts DEF Chain, Steps
  <2> HIDE DEF x
  <2>3. Linked(x)
    BY <2>2, ScenarioGraphAssumption DEF Linked, Opens, Advancing, CancelSteps
  <2> QED BY <2>1, <2>2, <2>3, SameRows, TypeMove
<1>2. CASE CancelRunRow(t)
  <2> DEFINE y == [run[k.run] EXCEPT !.status = "cancelled"]
             x == [k EXCEPT !.pc = "cancelSelect"]
  <2>1. k \in Chain /\ Linked(k) /\ k.pc = "cancelRun" /\ k.run \in Runs
    BY <1>2, TaskFacts DEF CancelRunRow
  <2>2. /\ run' = [run EXCEPT ![k.run].status = "cancelled"] /\ Become(t, x)
        /\ UNCHANGED <<nodeRuns, cmds, cooldown, memVars, histVars, faults, crashes>>
    BY <1>2 DEF CancelRunRow
  <2>3. y \in Row /\ run' = [run EXCEPT ![k.run] = y]
    BY <2>1, <2>2, RunRow DEF Row, RunStatus
  <2>4. RowsOK' /\ KeepsRows
    <3> HIDE DEF y
    <3> QED BY <2>1, <2>2, <2>3, RunWritten
  <2>5. x \in Chain /\ Linked(x)
    <3> HIDE DEF k
    <3> QED BY <1>s, <2>1, Stepping
  <2> HIDE DEF x
  <2> QED BY <2>2, <2>4, <2>5, TypeMove
<1>3. CASE SelectNodeRuns(t)
  <2> DEFINE nrs == InFlightNodeRuns(k.run)
             x == [k EXCEPT !.pc = "cancelNodes", !.nrs = nrs]
  <2>1. k \in Chain /\ Linked(k) /\ k.pc = "cancelSelect"
    BY <1>3, TaskFacts DEF SelectNodeRuns
  <2>2. /\ Become(t, IF nrs = {} THEN IdleTask ELSE x)
        /\ UNCHANGED <<dbVars, memVars, histVars, faults, crashes>> /\ UNCHANGED nodeRuns
    BY <1>3 DEF SelectNodeRuns, dbVars
  <2>3. nrs \subseteq NodeRunIds /\ \A i \in nrs : nodeRuns[i].run = k.run
    BY DEF InFlightNodeRuns
  <2> HIDE DEF nrs
  <2>4. /\ x \in Chain /\ x.pc = "cancelNodes" /\ x.run = k.run /\ x.nr = k.nr
        /\ x.guards = k.guards /\ x.nrs = nrs /\ x.start = k.start
    <3> HIDE DEF k
    <3> QED BY <1>s, <2>1, <2>3 DEF Chain
  <2> HIDE DEF x
  <2>5. Linked(x)
    BY <1>s, <2>1, <2>3, <2>4 DEF Linked, Opens, Advancing, CancelSteps
  <2>6. CASE nrs = {}
    BY <2>2, <2>6, IdleFacts, SameRows, TypeMove
  <2>7. CASE nrs # {}
    BY <2>2, <2>4, <2>5, <2>7, SameRows, TypeMove
  <2> QED BY <2>6, <2>7
<1>4. CASE CancelNodeRuns(t)
  <2> DEFINE x == [k EXCEPT !.pc = "cancelCommands"]
  <2>1. k \in Chain /\ Linked(k) /\ k.pc = "cancelNodes"
    BY <1>4, TaskFacts DEF CancelNodeRuns
  <2>2. /\ Become(t, x)
        /\ nodeRuns' = [i \in NodeRunIds |-> IF i \in k.nrs
                          THEN [nodeRuns[i] EXCEPT !.status = "cancelled"] ELSE nodeRuns[i]]
        /\ UNCHANGED <<run, cmds, cooldown, memVars, histVars, faults, crashes>>
    BY <1>4 DEF CancelNodeRuns
  <2>3. RowsOK /\ nodeRuns \in Seq(NodeRun) /\ Len(nodeRuns) \in Nat
    BY Parts DEF TypeInv, RowsOK
  <2>4. \A i \in NodeRunIds : /\ nodeRuns[i] \in NodeRun
                              /\ [nodeRuns[i] EXCEPT !.status = "cancelled"] \in NodeRun
                              /\ [nodeRuns[i] EXCEPT !.status = "cancelled"].run = nodeRuns[i].run
    <3>1. \A i \in NodeRunIds : nodeRuns[i] \in NodeRun
      BY <2>3 DEF NodeRunIds
    <3>2. \A y \in NodeRun : /\ [y EXCEPT !.status = "cancelled"] \in NodeRun
                             /\ [y EXCEPT !.status = "cancelled"].run = y.run
      BY DEF NodeRun, NodeRunStatus
    <3> QED BY <3>1, <3>2
  <2>5. nodeRuns' \in [1 .. Len(nodeRuns) -> NodeRun]
    BY <2>2, <2>4 DEF NodeRunIds
  <2>6. nodeRuns' \in Seq(NodeRun) /\ Len(nodeRuns') = Len(nodeRuns)
    BY <2>3, <2>5, SeqDef
  <2>7. KeepsRows
    BY <2>2, <2>4, <2>6 DEF KeepsRows
  <2>8. RowsOK'
    BY <2>2, <2>3, <2>6, <2>7 DEF RowsOK, CommandsOK, KeepsRows, NodeRunIds
  <2>9. x \in Chain /\ Linked(x)
    <3> HIDE DEF k
    <3> QED BY <1>s, <2>1, Stepping
  <2> HIDE DEF x
  <2> QED BY <2>2, <2>7, <2>8, <2>9, TypeMove
<1>5. CASE CancelCommands(t)
  <2>1. /\ cmds' = [c \in DOMAIN cmds |-> IF c[1] \in k.nrs /\ cmds[c].status = "pending"
                      THEN [cmds[c] EXCEPT !.status = "cancelled"] ELSE cmds[c]]
        /\ End(t)
        /\ UNCHANGED <<run, nodeRuns, cooldown, memVars, histVars, faults, crashes>>
    BY <1>5 DEF CancelCommands
  <2>2. RowsOK /\ NodeRunIds' = NodeRunIds
    BY <2>1, Parts DEF TypeInv, NodeRunIds
  <2>3. \A c \in DOMAIN cmds :
          [cmds[c] EXCEPT !.status = "cancelled"] \in
             [status : CommandStatus, reports : 0 .. MaxReports, exit : Exits \cup {Null}]
    BY <2>2 DEF RowsOK, CommandsOK, CommandStatus
  <2>4. CommandsOK'
    BY <2>1, <2>2, <2>3 DEF RowsOK, CommandsOK
  <2>5. RowsOK'
    BY <2>1, <2>2, <2>4 DEF RowsOK
  <2> QED BY <2>1, <2>5, IdleFacts, SameRows, TypeMove DEF End
<1> QED BY <1>1, <1>2, <1>3, <1>4, <1>5

\* A report of node run nr is counted, or a task resumes from it.
LEMMA AckTypes ==
    ASSUME TypeInv, UNCHANGED nodeRuns, NEW t \in Tasks, NEW nr \in NodeRunIds, NEW exit \in Exits,
           HandleNodeCommandAck(t, nr, exit)
    PROVE  /\ FanOutOK'
           /\ \/ UNCHANGED task
              \/ \E x \in Chain : /\ Linked(x) /\ Become(t, x) /\ x.pc = "ack" /\ x.nr = nr
                                  /\ x.run = nodeRuns[nr].run
<1>1. FanOutOK /\ NodeRunIds' = NodeRunIds /\ nodeRuns[nr] \in NodeRun
  <2>1. nodeRuns \in Seq(NodeRun) /\ FanOutOK
    BY Parts DEF TypeInv, MemoryOK, RowsOK
  <2> QED BY <2>1 DEF NodeRunIds
<1>2. ASSUME NEW e \in Exits \cup {Null}, Resume(t, nr, e)
      PROVE  \E x \in Chain : /\ Linked(x) /\ Become(t, x) /\ x.pc = "ack" /\ x.nr = nr
                              /\ x.run = nodeRuns[nr].run
  <2> DEFINE x == [IdleTask EXCEPT !.pc = "ack", !.nr = nr, !.run = nodeRuns[nr].run,
                                   !.node = nodeRuns[nr].node, !.exit = e]
  <2>1. Become(t, x)
    BY <1>2 DEF Resume
  <2>2. nodeRuns[nr].run \in Runs /\ nodeRuns[nr].node \in Nodes
    BY <1>1 DEF NodeRun
  <2>3. /\ x \in Chain /\ x.pc = "ack" /\ x.run = nodeRuns[nr].run /\ x.nr = nr
        /\ x.node = nodeRuns[nr].node /\ x.guards = <<>> /\ x.nrs = {} /\ ~x.start
    BY <2>2, IdleFacts, ZenonT(40) DEF Chain, Steps
  <2> HIDE DEF x
  <2>4. Linked(x)
    BY <2>2, <2>3, ScenarioGraphAssumption DEF Linked, Opens, Advancing, CancelSteps, NodeRunIds
  <2> QED BY <2>1, <2>3, <2>4
<1>3. CASE nr \notin DOMAIN fanOut
  <2>1. Resume(t, nr, exit) /\ UNCHANGED fanOut
    BY <1>3 DEF HandleNodeCommandAck
  <2> QED BY <1>1, <1>2, <2>1 DEF FanOutOK
<1>4. CASE nr \in DOMAIN fanOut
  <2> DEFINE p == Collected(fanOut[nr], exit)
             F == [expected : Nat, received : Nat, worst : Exits \cup {Null}]
  <2>1. p \in F
    <3>1. fanOut[nr] \in F
      BY <1>1, <1>4 DEF FanOutOK
    <3>2. Worse(fanOut[nr].worst, exit) \in Exits \cup {Null}
      BY <3>1 DEF Worse
    <3>3. p = [fanOut[nr] EXCEPT !.received = fanOut[nr].received + 1,
                                 !.worst = Worse(fanOut[nr].worst, exit)]
      BY <3>1 DEF Collected
    <3> HIDE DEF p
    <3>4. ASSUME NEW f \in F, NEW w \in Exits \cup {Null}
          PROVE  [f EXCEPT !.received = f.received + 1, !.worst = w] \in F
      <4>1. f.received + 1 \in Nat
        OBVIOUS
      <4> DEFINE n == f.received + 1
      <4> HIDE DEF n
      <4>2. [f EXCEPT !.received = n, !.worst = w] \in F
        BY <4>1 DEF n
      <4> QED BY <4>2 DEF n
    <3> QED BY <3>1, <3>2, <3>3, <3>4
  <2>2. p.worst \in Exits \cup {Null}
    BY <2>1
  <2>3. \/ fanOut' = [fanOut EXCEPT ![nr] = p] /\ UNCHANGED task
        \/ fanOut' = [i \in DOMAIN fanOut \ {nr} |-> fanOut[i]] /\ Resume(t, nr, p.worst)
    BY <1>4 DEF HandleNodeCommandAck
  <2> HIDE DEF p
  <2>4. CASE fanOut' = [fanOut EXCEPT ![nr] = p] /\ UNCHANGED task
    BY <1>1, <1>4, <2>1, <2>4 DEF FanOutOK
  <2>5. CASE fanOut' = [i \in DOMAIN fanOut \ {nr} |-> fanOut[i]] /\ Resume(t, nr, p.worst)
    <3>1. FanOutOK'
      BY <1>1, <2>5 DEF FanOutOK
    <3> QED BY <1>2, <2>2, <2>5, <3>1
  <2> QED BY <2>3, <2>4, <2>5
<1> QED BY <1>3, <1>4

\* The same for every part of the state.
LEMMA AckMoves ==
    ASSUME TypeInv, UNCHANGED nodeRuns, NEW t \in Tasks, NEW nr \in NodeRunIds, NEW exit \in Exits,
           HandleNodeCommandAck(t, nr, exit), RowsOK', timers' \subseteq timers,
           UNCHANGED <<booting, histVars, faults, crashes>>
    PROVE  TypeInv'
<1>1. FanOutOK'
  BY AckTypes
<1>2. MemoryOK'
  BY <1>1, Parts DEF TypeInv, MemoryOK, NodeRunIds
<1>3. CASE UNCHANGED task
  <2>1. task' \in [Tasks -> Chain'] /\ LinkInv'
    BY <1>3, LinkRest
  <2>2. HistoryOK'
    BY PartsStay, SameRows
  <2>3. TypeOK'
    BY <1>2, <2>1, <2>2 DEF TypeOK, RowsOK, MemoryOK, HistoryOK, NodeRun, CommandsOK, FanOutOK
  <2> QED BY <2>1, <2>3 DEF TypeInv
<1>4. CASE \E x \in Chain : Linked(x) /\ Become(t, x)
  BY <1>2, <1>4, SameRows, TypeMove
<1> QED BY <1>3, <1>4, AckTypes

\* A report of a command.
LEMMA ReportTypes ==
    ASSUME TypeInv, NEW t \in Tasks, NEW c \in DOMAIN cmds, NEW exit \in Exits, Report(t, c, exit)
    PROVE  TypeInv'
<1> DEFINE x == [status |-> "over", reports |-> cmds[c].reports + 1, exit |-> exit]
<1>1. RowsOK /\ c[1] \in NodeRunIds
  BY Parts DEF TypeInv, RowsOK, CommandsOK
<1>2. /\ cmds[c].reports < MaxReports /\ cmds' = [cmds EXCEPT ![c] = x]
      /\ HandleNodeCommandAck(t, c[1], exit)
      /\ UNCHANGED <<run, nodeRuns, cooldown, timers, booting, histVars, faults, crashes>>
  BY DEF Report
<1>3. x \in [status : CommandStatus, reports : 0 .. MaxReports, exit : Exits \cup {Null}]
  BY <1>1, <1>2, ScenarioGraphAssumption DEF RowsOK, CommandsOK, CommandStatus
<1> HIDE DEF x
<1>4. RowsOK'
  BY <1>1, <1>2, <1>3 DEF RowsOK, CommandsOK, NodeRunIds
<1> QED BY <1>1, <1>2, <1>4, AckMoves

\* A command that is sent, withdrawn, acknowledged as running or lost.
LEMMA RowMoveFacts ==
    ASSUME NEW c \in DOMAIN cmds, RowMoves(c)
    PROVE  /\ \E s \in CommandStatus : cmds' = [cmds EXCEPT ![c].status = s]
           /\ UNCHANGED <<run, nodeRuns, cooldown, memVars, task, histVars, faults, crashes>>
BY DEF RowMoves, SendCommand, CancelCommand, AckRunning, AckLost, Becomes, CommandStatus

\* The steps that no task makes.
LEMMA RestTypes ==
    ASSUME TypeInv, UNCHANGED <<task, nodeRuns>>, UNCHANGED dbVars \/ RowsOK',
           UNCHANGED memVars \/ MemoryOK', UNCHANGED <<histVars, faults, crashes>> \/ HistoryOK'
    PROVE  TypeInv'
<1>1. task' \in [Tasks -> Chain'] /\ LinkInv'
  BY LinkRest
<1>2. RowsOK' /\ MemoryOK' /\ HistoryOK'
  BY PartsStay, SameRows
<1>3. TypeOK'
  BY <1>1, <1>2 DEF TypeOK, RowsOK, MemoryOK, HistoryOK, NodeRun, CommandsOK, FanOutOK
<1> QED BY <1>1, <1>3 DEF TypeInv

\* Every step keeps every type and every link.
LEMMA TypeStep == TypeInv /\ [Next]_vars => TypeInv'
<1> SUFFICES ASSUME TypeInv, [Next]_vars PROVE TypeInv'
  OBVIOUS
<1>0. RowsOK /\ MemoryOK /\ HistoryOK
  BY Parts DEF TypeInv
<1>1. ASSUME NEW t \in Tasks, TaskStep(t) PROVE TypeInv'
  BY <1>1, EnterTypes, VisitTypes, InsertTypes, ActionTypes, EnqueueTypes, QuietTypes, WaitTypes,
     StampTypes, CompleteTypes, MirrorTypes, AdvanceTypes, MarkTypes, CancelTypes
     DEF TaskStep, Executor
<1>2. ASSUME NEW t \in Tasks, StatementFails(t) PROVE TypeInv'
  <2> DEFINE k == task[t]
  <2>1. /\ k.pc # "idle" /\ faults < MaxFaults /\ faults' = faults + 1
        /\ UNCHANGED <<dbVars, memVars, histVars, crashes>> /\ UNCHANGED nodeRuns
        /\ Become(t, CASE k.pc = "cancelNodes"      -> [k EXCEPT !.pc = "cancelCommands"]
                       [] k.pc \in CancelSteps \ {"cancelNodes"} -> IdleTask
                       [] k.pc \notin CancelSteps   -> Thrown(k))
    BY <1>2 DEF StatementFails, dbVars
  <2>2. HistoryOK'
    BY <1>0, <2>1, ScenarioGraphAssumption DEF HistoryOK, histVars, NodeRunIds
  <2>3. k \in Chain /\ Linked(k) /\ "cancelNodes" \in CancelSteps
    BY TaskFacts DEF CancelSteps
  <2>4. ASSUME NEW x \in Chain, Linked(x), Become(t, x) PROVE TypeInv'
    BY <2>1, <2>2, <2>4, SameRows, TypeMove
  <2>5. CASE k.pc = "cancelNodes"
    <3>1. "cancelCommands" \in Steps \ {"idle"} /\ "cancelNodes" \in CancelSteps
          /\ "cancelCommands" \notin {"enter", "visit", "insert", "exec", "stamp", "enqueue", "ack",
                                      "advance", "complete", "mirror"}
      BY DEF Steps, CancelSteps
    <3>2. [k EXCEPT !.pc = "cancelCommands"] \in Chain /\ Linked([k EXCEPT !.pc = "cancelCommands"])
      <4> HIDE DEF k
      <4> QED BY <2>3, <2>5, <3>1, Stepping
    <3>3. Become(t, [k EXCEPT !.pc = "cancelCommands"])
      BY <2>1, <2>3, <2>5
    <3> QED BY <2>4, <3>2, <3>3
  <2>6. CASE k.pc \in CancelSteps \ {"cancelNodes"}
    BY <2>1, <2>4, <2>6, IdleFacts
  <2>7. CASE k.pc \notin CancelSteps
    <3>1. Become(t, Thrown(k))
      BY <2>1, <2>3, <2>7
    <3>2. Thrown(k) \in Chain /\ Linked(Thrown(k))
      <4> HIDE DEF k
      <4> QED BY <2>1, <2>3, ThrownFacts
    <3> QED BY <2>4, <3>1, <3>2
  <2> QED BY <2>5, <2>6, <2>7
<1>3. ASSUME NEW t \in Tasks, NEW r \in Runs,
             \/ \E n \in Starts, single \in BOOLEAN : StartRun(t, r, n, single)
             \/ BeginCancel(t, r)
      PROVE  TypeInv'
  BY <1>3, StartTypes, CancelTypes
<1>4. ASSUME NEW r \in Runs, RecordDenial(r) PROVE TypeInv'
  <2> DEFINE y == [run[r] EXCEPT !.status = "cancelled"]
  <2>1. /\ run' = [run EXCEPT ![r].status = "cancelled"]
        /\ UNCHANGED <<nodeRuns, cmds, cooldown, memVars, task, histVars, faults, crashes>>
    BY <1>4 DEF RecordDenial
  <2>2. y \in Row /\ run' = [run EXCEPT ![r] = y]
    BY <2>1, RunRow DEF Row, RunStatus
  <2> HIDE DEF y
  <2>3. RowsOK'
    BY <2>1, <2>2, RunWritten
  <2> QED BY <2>1, <2>3, RestTypes
<1>5. ASSUME NEW t \in Tasks, NEW c \in DOMAIN cmds, AgentReports(t, c) \/ CommandExpires(t, c)
      PROVE  TypeInv'
  <2>1. -1 \in Exits /\ ExitCodes \subseteq Exits
    BY DEF Exits
  <2> QED BY <1>5, <2>1, ReportTypes DEF AgentReports, CommandExpires
<1>6. ASSUME NEW c \in DOMAIN cmds, RowMoves(c) PROVE TypeInv'
  <2>0. PICK s \in CommandStatus : cmds' = [cmds EXCEPT ![c].status = s]
    BY <1>6, RowMoveFacts
  <2> DEFINE x == [cmds[c] EXCEPT !.status = s]
  <2>1. /\ cmds' = [cmds EXCEPT ![c] = x]
        /\ UNCHANGED <<run, nodeRuns, cooldown, memVars, task, histVars, faults, crashes>>
    BY <1>6, <2>0, RowMoveFacts
  <2>2. x \in [status : CommandStatus, reports : 0 .. MaxReports, exit : Exits \cup {Null}]
    BY <1>0 DEF RowsOK, CommandsOK
  <2> HIDE DEF x
  <2>3. RowsOK'
    BY <1>0, <2>1, <2>2 DEF RowsOK, CommandsOK, NodeRunIds
  <2> QED BY <2>1, <2>3, RestTypes
<1>7. ASSUME NEW t \in Tasks, NEW w \in timers, TimerFires(t, w) PROVE TypeInv'
  <2>1. /\ timers' = timers \ {w} /\ HandleNodeCommandAck(t, w[1], 0)
        /\ UNCHANGED <<dbVars, booting, histVars, faults, crashes>> /\ UNCHANGED nodeRuns
    BY <1>7 DEF TimerFires, dbVars
  <2>2. w[1] \in NodeRunIds /\ 0 \in Exits
    BY <1>0 DEF MemoryOK, Exits
  <2>3. RowsOK'
    BY <2>1, PartsStay, SameRows
  <2> QED BY <2>1, <2>2, <2>3, AckMoves
<1>8. ASSUME NEW n \in Nodes, CooldownElapses(n) PROVE TypeInv'
  <2>1. /\ cooldown' = [cooldown EXCEPT ![n] = FALSE]
        /\ UNCHANGED <<run, nodeRuns, cmds, memVars, task, histVars, faults, crashes>>
    BY <1>8 DEF CooldownElapses
  <2>2. RowsOK'
    BY <1>0, <2>1 DEF RowsOK, CommandsOK, NodeRunIds
  <2> QED BY <2>1, <2>2, RestTypes
<1>9. CASE Crash
  <2>1. /\ crashes < MaxCrashes /\ crashes' = crashes + 1 /\ task' = [t \in Tasks |-> IdleTask]
        /\ fanOut' = <<>> /\ timers' = {} /\ booting' = TRUE
        /\ UNCHANGED <<dbVars, histVars, faults>> /\ UNCHANGED nodeRuns
    BY <1>9 DEF Crash, dbVars
  <2>2. NodeRunIds' = NodeRunIds /\ Chain' = Chain
    BY <2>1 DEF NodeRunIds, Chain
  <2>3. MemoryOK'
    BY <2>1 DEF MemoryOK, FanOutOK
  <2>4. HistoryOK'
    BY <1>0, <2>1, <2>2, ScenarioGraphAssumption DEF HistoryOK, histVars
  <2>5. RowsOK'
    BY <2>1, PartsStay, SameRows
  <2>6. task' \in [Tasks -> Chain'] /\ LinkInv'
    <3>1. \A t \in Tasks : task'[t] = IdleTask
      BY <2>1
    <3>2. \A t \in Tasks : Linked(task[t])'
      BY <3>1, IdleFacts DEF Linked, Opens, Advancing, CancelSteps
    <3> QED BY <2>1, <2>2, <3>2, IdleFacts DEF LinkInv
  <2>7. TypeOK'
    BY <2>3, <2>4, <2>5, <2>6 DEF TypeOK, RowsOK, MemoryOK, HistoryOK, NodeRun, CommandsOK, FanOutOK
  <2> QED BY <2>6, <2>7 DEF TypeInv
<1>10. CASE RearmWaitTimersOnBoot
  <2>1. /\ booting' = FALSE /\ timers' = timers \cup (WaitOrphans \X {"boot"})
        /\ UNCHANGED <<dbVars, fanOut, task, histVars, faults, crashes>> /\ UNCHANGED nodeRuns
    BY <1>10 DEF RearmWaitTimersOnBoot, dbVars
  <2>2. WaitOrphans \subseteq NodeRunIds /\ NodeRunIds' = NodeRunIds
    BY <2>1 DEF WaitOrphans, NodeRunIds
  <2>3. MemoryOK'
    BY <1>0, <2>1, <2>2 DEF MemoryOK, FanOutOK
  <2> QED BY <2>1, <2>3, RestTypes
<1>11. CASE UNCHANGED vars
  BY <1>11, RestTypes DEF vars, dbVars, memVars, histVars
<1> QED
  BY <1>1, <1>2, <1>3, <1>4, <1>5, <1>6, <1>7, <1>8, <1>9, <1>10, <1>11 DEF Next

\* Types and links hold at the start.
LEMMA TypeInit == Init => TypeInv
<1> SUFFICES ASSUME Init PROVE TypeInv
  OBVIOUS
<1>1. NewRun \in Row
  BY DEF NewRun, Row, RunStatus
<1>2. NodeRunIds = {} /\ nodeRuns \in Seq(NodeRun) /\ DOMAIN advanced = {}
  BY DEF Init, NodeRunIds
<1>3. RowsOK
  BY <1>1, <1>2 DEF Init, RowsOK, CommandsOK
<1>4. MemoryOK
  <2>1. DOMAIN fanOut = {}
    BY DEF Init
  <2> QED BY <2>1 DEF Init, MemoryOK, FanOutOK
<1>5. advanced \in [NodeRunIds -> Nat]
  BY <1>2 DEF Init
<1>6. HistoryOK
  BY <1>5, ScenarioGraphAssumption DEF Init, HistoryOK
<1>7. task \in [Tasks -> Chain] /\ \A t \in Tasks : task[t] = IdleTask
  BY IdleFacts DEF Init
<1>8. TypeOK
  BY <1>3, <1>4, <1>6, <1>7, Parts
<1> QED BY <1>7, <1>8, IdleFacts DEF TypeInv, LinkInv

\* Every row holds a value of its column's type, every entry of the engine's memory refers
\* to a node run that exists, and every task to node runs of its own run: for any
\* graph, any number of reports, failing statements and restarts.
THEOREM ScenarioTypes == Spec => []TypeOK
<1>1. TypeInv => TypeOK
  BY DEF TypeInv
<1> QED BY <1>1, TypeInit, TypeStep, PTL DEF Spec

-----------------------------------------------------------------------------
(* The steps of a walk *)

\* The steps of a task that walks, apart from those that add a node run, a command, a
\* fan-out or a timer, or leave a node run.
PlainStep(t) ==
    \/ EnterNode(t) \/ RecordVisit(t) \/ ExecuteSync(t) \/ ExecuteBranch(t) \/ ExecuteCooldown(t)
    \/ StampCooldown(t) \/ ExecuteEnd(t) \/ CompleteNode(t) \/ MirrorExit(t) \/ MarkRun(t)
    \/ CheckRun(t)
    \/ StatementFails(t) /\ task[t].pc \notin CancelSteps

\* Where such a step takes the task: to the same run or none, and towards _advance only
\* from the node run it was at.
PlainMove(k, x) ==
    /\ x.run \in {k.run, NoRun}
    /\ x.pc \notin CancelSteps \cup {"exec", "enqueue", "ack"}
    /\ Advancing(x) => x.nr = k.nr /\ (k.pc \in {"exec", "stamp", "ack"} \/ Advancing(k))
    /\ x.pc = "stamp" => x.nr = k.nr /\ k.pc = "exec"
    /\ k.pc = "ack" /\ x.pc # "idle" => run[k.run].status = "running"

\* Every plain step is such a move, and leaves commands, fan-outs and timers.
LEMMA PlainMoves ==
    ASSUME TypeInv, NEW t \in Tasks, PlainStep(t)
    PROVE  /\ PlainMove(task[t], task'[t])
           /\ task[t].pc \notin CancelSteps \cup {"idle"}
           /\ \A u \in Tasks \ {t} : task'[u] = task[u]
           /\ KeepsRows /\ UNCHANGED <<cmds, fanOut, timers, booting, advanced>>
<1> DEFINE k == task[t]
<1>1. k \in Chain /\ Linked(k)
  BY TaskFacts
<1>2. k.pc \notin CancelSteps \cup {"idle"}
  BY DEF PlainStep, EnterNode, RecordVisit, ExecuteSync, ExecuteBranch, ExecuteCooldown, Executing,
         StampCooldown, ExecuteEnd, CompleteNode, MirrorExit, MarkRun, CheckRun, StatementFails,
         CancelSteps
<1>3. KeepsRows
  <2>1. CASE CompleteNode(t)
    BY <2>1, CompleteTypes
  <2>2. CASE ~CompleteNode(t)
    <3>1. UNCHANGED nodeRuns
      BY <2>2 DEF PlainStep, EnterNode, RecordVisit, ExecuteSync, ExecuteBranch, ExecuteCooldown,
             StampCooldown, ExecuteEnd, MirrorExit, MarkRun, CheckRun, StatementFails, dbVars
    <3> QED BY <3>1, SameRows
  <2> QED BY <2>1, <2>2
<1>4. UNCHANGED <<cmds, fanOut, timers, booting, advanced>>
  BY DEF PlainStep, EnterNode, RecordVisit, ExecuteSync, ExecuteBranch, ExecuteCooldown,
         StampCooldown, ExecuteEnd, CompleteNode, MirrorExit, MarkRun, CheckRun, StatementFails,
         dbVars, memVars, histVars
<1>5. ASSUME NEW x, Become(t, x), PlainMove(k, x)
      PROVE  PlainMove(task[t], task'[t]) /\ \A u \in Tasks \ {t} : task'[u] = task[u]
  <2>1. task'[t] = x /\ \A u \in Tasks \ {t} : task'[u] = task[u]
    BY <1>5, BecomeFacts
  <2> QED BY <1>5, <2>1
<1>6. PlainMove(k, IdleTask)
  BY IdleFacts DEF PlainMove, CancelSteps, Advancing
<1>7. ASSUME k.nr # 0, k.node \in Nodes, k.pc \in {"exec", "stamp"} \/ (k.pc = "ack" /\ run[k.run].status = "running"),
             NEW st \in {"success", "failed"}, NEW exit \in Exits \cup {Null},
             NEW then \in {"advance", "success", "failure"}
      PROVE  PlainMove(k, Completing(k, st, exit, then))
  <2>1. PICK x : /\ x = Completing(k, st, exit, then) /\ x.pc = "complete"
                 /\ x.run = k.run /\ x.nr = k.nr
    <3> HIDE DEF k
    <3> QED BY <1>1, <1>2, <1>7, CompletingFacts
  <2> QED BY <1>7, <2>1 DEF PlainMove, CancelSteps
<1>8. k.pc # "ack" => PlainMove(k, Thrown(k))
  <2>1. PICK x : /\ x = Thrown(k) /\ ~Advancing(x) /\ x.pc \in {"complete", "failure", "idle"}
                 /\ x.pc # "idle" => x.run = k.run
                 /\ x.pc = "idle" => x.run = NoRun
    <3>1. LET x == Thrown(k)
          IN  /\ Linked(x) /\ ~Advancing(x) /\ x.pc \in {"complete", "failure", "idle"}
              /\ x.pc # "idle" => x.run = k.run
      <4> HIDE DEF k
      <4> QED BY <1>1, <1>2, ThrownFacts
    <3> QED BY <3>1 DEF Linked
  <2> QED BY <2>1 DEF PlainMove, CancelSteps
<1>9. k.pc = "ack" => Thrown(k) = IdleTask
  BY <1>1 DEF Linked, Thrown
<1>10. ASSUME NEW pc \in {"visit", "insert", "stamp", "mirror", "failure", "success", "advance"},
              pc = "stamp" => k.pc = "exec", pc = "advance" => Advancing(k), k.pc # "ack",
              pc = "mirror" /\ k.then = "advance" => Advancing(k)
       PROVE  PlainMove(k, [k EXCEPT !.pc = pc])
  <2>1. pc \in Steps
    BY DEF Steps
  <2> DEFINE x == [k EXCEPT !.pc = pc]
  <2>2. x.pc = pc /\ x.run = k.run /\ x.nr = k.nr /\ x.then = k.then
    <3> HIDE DEF k
    <3> QED BY <1>1, <2>1, GoesOn
  <2> HIDE DEF x
  <2>3. PlainMove(k, x)
    BY <1>10, <2>2 DEF PlainMove, CancelSteps, Advancing
  <2> QED BY <2>3 DEF x
<1>e. {-1, 0, 1} \subseteq Exits
  BY DEF Exits
<1>11. CASE EnterNode(t)
  <2> DEFINE seen == [run[k.run] EXCEPT !.visits[k.node] = @ + 1]
             pc == IF seen.visits[k.node] > MaxVisits THEN "failure" ELSE "visit"
  <2>1. k.pc = "enter" /\ (End(t) \/ Become(t, [k EXCEPT !.seen = seen, !.pc = pc]))
    BY <1>11 DEF EnterNode
  <2>2. pc \in {"failure", "visit"}
    OBVIOUS
  <2> HIDE DEF seen, pc
  <2> DEFINE x == [k EXCEPT !.seen = seen, !.pc = pc]
  <2>3. x.pc = pc /\ x.run = k.run
    <3> HIDE DEF k
    <3> QED BY <1>1 DEF Chain
  <2>a. Become(t, x) \/ End(t)
    BY <2>1
  <2> HIDE DEF x
  <2>4. PlainMove(k, x)
    BY <2>1, <2>2, <2>3 DEF PlainMove, CancelSteps, Advancing
  <2> QED BY <1>2, <1>3, <1>4, <1>5, <1>6, <2>4, <2>a DEF End
<1>12. CASE RecordVisit(t)
  BY <1>2, <1>3, <1>4, <1>5, <1>10, <1>12 DEF RecordVisit
<1>13. CASE ExecuteSync(t)
  <2>1. k.pc = "exec" /\ k.nr # 0 /\ k.node \in Nodes
    BY <1>1, <1>13 DEF ExecuteSync, Executing, Linked, Opens
  <2> QED BY <1>2, <1>3, <1>4, <1>5, <1>7, <1>8, <1>e, <1>13, <2>1 DEF ExecuteSync
<1>14. CASE ExecuteBranch(t)
  <2> DEFINE e == IF Type[k.node] = "branch" THEN k.seen.exit ELSE Null
  <2>1. k.pc = "exec" /\ k.nr # 0 /\ k.node \in Nodes /\ k.seen \in Row
    BY <1>1, <1>14 DEF ExecuteBranch, Executing, Linked, Opens
  <2>2. e \in Exits \cup {Null}
    BY <2>1 DEF Row
  <2>3. Become(t, Completing(k, "success", e, "advance"))
    BY <1>14 DEF ExecuteBranch
  <2> HIDE DEF e
  <2> QED BY <1>2, <1>3, <1>4, <1>5, <1>7, <2>1, <2>2, <2>3
<1>15. CASE ExecuteCooldown(t)
  <2>1. k.pc = "exec" /\ k.nr # 0 /\ k.node \in Nodes
    BY <1>1, <1>15 DEF ExecuteCooldown, Executing, Linked, Opens
  <2>2. PlainMove(k, Completing(k, "success", -1, "success"))
    BY <1>7, <1>e, <2>1
  <2>3. PlainMove(k, [k EXCEPT !.pc = "stamp"])
    BY <1>10, <2>1
  <2> QED BY <1>2, <1>3, <1>4, <1>5, <1>15, <2>2, <2>3 DEF ExecuteCooldown
<1>16. CASE StampCooldown(t)
  <2>1. k.pc = "stamp" /\ k.nr # 0 /\ k.node \in Nodes
    BY <1>1, <1>16 DEF StampCooldown, Linked, Opens
  <2> QED BY <1>2, <1>3, <1>4, <1>5, <1>7, <1>e, <1>16, <2>1 DEF StampCooldown
<1>17. CASE ExecuteEnd(t)
  <2>1. k.pc = "exec" /\ k.nr # 0 /\ k.node \in Nodes
    BY <1>1, <1>17 DEF ExecuteEnd, Executing, Linked, Opens
  <2> QED BY <1>2, <1>3, <1>4, <1>5, <1>7, <1>17, <2>1 DEF ExecuteEnd
<1>18. CASE CompleteNode(t)
  <2>1. k.pc = "complete" /\ Become(t, [k EXCEPT !.pc = "mirror"])
    BY <1>18 DEF CompleteNode
  <2>2. PlainMove(k, [k EXCEPT !.pc = "mirror"])
    BY <1>10, <2>1 DEF Advancing
  <2> QED BY <1>2, <1>3, <1>4, <1>5, <2>1, <2>2
<1>19. CASE MirrorExit(t)
  <2>1. /\ k.pc = "mirror" /\ Become(t, [k EXCEPT !.pc = k.then])
        /\ k.then \in {"advance", "success", "failure"}
    BY <1>1, <1>19 DEF MirrorExit, Chain
  <2>2. PlainMove(k, [k EXCEPT !.pc = k.then])
    BY <1>10, <2>1 DEF Advancing
  <2> QED BY <1>2, <1>3, <1>4, <1>5, <2>1, <2>2
<1>20. CASE MarkRun(t)
  BY <1>2, <1>3, <1>4, <1>5, <1>6, <1>20 DEF MarkRun, End
<1>21. CASE CheckRun(t)
  <2>1. k.pc = "ack" /\ k.nr # 0 /\ k.node \in Nodes /\ k.exit \in Exits \cup {Null}
    BY <1>1, <1>21 DEF CheckRun, Linked, Chain
  <2> QED BY <1>2, <1>3, <1>4, <1>5, <1>6, <1>7, <1>21, <2>1 DEF CheckRun
<1>22. CASE StatementFails(t) /\ k.pc \notin CancelSteps
  <2>1. Become(t, Thrown(k))
    BY <1>22 DEF StatementFails, CancelSteps
  <2> QED BY <1>2, <1>3, <1>4, <1>5, <1>6, <1>8, <1>9, <2>1
<1> QED
  BY <1>11, <1>12, <1>13, <1>14, <1>15, <1>16, <1>17, <1>18, <1>19, <1>20, <1>21, <1>22 DEF PlainStep
-----------------------------------------------------------------------------
(* What ended stays *)

\* A step writes only rows of run q.
OwnWrites(q) ==
    /\ \A p \in Runs \ {q} : run'[p] = run[p]
    /\ NodeRunIds \subseteq NodeRunIds'
    /\ \A i \in NodeRunIds : /\ nodeRuns'[i].run = nodeRuns[i].run
                             /\ nodeRuns[i].run # q => /\ nodeRuns'[i] = nodeRuns[i]
                                                       /\ CommandsOf(i)' = CommandsOf(i)
    /\ \A i \in NodeRunIds' \ NodeRunIds : nodeRuns'[i].run = q

\* The rows of run r stay.
KeepsRun(r) ==
    /\ run'[r] = run[r]
    /\ NodeRunsOf(r)' = NodeRunsOf(r)
    /\ \A i \in NodeRunsOf(r) : nodeRuns'[i] = nodeRuns[i] /\ CommandsOf(i)' = CommandsOf(i)

\* Rows of another run are not written.
LEMMA OthersKept ==
    ASSUME NEW q, NEW r \in Runs, r # q, OwnWrites(q)
    PROVE  KeepsRun(r)
<1>1. NodeRunsOf(r)' = NodeRunsOf(r)
  BY DEF OwnWrites, NodeRunsOf
<1> QED BY <1>1 DEF OwnWrites, KeepsRun, NodeRunsOf

\* A step that adds no node run and no command, and writes no node run.
LEMMA RunOnly ==
    ASSUME NEW q, \A p \in Runs \ {q} : run'[p] = run[p], UNCHANGED nodeRuns,
           UNCHANGED (DOMAIN cmds)
    PROVE  OwnWrites(q)
BY DEF OwnWrites, NodeRunIds, CommandsOf

\* A row of scenario_runs is written by its id.
LEMMA OneRunWritten ==
    ASSUME TypeInv, NEW q \in Runs, NEW y, run' = [run EXCEPT ![q] = y]
    PROVE  \A p \in Runs \ {q} : run'[p] = run[p]
BY DEF TypeInv, TypeOK

\* A task in flight writes rows of its own run, and stays with it or ends.
LEMMA TaskWrites ==
    ASSUME TypeInv, NEW t \in Tasks, TaskStep(t) \/ StatementFails(t)
    PROVE  /\ task[t].run \in Runs
           /\ OwnWrites(task[t].run)
           /\ task'[t].run \in {task[t].run, NoRun}
           /\ \A u \in Tasks \ {t} : task'[u] = task[u]
<1> DEFINE k == task[t]
           q == k.run
<1>1. k \in Chain /\ Linked(k)
  BY TaskFacts
<1>2. k.pc # "idle"
  BY DEF TaskStep, Executor, EnterNode, RecordVisit, InsertNodeRun, ExecuteAction, EnqueueCommand,
         ExecuteSync, ExecuteBranch, ExecuteWait, ExecuteCooldown, Executing, StampCooldown,
         ExecuteEnd, CompleteNode, MirrorExit, Advance, MarkRun, CheckRun, CancelRunRow,
         SelectNodeRuns, CancelNodeRuns, CancelCommands, StatementFails
<1>3. q \in Runs
  BY <1>2, TaskFacts
<1>4. ASSUME NEW x, Become(t, x), x.run \in {q, NoRun}
      PROVE  task'[t].run \in {q, NoRun} /\ \A u \in Tasks \ {t} : task'[u] = task[u]
  BY <1>4, BecomeFacts
<1>5. PlainStep(t) => task'[t].run \in {q, NoRun} /\ \A u \in Tasks \ {t} : task'[u] = task[u]
  BY PlainMoves DEF PlainMove
<1>6. ASSUME NEW pc \in Steps PROVE [k EXCEPT !.pc = pc].run = q
  <2> HIDE DEF k
  <2> QED BY <1>1, GoesOn
<1>7. Thrown(k).run \in {q, NoRun}
  <2>1. LET x == Thrown(k) IN Linked(x) /\ (x.pc # "idle" => x.run = k.run)
    <3> HIDE DEF k
    <3> QED BY <1>1, <1>2, ThrownFacts
  <2> QED BY <2>1 DEF Linked
<1>8. IdleTask.run = NoRun
  BY IdleFacts
<1>9. CASE EnterNode(t) \/ ExecuteSync(t) \/ ExecuteBranch(t) \/ ExecuteCooldown(t)
           \/ StampCooldown(t) \/ ExecuteEnd(t) \/ CheckRun(t)
  <2>1. UNCHANGED <<run, nodeRuns, cmds>>
    BY <1>9 DEF EnterNode, ExecuteSync, ExecuteBranch, ExecuteCooldown, StampCooldown, ExecuteEnd,
                CheckRun, dbVars
  <2>2. OwnWrites(q)
    BY <2>1, RunOnly
  <2> QED BY <1>3, <1>5, <1>9, <2>2 DEF PlainStep
<1>10. CASE RecordVisit(t) \/ MirrorExit(t) \/ MarkRun(t)
  <2>1. UNCHANGED <<nodeRuns, cmds>> /\ \E y : run' = [run EXCEPT ![q] = y]
    BY <1>10 DEF RecordVisit, MirrorExit, MarkRun
  <2>2. OwnWrites(q)
    BY <1>3, <2>1, OneRunWritten, RunOnly
  <2> QED BY <1>3, <1>5, <1>10, <2>2 DEF PlainStep
<1>11. CASE InsertNodeRun(t)
  <2> DEFINE id == Len(nodeRuns) + 1
             e == [run |-> k.run, node |-> k.node, status |-> "running", exit |-> Null]
             x == [k EXCEPT !.pc = "exec", !.nr = id, !.guards = Append(@, id)]
  <2>1. nodeRuns' = Append(nodeRuns, e) /\ UNCHANGED <<run, cmds>> /\ Become(t, x)
    BY <1>11 DEF InsertNodeRun
  <2>2. nodeRuns \in Seq(NodeRun) /\ e.run = q
    BY Parts DEF TypeInv, RowsOK
  <2>3. /\ NodeRunIds' = NodeRunIds \cup {id} /\ nodeRuns'[id] = e
        /\ \A i \in NodeRunIds : nodeRuns'[i] = nodeRuns[i]
    <3> HIDE DEF e
    <3>1. Len(nodeRuns') = Len(nodeRuns) + 1 /\ Len(nodeRuns) \in Nat
      BY <2>1, <2>2
    <3>2. \A i \in 1 .. Len(nodeRuns') : nodeRuns'[i] = IF i = id THEN e ELSE nodeRuns[i]
      BY <2>1, <2>2
    <3> QED BY <3>1, <3>2 DEF NodeRunIds
  <2>4. OwnWrites(q)
    BY <2>1, <2>2, <2>3 DEF OwnWrites, CommandsOf
  <2>5. x.run = q
    <3> HIDE DEF k
    <3> QED BY <1>1 DEF Chain
  <2> HIDE DEF x
  <2> QED BY <1>3, <1>4, <2>1, <2>4, <2>5
<1>12. CASE ExecuteAction(t)
  <2>1. UNCHANGED <<run, nodeRuns, cmds>>
        /\ (Become(t, Thrown(k)) \/ \E valid : Become(t, [k EXCEPT !.pc = "enqueue", !.devs = valid]))
    BY <1>12 DEF ExecuteAction, dbVars
  <2>2. OwnWrites(q)
    BY <2>1, RunOnly
  <2>3. \A valid : [k EXCEPT !.pc = "enqueue", !.devs = valid].run = q
    <3> HIDE DEF k
    <3> QED BY <1>1 DEF Chain
  <2> QED BY <1>3, <1>4, <1>7, <2>1, <2>2, <2>3
<1>13. CASE EnqueueCommand(t)
  <2>1. PICK d \in k.devs :
          /\ cmds' = [i \in DOMAIN cmds \cup {<<k.nr, d>>} |->
                        IF i \in DOMAIN cmds THEN cmds[i]
                        ELSE [status |-> "pending", reports |-> 0, exit |-> Null]]
          /\ Become(t, IF k.devs = {d} THEN IdleTask ELSE [k EXCEPT !.devs = @ \ {d}])
    BY <1>13 DEF EnqueueCommand
  <2>2. UNCHANGED <<run, nodeRuns>> /\ k.nr # 0 /\ k.nr \in NodeRunIds
    BY <1>1, <1>13 DEF EnqueueCommand, Linked, Opens, Chain
  <2>3. nodeRuns[k.nr].run = q /\ DOMAIN cmds' = DOMAIN cmds \cup {<<k.nr, d>>}
    BY <1>1, <2>1, <2>2 DEF Linked
  <2>4. \A i \in NodeRunIds : i # k.nr => CommandsOf(i)' = CommandsOf(i)
    BY <2>3 DEF CommandsOf
  <2>5. OwnWrites(q)
    BY <2>2, <2>3, <2>4 DEF OwnWrites, NodeRunIds
  <2>6. [k EXCEPT !.devs = @ \ {d}].run = q
    <3> HIDE DEF k
    <3> QED BY <1>1 DEF Chain
  <2> QED BY <1>3, <1>4, <1>8, <2>1, <2>5, <2>6
<1>14. CASE ExecuteWait(t)
  <2>1. UNCHANGED <<run, nodeRuns, cmds>> /\ Become(t, IdleTask)
    BY <1>14 DEF ExecuteWait, End, dbVars
  <2> QED BY <1>3, <1>4, <1>8, <2>1, RunOnly
<1>15. CASE CompleteNode(t)
  <2>1. /\ nodeRuns' = [nodeRuns EXCEPT ![k.nr].status = k.st, ![k.nr].exit = k.exit]
        /\ UNCHANGED <<run, cmds>> /\ k.nr # 0
    BY <1>1, <1>15 DEF CompleteNode, Linked
  <2>2. nodeRuns \in Seq(NodeRun) /\ nodeRuns[k.nr].run = q /\ KeepsRows
    BY <1>1, <1>15, <2>1, Parts, CompleteTypes DEF TypeInv, RowsOK, Linked
  <2>3. \A i \in NodeRunIds : i # k.nr => nodeRuns'[i] = nodeRuns[i]
    <3> HIDE DEF k
    <3> QED BY <2>1, <2>2 DEF NodeRunIds
  <2>4. OwnWrites(q)
    BY <2>1, <2>2, <2>3 DEF OwnWrites, KeepsRows, NodeRunIds, CommandsOf
  <2> QED BY <1>3, <1>5, <1>15, <2>4 DEF PlainStep
<1>16. CASE Advance(t)
  <2> DEFINE next == Successor(k.run, k.node, k.exit)
  <2>1. /\ UNCHANGED <<run, nodeRuns, cmds>>
        /\ Become(t, [k EXCEPT !.pc = "success"]) \/ Become(t, [k EXCEPT !.pc = "enter", !.node = next])
    BY <1>16 DEF Advance, dbVars
  <2>2. "success" \in Steps
    BY DEF Steps
  <2>3. [k EXCEPT !.pc = "enter", !.node = next].run = q
    <3> HIDE DEF k, next
    <3> QED BY <1>1 DEF Chain
  <2> HIDE DEF next
  <2> QED BY <1>3, <1>4, <1>6, <2>1, <2>2, <2>3, RunOnly
<1>17. CASE CancelRunRow(t)
  <2>1. /\ UNCHANGED <<nodeRuns, cmds>> /\ \E y : run' = [run EXCEPT ![q] = y]
        /\ Become(t, [k EXCEPT !.pc = "cancelSelect"]) /\ "cancelSelect" \in Steps
    BY <1>17 DEF CancelRunRow, Steps
  <2> QED BY <1>3, <1>4, <1>6, <2>1, OneRunWritten, RunOnly
<1>18. CASE SelectNodeRuns(t)
  <2>1. /\ UNCHANGED <<run, nodeRuns, cmds>>
        /\ Become(t, IdleTask) \/ \E nrs : Become(t, [k EXCEPT !.pc = "cancelNodes", !.nrs = nrs])
    BY <1>18 DEF SelectNodeRuns, dbVars
  <2>2. \A nrs : [k EXCEPT !.pc = "cancelNodes", !.nrs = nrs].run = q
    <3> HIDE DEF k
    <3> QED BY <1>1 DEF Chain
  <2> QED BY <1>3, <1>4, <1>8, <2>1, <2>2, RunOnly
<1>19. CASE CancelNodeRuns(t)
  <2>1. /\ nodeRuns' = [i \in NodeRunIds |-> IF i \in k.nrs
                          THEN [nodeRuns[i] EXCEPT !.status = "cancelled"] ELSE nodeRuns[i]]
        /\ UNCHANGED <<run, cmds>> /\ Become(t, [k EXCEPT !.pc = "cancelCommands"])
        /\ "cancelCommands" \in Steps
    BY <1>19 DEF CancelNodeRuns, Steps
  <2>2. nodeRuns \in Seq(NodeRun) /\ \A i \in k.nrs : nodeRuns[i].run = q
    BY <1>1, Parts DEF TypeInv, RowsOK, Linked
  <2>3. KeepsRows
    BY <1>19, CancelTypes
  <2>4. OwnWrites(q)
    BY <2>1, <2>2, <2>3 DEF OwnWrites, KeepsRows, NodeRunIds, CommandsOf
  <2> QED BY <1>3, <1>4, <1>6, <2>1, <2>4
<1>20. CASE CancelCommands(t)
  <2>1. UNCHANGED <<run, nodeRuns, DOMAIN cmds>> /\ Become(t, IdleTask)
    BY <1>20 DEF CancelCommands, End
  <2> QED BY <1>3, <1>4, <1>8, <2>1, RunOnly
<1>21. CASE StatementFails(t)
  <2>1. /\ UNCHANGED <<run, nodeRuns, cmds>> /\ "cancelCommands" \in Steps
        /\ Become(t, [k EXCEPT !.pc = "cancelCommands"]) \/ Become(t, IdleTask) \/ Become(t, Thrown(k))
    BY <1>21 DEF StatementFails, dbVars, Steps, CancelSteps
  <2> QED BY <1>3, <1>4, <1>6, <1>7, <1>8, <2>1, RunOnly
<1> QED
  BY <1>9, <1>10, <1>11, <1>12, <1>13, <1>14, <1>15, <1>16, <1>17, <1>18, <1>19, <1>20, <1>21
     DEF TaskStep, Executor
\* A step on other runs, or one that only brings a report, leaves a quiet run quiet.
LEMMA QuietKept ==
    ASSUME NEW r \in Runs, Quiet(r), KeepsRun(r),
           \A u \in Tasks : \/ task'[u] = task[u]
                            \/ task'[u].run # r
                            \/ task'[u].pc = "ack"
    PROVE  Quiet(r)'
BY DEF Quiet, Ended, Engaged, KeepsRun

\* handleNodeCommandAck starts one task at most, which looks at its run first.
LEMMA AckIsLate ==
    ASSUME TypeInv, UNCHANGED nodeRuns, NEW t \in Tasks, NEW nr \in NodeRunIds, NEW exit \in Exits,
           HandleNodeCommandAck(t, nr, exit)
    PROVE  \A u \in Tasks : task'[u] = task[u] \/ task'[u].pc = "ack"
<1>1. CASE UNCHANGED task
  BY <1>1
<1>2. CASE \E x \in Chain : Become(t, x) /\ x.pc = "ack"
  BY <1>2, BecomeFacts
<1> QED BY <1>1, <1>2, AckTypes

\* A quiet run stays quiet and keeps its rows in every step.
LEMMA QuietStep ==
    ASSUME TypeInv, [Next]_vars, NEW r \in Runs, Quiet(r)
    PROVE  Quiet(r)' /\ KeepsRun(r)
<1>1. ASSUME NEW q, q # r, OwnWrites(q),
             \A u \in Tasks : task'[u] = task[u] \/ task'[u].run # r \/ task'[u].pc = "ack"
      PROVE  Quiet(r)' /\ KeepsRun(r)
  BY <1>1, OthersKept, QuietKept
<1>2. ASSUME UNCHANGED <<run, nodeRuns, DOMAIN cmds>>,
             \A u \in Tasks : task'[u] = task[u] \/ task'[u].run # r \/ task'[u].pc = "ack"
      PROVE  Quiet(r)' /\ KeepsRun(r)
  <2>1. KeepsRun(r)
    BY <1>2 DEF KeepsRun, NodeRunsOf, NodeRunIds, CommandsOf
  <2> QED BY <1>2, <2>1, QuietKept
<1>3. r # NoRun /\ run[r].status \notin {"none", "running"}
  BY ScenarioGraphAssumption DEF Quiet, Ended
<1>4. ASSUME NEW t \in Tasks, TaskStep(t) \/ StatementFails(t) PROVE Quiet(r)' /\ KeepsRun(r)
  <2>1. /\ OwnWrites(task[t].run) /\ task'[t].run \in {task[t].run, NoRun}
        /\ \A u \in Tasks \ {t} : task'[u] = task[u]
    BY <1>4, TaskWrites
  <2>2. CASE task[t].run # r
    BY <1>1, <1>3, <2>1, <2>2
  <2>3. CASE task[t].run = r
    <3>1. task[t].pc = "ack"
      BY <2>3 DEF Quiet, Engaged
    <3>2. CheckRun(t) \/ StatementFails(t)
      BY <1>4, <3>1 DEF TaskStep, Executor, EnterNode, RecordVisit, InsertNodeRun, ExecuteAction,
           EnqueueCommand, ExecuteSync, ExecuteBranch, ExecuteWait, ExecuteCooldown, Executing,
           StampCooldown, ExecuteEnd, CompleteNode, MirrorExit, Advance, MarkRun, CancelRunRow,
           SelectNodeRuns, CancelNodeRuns, CancelCommands
    <3>3. UNCHANGED <<run, nodeRuns, cmds>>
      BY <3>2 DEF CheckRun, StatementFails, dbVars
    <3>4. Thrown(task[t]) = IdleTask
      <4>1. task[t].guards = <<>> /\ ~task[t].start
        BY <3>1, TaskFacts DEF Linked
      <4> QED BY <4>1 DEF Thrown
    <3>5. Become(t, IdleTask)
      BY <1>3, <2>3, <3>1, <3>2, <3>4 DEF CheckRun, StatementFails, CancelSteps
    <3>6. task'[t].run = NoRun
      BY <3>5, BecomeFacts, IdleFacts
    <3> QED BY <1>2, <1>3, <2>1, <3>3, <3>6
  <2> QED BY <2>2, <2>3
<1>5. ASSUME NEW t \in Tasks, NEW q \in Runs, NEW n \in Starts, NEW single \in BOOLEAN,
             StartRun(t, q, n, single)
      PROVE  Quiet(r)' /\ KeepsRun(r)
  <2>1. /\ run[q].status = "none" /\ UNCHANGED <<nodeRuns, cmds>>
        /\ run' = [run EXCEPT ![q].status = "running", ![q].single = single]
        /\ \E pc, node : Become(t, [IdleTask EXCEPT !.pc = pc, !.run = q, !.node = node, !.start = TRUE])
    BY <1>5 DEF StartRun
  <2>2. OwnWrites(q)
    <3>1. \A p \in Runs \ {q} : run'[p] = run[p]
      BY <2>1 DEF TypeInv, TypeOK
    <3> QED BY <2>1, <3>1, RunOnly
  <2>3. \A pc, node : [IdleTask EXCEPT !.pc = pc, !.run = q, !.node = node, !.start = TRUE].run = q
    BY IdleFacts DEF Chain
  <2>4. task'[t].run = q /\ \A u \in Tasks \ {t} : task'[u] = task[u]
    <3>1. PICK pc, node : Become(t, [IdleTask EXCEPT !.pc = pc, !.run = q, !.node = node, !.start = TRUE])
      BY <2>1
    <3> DEFINE x == [IdleTask EXCEPT !.pc = pc, !.run = q, !.node = node, !.start = TRUE]
    <3>2. x.run = q /\ Become(t, x)
      BY <2>3, <3>1
    <3> HIDE DEF x
    <3> QED BY <3>2, BecomeFacts
  <2> QED BY <1>1, <1>3, <2>1, <2>2, <2>4
<1>6. ASSUME NEW t \in Tasks, NEW q \in Runs, BeginCancel(t, q) PROVE Quiet(r)' /\ KeepsRun(r)
  <2>1. /\ run[q].status = "running" /\ UNCHANGED <<run, nodeRuns, cmds>>
        /\ Become(t, [IdleTask EXCEPT !.pc = "cancelRun", !.run = q])
    BY <1>6 DEF BeginCancel, dbVars
  <2>2. [IdleTask EXCEPT !.pc = "cancelRun", !.run = q].run = q
    BY IdleFacts DEF Chain
  <2>3. task'[t].run = q /\ \A u \in Tasks \ {t} : task'[u] = task[u]
    BY <2>1, <2>2, BecomeFacts
  <2> QED BY <1>2, <1>3, <2>1, <2>3
<1>7. ASSUME NEW q \in Runs, RecordDenial(q) PROVE Quiet(r)' /\ KeepsRun(r)
  <2>1. run[q].status = "none" /\ UNCHANGED <<nodeRuns, cmds, task>> /\ \E y : run' = [run EXCEPT ![q] = y]
    BY <1>7 DEF RecordDenial
  <2> QED BY <1>1, <1>3, <2>1, OneRunWritten, RunOnly
<1>8. ASSUME NEW t \in Tasks, NEW c \in DOMAIN cmds, AgentReports(t, c) \/ CommandExpires(t, c)
      PROVE  Quiet(r)' /\ KeepsRun(r)
  <2>1. /\ UNCHANGED <<run, nodeRuns, DOMAIN cmds>>
        /\ \E e \in Exits : HandleNodeCommandAck(t, c[1], e)
    BY <1>8 DEF AgentReports, CommandExpires, Report, Exits
  <2>2. c[1] \in NodeRunIds
    BY DEF TypeInv, TypeOK
  <2> QED BY <1>2, <2>1, <2>2, AckIsLate
<1>9. ASSUME NEW c \in DOMAIN cmds, RowMoves(c) PROVE Quiet(r)' /\ KeepsRun(r)
  <2>1. UNCHANGED <<run, nodeRuns, DOMAIN cmds, task>>
    BY <1>9, RowMoveFacts
  <2> QED BY <1>2, <2>1
<1>10. ASSUME NEW t \in Tasks, NEW w \in timers, TimerFires(t, w) PROVE Quiet(r)' /\ KeepsRun(r)
  <2>1. /\ UNCHANGED <<run, nodeRuns, cmds>> /\ HandleNodeCommandAck(t, w[1], 0)
        /\ w[1] \in NodeRunIds /\ 0 \in Exits
    BY <1>10 DEF TimerFires, dbVars, TypeInv, TypeOK, Exits
  <2> QED BY <1>2, <2>1, AckIsLate
<1>11. CASE \E n \in Nodes : CooldownElapses(n)
  <2>1. UNCHANGED <<run, nodeRuns, cmds, task>>
    BY <1>11 DEF CooldownElapses
  <2> QED BY <1>2, <2>1
<1>12. CASE Crash
  <2>1. UNCHANGED <<run, nodeRuns, cmds>> /\ \A u \in Tasks : task'[u] = IdleTask
    BY <1>12 DEF Crash, dbVars
  <2> QED BY <1>2, <1>3, <2>1, IdleFacts
<1>13. CASE RearmWaitTimersOnBoot \/ UNCHANGED vars
  <2>1. UNCHANGED <<run, nodeRuns, cmds, task>>
    BY <1>13 DEF RearmWaitTimersOnBoot, dbVars, vars
  <2> QED BY <1>2, <2>1
<1> QED
  BY <1>4, <1>5, <1>6, <1>7, <1>8, <1>9, <1>10, <1>11, <1>12, <1>13 DEF Next

\* A run that has ended, and whose steps in flight are over, stays as it is for ever: late
\* reports, timers that fire, restarts and other runs change none of its rows.
THEOREM EndedRunsAreLeftAlone == Spec => EndedRunsStayQuiet
<1> DEFINE Kept == \A r \in Runs : Quiet(r) =>
                      /\ Quiet(r)'
                      /\ run'[r] = run[r]
                      /\ NodeRunsOf(r)' = NodeRunsOf(r)
                      /\ \A i \in NodeRunsOf(r) : /\ nodeRuns'[i] = nodeRuns[i]
                                                  /\ CommandsOf(i)' = CommandsOf(i)
<1>1. TypeInv /\ [Next]_vars => [Kept]_vars
  BY QuietStep DEF KeepsRun
<1>2. Spec => []TypeInv
  BY TypeInit, TypeStep, PTL DEF Spec
<1>3. Spec => [][Kept]_vars
  <2> HIDE DEF Kept
  <2> QED BY <1>1, <1>2, PTL DEF Spec
<1> QED BY <1>3 DEF EndedRunsStayQuiet
-----------------------------------------------------------------------------
(* What a step leaves of the tokens *)

\* Nothing a token depends on changes at node run i.
TokenSame(i) ==
    /\ CommandsOf(i)' = CommandsOf(i) /\ Unreported(i)' = Unreported(i)
    /\ i \in DOMAIN fanOut' <=> i \in DOMAIN fanOut
    /\ i \in DOMAIN fanOut => fanOut'[i] = fanOut[i]
    /\ HasTimer(i)' <=> HasTimer(i)
    /\ advanced'[i] = advanced[i]

\* The memory a restart would lose stays as the running server keeps it.
CalmMemory == ~booting /\ \A w \in timers : w[2] = "run"

\* Such a node run stays sound, and as resumable as it was.
LEMMA SameNodeRun ==
    ASSUME NEW i, TokenSame(i)
    PROVE  (NodeRunSound(i) => NodeRunSound(i)') /\ (Resumable(i)' <=> Resumable(i))
<1>1. NodeRunSound(i) => NodeRunSound(i)'
  BY DEF TokenSame, NodeRunSound
<1>2. Resumable(i)' <=> Resumable(i)
  BY DEF TokenSame, Resumable
<1> QED BY <1>1, <1>2

\* A node run has finitely many commands.
LEMMA FewCommands ==
    ASSUME NEW i, NEW S, S \subseteq {i} \X Devices
    PROVE  IsFiniteSet(S) /\ Cardinality(S) \in Nat
<1>1. IsFiniteSet({i} \X Devices)
  BY FS_Singleton, FS_Product, ScenarioGraphAssumption
<1> QED BY <1>1, FS_Subset, FS_CardinalityType

\* The commands of a node run are among its node run and the devices.
LEMMA CommandsIn ==
    ASSUME TypeInv, NEW i
    PROVE  CommandsOf(i) \subseteq {i} \X Devices /\ Unreported(i) \subseteq CommandsOf(i)
<1>1. DOMAIN cmds \subseteq NodeRunIds \X Devices
  BY DEF TypeInv, TypeOK
<1> QED BY <1>1 DEF CommandsOf, Unreported

\* A task that stays, at a node run where nothing changes.
LEMMA SameTask ==
    ASSUME TypeInv, NEW u \in Tasks, TaskSound(task[u]), task'[u] = task[u],
           task[u].nr # 0 => TokenSame(task[u].nr),
           task[u].run \in Runs /\ run'[task[u].run].status = "running"
              => run[task[u].run].status = "running"
    PROVE  TaskSound(task[u])'
<1> DEFINE k == task[u]
<1>1. Linked(k) /\ (k.pc # "idle" => k.run \in Runs)
  BY TaskFacts
<1>2. CASE k.nr = 0
  <2>1. ~Opens(k) /\ ~Advancing(k) /\ k.pc \notin {"exec", "stamp", "enqueue", "ack"}
    BY <1>1, <1>2 DEF Linked, Opens, Advancing
  <2> QED BY <2>1 DEF TaskSound, Opens, Advancing
<1>3. CASE k.nr # 0
  <2>1. TokenSame(k.nr)
    BY <1>3
  <2>2. PICK x : x = k /\ task[u] = x /\ task'[u] = x
    OBVIOUS
  <2>3. x.pc = "ack" /\ run'[x.run].status = "running" => run[x.run].status = "running"
    BY <1>1, <2>2
  <2>4. TaskSound(x) /\ TokenSame(x.nr)
    BY <2>1, <2>2
  <2>5. /\ Opens(x) => advanced'[x.nr] = 0 /\ ~HasTimer(x.nr)'
        /\ x.pc \in {"exec", "stamp"} => CommandsOf(x.nr)' = {} /\ x.nr \notin DOMAIN fanOut'
        /\ Advancing(x) => Unreported(x.nr)' = {}
        /\ x.pc = "ack" /\ run'[x.run].status = "running" => Unreported(x.nr)' = {}
    BY <2>3, <2>4 DEF TaskSound, TokenSame
  <2>6. x.pc = "enqueue" =>
          /\ x.devs # {}
          /\ \A d \in x.devs : <<x.nr, d>> \notin DOMAIN cmds'
          /\ x.nr \in DOMAIN fanOut' =>
                fanOut'[x.nr].received + Cardinality(Unreported(x.nr)') + Cardinality(x.devs)
                    <= fanOut'[x.nr].expected
          /\ x.nr \notin DOMAIN fanOut' =>
                CommandsOf(x.nr)' = {} /\ \A d, e \in x.devs : d = e
    <3>1. \A d : <<x.nr, d>> \in DOMAIN cmds' <=> <<x.nr, d>> \in DOMAIN cmds
      BY <2>4 DEF TokenSame, CommandsOf
    <3> QED BY <2>4, <3>1 DEF TaskSound, TokenSame
  <2> QED BY <2>2, <2>5, <2>6 DEF TaskSound, Opens, Advancing
<1> QED BY <1>2, <1>3

\* A task without a node run, or one that has left it, depends on no token.
LEMMA FreeTask ==
    ASSUME NEW u, task'[u].pc \notin {"exec", "stamp", "enqueue", "ack"}, ~Advancing(task[u])'
    PROVE  TaskSound(task[u])'
BY DEF TaskSound, Opens

\* A step beside the walks: of a cancellation, of a task that ends, or of no task.
LEMMA SideStep ==
    ASSUME TypeInv, TypeInv', TokenInv, KeepsRows, CalmMemory', UNCHANGED notified,
           \A i \in NodeRunIds : TokenSame(i),
           \A r \in Runs : run'[r].status \in {run[r].status, "cancelled"},
           \A u \in Tasks : \/ task'[u] = task[u]
                            \/ /\ task'[u].pc \in CancelSteps \cup {"idle"}
                               /\ task'[u].run \in Runs => run[task'[u].run].status # "none"
    PROVE  TokenInv'
<1>1. NodeRunIds' = NodeRunIds /\ \A r : NodeRunsOf(r)' = NodeRunsOf(r)
  BY DEF KeepsRows, NodeRunIds, NodeRunsOf
<1>2. ASSUME NEW i \in NodeRunIds PROVE NodeRunSound(i)'
  BY <1>2, SameNodeRun DEF TokenInv
<1>3. ASSUME NEW u \in Tasks PROVE TaskSound(task[u])'
  <2>1. CASE task'[u] = task[u]
    <3>1. task[u].nr # 0 => task[u].nr \in NodeRunIds
      BY TaskFacts DEF Chain
    <3>2. TaskSound(task[u])
      BY DEF TokenInv
    <3> QED BY <2>1, <3>1, <3>2, SameTask
  <2>2. CASE task'[u].pc \in CancelSteps \cup {"idle"}
    <3>1. task'[u].pc \notin {"exec", "stamp", "enqueue", "ack"} /\ ~Advancing(task[u])'
      BY <2>2 DEF CancelSteps, Advancing
    <3> QED BY <3>1, FreeTask
  <2> QED BY <2>1, <2>2
<1>4. ASSUME NEW r \in Runs PROVE RunSound(r)'
  <2>1. \A u \in Tasks : task'[u].pc = "idle" => task'[u].run # r
    BY <1>4, ScenarioGraphAssumption DEF TypeInv, LinkInv, Linked
  <2>2. Walking(r)' \subseteq Walking(r) /\ Committed(r)' \subseteq Committed(r)
    BY <2>1 DEF Walking, Committed, Engaged
  <2>3. \A i \in NodeRunsOf(r) : Resumable(i)' <=> Resumable(i)
    BY SameNodeRun DEF NodeRunsOf
  <2>4. RunSound(r)
    BY DEF TokenInv
  <2>5. run[r].status = "none" => \A u \in Tasks : task[u].run # r
    BY <2>4 DEF RunSound, Engaged
  <2>6. run'[r].status = "none" => Engaged(r)' = {}
    BY <2>1, <2>5 DEF Engaged
  <2>7. run'[r].status \in {run[r].status, "cancelled"} /\ notified'[r] = notified[r]
    OBVIOUS
  <2> QED BY <1>1, <2>2, <2>3, <2>4, <2>6, <2>7 DEF RunSound
<1> QED BY <1>1, <1>2, <1>3, <1>4 DEF TokenInv, CalmMemory
\* The task of a walk that goes on: it no longer looks at the run, or the run is running.
Holds(t, q) == t \in Walking(q) /\ (task[t].pc # "ack" \/ run[q].status = "running")

\* What a step of run q leaves of the others.
OwnTokens(q) ==
    /\ \A i \in NodeRunIds : nodeRuns[i].run # q => TokenSame(i)
    /\ \A p \in Runs \ {q} : notified'[p] = notified[p]
    /\ CalmMemory'

\* Other runs keep their tokens in a step of task t of run q.
LEMMA OtherRuns ==
    ASSUME TypeInv, TypeInv', TokenInv, NEW t \in Tasks, NEW q \in Runs, OwnWrites(q), OwnTokens(q),
           \A u \in Tasks \ {t} : task'[u] = task[u],
           task[t].run \in {q, NoRun}, task'[t].run \in {q, NoRun},
           \A u \in Tasks \ {t} : task[u].run = q =>
               /\ task[u].pc \in CancelSteps \cup {"ack"}
               /\ task[u].pc = "ack" => run'[q].status # "running"
    PROVE  /\ \A i \in NodeRunIds : nodeRuns[i].run # q => NodeRunSound(i)'
           /\ \A u \in Tasks \ {t} : TaskSound(task[u])'
           /\ \A r \in Runs \ {q} : RunSound(r)'
<1>1. ASSUME NEW i \in NodeRunIds, nodeRuns[i].run # q PROVE NodeRunSound(i)'
  BY <1>1, SameNodeRun DEF TokenInv, OwnTokens
<1>2. ASSUME NEW u \in Tasks \ {t} PROVE TaskSound(task[u])'
  <2>1. CASE task[u].run = q
    <3>1. /\ task'[u] = task[u] /\ task'[u].run = q
          /\ task'[u].pc \notin {"exec", "stamp", "enqueue"} /\ ~Opens(task[u])' /\ ~Advancing(task[u])'
          /\ task'[u].pc = "ack" => run'[q].status # "running"
      BY <2>1 DEF CancelSteps, Opens, Advancing
    <3> QED BY <3>1 DEF TaskSound
  <2>2. CASE task[u].run # q
    <3>1. task[u].nr # 0 => task[u].nr \in NodeRunIds /\ nodeRuns[task[u].nr].run # q
      BY <2>2, TaskFacts DEF Chain, Linked
    <3>2. task[u].nr # 0 => TokenSame(task[u].nr)
      BY <3>1 DEF OwnTokens
    <3>3. task[u].run \in Runs => run'[task[u].run] = run[task[u].run]
      BY <2>2 DEF OwnWrites
    <3>4. TaskSound(task[u]) /\ task'[u] = task[u]
      BY DEF TokenInv
    <3> QED BY <3>2, <3>3, <3>4, SameTask
  <2> QED BY <2>1, <2>2
<1>3. ASSUME NEW r \in Runs \ {q} PROVE RunSound(r)'
  <2>1. KeepsRun(r)
    BY OthersKept
  <2>2. r # q /\ r # NoRun
    BY ScenarioGraphAssumption
  <2>3. Engaged(r)' = Engaged(r) /\ \A u \in Engaged(r) : u \in Tasks /\ task'[u] = task[u]
    BY <2>2 DEF Engaged
  <2>4. Walking(r)' = Walking(r) /\ \A u \in Walking(r) : task'[u] = task[u]
    BY <2>3 DEF Walking
  <2>5. Committed(r)' = Committed(r)
    BY <2>4 DEF Committed
  <2>6. \A i \in NodeRunsOf(r) : Resumable(i)' <=> Resumable(i)
    BY <2>2, SameNodeRun DEF NodeRunsOf, OwnTokens
  <2>7. RunSound(r) /\ run'[r] = run[r] /\ NodeRunsOf(r)' = NodeRunsOf(r) /\ notified'[r] = notified[r]
    BY <2>1 DEF TokenInv, KeepsRun, OwnTokens
  <2> QED BY <2>3, <2>4, <2>5, <2>6, <2>7 DEF RunSound
<1> QED BY <1>1, <1>2, <1>3

\* In a run with a walk that goes on there is no other, and no message was sent.
LEMMA HoldsFacts ==
    ASSUME TypeInv, TokenInv, NEW t \in Tasks, NEW q \in Runs, Holds(t, q)
    PROVE  /\ \A u \in Tasks \ {t} : task[u].run = q =>
                /\ task[u].pc \in CancelSteps \cup {"ack"}
                /\ task[u].pc = "ack" => run[q].status # "running"
           /\ run[q].status # "none" /\ notified[q] = 0
           /\ run[q].status = "running" => \A i \in NodeRunsOf(q) : ~Resumable(i)
<1>1. RunSound(q) /\ notified[q] \in Nat
  BY DEF TokenInv, TypeInv, TypeOK
<1>2. t \in Walking(q) /\ t \in Engaged(q)
  BY DEF Holds, Walking
<1>3. ASSUME NEW u \in Tasks \ {t}, task[u].run = q, task[u].pc \notin CancelSteps
      PROVE  task[u].pc = "ack" /\ run[q].status # "running"
  <2>1. u \in Walking(q)
    BY <1>3 DEF Walking, Engaged
  <2>2. run[q].status # "running"
    BY <1>1, <1>2, <2>1 DEF RunSound
  <2>3. t \in Committed(q)
    BY <1>2, <2>2 DEF Holds, Committed
  <2>4. u \notin Committed(q)
    BY <1>1, <2>3 DEF RunSound
  <2> QED BY <2>1, <2>2, <2>4 DEF Committed
<1>4. run[q].status # "none"
  BY <1>1, <1>2 DEF RunSound
<1>5. notified[q] = 0
  <2>1. t \in Committed(q) \/ run[q].status = "running"
    BY DEF Holds, Committed
  <2> QED BY <1>1, <2>1 DEF RunSound
<1>6. run[q].status = "running" => \A i \in NodeRunsOf(q) : ~Resumable(i)
  BY <1>1, <1>2 DEF RunSound
<1>7. \A u \in Tasks \ {t} : task[u].run = q =>
        /\ task[u].pc \in CancelSteps \cup {"ack"}
        /\ task[u].pc = "ack" => run[q].status # "running"
  <2>1. "ack" \notin CancelSteps
    BY DEF CancelSteps
  <2> QED BY <1>3, <2>1
<1> QED BY <1>4, <1>5, <1>6, <1>7

\* A step of the walk of run q: only node run i may become resumable, and then the task
\* has ended.
LEMMA WalkStep ==
    ASSUME TypeInv, TypeInv', TokenInv, NEW t \in Tasks, NEW q \in Runs, Holds(t, q),
           OwnWrites(q), OwnTokens(q), \A u \in Tasks \ {t} : task'[u] = task[u],
           task'[t].run \in {q, NoRun},
           task'[t].pc \notin CancelSteps,
           \/ run'[q].status = run[q].status /\ notified'[q] = notified[q]
           \/ /\ run'[q].status \notin {"none", "running"} /\ notified'[q] = notified[q] + 1
              /\ task'[t].run = NoRun,
           TaskSound(task[t])',
           \A i \in NodeRunsOf(q)' : NodeRunSound(i)',
           NEW i0, \A i \in NodeRunsOf(q)' : Resumable(i)' =>
                        \/ i = i0 /\ task'[t].run = NoRun
                        \/ i \in NodeRunsOf(q) /\ Resumable(i)
    PROVE  TokenInv'
<1>1. /\ \A u \in Tasks \ {t} : task[u].run = q =>
           /\ task[u].pc \in CancelSteps \cup {"ack"}
           /\ task[u].pc = "ack" => run[q].status # "running"
      /\ run[q].status # "none" /\ notified[q] = 0
      /\ run[q].status = "running" => \A i \in NodeRunsOf(q) : ~Resumable(i)
  BY HoldsFacts
<1>2. run'[q].status = "running" => run[q].status = "running"
  OBVIOUS
<1>3. task[t].run = q
  BY DEF Holds, Walking, Engaged
<1>4. /\ \A i \in NodeRunIds : nodeRuns[i].run # q => NodeRunSound(i)'
      /\ \A u \in Tasks \ {t} : TaskSound(task[u])'
      /\ \A r \in Runs \ {q} : RunSound(r)'
  BY <1>1, <1>2, <1>3, OtherRuns
<1>5. ASSUME NEW i \in NodeRunIds' PROVE NodeRunSound(i)'
  <2>1. i \in NodeRunsOf(q)' \/ (i \in NodeRunIds /\ nodeRuns[i].run # q)
    BY DEF OwnWrites, NodeRunsOf
  <2> QED BY <1>4, <2>1
<1>6. RunSound(q)'
  <2>1. q # NoRun
    BY ScenarioGraphAssumption
  <2>2. Committed(q)' \subseteq {t} /\ (task'[t].run = NoRun => Committed(q)' = {})
    BY <1>1, <2>1 DEF Committed, Walking, Engaged
  <2>3. run'[q].status = "running" => Walking(q)' \subseteq {t} /\ (task'[t].run = NoRun => Walking(q)' = {})
    BY <1>1, <1>2, <2>1 DEF Walking, Engaged
  <2>4. run'[q].status = "running" => \A i \in NodeRunsOf(q)' : Resumable(i)' => i = i0 /\ task'[t].run = NoRun
    BY <1>1, <1>2
  <2>5. run'[q].status # "none" /\ notified'[q] <= 1
        /\ (notified'[q] > 0 => ~(run'[q].status \in {"none", "running"}) /\ task'[t].run = NoRun)
    BY <1>1
  <2>6. /\ \A u, v \in Committed(q)' : u = v
        /\ run'[q].status = "running" =>
             /\ \A u, v \in Walking(q)' : u = v
             /\ \A i, j \in NodeRunsOf(q)' : Resumable(i)' /\ Resumable(j)' => i = j
             /\ Walking(q)' # {} => \A i \in NodeRunsOf(q)' : ~Resumable(i)'
    BY <2>2, <2>3, <2>4
  <2> QED BY <2>2, <2>5, <2>6 DEF RunSound
<1> QED BY <1>4, <1>5, <1>6 DEF TokenInv, OwnTokens, CalmMemory

\* A report or a timer resumes node run i: it can not be resumed again.
LEMMA ResumeStep ==
    ASSUME TypeInv, TypeInv', TokenInv, NEW t \in Tasks, NEW i \in NodeRunIds, KeepsRows, CalmMemory',
           UNCHANGED <<run, advanced, notified>>,
           \A u \in Tasks \ {t} : task'[u] = task[u], task[t].run = NoRun,
           task'[t].pc = "ack", task'[t].nr = i, task'[t].run = nodeRuns[i].run,
           \A j \in NodeRunIds \ {i} : TokenSame(j),
           Resumable(i), CommandsOf(i)' = CommandsOf(i), Unreported(i)' = {}, ~HasTimer(i)',
           i \notin DOMAIN fanOut', \A u \in Tasks : Opens(task[u]) => task[u].nr # i
    PROVE  TokenInv'
<1> DEFINE q == nodeRuns[i].run
<1>1. NodeRunIds' = NodeRunIds /\ \A r : NodeRunsOf(r)' = NodeRunsOf(r)
  BY DEF KeepsRows, NodeRunIds, NodeRunsOf
<1>2. NodeRunSound(i)' /\ ~Resumable(i)'
  <2>1. \A c, d \in Unreported(i)' : c = d
    OBVIOUS
  <2> QED BY <2>1 DEF NodeRunSound, Resumable
<1>3. ASSUME NEW j \in NodeRunIds PROVE NodeRunSound(j)'
  BY <1>2, <1>3, SameNodeRun DEF TokenInv
<1>4. ASSUME NEW u \in Tasks PROVE TaskSound(task[u])'
  <2>1. CASE u = t
    BY <2>1 DEF TaskSound, Opens, Advancing
  <2>2. CASE u # t /\ task[u].nr # i
    <3>1. task[u].nr # 0 => task[u].nr \in NodeRunIds
      BY TaskFacts DEF Chain
    <3>2. task[u].nr # 0 => TokenSame(task[u].nr)
      BY <2>2, <3>1
    <3>3. TaskSound(task[u]) /\ task'[u] = task[u]
      BY <2>2 DEF TokenInv
    <3> QED BY <3>2, <3>3, SameTask
  <2>3. CASE u # t /\ task[u].nr = i
    <3>1. task'[u] = task[u] /\ ~Opens(task[u])
      BY <2>3
    <3> QED BY <2>3, <3>1 DEF TaskSound, Opens
  <2> QED BY <2>1, <2>2, <2>3
<1>5. ASSUME NEW r \in Runs PROVE RunSound(r)'
  <2>1. RunSound(r) /\ r # NoRun
    BY ScenarioGraphAssumption DEF TokenInv
  <2>2. Committed(r)' = Committed(r)
    BY <2>1 DEF Committed, Walking, Engaged
  <2>3. \A j \in NodeRunsOf(r) : Resumable(j)' <=> (Resumable(j) /\ j # i)
    BY <1>2, SameNodeRun DEF NodeRunsOf
  <2>4. CASE r # q
    <3>1. Engaged(r)' = Engaged(r) /\ Walking(r)' = Walking(r)
      BY <2>1, <2>4 DEF Walking, Engaged
    <3> QED BY <1>1, <2>1, <2>2, <2>3, <3>1 DEF RunSound
  <2>5. CASE r = q
    <3>1. i \in NodeRunsOf(r)
      BY <2>5 DEF NodeRunsOf
    <3>2. run[r].status # "none"
      BY <2>1, <3>1 DEF RunSound
    <3>3. run[r].status = "running" => Walking(r) = {} /\ \A j \in NodeRunsOf(r) : Resumable(j) => j = i
      BY <2>1, <3>1 DEF RunSound
    <3>4. run[r].status = "running" => Walking(r)' \subseteq {t}
      BY <3>3 DEF Walking, Engaged
    <3>5. run[r].status = "running" => \A j \in NodeRunsOf(r) : ~Resumable(j)'
      BY <2>3, <3>3
    <3>6. run[r].status = "running" =>
             /\ \A u, v \in Walking(r)' : u = v
             /\ \A j, l \in NodeRunsOf(r)' : Resumable(j)' /\ Resumable(l)' => j = l
             /\ Walking(r)' # {} => \A j \in NodeRunsOf(r)' : ~Resumable(j)'
      BY <1>1, <3>4, <3>5
    <3> QED BY <2>1, <2>2, <3>2, <3>6 DEF RunSound
  <2> QED BY <2>4, <2>5
<1> QED BY <1>1, <1>3, <1>4, <1>5 DEF TokenInv, CalmMemory
-----------------------------------------------------------------------------
(* One token per run: the steps *)

\* Commands, fan-outs, timers and history that stay keep every token.
LEMMA AllSame ==
    ASSUME UNCHANGED <<cmds, fanOut, timers, advanced>>
    PROVE  \A i : TokenSame(i)
BY DEF TokenSame, CommandsOf, Unreported, HasTimer

\* The memory of a server that has not been restarted.
LEMMA CalmFacts == TokenInv /\ UNCHANGED <<timers, booting>> => CalmMemory'
BY DEF TokenInv, CalmMemory

\* Only the end of a run changes its status in a plain step.
LEMMA PlainStatus ==
    ASSUME TypeInv, NEW t \in Tasks, PlainStep(t)
    PROVE  \/ (\A r \in Runs : run'[r].status = run[r].status) /\ UNCHANGED notified
           \/ /\ task[t].pc # "ack" /\ task'[t].run = NoRun
              /\ run'[task[t].run].status \notin {"none", "running"}
              /\ notified' = [notified EXCEPT ![task[t].run] = @ + 1]
<1> DEFINE k == task[t]
           q == k.run
<1>1. q \in Runs /\ run[q] \in Row /\ run \in [Runs -> Row]
  BY PlainMoves, TaskFacts, RunRow
<1>2. CASE MarkRun(t)
  <2>1. /\ k.pc \in {"success", "failure"} /\ run' = [run EXCEPT ![q].status = k.pc]
        /\ notified' = [notified EXCEPT ![q] = @ + 1] /\ Become(t, IdleTask)
    BY <1>2 DEF MarkRun, End
  <2>2. run'[q].status = k.pc
    BY <1>1, <2>1 DEF Row
  <2>3. task'[t].run = NoRun
    BY <2>1, BecomeFacts, IdleFacts
  <2> QED BY <2>1, <2>2, <2>3
<1>3. CASE RecordVisit(t)
  <2>1. UNCHANGED notified /\ run' = [run EXCEPT ![q].current = k.node, ![q].visits = k.seen.visits]
    BY <1>3 DEF RecordVisit, histVars
  <2> QED BY <1>1, <2>1 DEF Row
<1>4. CASE MirrorExit(t)
  <2>1. UNCHANGED notified /\ run' = [run EXCEPT ![q].exit = k.exit]
    BY <1>4 DEF MirrorExit, histVars
  <2> QED BY <1>1, <2>1 DEF Row
<1>5. CASE ~MarkRun(t) /\ ~RecordVisit(t) /\ ~MirrorExit(t)
  BY <1>5 DEF PlainStep, EnterNode, ExecuteSync, ExecuteBranch, ExecuteCooldown, StampCooldown,
              ExecuteEnd, CompleteNode, CheckRun, StatementFails, dbVars, histVars
<1> QED BY <1>2, <1>3, <1>4, <1>5

\* A plain step keeps the tokens.
LEMMA PlainTokens ==
    ASSUME TypeInv, TypeInv', TokenInv, NEW t \in Tasks, PlainStep(t)
    PROVE  TokenInv'
<1>0. PICK k, x, q : k = task[t] /\ x = task'[t] /\ q = k.run
  OBVIOUS
<1>1. /\ PlainMove(k, task'[t]) /\ k.pc \notin CancelSteps \cup {"idle"}
      /\ \A u \in Tasks \ {t} : task'[u] = task[u]
      /\ KeepsRows /\ UNCHANGED <<cmds, fanOut, timers, booting, advanced>>
  BY <1>0, PlainMoves
<1>2. q \in Runs /\ t \in Walking(q)
  BY <1>0, <1>1, TaskFacts DEF Walking, Engaged
<1>3. (\A i : TokenSame(i)) /\ CalmMemory'
  BY <1>1, AllSame, CalmFacts
<1>4. \/ (\A r \in Runs : run'[r].status = run[r].status) /\ UNCHANGED notified
      \/ /\ k.pc # "ack" /\ task'[t].run = NoRun
         /\ run'[q].status \notin {"none", "running"}
         /\ notified' = [notified EXCEPT ![q] = @ + 1]
  BY <1>0, PlainStatus
<1>5. CASE k.pc = "ack" /\ run[q].status # "running"
  <2>1. task'[t].pc = "idle" /\ task'[t].run = NoRun
    BY <1>0, <1>1, <1>5 DEF PlainMove, TypeInv, LinkInv, Linked
  <2>2. \A u \in Tasks : \/ task'[u] = task[u]
                         \/ /\ task'[u].pc \in CancelSteps \cup {"idle"}
                            /\ task'[u].run \in Runs => run[task'[u].run].status # "none"
    BY <1>1, <2>1, ScenarioGraphAssumption
  <2> QED BY <1>1, <1>3, <1>4, <1>5, <2>2, SideStep
<1>6. CASE k.pc # "ack" \/ run[q].status = "running"
  <2>1. Holds(t, q)
    BY <1>0, <1>2, <1>6 DEF Holds
  <2>2. OwnWrites(q) /\ task'[t].run \in {q, NoRun}
    <3>1. TaskStep(t) \/ StatementFails(t)
      BY DEF PlainStep, TaskStep, Executor
    <3> QED BY <1>0, <3>1, TaskWrites
  <2>3. OwnTokens(q)
    BY <1>3, <1>4 DEF OwnTokens, TypeInv, TypeOK
  <2>4. TaskSound(task[t])'
    <3>1. TaskSound(k) /\ TokenSame(k.nr)
      BY <1>0, <1>3 DEF TokenInv
    <3>2. PlainMove(k, x)
      BY <1>0, <1>1
    <3>3. Unreported(k.nr) \subseteq CommandsOf(k.nr)
      BY DEF Unreported
    <3>4. Advancing(x) => Unreported(x.nr)' = {}
      <4>1. CASE k.pc \in {"exec", "stamp"}
        BY <3>1, <3>2, <3>3, <4>1 DEF TaskSound, PlainMove, TokenSame
      <4>2. CASE k.pc = "ack"
        BY <1>0, <1>6, <3>1, <3>2, <4>2 DEF TaskSound, PlainMove, TokenSame
      <4>3. CASE k.pc \notin {"exec", "stamp", "ack"}
        BY <3>1, <3>2, <4>3 DEF TaskSound, PlainMove, TokenSame
      <4> QED BY <4>1, <4>2, <4>3
    <3>5. x.pc = "stamp" => /\ advanced'[x.nr] = 0 /\ ~HasTimer(x.nr)'
                            /\ CommandsOf(x.nr)' = {} /\ x.nr \notin DOMAIN fanOut'
      BY <3>1, <3>2 DEF TaskSound, PlainMove, TokenSame, Opens
    <3>6. x.pc \notin {"exec", "enqueue", "ack"}
      BY <3>2 DEF PlainMove
    <3>7. Advancing(task[t])' => Advancing(x)
      BY <1>0 DEF Advancing
    <3> QED BY <1>0, <3>4, <3>5, <3>6, <3>7 DEF TaskSound, Opens
  <2>5. NodeRunsOf(q)' = NodeRunsOf(q)
    BY <1>1 DEF KeepsRows, NodeRunIds, NodeRunsOf
  <2>6. \A i \in NodeRunsOf(q)' : NodeRunSound(i)' /\ (Resumable(i)' => i \in NodeRunsOf(q) /\ Resumable(i))
    BY <1>3, <2>5, SameNodeRun DEF TokenInv, NodeRunsOf
  <2>7. task'[t].pc \notin CancelSteps
    BY <1>1 DEF PlainMove
  <2>8. \/ run'[q].status = run[q].status /\ notified'[q] = notified[q]
        \/ /\ run'[q].status \notin {"none", "running"} /\ notified'[q] = notified[q] + 1
           /\ task'[t].run = NoRun
    BY <1>2, <1>4 DEF TypeInv, TypeOK
  <2> QED BY <1>1, <1>2, <2>1, <2>2, <2>3, <2>4, <2>6, <2>7, <2>8, WalkStep
<1> QED BY <1>5, <1>6
\* A step of the walk at its own node run i, with everything else as it was.
LEMMA WalkAt ==
    ASSUME TypeInv, TypeInv', TokenInv, NEW t \in Tasks, NEW q \in Runs, NEW i \in NodeRunIds,
           TaskStep(t), task[t].run = q, task[t].nr = i, Opens(task[t]) \/ task[t].pc = "advance",
           UNCHANGED <<run, nodeRuns, notified>>, CalmMemory', task'[t].pc \notin CancelSteps,
           \A j \in NodeRunIds \ {i} : TokenSame(j),
           TaskSound(task[t])', NodeRunSound(i)', Resumable(i)' => task'[t].run = NoRun \/ Resumable(i)
    PROVE  TokenInv'
<1>1. /\ OwnWrites(q) /\ task'[t].run \in {q, NoRun} /\ \A u \in Tasks \ {t} : task'[u] = task[u]
  BY TaskWrites
<1>2. Holds(t, q) /\ nodeRuns[i].run = q
  <2>1. nodeRuns[i].run = q /\ i # 0
    BY TaskFacts DEF Linked, NodeRunIds
  <2> QED BY <2>1 DEF Holds, Walking, Engaged, Opens, CancelSteps
<1>3. OwnTokens(q)
  BY <1>2 DEF OwnTokens
<1>4. NodeRunsOf(q)' = NodeRunsOf(q)
  BY DEF NodeRunsOf, NodeRunIds
<1>5. \A j \in NodeRunsOf(q)' : NodeRunSound(j)'
  BY <1>4, SameNodeRun DEF TokenInv, NodeRunsOf
<1>6. \A j \in NodeRunsOf(q)' : Resumable(j)' =>
          (j = i /\ task'[t].run = NoRun) \/ (j \in NodeRunsOf(q) /\ Resumable(j))
  BY <1>4, SameNodeRun DEF NodeRunsOf
<1> QED BY <1>1, <1>2, <1>3, <1>5, <1>6, WalkStep

\* A node run is inserted.
LEMMA InsertTokens ==
    ASSUME TypeInv, TypeInv', TokenInv, NEW t \in Tasks, InsertNodeRun(t)
    PROVE  TokenInv'
<1>0. PICK k, x, q : k = task[t] /\ x = task'[t] /\ q = k.run
  OBVIOUS
<1>1. PICK id : id = Len(nodeRuns) + 1
  OBVIOUS
<1>2. k \in Chain /\ k.pc = "insert" /\ q \in Runs /\ Linked(k)
  BY <1>0, TaskFacts DEF InsertNodeRun
<1>3. /\ nodeRuns' = Append(nodeRuns, [run |-> q, node |-> k.node, status |-> "running", exit |-> Null])
      /\ advanced' = Append(advanced, 0)
      /\ Become(t, [k EXCEPT !.pc = "exec", !.nr = id, !.guards = Append(@, id)])
      /\ UNCHANGED <<run, cmds, fanOut, timers, booting, notified>>
  BY <1>0, <1>1 DEF InsertNodeRun, memVars
<1>4. x.pc = "exec" /\ x.nr = id
  <2> DEFINE y == [k EXCEPT !.pc = "exec", !.nr = id, !.guards = Append(@, id)]
  <2>1. y.pc = "exec" /\ y.nr = id /\ Become(t, y)
    BY <1>2, <1>3 DEF Chain
  <2> HIDE DEF y
  <2> QED BY <1>0, <2>1, BecomeFacts
<1>5. OwnWrites(q) /\ x.run \in {q, NoRun} /\ \A u \in Tasks \ {t} : task'[u] = task[u]
  <2>1. TaskStep(t)
    BY DEF TaskStep
  <2> QED BY <1>0, <2>1, TaskWrites
<1>6. id \notin NodeRunIds /\ NodeRunIds' = NodeRunIds \cup {id} /\ Len(nodeRuns) \in Nat
  <2>1. nodeRuns \in Seq(NodeRun)
    BY Parts DEF TypeInv, RowsOK
  <2> QED BY <1>1, <1>3, <2>1 DEF NodeRunIds
<1>7. advanced'[id] = 0 /\ \A i \in NodeRunIds : advanced'[i] = advanced[i]
  <2>1. advanced \in [1 .. Len(nodeRuns) -> Nat]
    BY DEF TypeInv, TypeOK, NodeRunIds
  <2>2. advanced \in Seq(Nat) /\ Len(advanced) = Len(nodeRuns)
    BY <1>6, <2>1, SeqDef
  <2> QED BY <1>1, <1>3, <1>6, <2>2 DEF NodeRunIds
<1>8. \A i \in NodeRunIds : TokenSame(i)
  BY <1>3, <1>7 DEF TokenSame, CommandsOf, Unreported, HasTimer
<1>9. /\ CommandsOf(id)' = {} /\ Unreported(id)' = {} /\ ~HasTimer(id)'
      /\ id \notin DOMAIN fanOut'
  <2>1. /\ \A c \in DOMAIN cmds : c[1] # id
        /\ \A w \in timers : w[1] # id
        /\ id \notin DOMAIN fanOut
    BY <1>6 DEF TypeInv, TypeOK
  <2> QED BY <1>3, <2>1 DEF CommandsOf, Unreported, HasTimer
<1>10. NodeRunSound(id)' /\ ~Resumable(id)'
  BY <1>7, <1>9 DEF NodeRunSound, Resumable
<1>11. TaskSound(task[t])'
  BY <1>0, <1>4, <1>7, <1>9 DEF TaskSound, Opens, Advancing
<1>12. Holds(t, q)
  BY <1>0, <1>2 DEF Holds, Walking, Engaged, CancelSteps
<1>13. OwnTokens(q)
  BY <1>3, <1>8, CalmFacts DEF OwnTokens
<1>14. \A i \in NodeRunsOf(q)' : i = id \/ i \in NodeRunsOf(q)
  BY <1>5, <1>6 DEF NodeRunsOf, OwnWrites
<1>15. \A i \in NodeRunsOf(q)' : NodeRunSound(i)' /\ (Resumable(i)' => i \in NodeRunsOf(q) /\ Resumable(i))
  BY <1>8, <1>10, <1>14, SameNodeRun DEF TokenInv, NodeRunsOf
<1>16. task'[t].pc \notin CancelSteps
  BY <1>0, <1>4 DEF CancelSteps
<1> QED BY <1>0, <1>2, <1>3, <1>5, <1>11, <1>12, <1>13, <1>15, <1>16, WalkStep

\* _advance: every command of the node run has reported.
LEMMA AdvanceTokens ==
    ASSUME TypeInv, TypeInv', TokenInv, NEW t \in Tasks, Advance(t)
    PROVE  TokenInv'
<1>0. PICK k, x, q, i : k = task[t] /\ x = task'[t] /\ q = k.run /\ i = k.nr
  OBVIOUS
<1> DEFINE next == Successor(k.run, k.node, k.exit)
<1>1. k \in Chain /\ k.pc = "advance" /\ q \in Runs /\ i \in NodeRunIds
  BY <1>0, TaskFacts DEF Advance, Linked, Chain
<1>2. /\ advanced' = [advanced EXCEPT ![i] = @ + 1]
      /\ Become(t, [k EXCEPT !.pc = "success"]) \/ Become(t, [k EXCEPT !.pc = "enter", !.node = next])
      /\ UNCHANGED <<run, nodeRuns, cmds, fanOut, timers, booting, notified>>
  BY <1>0 DEF Advance, dbVars, memVars
<1>3. x.pc \in {"success", "enter"}
  <2>1. [k EXCEPT !.pc = "success"].pc = "success"
    BY <1>1 DEF Chain
  <2>2. [k EXCEPT !.pc = "enter", !.node = next].pc = "enter"
    <3> HIDE DEF next
    <3> QED BY <1>1 DEF Chain
  <2> HIDE DEF next
  <2> QED BY <1>0, <1>2, <2>1, <2>2, BecomeFacts
<1>4. advanced \in [NodeRunIds -> Nat]
  BY DEF TypeInv, TypeOK
<1>5. \A j \in NodeRunIds \ {i} : TokenSame(j)
  BY <1>2, <1>4 DEF TokenSame, CommandsOf, Unreported, HasTimer
<1>6. TaskSound(task[t])'
  <2>1. task'[t].pc \notin {"exec", "stamp", "enqueue", "ack"} /\ ~Advancing(task[t])'
    BY <1>0, <1>3 DEF Advancing
  <2> QED BY <2>1, FreeTask
<1>7. NodeRunSound(i)' /\ (Resumable(i)' => Resumable(i))
  <2>1. Unreported(i) = {} /\ NodeRunSound(i)
    BY <1>0, <1>1 DEF TokenInv, TaskSound, Advancing
  <2>2. Unreported(i)' = Unreported(i) /\ CommandsOf(i)' = CommandsOf(i) /\ HasTimer(i)' = HasTimer(i)
    BY <1>2 DEF CommandsOf, Unreported, HasTimer
  <2>3. NodeRunSound(i)'
    BY <1>2, <2>1, <2>2 DEF NodeRunSound
  <2> QED BY <1>2, <2>2, <2>3 DEF Resumable
<1>8. TaskStep(t) /\ CalmMemory' /\ task'[t].pc \notin CancelSteps
  BY <1>0, <1>2, <1>3, CalmFacts DEF TaskStep, CancelSteps
<1> QED BY <1>0, <1>1, <1>2, <1>5, <1>6, <1>7, <1>8, WalkAt
\* A set of at most one element.
LEMMA AtMostOne ==
    ASSUME NEW S, IsFiniteSet(S), Cardinality(S) <= 1
    PROVE  \A d, e \in S : d = e
<1> SUFFICES ASSUME NEW d \in S, NEW e \in S, d # e PROVE FALSE
  OBVIOUS
<1>1. IsFiniteSet(S \ {d}) /\ Cardinality(S \ {d}) = Cardinality(S) - 1 /\ Cardinality(S) \in Nat
  BY FS_RemoveElement, FS_CardinalityType
<1>2. Cardinality(S \ {d}) = 0
  <2>1. Cardinality(S \ {d}) \in Nat
    BY <1>1, FS_CardinalityType
  <2> QED BY <1>1, <2>1
<1>3. S \ {d} = {}
  BY <1>1, <1>2, FS_EmptySet
<1> QED BY <1>3

\* An action node registers its fan-out before the first command.
LEMMA ActionTokens ==
    ASSUME TypeInv, TypeInv', TokenInv, NEW t \in Tasks, ExecuteAction(t)
    PROVE  TokenInv'
<1>0. PICK k, x, q, i : k = task[t] /\ x = task'[t] /\ q = k.run /\ i = k.nr
  OBVIOUS
<1>1. /\ k \in Chain /\ Linked(k) /\ k.pc = "exec" /\ q \in Runs /\ i \in NodeRunIds
      /\ k.node \in Nodes
  BY <1>0, TaskFacts DEF ExecuteAction, Executing, Linked, Opens, Chain
<1>2. PICK valid \in SUBSET Devices :
        /\ fanOut' = IF Cardinality(valid) <= 1 THEN fanOut
                     ELSE [j \in DOMAIN fanOut \cup {i} |->
                             IF j = i THEN [expected |-> Cardinality(valid),
                                            received |-> 0, worst |-> Null]
                             ELSE fanOut[j]]
        /\ Become(t, IF valid = {} THEN Thrown(k) ELSE [k EXCEPT !.pc = "enqueue", !.devs = valid])
  BY <1>0, <1>1, ScenarioGraphAssumption DEF ExecuteAction, ValidTargets
<1>3. UNCHANGED <<run, nodeRuns, cmds, timers, booting, advanced, notified>>
  BY DEF ExecuteAction, dbVars, histVars
<1>4. /\ advanced[i] = 0 /\ ~HasTimer(i) /\ CommandsOf(i) = {} /\ i \notin DOMAIN fanOut
  BY <1>0, <1>1 DEF TokenInv, TaskSound, Opens
<1>5. IsFiniteSet(valid) /\ Cardinality(valid) \in Nat
  BY ScenarioGraphAssumption, FS_Subset, FS_CardinalityType
<1>6. \A j \in NodeRunIds \ {i} : TokenSame(j)
  BY <1>2, <1>3 DEF TokenSame, CommandsOf, Unreported, HasTimer
<1>7. /\ CommandsOf(i)' = {} /\ Unreported(i)' = {} /\ ~HasTimer(i)' /\ advanced'[i] = 0
      /\ Cardinality(Unreported(i)') = 0
  <2>1. CommandsOf(i)' = {} /\ Unreported(i)' = {} /\ ~HasTimer(i)' /\ advanced'[i] = 0
    BY <1>3, <1>4 DEF CommandsOf, Unreported, HasTimer
  <2> QED BY <2>1, FS_EmptySet
<1>8. \/ Cardinality(valid) <= 1 /\ i \notin DOMAIN fanOut'
      \/ /\ Cardinality(valid) > 1 /\ i \in DOMAIN fanOut'
         /\ fanOut'[i].expected = Cardinality(valid) /\ fanOut'[i].received = 0
  BY <1>2, <1>4, <1>5
<1>9. NodeRunSound(i)' /\ ~Resumable(i)'
  BY <1>5, <1>7, <1>8 DEF NodeRunSound, Resumable
<1>10. TaskSound(task[t])' /\ task'[t].pc \notin CancelSteps
  <2>1. CASE valid = {}
    <3>1. LET y == Thrown(k) IN ~Advancing(y) /\ y.pc \in {"complete", "failure", "idle"}
      BY <1>1, ThrownFacts
    <3>2. x = Thrown(k)
      BY <1>0, <1>2, <2>1, BecomeFacts
    <3>3. task'[t].pc \notin {"exec", "stamp", "enqueue", "ack"} /\ ~Advancing(task[t])'
      BY <1>0, <3>1, <3>2 DEF Advancing
    <3>4. task'[t].pc \notin CancelSteps
      BY <1>0, <3>1, <3>2 DEF CancelSteps
    <3> QED BY <3>3, <3>4, FreeTask
  <2>2. CASE valid # {}
    <3> DEFINE y == [k EXCEPT !.pc = "enqueue", !.devs = valid]
    <3>1. y.pc = "enqueue" /\ y.devs = valid /\ y.nr = i /\ Become(t, y)
      BY <1>0, <1>1, <1>2, <2>2 DEF Chain
    <3> HIDE DEF y
    <3>2. x.pc = "enqueue" /\ x.devs = valid /\ x.nr = i
      BY <1>0, <3>1, BecomeFacts
    <3>3. \A d \in x.devs : <<i, d>> \notin DOMAIN cmds'
      BY <1>7 DEF CommandsOf
    <3>4. i \notin DOMAIN fanOut' => \A d, e \in x.devs : d = e
      BY <1>5, <1>8, <3>2, AtMostOne
    <3>5. i \in DOMAIN fanOut' =>
            fanOut'[i].received + Cardinality(Unreported(i)') + Cardinality(x.devs) <= fanOut'[i].expected
      BY <1>5, <1>7, <1>8, <3>2
    <3>6. TaskSound(task[t])'
      BY <1>0, <1>7, <2>2, <3>2, <3>3, <3>4, <3>5 DEF TaskSound, Opens, Advancing
    <3> QED BY <1>0, <3>2, <3>6 DEF CancelSteps
  <2> QED BY <2>1, <2>2
<1>11. TaskStep(t) /\ CalmMemory' /\ Opens(task[t])
  BY <1>0, <1>1, <1>3, CalmFacts DEF TaskStep, Executor, Opens
<1> QED BY <1>0, <1>1, <1>3, <1>6, <1>9, <1>10, <1>11, WalkAt

\* A wait node parks with its timer armed.
LEMMA WaitTokens ==
    ASSUME TypeInv, TypeInv', TokenInv, NEW t \in Tasks, ExecuteWait(t)
    PROVE  TokenInv'
<1>0. PICK k, q, i : k = task[t] /\ q = k.run /\ i = k.nr
  OBVIOUS
<1>1. k \in Chain /\ k.pc = "exec" /\ q \in Runs /\ i \in NodeRunIds
  BY <1>0, TaskFacts DEF ExecuteWait, Executing, Linked, Opens, Chain
<1>2. /\ timers' = timers \cup {<<i, "run">>} /\ Become(t, IdleTask)
      /\ UNCHANGED <<run, nodeRuns, cmds, fanOut, booting, advanced, notified>>
  BY <1>0 DEF ExecuteWait, End, dbVars, histVars
<1>3. task'[t] = IdleTask /\ IdleTask.run = NoRun /\ IdleTask.pc = "idle"
  BY <1>2, BecomeFacts, IdleFacts
<1>4. advanced[i] = 0 /\ CommandsOf(i) = {} /\ i \notin DOMAIN fanOut
  BY <1>0, <1>1 DEF TokenInv, TaskSound, Opens
<1>5. \A j \in NodeRunIds \ {i} : TokenSame(j)
  BY <1>2 DEF TokenSame, CommandsOf, Unreported, HasTimer
<1>6. NodeRunSound(i)'
  <2>1. CommandsOf(i)' = {} /\ Unreported(i)' = {} /\ i \notin DOMAIN fanOut'
    BY <1>2, <1>4 DEF CommandsOf, Unreported
  <2> QED BY <2>1 DEF NodeRunSound
<1>7. TaskSound(task[t])'
  <2>1. task'[t].pc \notin {"exec", "stamp", "enqueue", "ack"} /\ ~Advancing(task[t])'
    BY <1>3 DEF Advancing
  <2> QED BY <2>1, FreeTask
<1>8. TaskStep(t) /\ CalmMemory' /\ Opens(task[t]) /\ task'[t].pc \notin CancelSteps
  BY <1>0, <1>1, <1>2, <1>3 DEF TaskStep, Executor, Opens, CancelSteps, TokenInv, CalmMemory
<1> QED BY <1>0, <1>1, <1>2, <1>3, <1>5, <1>6, <1>7, <1>8, WalkAt
\* A command more, and a device less to go: a fan-out waits for it, and a single command
\* is the last.
LEMMA EnqueueTokens ==
    ASSUME TypeInv, TypeInv', TokenInv, NEW t \in Tasks, EnqueueCommand(t)
    PROVE  TokenInv'
<1>0. PICK k, x, q, i, U : /\ k = task[t] /\ x = task'[t] /\ q = k.run /\ i = k.nr
                           /\ U = Unreported(i)
  OBVIOUS
<1>1. k \in Chain /\ k.pc = "enqueue" /\ q \in Runs /\ i \in NodeRunIds /\ k.devs \subseteq Devices
  BY <1>0, TaskFacts DEF EnqueueCommand, Linked, Opens, Chain
<1>2. PICK d \in k.devs :
        /\ cmds' = [c \in DOMAIN cmds \cup {<<i, d>>} |->
                      IF c \in DOMAIN cmds THEN cmds[c]
                      ELSE [status |-> "pending", reports |-> 0, exit |-> Null]]
        /\ Become(t, IF k.devs = {d} THEN IdleTask ELSE [k EXCEPT !.devs = @ \ {d}])
  BY <1>0 DEF EnqueueCommand
<1>3. UNCHANGED <<run, nodeRuns, fanOut, timers, booting, advanced, notified>>
  BY DEF EnqueueCommand, memVars, histVars
<1>4. /\ advanced[i] = 0 /\ ~HasTimer(i) /\ k.devs # {}
      /\ \A e \in k.devs : <<i, e>> \notin DOMAIN cmds
      /\ i \in DOMAIN fanOut => fanOut[i].received + Cardinality(U) + Cardinality(k.devs)
                                  <= fanOut[i].expected
      /\ i \notin DOMAIN fanOut => CommandsOf(i) = {} /\ \A e, f \in k.devs : e = f
  BY <1>0, <1>1 DEF TokenInv, TaskSound, Opens
<1>5. NodeRunSound(i)
  BY <1>1 DEF TokenInv
<1>6. PICK c : c = <<i, d>>
  OBVIOUS
<1>7. /\ CommandsOf(i)' = CommandsOf(i) \cup {c} /\ Unreported(i)' = U \cup {c}
      /\ c \notin U /\ U \subseteq CommandsOf(i)
  <2>1. DOMAIN cmds' = DOMAIN cmds \cup {c} /\ c \notin DOMAIN cmds /\ c[1] = i
        /\ cmds'[c].reports = 0 /\ \A e \in DOMAIN cmds : cmds'[e] = cmds[e]
    BY <1>2, <1>4, <1>6
  <2>2. CommandsOf(i)' = CommandsOf(i) \cup {c} /\ CommandsOf(i) \subseteq DOMAIN cmds
    BY <2>1 DEF CommandsOf
  <2>3. Unreported(i)' = U \cup {c}
    BY <1>0, <2>1, <2>2 DEF Unreported
  <2> QED BY <1>0, <2>1, <2>2, <2>3 DEF Unreported
<1>8. /\ Cardinality(U) \in Nat /\ Cardinality(Unreported(i)') = Cardinality(U) + 1
      /\ Cardinality(k.devs) \in Nat /\ Cardinality(k.devs \ {d}) = Cardinality(k.devs) - 1
      /\ Cardinality(k.devs \ {d}) \in Nat
      /\ k.devs # {d} => Cardinality(k.devs \ {d}) > 0
  <2>1. IsFiniteSet(U) /\ Cardinality(U) \in Nat
    BY <1>0, <1>7, CommandsIn, FewCommands
  <2>2. IsFiniteSet(k.devs) /\ Cardinality(k.devs) \in Nat
    BY <1>1, ScenarioGraphAssumption, FS_Subset, FS_CardinalityType
  <2>3. IsFiniteSet(k.devs \ {d}) /\ Cardinality(k.devs \ {d}) = Cardinality(k.devs) - 1
    BY <2>2, FS_RemoveElement
  <2>4. Cardinality(k.devs \ {d}) \in Nat
    BY <2>3, FS_CardinalityType
  <2>5. k.devs # {d} => Cardinality(k.devs \ {d}) > 0
    <3>1. k.devs # {d} => k.devs \ {d} # {}
      OBVIOUS
    <3>2. k.devs \ {d} # {} => Cardinality(k.devs \ {d}) # 0
      BY <2>3, FS_EmptySet
    <3> QED BY <2>4, <3>1, <3>2
  <2>6. Cardinality(U \cup {c}) = Cardinality(U) + 1
    BY <1>7, <2>1, FS_AddElement
  <2> QED BY <1>7, <2>1, <2>2, <2>3, <2>4, <2>5, <2>6
<1>9. \A j \in NodeRunIds \ {i} : TokenSame(j)
  <2> SUFFICES ASSUME NEW j \in NodeRunIds \ {i} PROVE TokenSame(j)
    OBVIOUS
  <2>1. DOMAIN cmds' = DOMAIN cmds \cup {c} /\ c[1] # j /\ c \notin DOMAIN cmds
        /\ \A e \in DOMAIN cmds : cmds'[e] = cmds[e]
    BY <1>2, <1>4, <1>6
  <2>2. CommandsOf(j)' = CommandsOf(j) /\ CommandsOf(j) \subseteq DOMAIN cmds
    BY <2>1 DEF CommandsOf
  <2>3. Unreported(j)' = Unreported(j)
    BY <2>1, <2>2 DEF Unreported
  <2> QED BY <1>3, <2>2, <2>3 DEF TokenSame, HasTimer
<1>10. i \in DOMAIN fanOut => fanOut[i].received \in Nat /\ fanOut[i].expected \in Nat
  BY DEF TypeInv, TypeOK
<1>11. NodeRunSound(i)' /\ (Resumable(i)' => k.devs = {d})
  <2>1. ~HasTimer(i)' /\ advanced'[i] = 0
    BY <1>3, <1>4 DEF HasTimer
  <2>2. CASE i \in DOMAIN fanOut
    <3>1. fanOut[i].received + (Cardinality(U) + 1) + Cardinality(k.devs \ {d}) <= fanOut[i].expected
      BY <1>4, <1>8, <1>10, <2>2
    <3>2. fanOut[i].received + Cardinality(Unreported(i)') <= fanOut[i].expected
      BY <1>8, <1>10, <2>2, <3>1
    <3>3. fanOut[i].received + Cardinality(Unreported(i)') >= fanOut[i].expected => k.devs = {d}
      BY <1>8, <1>10, <2>2, <3>1
    <3>4. fanOut[i].received < fanOut[i].expected
      BY <1>5, <2>2 DEF NodeRunSound
    <3> QED BY <1>3, <2>1, <2>2, <3>2, <3>3, <3>4 DEF NodeRunSound, Resumable
  <2>3. CASE i \notin DOMAIN fanOut
    <3>1. Unreported(i)' = {c} /\ k.devs = {d}
      BY <1>4, <1>7, <2>3
    <3> QED BY <1>3, <2>1, <2>3, <3>1 DEF NodeRunSound
  <2> QED BY <2>2, <2>3
<1>12. CASE k.devs = {d}
  <2>1. x.pc = "idle" /\ x.run = NoRun
    BY <1>0, <1>2, <1>12, BecomeFacts, IdleFacts
  <2>2. TaskSound(task[t])'
    <3>1. task'[t].pc \notin {"exec", "stamp", "enqueue", "ack"} /\ ~Advancing(task[t])'
      BY <1>0, <2>1 DEF Advancing
    <3> QED BY <3>1, FreeTask
  <2>3. TaskStep(t) /\ CalmMemory' /\ Opens(task[t]) /\ task'[t].pc \notin CancelSteps
    BY <1>0, <1>1, <1>3, <2>1, CalmFacts DEF TaskStep, Executor, Opens, CancelSteps
  <2> QED BY <1>0, <1>1, <1>3, <1>9, <1>11, <2>1, <2>2, <2>3, WalkAt
<1>13. CASE k.devs # {d}
  <2> DEFINE y == [k EXCEPT !.devs = @ \ {d}]
  <2>1. y.pc = "enqueue" /\ y.devs = k.devs \ {d} /\ y.nr = i /\ Become(t, y)
    BY <1>0, <1>1, <1>2, <1>13 DEF Chain
  <2> HIDE DEF y
  <2>2. x.pc = "enqueue" /\ x.devs = k.devs \ {d} /\ x.nr = i
    BY <1>0, <2>1, BecomeFacts
  <2>3. i \in DOMAIN fanOut'
    BY <1>3, <1>4, <1>13
  <2>4. \A e \in x.devs : <<i, e>> \notin DOMAIN cmds'
    BY <1>2, <1>4, <2>2
  <2>5. fanOut'[i].received + Cardinality(Unreported(i)') + Cardinality(x.devs) <= fanOut'[i].expected
    <3>1. fanOut[i].received + (Cardinality(U) + 1) + Cardinality(k.devs \ {d}) <= fanOut[i].expected
      BY <1>3, <1>4, <1>8, <1>10, <2>3
    <3> QED BY <1>3, <1>8, <1>10, <2>2, <2>3, <3>1
  <2>6. x.devs # {} /\ advanced'[i] = 0 /\ ~HasTimer(i)'
    BY <1>3, <1>4, <1>13, <2>2 DEF HasTimer
  <2>7. TaskSound(task[t])'
    BY <1>0, <2>2, <2>3, <2>4, <2>5, <2>6 DEF TaskSound, Opens, Advancing
  <2>8. TaskStep(t) /\ CalmMemory' /\ Opens(task[t]) /\ task'[t].pc \notin CancelSteps
    BY <1>0, <1>1, <1>3, <2>2, CalmFacts DEF TaskStep, Executor, Opens, CancelSteps
  <2> QED BY <1>0, <1>1, <1>3, <1>9, <1>11, <1>13, <2>7, <2>8, WalkAt
<1> QED BY <1>12, <1>13

\* A run starts with one task.
LEMMA StartTokens ==
    ASSUME TypeInv, TypeInv', TokenInv, NEW t \in Tasks, NEW q \in Runs, NEW n \in Starts,
           NEW single \in BOOLEAN, StartRun(t, q, n, single)
    PROVE  TokenInv'
<1>1. /\ Idle(t) /\ run[q].status = "none"
      /\ run' = [run EXCEPT ![q].status = "running", ![q].single = single]
      /\ UNCHANGED <<nodeRuns, cmds, fanOut, timers, booting, advanced, notified>>
  BY DEF StartRun, histVars
<1>2. PICK x : Become(t, x) /\ x.pc \in {"failure", "enter"} /\ x.run = q
  <2>1. PICK pc \in {"failure", "enter"} : \E m :
          Become(t, [IdleTask EXCEPT !.pc = pc, !.run = q, !.node = m, !.start = TRUE])
    BY DEF StartRun
  <2> PICK node : Become(t, [IdleTask EXCEPT !.pc = pc, !.run = q, !.node = node, !.start = TRUE])
    BY <2>1
  <2> DEFINE y == [IdleTask EXCEPT !.pc = pc, !.run = q, !.node = node, !.start = TRUE]
  <2>2. y.pc = pc /\ y.run = q /\ Become(t, y)
    BY <2>1, IdleFacts DEF Chain
  <2> HIDE DEF y
  <2> QED BY <2>2
<1>3. task'[t] = x /\ \A u \in Tasks \ {t} : task'[u] = task[u]
  BY <1>2, BecomeFacts
<1>4. RunSound(q) /\ Engaged(q) = {} /\ NodeRunsOf(q) = {} /\ notified[q] \in Nat
  BY <1>1 DEF TokenInv, RunSound, TypeInv, TypeOK
<1>5. notified[q] = 0
  BY <1>1, <1>4 DEF RunSound
<1>6. (\A i : TokenSame(i)) /\ CalmMemory'
  BY <1>1, AllSame, CalmFacts
<1>7. OwnWrites(q) /\ run'[q].status = "running"
  <2>1. \A p \in Runs \ {q} : run'[p] = run[p]
    BY <1>1 DEF TypeInv, TypeOK
  <2>2. run[q] \in Row /\ run \in [Runs -> Row]
    BY RunRow
  <2> QED BY <1>1, <2>1, <2>2, RunOnly DEF Row
<1>8. OwnTokens(q)
  BY <1>1, <1>6 DEF OwnTokens
<1>9. task[t].run = NoRun /\ \A u \in Tasks : task[u].run # q
  BY <1>1, <1>4, TaskFacts DEF Idle, Linked, Engaged
<1>10. /\ \A i \in NodeRunIds : nodeRuns[i].run # q => NodeRunSound(i)'
       /\ \A u \in Tasks \ {t} : TaskSound(task[u])'
       /\ \A r \in Runs \ {q} : RunSound(r)'
  BY <1>2, <1>3, <1>7, <1>8, <1>9, OtherRuns
<1>11. NodeRunIds' = NodeRunIds /\ NodeRunsOf(q)' = {} /\ \A i \in NodeRunIds : nodeRuns[i].run # q
  BY <1>1, <1>4 DEF NodeRunIds, NodeRunsOf
<1>12. TaskSound(task[t])'
  <2>1. task'[t].pc \notin {"exec", "stamp", "enqueue", "ack"} /\ ~Advancing(task[t])'
    BY <1>2, <1>3 DEF Advancing
  <2> QED BY <2>1, FreeTask
<1>13. RunSound(q)'
  <2>1. Walking(q)' \subseteq {t} /\ Committed(q)' \subseteq {t}
    BY <1>3, <1>9 DEF Walking, Committed, Engaged
  <2> QED BY <1>1, <1>5, <1>7, <1>11, <2>1 DEF RunSound
<1> QED BY <1>6, <1>10, <1>11, <1>12, <1>13 DEF TokenInv, CalmMemory
\* The status of a command is no token.
LEMMA StatusOnly ==
    ASSUME UNCHANGED <<DOMAIN cmds, fanOut, timers, advanced>>,
           \A c \in DOMAIN cmds : cmds'[c].reports = cmds[c].reports
    PROVE  \A i : TokenSame(i)
<1> SUFFICES ASSUME NEW i PROVE TokenSame(i)
  OBVIOUS
<1>1. CommandsOf(i)' = CommandsOf(i) /\ CommandsOf(i) \subseteq DOMAIN cmds
  BY DEF CommandsOf
<1>2. Unreported(i)' = Unreported(i)
  BY <1>1 DEF Unreported
<1> QED BY <1>1, <1>2 DEF TokenSame, HasTimer

\* A cancellation removes no token: a report that comes later finds the run ended.
LEMMA CancelTokens ==
    ASSUME TypeInv, TypeInv', TokenInv, NEW t \in Tasks,
           \/ \E r \in Runs : BeginCancel(t, r)
           \/ CancelRunRow(t) \/ SelectNodeRuns(t) \/ CancelNodeRuns(t) \/ CancelCommands(t)
           \/ StatementFails(t) /\ task[t].pc \in CancelSteps
    PROVE  TokenInv'
<1>0. PICK k : k = task[t]
  OBVIOUS
<1>1. UNCHANGED <<fanOut, timers, booting, advanced, notified>>
  BY DEF BeginCancel, CancelRunRow, SelectNodeRuns, CancelNodeRuns, CancelCommands, StatementFails,
         memVars, histVars
<1>2. CalmMemory'
  BY <1>1, CalmFacts
<1>3. KeepsRows
  <2>1. CASE StatementFails(t)
    BY <2>1, SameRows DEF StatementFails, dbVars
  <2> QED BY <2>1, CancelTypes
<1>4. \A i : TokenSame(i)
  <2>1. CASE CancelCommands(t)
    <3>1. RowsOK
      BY Parts DEF TypeInv
    <3>2. cmds' = [c \in DOMAIN cmds |-> IF c[1] \in k.nrs /\ cmds[c].status = "pending"
                      THEN [cmds[c] EXCEPT !.status = "cancelled"] ELSE cmds[c]]
      BY <1>0, <2>1 DEF CancelCommands
    <3>3. \A c \in DOMAIN cmds : cmds'[c].reports = cmds[c].reports
      BY <3>1, <3>2 DEF RowsOK, CommandsOK
    <3>4. UNCHANGED (DOMAIN cmds)
      BY <3>2
    <3> QED BY <1>1, <3>3, <3>4, StatusOnly
  <2>2. CASE ~CancelCommands(t)
    <3>1. UNCHANGED cmds
      BY <2>2 DEF BeginCancel, CancelRunRow, SelectNodeRuns, CancelNodeRuns, StatementFails, dbVars
    <3> QED BY <1>1, <3>1, AllSame
  <2> QED BY <2>1, <2>2
<1>5. \A r \in Runs : run'[r].status \in {run[r].status, "cancelled"}
  <2>1. CASE CancelRunRow(t)
    <3>1. run' = [run EXCEPT ![k.run].status = "cancelled"] /\ run \in [Runs -> Row]
      BY <1>0, <2>1 DEF CancelRunRow, TypeInv, TypeOK
    <3> QED BY <3>1 DEF Row
  <2>2. CASE ~CancelRunRow(t)
    BY <2>2 DEF BeginCancel, SelectNodeRuns, CancelNodeRuns, CancelCommands, StatementFails, dbVars
  <2> QED BY <2>1, <2>2
<1>6. PICK x : Become(t, x) /\ x.pc \in CancelSteps \cup {"idle"}
               /\ (x.run \in Runs => run[x.run].status # "none")
  <2>1. k \in Chain /\ IdleTask \in Chain /\ IdleTask.pc = "idle" /\ IdleTask.run \notin Runs
    BY <1>0, TaskFacts, IdleFacts, ScenarioGraphAssumption
  <2>2. k.pc # "idle" => run[k.run].status # "none"
    <3>1. ASSUME k.pc # "idle" PROVE run[k.run].status # "none"
      <4>1. k.run \in Runs
        BY <1>0, <3>1, TaskFacts
      <4>2. RunSound(k.run) /\ t \in Engaged(k.run)
        BY <1>0, <4>1 DEF TokenInv, Engaged
      <4> QED BY <4>2 DEF RunSound
    <3> QED BY <3>1
  <2>3. {"cancelRun", "cancelSelect", "cancelNodes", "cancelCommands"} = CancelSteps
    BY DEF CancelSteps
  <2>4. CASE \E r \in Runs : BeginCancel(t, r)
    <3>1. PICK r \in Runs : BeginCancel(t, r)
      BY <2>4
    <3> DEFINE y == [IdleTask EXCEPT !.pc = "cancelRun", !.run = r]
    <3>2. y.pc = "cancelRun" /\ y.run = r /\ Become(t, y) /\ run[r].status = "running"
      BY <2>1, <3>1 DEF BeginCancel, Chain
    <3> HIDE DEF y
    <3> QED BY <2>3, <3>2
  <2>5. CASE CancelRunRow(t)
    <3> DEFINE y == [k EXCEPT !.pc = "cancelSelect"]
    <3>1. y.pc = "cancelSelect" /\ y.run = k.run /\ Become(t, y) /\ k.pc # "idle"
      BY <1>0, <2>1, <2>5 DEF CancelRunRow, Chain
    <3> HIDE DEF y
    <3> QED BY <2>2, <2>3, <3>1
  <2>6. CASE SelectNodeRuns(t)
    <3>1. PICK nrs : Become(t, IdleTask) \/ Become(t, [k EXCEPT !.pc = "cancelNodes", !.nrs = nrs])
      BY <1>0, <2>6 DEF SelectNodeRuns
    <3> DEFINE y == [k EXCEPT !.pc = "cancelNodes", !.nrs = nrs]
    <3>2. y.pc = "cancelNodes" /\ y.run = k.run /\ k.pc # "idle"
      BY <1>0, <2>1, <2>6 DEF SelectNodeRuns, Chain
    <3>3. Become(t, IdleTask) \/ Become(t, y)
      BY <3>1
    <3> HIDE DEF y
    <3> QED BY <2>1, <2>2, <2>3, <3>2, <3>3
  <2>7. CASE CancelNodeRuns(t) \/ (StatementFails(t) /\ k.pc = "cancelNodes")
    <3> DEFINE y == [k EXCEPT !.pc = "cancelCommands"]
    <3>1. y.pc = "cancelCommands" /\ y.run = k.run /\ k.pc # "idle"
      BY <1>0, <2>1, <2>7 DEF CancelNodeRuns, Chain
    <3>2. Become(t, y)
      BY <1>0, <2>3, <2>7 DEF CancelNodeRuns, StatementFails
    <3> HIDE DEF y
    <3> QED BY <2>2, <2>3, <3>1, <3>2
  <2>8. CASE CancelCommands(t) \/ (StatementFails(t) /\ k.pc \in CancelSteps \ {"cancelNodes"})
    <3>1. Become(t, IdleTask)
      BY <1>0, <2>8 DEF CancelCommands, End, StatementFails, CancelSteps
    <3> QED BY <2>1, <3>1
  <2> QED BY <1>0, <2>4, <2>5, <2>6, <2>7, <2>8
<1>7. \A u \in Tasks : \/ task'[u] = task[u]
                       \/ /\ task'[u].pc \in CancelSteps \cup {"idle"}
                          /\ task'[u].run \in Runs => run[task'[u].run].status # "none"
  BY <1>6, BecomeFacts
<1> QED BY <1>1, <1>2, <1>3, <1>4, <1>5, <1>7, SideStep

\* handleNodeCommandAck resumes node run i, or counts one more report of its fan-out.
LEMMA AckCases ==
    ASSUME TypeInv, UNCHANGED nodeRuns, NEW t \in Tasks, NEW i \in NodeRunIds, NEW exit \in Exits,
           HandleNodeCommandAck(t, i, exit)
    PROVE  /\ task[t].run = NoRun
           /\ \/ /\ i \notin DOMAIN fanOut /\ UNCHANGED fanOut
                 /\ task'[t].pc = "ack" /\ task'[t].nr = i /\ task'[t].run = nodeRuns[i].run
                 /\ \A u \in Tasks \ {t} : task'[u] = task[u]
              \/ /\ i \in DOMAIN fanOut /\ fanOut[i].received + 1 < fanOut[i].expected
                 /\ UNCHANGED task /\ DOMAIN fanOut' = DOMAIN fanOut
                 /\ fanOut'[i].received = fanOut[i].received + 1
                 /\ fanOut'[i].expected = fanOut[i].expected
                 /\ \A j \in DOMAIN fanOut \ {i} : fanOut'[j] = fanOut[j]
              \/ /\ i \in DOMAIN fanOut /\ fanOut[i].received + 1 >= fanOut[i].expected
                 /\ DOMAIN fanOut' = DOMAIN fanOut \ {i}
                 /\ \A j \in DOMAIN fanOut \ {i} : fanOut'[j] = fanOut[j]
                 /\ task'[t].pc = "ack" /\ task'[t].nr = i /\ task'[t].run = nodeRuns[i].run
                 /\ \A u \in Tasks \ {t} : task'[u] = task[u]
<1>1. task[t].run = NoRun
  BY TaskFacts DEF HandleNodeCommandAck, Idle, Linked
<1>2. ASSUME NEW e, Resume(t, i, e)
      PROVE  /\ task'[t].pc = "ack" /\ task'[t].nr = i /\ task'[t].run = nodeRuns[i].run
             /\ \A u \in Tasks \ {t} : task'[u] = task[u]
  <2> DEFINE x == [IdleTask EXCEPT !.pc = "ack", !.nr = i, !.run = nodeRuns[i].run,
                                   !.node = nodeRuns[i].node, !.exit = e]
  <2>1. x.pc = "ack" /\ x.nr = i /\ x.run = nodeRuns[i].run
    BY IdleFacts DEF Chain
  <2>2. Become(t, x)
    BY <1>2 DEF Resume
  <2> HIDE DEF x
  <2> QED BY <2>1, <2>2, BecomeFacts
<1>3. CASE i \notin DOMAIN fanOut
  <2>1. Resume(t, i, exit) /\ UNCHANGED fanOut
    BY <1>3 DEF HandleNodeCommandAck
  <2> QED BY <1>1, <1>2, <1>3, <2>1
<1>4. CASE i \in DOMAIN fanOut
  <2> DEFINE p == Collected(fanOut[i], exit)
  <2>1. fanOut[i] \in [expected : Nat, received : Nat, worst : Exits \cup {Null}]
    BY <1>4 DEF TypeInv, TypeOK
  <2>2. p.received = fanOut[i].received + 1 /\ p.expected = fanOut[i].expected
    BY <2>1 DEF Collected
  <2>3. \/ ~Complete(p) /\ fanOut' = [fanOut EXCEPT ![i] = p] /\ UNCHANGED task
        \/ /\ Complete(p) /\ fanOut' = [j \in DOMAIN fanOut \ {i} |-> fanOut[j]]
           /\ Resume(t, i, p.worst)
    BY <1>4 DEF HandleNodeCommandAck
  <2>4. Complete(p) <=> fanOut[i].received + 1 >= fanOut[i].expected
    BY <2>2 DEF Complete
  <2>5. fanOut[i].received \in Nat /\ fanOut[i].expected \in Nat
    BY <2>1
  <2> HIDE DEF p
  <2>6. CASE ~Complete(p)
    <3>1. fanOut' = [fanOut EXCEPT ![i] = p] /\ UNCHANGED task
      BY <2>3, <2>6
    <3>2. DOMAIN fanOut' = DOMAIN fanOut /\ fanOut'[i] = p /\ \A j \in DOMAIN fanOut \ {i} : fanOut'[j] = fanOut[j]
      BY <1>4, <3>1
    <3> QED BY <1>1, <1>4, <2>2, <2>4, <2>5, <2>6, <3>1, <3>2
  <2>7. CASE Complete(p)
    <3>1. fanOut' = [j \in DOMAIN fanOut \ {i} |-> fanOut[j]] /\ Resume(t, i, p.worst)
      BY <2>3, <2>7
    <3>2. DOMAIN fanOut' = DOMAIN fanOut \ {i} /\ \A j \in DOMAIN fanOut \ {i} : fanOut'[j] = fanOut[j]
      BY <3>1
    <3>3. /\ task'[t].pc = "ack" /\ task'[t].nr = i /\ task'[t].run = nodeRuns[i].run
          /\ \A u \in Tasks \ {t} : task'[u] = task[u]
      BY <1>2, <3>1
    <3> QED BY <1>1, <1>4, <2>4, <2>7, <3>2, <3>3
  <2> QED BY <2>6, <2>7
<1> QED BY <1>3, <1>4

\* A command that reports once takes its token along.
LEMMA ReportTokens ==
    ASSUME Regular', TypeInv, TypeInv', TokenInv, NEW t \in Tasks, NEW c \in DOMAIN cmds,
           NEW exit \in Exits, Report(t, c, exit)
    PROVE  TokenInv'
<1>0. PICK i, U : i = c[1] /\ U = Unreported(i)
  OBVIOUS
<1>1. /\ cmds[c].reports < MaxReports
      /\ cmds' = [cmds EXCEPT ![c] = [status |-> "over", reports |-> cmds[c].reports + 1, exit |-> exit]]
      /\ HandleNodeCommandAck(t, i, exit)
      /\ UNCHANGED <<run, nodeRuns, timers, booting, advanced, notified>>
  BY <1>0 DEF Report, histVars
<1>2. i \in NodeRunIds /\ cmds[c].reports \in Nat
  BY <1>0, ScenarioGraphAssumption DEF TypeInv, TypeOK
<1>3. cmds[c].reports = 0 /\ DOMAIN cmds' = DOMAIN cmds /\ cmds'[c].reports = 1
      /\ \A e \in DOMAIN cmds \ {c} : cmds'[e] = cmds[e]
  <2>1. /\ DOMAIN cmds' = DOMAIN cmds /\ cmds'[c].reports = cmds[c].reports + 1
        /\ \A e \in DOMAIN cmds \ {c} : cmds'[e] = cmds[e]
    BY <1>1
  <2>2. cmds'[c].reports <= 1
    BY <2>1 DEF Regular
  <2> QED BY <1>2, <2>1, <2>2
<1>4. /\ c \in U /\ CommandsOf(i)' = CommandsOf(i) /\ Unreported(i)' = U \ {c} /\ c \in CommandsOf(i)
  <2>1. CommandsOf(i)' = CommandsOf(i) /\ CommandsOf(i) \subseteq DOMAIN cmds /\ c \in CommandsOf(i)
    BY <1>0, <1>3 DEF CommandsOf
  <2> QED BY <1>0, <1>3, <2>1 DEF Unreported
<1>5. /\ IsFiniteSet(U) /\ Cardinality(U) \in Nat /\ Cardinality(U \ {c}) = Cardinality(U) - 1
      /\ Cardinality(U \ {c}) \in Nat /\ IsFiniteSet(U \ {c})
  <2>1. IsFiniteSet(U) /\ Cardinality(U) \in Nat
    BY <1>0, CommandsIn, FewCommands
  <2>2. IsFiniteSet(U \ {c}) /\ Cardinality(U \ {c}) = Cardinality(U) - 1
    BY <1>4, <2>1, FS_RemoveElement
  <2> QED BY <2>1, <2>2, FS_CardinalityType
<1>6. NodeRunSound(i) /\ ~HasTimer(i) /\ ~HasTimer(i)' /\ advanced[i] = 0
  <2>1. NodeRunSound(i) /\ advanced[i] \in Nat
    BY <1>2 DEF TokenInv, TypeInv, TypeOK
  <2>2. ~HasTimer(i) /\ ~(advanced[i] > 0)
    BY <1>0, <1>4, <2>1 DEF NodeRunSound
  <2>3. HasTimer(i)' <=> HasTimer(i)
    BY <1>1 DEF HasTimer
  <2> QED BY <2>1, <2>2, <2>3
<1>7. ASSUME NEW j \in NodeRunIds \ {i}
      PROVE  /\ CommandsOf(j)' = CommandsOf(j) /\ Unreported(j)' = Unreported(j)
             /\ (HasTimer(j)' <=> HasTimer(j)) /\ advanced'[j] = advanced[j]
  <2>1. CommandsOf(j)' = CommandsOf(j) /\ CommandsOf(j) \subseteq DOMAIN cmds /\ c \notin CommandsOf(j)
    BY <1>0, <1>3 DEF CommandsOf
  <2>2. Unreported(j)' = Unreported(j)
    BY <1>3, <2>1 DEF Unreported
  <2> QED BY <1>1, <2>1, <2>2 DEF HasTimer
<1>8. CalmMemory' /\ KeepsRows
  BY <1>1, CalmFacts, SameRows
<1>9. task[t].run = NoRun
  BY <1>1, <1>2, AckCases
<1>10. \A u \in Tasks : task[u].nr = i => task[u].pc \notin {"exec", "stamp"} /\ ~Advancing(task[u])
  <2>1. \A u \in Tasks : TaskSound(task[u])
    BY DEF TokenInv
  <2> QED BY <1>0, <1>4, <2>1 DEF TaskSound
<1>11. CASE i \notin DOMAIN fanOut
  <2>1. /\ UNCHANGED fanOut
        /\ task'[t].pc = "ack" /\ task'[t].nr = i /\ task'[t].run = nodeRuns[i].run
        /\ \A u \in Tasks \ {t} : task'[u] = task[u]
    BY <1>1, <1>2, <1>11, AckCases
  <2>2. Unreported(i)' = {}
    BY <1>0, <1>4, <1>6, <1>11 DEF NodeRunSound
  <2>3. \A j \in NodeRunIds \ {i} : TokenSame(j)
    BY <1>7, <2>1 DEF TokenSame
  <2>4. Resumable(i)
    BY <1>0, <1>4, <1>11 DEF Resumable
  <2>5. \A u \in Tasks : Opens(task[u]) => task[u].nr # i
    <3>1. \A u \in Tasks : TaskSound(task[u])
      BY DEF TokenInv
    <3> QED BY <1>4, <1>11, <3>1 DEF TaskSound, Opens
  <2> QED BY <1>1, <1>2, <1>4, <1>6, <1>8, <1>9, <1>11, <2>1, <2>2, <2>3, <2>4, <2>5, ResumeStep
<1>12. ASSUME i \in DOMAIN fanOut
       PROVE  /\ fanOut[i].received \in Nat /\ fanOut[i].expected \in Nat
              /\ fanOut[i].received < fanOut[i].expected
              /\ fanOut[i].received + Cardinality(U) <= fanOut[i].expected
  BY <1>0, <1>6, <1>12 DEF NodeRunSound, TypeInv, TypeOK
<1>13. CASE i \in DOMAIN fanOut /\ fanOut[i].received + 1 >= fanOut[i].expected
  <2>1. /\ DOMAIN fanOut' = DOMAIN fanOut \ {i}
        /\ \A j \in DOMAIN fanOut \ {i} : fanOut'[j] = fanOut[j]
        /\ task'[t].pc = "ack" /\ task'[t].nr = i /\ task'[t].run = nodeRuns[i].run
        /\ \A u \in Tasks \ {t} : task'[u] = task[u]
    <3>1. fanOut[i].received \in Nat /\ fanOut[i].expected \in Nat
      BY <1>12, <1>13
    <3>2. ~(fanOut[i].received + 1 < fanOut[i].expected)
      BY <1>13, <3>1
    <3> QED BY <1>1, <1>2, <1>13, <3>1, <3>2, AckCases
  <2>2. Cardinality(U \ {c}) = 0 /\ Cardinality(U) = 1
    BY <1>5, <1>12, <1>13
  <2>3. Unreported(i)' = {}
    BY <1>4, <1>5, <2>2, FS_EmptySet
  <2>4. \A j \in NodeRunIds \ {i} : TokenSame(j)
    BY <1>7, <2>1 DEF TokenSame
  <2>5. Resumable(i)
    <3>1. fanOut[i].received + Cardinality(U) >= fanOut[i].expected
      BY <1>12, <1>13, <2>2
    <3> QED BY <1>0, <1>13, <3>1 DEF Resumable
  <2>6. \A u \in Tasks : Opens(task[u]) => task[u].nr # i
    <3> SUFFICES ASSUME NEW u \in Tasks, Opens(task[u]), task[u].nr = i PROVE FALSE
      OBVIOUS
    <3>1. task[u].pc = "enqueue" /\ TaskSound(task[u])
      BY <1>10 DEF TokenInv, Opens
    <3>2. /\ task[u].devs # {} /\ task[u].devs \subseteq Devices
          /\ fanOut[i].received + Cardinality(U) + Cardinality(task[u].devs) <= fanOut[i].expected
      BY <1>0, <1>13, <3>1, TaskFacts DEF TaskSound, Chain
    <3>3. Cardinality(task[u].devs) \in Nat /\ Cardinality(task[u].devs) # 0
      BY <3>2, ScenarioGraphAssumption, FS_Subset, FS_CardinalityType, FS_EmptySet
    <3> QED BY <1>12, <1>13, <2>2, <3>2, <3>3
  <2> QED BY <1>1, <1>2, <1>4, <1>6, <1>8, <1>9, <2>1, <2>3, <2>4, <2>5, <2>6, ResumeStep
<1>14. CASE i \in DOMAIN fanOut /\ ~(fanOut[i].received + 1 >= fanOut[i].expected)
  <2>1. /\ UNCHANGED task /\ DOMAIN fanOut' = DOMAIN fanOut
        /\ fanOut'[i].received = fanOut[i].received + 1
        /\ fanOut'[i].expected = fanOut[i].expected
        /\ \A j \in DOMAIN fanOut \ {i} : fanOut'[j] = fanOut[j]
        /\ fanOut[i].received + 1 < fanOut[i].expected
    BY <1>1, <1>2, <1>14, AckCases
  <2>2. /\ fanOut'[i].received + Cardinality(Unreported(i)') = fanOut[i].received + Cardinality(U)
        /\ fanOut'[i].received < fanOut'[i].expected
        /\ fanOut[i].received + Cardinality(U) \in Nat
    BY <1>4, <1>5, <1>12, <1>14, <2>1
  <2>3. \A j \in NodeRunIds \ {i} : TokenSame(j)
    BY <1>7, <2>1 DEF TokenSame
  <2>4. NodeRunSound(i)' /\ (Resumable(i)' <=> Resumable(i))
    <3>1. fanOut'[i].received + Cardinality(Unreported(i)') <= fanOut'[i].expected
      BY <1>12, <1>14, <2>1, <2>2
    <3>2. advanced'[i] = 0
      BY <1>1, <1>6
    <3>3. NodeRunSound(i)'
      BY <1>6, <1>14, <2>1, <2>2, <3>1, <3>2 DEF NodeRunSound
    <3>4. Resumable(i)' <=> Resumable(i)
      BY <1>0, <1>6, <1>14, <2>1, <2>2 DEF Resumable
    <3> QED BY <3>3, <3>4
  <2>5. \A j \in NodeRunIds : NodeRunSound(j)' /\ (Resumable(j)' <=> Resumable(j))
    BY <2>3, <2>4, SameNodeRun DEF TokenInv
  <2>6. ASSUME NEW u \in Tasks PROVE TaskSound(task[u])'
    <3>1. TaskSound(task[u]) /\ task'[u] = task[u]
      BY <2>1 DEF TokenInv
    <3>2. CASE task[u].nr # i
      <4>1. task[u].nr # 0 => task[u].nr \in NodeRunIds
        BY TaskFacts DEF Chain
      <4>2. task[u].nr # 0 => TokenSame(task[u].nr)
        BY <2>3, <3>2, <4>1
      <4> QED BY <1>1, <3>1, <4>2, SameTask
    <3>3. CASE task[u].nr = i
      <4>1. PICK x : x = task[u] /\ task'[u] = x /\ TaskSound(x) /\ x.nr = i
        BY <3>1, <3>3
      <4>2. x.pc \notin {"exec", "stamp"} /\ ~Advancing(x)
        BY <1>10, <4>1
      <4>3. ~(x.pc = "ack" /\ run[x.run].status = "running")
        BY <1>0, <1>4, <4>1 DEF TaskSound
      <4>4. CASE x.pc = "enqueue"
        <5>1. /\ x.devs # {} /\ \A d \in x.devs : <<i, d>> \notin DOMAIN cmds'
              /\ advanced'[i] = 0
          BY <1>1, <1>3, <1>6, <4>1, <4>4 DEF TaskSound
        <5>2. fanOut[i].received + Cardinality(U) + Cardinality(x.devs) <= fanOut[i].expected
          BY <1>0, <1>14, <4>1, <4>4 DEF TaskSound
        <5>3. fanOut'[i].received + Cardinality(Unreported(i)') + Cardinality(x.devs) <= fanOut'[i].expected
          BY <2>1, <2>2, <5>2
        <5> QED BY <1>6, <1>14, <2>1, <4>1, <4>4, <5>1, <5>3 DEF TaskSound, Opens, Advancing
      <4>5. CASE x.pc # "enqueue"
        BY <1>1, <4>1, <4>2, <4>3, <4>5 DEF TaskSound, Opens, Advancing
      <4> QED BY <4>4, <4>5
    <3> QED BY <3>2, <3>3
  <2>7. ASSUME NEW r \in Runs PROVE RunSound(r)'
    <3>1. RunSound(r) /\ UNCHANGED <<Engaged(r), Walking(r), Committed(r), NodeRunsOf(r)>>
      BY <1>1, <2>1 DEF TokenInv, Engaged, Walking, Committed, NodeRunsOf, NodeRunIds
    <3>2. \A j \in NodeRunsOf(r) : Resumable(j)' <=> Resumable(j)
      BY <2>5 DEF NodeRunsOf
    <3> QED BY <1>1, <3>1, <3>2 DEF RunSound
  <2>8. NodeRunIds' = NodeRunIds
    BY <1>1 DEF NodeRunIds
  <2> QED BY <1>8, <2>5, <2>6, <2>7, <2>8 DEF TokenInv, CalmMemory
<1> QED BY <1>11, <1>13, <1>14
\* A timer that fires takes its token along.
LEMMA TimerTokens ==
    ASSUME TypeInv, TypeInv', TokenInv, NEW t \in Tasks, NEW w \in timers, TimerFires(t, w)
    PROVE  TokenInv'
<1>0. PICK i : i = w[1]
  OBVIOUS
<1>1. /\ timers' = timers \ {w} /\ HandleNodeCommandAck(t, i, 0)
      /\ UNCHANGED <<run, nodeRuns, cmds, booting, advanced, notified>>
  BY <1>0 DEF TimerFires, dbVars, histVars
<1>2. i \in NodeRunIds /\ 0 \in Exits /\ timers \subseteq NodeRunIds \X {"run", "boot"}
  BY <1>0 DEF TypeInv, TypeOK, Exits
<1>3. \A v \in timers : v = <<v[1], "run">>
  BY <1>2 DEF TokenInv
<1>4. HasTimer(i) /\ ~HasTimer(i)' /\ \A j \in NodeRunIds \ {i} : HasTimer(j)' <=> HasTimer(j)
  BY <1>0, <1>1, <1>3 DEF HasTimer
<1>5. i \notin DOMAIN fanOut /\ CommandsOf(i) = {}
  BY <1>2, <1>4 DEF TokenInv, NodeRunSound
<1>6. /\ task[t].run = NoRun /\ UNCHANGED fanOut
      /\ task'[t].pc = "ack" /\ task'[t].nr = i /\ task'[t].run = nodeRuns[i].run
      /\ \A u \in Tasks \ {t} : task'[u] = task[u]
  BY <1>1, <1>2, <1>5, AckCases
<1>7. (\A j : CommandsOf(j)' = CommandsOf(j) /\ Unreported(j)' = Unreported(j)) /\ Unreported(i) = {}
  BY <1>1, <1>5 DEF CommandsOf, Unreported
<1>8. \A j \in NodeRunIds \ {i} : TokenSame(j)
  BY <1>1, <1>4, <1>6, <1>7 DEF TokenSame
<1>9. Resumable(i) /\ KeepsRows /\ CalmMemory'
  BY <1>1, <1>4, SameRows DEF Resumable, TokenInv, CalmMemory
<1>10. \A u \in Tasks : Opens(task[u]) => task[u].nr # i
  <2>1. \A u \in Tasks : TaskSound(task[u])
    BY DEF TokenInv
  <2> QED BY <1>4, <2>1 DEF TaskSound
<1> QED BY <1>1, <1>2, <1>4, <1>5, <1>6, <1>7, <1>8, <1>9, <1>10, ResumeStep

\* A step that ends regularly keeps the tokens.
LEMMA TokenStep ==
    ASSUME Regular', TypeInv, TypeInv', TokenInv, [Next]_vars
    PROVE  TokenInv'
<1>1. ASSUME NEW t \in Tasks, TaskStep(t) \/ StatementFails(t) PROVE TokenInv'
  <2>1. \/ PlainStep(t) \/ InsertNodeRun(t) \/ ExecuteAction(t) \/ EnqueueCommand(t)
        \/ ExecuteWait(t) \/ Advance(t) \/ CancelRunRow(t) \/ SelectNodeRuns(t)
        \/ CancelNodeRuns(t) \/ CancelCommands(t) \/ (StatementFails(t) /\ task[t].pc \in CancelSteps)
    BY <1>1 DEF TaskStep, Executor, PlainStep
  <2> QED BY <2>1, PlainTokens, InsertTokens, ActionTokens, EnqueueTokens, WaitTokens, AdvanceTokens,
             CancelTokens
<1>2. ASSUME NEW t \in Tasks, NEW r \in Runs,
             \/ \E n \in Starts, single \in BOOLEAN : StartRun(t, r, n, single)
             \/ BeginCancel(t, r)
      PROVE  TokenInv'
  BY <1>2, StartTokens, CancelTokens
<1>3. ASSUME NEW r \in Runs, RecordDenial(r) PROVE TokenInv'
  <2>1. /\ run' = [run EXCEPT ![r].status = "cancelled"] /\ run \in [Runs -> Row]
        /\ UNCHANGED <<nodeRuns, cmds, fanOut, timers, booting, task, advanced, notified>>
    BY <1>3 DEF RecordDenial, memVars, histVars, TypeInv, TypeOK
  <2>2. \A p \in Runs : run'[p].status \in {run[p].status, "cancelled"}
    BY <2>1 DEF Row
  <2>3. (\A i : TokenSame(i)) /\ CalmMemory' /\ KeepsRows
    BY <2>1, AllSame, CalmFacts, SameRows
  <2> QED BY <2>1, <2>2, <2>3, SideStep
<1>4. ASSUME NEW t \in Tasks, NEW c \in DOMAIN cmds, AgentReports(t, c) \/ CommandExpires(t, c)
      PROVE  TokenInv'
  <2>1. \E e \in Exits : Report(t, c, e)
    BY <1>4 DEF AgentReports, CommandExpires, Exits
  <2> QED BY <2>1, ReportTokens
<1>5. ASSUME NEW c \in DOMAIN cmds, RowMoves(c) PROVE TokenInv'
  <2>1. /\ \E s \in CommandStatus : cmds' = [cmds EXCEPT ![c].status = s]
        /\ UNCHANGED <<run, nodeRuns, fanOut, timers, booting, task, advanced, notified>>
    BY <1>5, RowMoveFacts DEF memVars, histVars
  <2>2. \A e \in DOMAIN cmds : cmds[e] \in [status : CommandStatus, reports : 0 .. MaxReports,
                                            exit : Exits \cup {Null}]
    BY DEF TypeInv, TypeOK
  <2>3. UNCHANGED (DOMAIN cmds) /\ \A e \in DOMAIN cmds : cmds'[e].reports = cmds[e].reports
    BY <2>1, <2>2
  <2>4. (\A i : TokenSame(i)) /\ CalmMemory' /\ KeepsRows
    BY <2>1, <2>3, StatusOnly, CalmFacts, SameRows
  <2> QED BY <2>1, <2>4, SideStep
<1>6. ASSUME NEW t \in Tasks, NEW w \in timers, TimerFires(t, w) PROVE TokenInv'
  BY <1>6, TimerTokens
<1>7. CASE (\E n \in Nodes : CooldownElapses(n)) \/ UNCHANGED vars
  <2>1. UNCHANGED <<run, nodeRuns, cmds, fanOut, timers, booting, task, advanced, notified>>
    BY <1>7 DEF CooldownElapses, memVars, histVars, vars
  <2>2. (\A i : TokenSame(i)) /\ CalmMemory' /\ KeepsRows
    BY <2>1, AllSame, CalmFacts, SameRows
  <2> QED BY <2>1, <2>2, SideStep
<1>8. ~Crash
  <2>1. crashes \in 0 .. MaxCrashes /\ MaxCrashes \in Nat /\ crashes' = 0
    BY ScenarioGraphAssumption DEF TypeInv, TypeOK, Regular
  <2> QED BY <2>1 DEF Crash
<1>9. ~RearmWaitTimersOnBoot
  BY DEF TokenInv, RearmWaitTimersOnBoot
<1> QED BY <1>1, <1>2, <1>3, <1>4, <1>5, <1>6, <1>7, <1>8, <1>9 DEF Next

\* No run, no task and no token at the start.
LEMMA TokenInit == Init => TokenInv
<1> SUFFICES ASSUME Init PROVE TokenInv
  OBVIOUS
<1>1. NodeRunIds = {} /\ booting = FALSE /\ timers = {}
  BY DEF Init, NodeRunIds
<1>2. \A t \in Tasks : task[t] = IdleTask
  BY DEF Init
<1>3. ASSUME NEW t \in Tasks PROVE TaskSound(task[t])
  BY <1>2, IdleFacts DEF TaskSound, Opens, Advancing
<1>4. ASSUME NEW r \in Runs PROVE RunSound(r)
  <2>1. r # NoRun /\ run[r].status = "none" /\ notified[r] = 0
    BY ScenarioGraphAssumption DEF Init, NewRun
  <2>2. Engaged(r) = {} /\ Walking(r) = {} /\ Committed(r) = {} /\ NodeRunsOf(r) = {}
    BY <1>1, <1>2, <2>1, IdleFacts DEF Engaged, Walking, Committed, NodeRunsOf
  <2> QED BY <2>1, <2>2 DEF RunSound
<1> QED BY <1>1, <1>3, <1>4 DEF TokenInv

\* Reports and restarts are counted for ever.
LEMMA RegularBefore ==
    ASSUME TypeInv, TypeInv', [Next]_vars, Regular'
    PROVE  Regular
<1> DEFINE Kept == /\ DOMAIN cmds \subseteq DOMAIN cmds'
                   /\ \A c \in DOMAIN cmds : cmds'[c].reports >= cmds[c].reports
<1>0. /\ \A c \in DOMAIN cmds : cmds[c] \in [status : CommandStatus, reports : 0 .. MaxReports,
                                            exit : Exits \cup {Null}]
      /\ crashes \in 0 .. MaxCrashes
  BY DEF TypeInv, TypeOK
<1>1. crashes' = crashes
  <2>1. ~Crash
    <3>1. crashes' = 0 /\ MaxCrashes \in Nat
      BY ScenarioGraphAssumption DEF Regular
    <3> QED BY <1>0, <3>1 DEF Crash
  <2> QED BY <2>1 DEF Next, TaskStep, Executor, EnterNode, RecordVisit, InsertNodeRun, ExecuteAction,
             EnqueueCommand, ExecuteSync, ExecuteBranch, ExecuteWait, ExecuteCooldown, StampCooldown,
             ExecuteEnd, CompleteNode, MirrorExit, Advance, MarkRun, CheckRun, CancelRunRow,
             SelectNodeRuns, CancelNodeRuns, CancelCommands, StatementFails, StartRun, BeginCancel,
             RecordDenial, AgentReports, CommandExpires, Report, RowMoves, SendCommand, CancelCommand,
             AckRunning, AckLost, Becomes, TimerFires, CooldownElapses, RearmWaitTimersOnBoot, vars
<1>2. Kept
  <2>1. ASSUME UNCHANGED cmds PROVE Kept
    BY <1>0, <2>1
  <2>2. ASSUME NEW t \in Tasks, EnqueueCommand(t) PROVE Kept
    <3>1. PICK d : cmds' = [i \in DOMAIN cmds \cup {<<task[t].nr, d>>} |->
                              IF i \in DOMAIN cmds THEN cmds[i]
                              ELSE [status |-> "pending", reports |-> 0, exit |-> Null]]
      BY <2>2 DEF EnqueueCommand
    <3> QED BY <1>0, <3>1
  <2>3. ASSUME NEW t \in Tasks, CancelCommands(t) PROVE Kept
    <3>1. cmds' = [c \in DOMAIN cmds |-> IF c[1] \in task[t].nrs /\ cmds[c].status = "pending"
                                         THEN [cmds[c] EXCEPT !.status = "cancelled"] ELSE cmds[c]]
      BY <2>3 DEF CancelCommands
    <3>2. \A c \in DOMAIN cmds : cmds'[c].reports = cmds[c].reports
      BY <1>0, <3>1
    <3> QED BY <1>0, <3>1, <3>2
  <2>4. ASSUME NEW t \in Tasks, NEW c \in DOMAIN cmds, NEW e, Report(t, c, e) PROVE Kept
    <3>1. cmds' = [cmds EXCEPT ![c] = [status |-> "over", reports |-> cmds[c].reports + 1, exit |-> e]]
      BY <2>4 DEF Report
    <3> QED BY <1>0, <3>1
  <2>5. ASSUME NEW c \in DOMAIN cmds, RowMoves(c) PROVE Kept
    <3>1. PICK s : cmds' = [cmds EXCEPT ![c].status = s]
      BY <2>5, RowMoveFacts
    <3> QED BY <1>0, <3>1
  <2>6. \/ UNCHANGED cmds
        \/ \E t \in Tasks : EnqueueCommand(t) \/ CancelCommands(t)
        \/ \E t \in Tasks, c \in DOMAIN cmds : AgentReports(t, c) \/ CommandExpires(t, c)
        \/ \E c \in DOMAIN cmds : RowMoves(c)
    BY DEF Next, TaskStep, Executor, EnterNode, RecordVisit, InsertNodeRun, ExecuteAction,
           ExecuteSync, ExecuteBranch, ExecuteWait, ExecuteCooldown, StampCooldown,
           ExecuteEnd, CompleteNode, MirrorExit, Advance, MarkRun, CheckRun, CancelRunRow,
           SelectNodeRuns, CancelNodeRuns, StatementFails, StartRun, BeginCancel, Crash,
           RecordDenial, TimerFires, CooldownElapses, RearmWaitTimersOnBoot, vars, dbVars
  <2>7. \A t \in Tasks, c \in DOMAIN cmds :
            AgentReports(t, c) \/ CommandExpires(t, c) => \E e : Report(t, c, e)
    BY DEF AgentReports, CommandExpires
  <2> HIDE DEF Kept
  <2> QED BY <2>1, <2>2, <2>3, <2>4, <2>5, <2>6, <2>7
<1>3. ASSUME NEW c \in DOMAIN cmds PROVE cmds[c].reports <= 1
  <2>1. cmds'[c].reports <= 1 /\ cmds'[c].reports >= cmds[c].reports
    BY <1>2, <1>3 DEF Regular
  <2>2. cmds[c].reports \in 0 .. MaxReports /\ MaxReports \in Nat /\ cmds'[c].reports \in 0 .. MaxReports
    <3>1. c \in DOMAIN cmds' /\ \A d \in DOMAIN cmds' : cmds'[d] \in
              [status : CommandStatus, reports : 0 .. MaxReports, exit : Exits \cup {Null}]
      BY <1>2, <1>3 DEF TypeInv, TypeOK
    <3> QED BY <1>0, <1>3, <3>1, ScenarioGraphAssumption
  <2> QED BY <2>1, <2>2
<1> QED BY <1>1, <1>3 DEF Regular

\* The inductive invariant of the walk: the tokens are sound as long as it is regular.
LEMMA Tokens == Spec => [](TypeInv /\ (Regular => TokenInv))
<1>1. TypeInv /\ (Regular => TokenInv) /\ [Next]_vars => (TypeInv /\ (Regular => TokenInv))'
  BY TypeStep, TokenStep, RegularBefore
<1> QED BY <1>1, TypeInit, TokenInit, PTL DEF Spec

\* A set whose elements are all equal.
LEMMA SmallSet ==
    ASSUME NEW S, \A d, e \in S : d = e
    PROVE  /\ IsFiniteSet(S) /\ Cardinality(S) \in 0 .. 1
           /\ S = {} => Cardinality(S) = 0
<1>1. CASE S = {}
  BY <1>1, FS_EmptySet
<1>2. CASE S # {}
  <2>1. PICK d : S = {d}
    BY <1>2
  <2> QED BY <1>2, <2>1, FS_Singleton
<1> QED BY <1>1, <1>2

\* While a run is running it is walked by one task or waits at one node run, never both:
\* for any graph, any devices and any failing statements, until a command reports a second
\* time or the server is restarted, which may break it.
THEOREM OneToken == Spec => []OneTokenPerRun
<1>1. TypeInv /\ (Regular => TokenInv) => OneTokenPerRun
  <2> SUFFICES ASSUME TypeInv, TokenInv, NEW r \in Runs, run[r].status = "running"
               PROVE  Cardinality(Walking(r)) + Cardinality(Parked(r)) <= 1
    BY DEF OneTokenPerRun
  <2>1. RunSound(r)
    BY DEF TokenInv
  <2>2. ASSUME NEW i \in Parked(r) PROVE i \in NodeRunsOf(r) /\ Resumable(i)
    <3> DEFINE left == {c \in CommandsOf(i) : Outstanding(c)}
    <3>1. /\ i \in NodeRunsOf(r)
          /\ \/ \E w \in timers : w[1] = i
             \/ i \notin DOMAIN fanOut /\ left # {}
             \/ i \in DOMAIN fanOut /\ fanOut[i].received + Cardinality(left) >= fanOut[i].expected
      BY <2>2 DEF Parked
    <3>2. left \subseteq Unreported(i)
      BY DEF Unreported, Outstanding
    <3>3. IsFiniteSet(Unreported(i)) /\ Cardinality(Unreported(i)) \in Nat
      BY CommandsIn, FewCommands
    <3> HIDE DEF left
    <3>4. Cardinality(left) <= Cardinality(Unreported(i)) /\ Cardinality(left) \in Nat
      BY <3>2, <3>3, FS_Subset, FS_CardinalityType
    <3>5. i \in DOMAIN fanOut => fanOut[i].received \in Nat /\ fanOut[i].expected \in Nat
      BY DEF TypeInv, TypeOK
    <3>6. Resumable(i)
      BY <3>1, <3>2, <3>3, <3>4, <3>5 DEF Resumable, HasTimer
    <3> QED BY <3>1, <3>6
  <2>3. \A i, j \in Parked(r) : i = j
    BY <2>1, <2>2 DEF RunSound
  <2>4. \A t, u \in Walking(r) : t = u
    BY <2>1 DEF RunSound
  <2>5. Walking(r) = {} \/ Parked(r) = {}
    BY <2>1, <2>2 DEF RunSound
  <2>6. /\ Cardinality(Walking(r)) \in 0 .. 1 /\ (Walking(r) = {} => Cardinality(Walking(r)) = 0)
        /\ Cardinality(Parked(r)) \in 0 .. 1 /\ (Parked(r) = {} => Cardinality(Parked(r)) = 0)
    BY <2>3, <2>4, SmallSet
  <2> QED BY <2>5, <2>6
<1> QED BY <1>1, Tokens, PTL

\* The graph goes on from a node only when every command it dispatched has reported, also
\* when an enqueue fails half way through a fan-out: until a second report or a restart.
THEOREM FanOutIsComplete == Spec => []FanOutWaitsForAll
<1>1. TypeInv /\ (Regular => TokenInv) => FanOutWaitsForAll
  <2> SUFFICES ASSUME TypeInv, TokenInv, NEW i \in NodeRunIds, advanced[i] > 0, NEW c \in CommandsOf(i)
               PROVE  cmds[c].reports > 0
    BY DEF FanOutWaitsForAll
  <2>1. c \notin Unreported(i)
    BY DEF TokenInv, NodeRunSound
  <2>2. cmds[c].reports \in Nat
    BY ScenarioGraphAssumption DEF TypeInv, TypeOK, CommandsOf
  <2> QED BY <2>1, <2>2 DEF Unreported
<1> QED BY <1>1, Tokens, PTL

\* A run ends once: its channels get one message at most, whatever fails on the way and
\* also when it is cancelled meanwhile, until a second report or a restart.
THEOREM EndsOnce == Spec => []NotifiedOnce
<1>1. TypeInv /\ (Regular => TokenInv) => NotifiedOnce
  BY DEF TokenInv, RunSound, NotifiedOnce
<1> QED BY <1>1, Tokens, PTL

=============================================================================
