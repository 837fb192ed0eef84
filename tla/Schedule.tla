------------------------------- MODULE Schedule -------------------------------
(***************************************************************************)
(* What starts work by the clock: script schedules (repeated or once) and  *)
(* the cron triggers of scenarios, with the executions they create, the    *)
(* sweep that times executions out, overlapping ticks and crashes.         *)
(*                                                                         *)
(* An action is the code from one await to the next.  Time is counted in   *)
(* slots: latest[s] is the last moment of the expression of s that has     *)
(* come, so "due" is next <= latest, and the first moment strictly after   *)
(* the `now` of a tick is one more than what `latest` was at its SELECT.   *)
(* What becomes of an enqueued command is the subject of CommandQueue:     *)
(* here its final ack may come at any time or never.                       *)
(***************************************************************************)
EXTENDS Naturals, FiniteSets

CONSTANTS
    Scheds,       \* script_schedules rows and trigger_schedule_cron nodes
    Devices,      \* devices they may target
    Ticks,        \* runs of tick() that may be in flight
    MaxSlots,     \* bound: moments of an expression that come
    MaxOverlaps,  \* bound: ticks that start while another one runs
    MaxFaults     \* bound: crashes and database errors

\* SQL NULL; slots count from 1.
Null == 0

ASSUME ScheduleAssumption ==
    /\ Scheds # {} /\ Devices # {}
    /\ IsFiniteSet(Ticks)
    /\ MaxSlots \in Nat /\ MaxOverlaps \in Nat /\ MaxFaults \in Nat

\* A script schedule with a cron expression, one with fire_once_at, and a
\* trigger node of a scenario.
Kinds == {"script", "once", "cron"}

\* A script_executions row that is 'pending' (no code writes 'sent' or 'running').
\* How an execution ended is not told apart, so ended ones are left out.
Execution == [id : Nat, sched : Scheds, dev : Devices, queued : BOOLEAN, old : BOOLEAN]

\* The schedule service and the scenario cron tick apart from each other.
Services == {"schedule", "scenarioGraphCron"}

\* given is history: the devices that got the slot in hand from this tick.
Tick == [pc : {"idle", "pick", "flight", "fire", "enqueue", "disable"},
         svc : Services, at : [Scheds -> Nat], snap : [Scheds -> Nat], list : SUBSET Scheds,
         cur : Scheds, todo : SUBSET Devices, given : SUBSET Devices,
         dev : Devices, exec : Nat]

VARIABLES
    kind,       \* which of the three each one is
    latest,     \* [Scheds -> Nat]: the last slot that has come
    next,       \* next_run_at, next_cron_run_at
    enabled,    \* script_schedules.enabled, scenarios.status = 'active'
    tick,       \* [Ticks -> Tick]
    execs,      \* the executions in flight
    sweep,      \* ids the running sweep still has to write
    fired,      \* history: how often a slot was dispatched to a device, for a
                \* one-time schedule since it was last enabled
    cut,        \* history: how often a tick was cut short after it dispatched the
                \* slot to the device and before it wrote that the slot is over
    overlaps,   \* history: ticks that started while another one was running
    faults      \* history: crashes and errors

schedVars == <<kind, latest, next, enabled>>
vars == <<kind, latest, next, enabled, tick, execs, sweep, fired, cut, overlaps, faults>>

AnySched == CHOOSE s \in Scheds : TRUE

AnyDevice == CHOOSE d \in Devices : TRUE

Idle == [pc |-> "idle", svc |-> "schedule", at |-> [s \in Scheds |-> 0], snap |-> [s \in Scheds |-> Null],
         list |-> {}, cur |-> AnySched, todo |-> {}, given |-> {}, dev |-> AnyDevice, exec |-> 0]

Init ==
    /\ kind \in [Scheds -> Kinds]
    /\ latest = [s \in Scheds |-> 0]
    /\ next = [s \in Scheds |-> IF kind[s] = "cron" THEN Null ELSE 1]
    /\ enabled = [s \in Scheds |-> TRUE]
    /\ tick = [k \in Ticks |-> Idle]
    /\ execs = {}
    /\ sweep = {}
    /\ fired = [i \in Scheds \X (1..MaxSlots) \X Devices |-> 0]
    /\ cut = fired
    /\ overlaps = 0
    /\ faults = 0

Become(k, t) == tick' = [tick EXCEPT ![k] = t]

\* The schedule in hand is done with: on to the rest of the list.
Onward(k) ==
    LET rest == tick[k].list \ {tick[k].cur}
    IN  Become(k, IF rest = {} THEN Idle
                  ELSE [tick[k] EXCEPT !.pc = "pick", !.list = rest, !.todo = {},
                                            !.given = {}, !.exec = 0])

InFlight(s, d) == {e \in execs : e.sched = s /\ e.dev = d}

-----------------------------------------------------------------------------
(* The clock and the users *)

SlotComes(s) ==
    /\ latest[s] < IF kind[s] = "once" THEN 1 ELSE MaxSlots
    /\ latest' = [latest EXCEPT ![s] = @ + 1]
    /\ UNCHANGED <<kind, next, enabled, tick, execs, sweep, fired, cut, overlaps, faults>>

\* PATCH enabled: next_run_at and fire_once_at stay, so enabling a one-time
\* schedule again asks for its moment once more.
Toggle(s) ==
    /\ enabled' = [enabled EXCEPT ![s] = ~@]
    /\ fired' = IF kind[s] = "once" /\ ~enabled[s]
                THEN [i \in DOMAIN fired |-> IF i[1] = s THEN 0 ELSE fired[i]]
                ELSE fired
    /\ UNCHANGED <<kind, latest, next, tick, execs, sweep, cut, overlaps, faults>>

-----------------------------------------------------------------------------
(* tick *)

\* Variant: the slot must be the one that has just come.
DueNow(s) ==
    /\ enabled[s]
    /\ next[s] = Null \/ next[s] = latest[s]

\* The SELECT: next_run_at or fire_once_at has come; a NULL node is primed.
Due(s) ==
    /\ enabled[s]
    /\ CASE kind[s] = "script" -> next[s] <= latest[s]
         [] kind[s] = "once"   -> latest[s] = 1
         [] kind[s] = "cron"   -> next[s] = Null \/ next[s] <= latest[s]

Service(s) == IF kind[s] = "cron" THEN "scenarioGraphCron" ELSE "schedule"

Running(svc) == {k \in Ticks : tick[k].pc # "idle" /\ tick[k].svc = svc}

\* A tick that finds nothing changes nothing.
StartTick(k, svc) ==
    LET due == {s \in Scheds : Service(s) = svc /\ Due(s)}
    IN  /\ tick[k].pc = "idle"
        /\ due # {}
        /\ IF Running(svc) = {} THEN UNCHANGED overlaps
           ELSE overlaps < MaxOverlaps /\ overlaps' = overlaps + 1
        /\ Become(k, [Idle EXCEPT !.pc = "pick", !.svc = svc, !.at = latest, !.snap = next,
                                  !.list = due])
        /\ UNCHANGED <<schedVars, execs, sweep, fired, cut, faults>>

\* resolveTargetDevices, the privacy gate, the run conditions and a script that is
\* not there: any devices.
Targets(k, s) ==
    /\ tick[k].pc = "pick"
    /\ s \in tick[k].list
    /\ kind[s] = "cron" => tick[k].snap[s] # Null
    /\ \E D \in SUBSET Devices :
          Become(k, [tick[k] EXCEPT !.cur = s, !.todo = D,
                                    !.pc = IF kind[s] = "cron" THEN "fire" ELSE "flight"])
    /\ UNCHANGED <<schedVars, execs, sweep, fired, cut, overlaps, faults>>

\* Variant: the moment before `now`.
PrimeBefore(k, s) ==
    /\ tick[k].pc = "pick"
    /\ s \in tick[k].list
    /\ kind[s] = "cron" /\ tick[k].snap[s] = Null
    /\ next' = [next EXCEPT ![s] = tick[k].at[s] - 1]
    /\ Become(k, Idle)
    /\ UNCHANGED <<kind, latest, enabled, execs, sweep, fired, cut, overlaps, faults>>

\* The first tick of a trigger node: the next moment is set, nothing is started.
Prime(k, s) ==
    /\ tick[k].pc = "pick"
    /\ s \in tick[k].list
    /\ kind[s] = "cron" /\ tick[k].snap[s] = Null
    /\ next' = [next EXCEPT ![s] = tick[k].at[s] + 1]
    /\ LET rest == tick[k].list \ {s}
       IN  Become(k, IF rest = {} THEN Idle ELSE [tick[k] EXCEPT !.list = rest])
    /\ UNCHANGED <<kind, latest, enabled, execs, sweep, fired, cut, overlaps, faults>>

\* Variant: devices with an execution in flight are not left out.
SkipNobody(k) ==
    /\ tick[k].pc = "flight"
    /\ Become(k, [tick[k] EXCEPT !.pc = "fire"])
    /\ UNCHANGED <<schedVars, execs, sweep, fired, cut, overlaps, faults>>

\* skip_if_in_flight, one SELECT for all the devices.
SkipInFlight(k) ==
    /\ tick[k].pc = "flight"
    /\ Become(k, [tick[k] EXCEPT !.pc = "fire",
                                 !.todo = {d \in @ : InFlight(tick[k].cur, d) = {}}])
    /\ UNCHANGED <<schedVars, execs, sweep, fired, cut, overlaps, faults>>

\* The slot a dispatch of tick k is for.
SlotOf(k) == IF kind[tick[k].cur] = "once" THEN 1 ELSE tick[k].snap[tick[k].cur]

\* An id that no row, tick or sweep holds.
FreshId ==
    CHOOSE i \in 1..(Cardinality(execs) + Cardinality(Ticks) + Cardinality(sweep) + 1) :
        i \notin {e.id : e \in execs} \cup {tick[k].exec : k \in Ticks} \cup sweep

\* dispatchExecution: the execution is inserted.
Insert(k, d) ==
    LET e == [id |-> FreshId, sched |-> tick[k].cur, dev |-> d, queued |-> FALSE, old |-> FALSE]
    IN  /\ tick[k].pc = "fire"
        /\ kind[tick[k].cur] # "cron"
        /\ d \in tick[k].todo
        /\ execs' = execs \cup {e}
        /\ Become(k, [tick[k] EXCEPT !.pc = "enqueue", !.dev = d, !.exec = e.id])
        /\ UNCHANGED <<schedVars, sweep, fired, cut, overlaps, faults>>

\* Device d has been given the slot the tick is at.
Fired(k, d) == fired' = [fired EXCEPT ![<<tick[k].cur, SlotOf(k), d>>] = @ + 1]

\* ... then its command is enqueued and linked.
Enqueue(k) ==
    LET d == tick[k].dev
    IN  /\ tick[k].pc = "enqueue"
        /\ execs' = {IF e.id = tick[k].exec THEN [e EXCEPT !.queued = TRUE] ELSE e : e \in execs}
        /\ Fired(k, d)
        /\ Become(k, [tick[k] EXCEPT !.pc = "fire", !.todo = @ \ {d}, !.given = @ \cup {d},
                                     !.dev = AnyDevice, !.exec = 0])
        /\ UNCHANGED <<schedVars, sweep, cut, overlaps, faults>>

\* fireOneNode: a run is started, or the error is logged.
StartRun(k, d) ==
    /\ tick[k].pc = "fire"
    /\ kind[tick[k].cur] = "cron"
    /\ d \in tick[k].todo
    /\ \/ Fired(k, d) /\ Become(k, [tick[k] EXCEPT !.todo = @ \ {d}, !.given = @ \cup {d}])
       \/ UNCHANGED fired /\ Become(k, [tick[k] EXCEPT !.todo = @ \ {d}])
    /\ UNCHANGED <<schedVars, execs, sweep, cut, overlaps, faults>>

\* Tick k has given device i[3] the slot i[2] of i[1], and the row still asks for it.
Gave(k, i) == tick[k].cur = i[1] /\ SlotOf(k) = i[2] /\ i[3] \in tick[k].given

\* The ticks of K are cut short.
CutShort(K) ==
    cut' = [i \in DOMAIN cut |-> cut[i] + IF \E k \in K : Gave(k, i) THEN 1 ELSE 0]

\* A database error: the catch of runSchedule (or of tick for a node) leaves
\* the row as it is.
RunError(k) ==
    /\ tick[k].pc \in {"flight", "fire", "enqueue", "disable"}
    /\ kind[tick[k].cur] = "cron" => tick[k].todo = {}
    /\ faults < MaxFaults
    /\ faults' = faults + 1
    /\ CutShort({k})
    /\ Onward(k)
    /\ UNCHANGED <<schedVars, execs, sweep, fired, overlaps>>

\* Variant: a one-time schedule gets no second write.
SetNextOnly(k) ==
    LET s == tick[k].cur
    IN  /\ tick[k].pc = "fire"
        /\ tick[k].todo = {}
        /\ next' = [next EXCEPT ![s] = IF kind[s] = "once" THEN Null ELSE tick[k].at[s] + 1]
        /\ Onward(k)
        /\ UNCHANGED <<kind, latest, enabled, execs, sweep, fired, cut, overlaps, faults>>

\* The next moment after the `now` of the tick; the second write of a one-time
\* schedule is still to come.
SetNext(k) ==
    LET s == tick[k].cur
    IN  /\ tick[k].pc = "fire"
        /\ tick[k].todo = {}
        /\ next' = [next EXCEPT ![s] = IF kind[s] = "once" THEN Null ELSE tick[k].at[s] + 1]
        /\ IF kind[s] = "once" THEN Become(k, [tick[k] EXCEPT !.pc = "disable"]) ELSE Onward(k)
        /\ UNCHANGED <<kind, latest, enabled, execs, sweep, fired, cut, overlaps, faults>>

DisableOnce(k) ==
    /\ tick[k].pc = "disable"
    /\ enabled' = [enabled EXCEPT ![tick[k].cur] = FALSE]
    /\ Onward(k)
    /\ UNCHANGED <<kind, latest, next, execs, sweep, fired, cut, overlaps, faults>>

-----------------------------------------------------------------------------
(* Executions *)

\* The final ack of the command writes the execution by id.
Ack(e) ==
    /\ e.queued
    /\ execs' = execs \ {e}
    /\ UNCHANGED <<schedVars, tick, sweep, fired, cut, overlaps, faults>>

\* Its timeout and the minute of grace go by.
Ages(e) ==
    /\ ~e.old
    /\ execs' = (execs \ {e}) \cup {[e EXCEPT !.old = TRUE]}
    /\ UNCHANGED <<schedVars, tick, sweep, fired, cut, overlaps, faults>>

\* Variant: only executions whose command was linked.
StaleLinked == {e \in execs : e.old /\ e.queued}

\* sweepStaleExecutions: what its SELECT finds too old.
Stale == {e \in execs : e.old}

StartSweep ==
    /\ sweep = {}
    /\ Stale # {}
    /\ sweep' = {e.id : e \in Stale}
    /\ UNCHANGED <<schedVars, tick, execs, fired, cut, overlaps, faults>>

\* One row, by id, though it may have ended since; its command is taken out of
\* the queue if it is still there.
SweepOne(i) ==
    /\ i \in sweep
    /\ sweep' = sweep \ {i}
    /\ execs' = {e \in execs : e.id # i}
    /\ UNCHANGED <<schedVars, tick, fired, cut, overlaps, faults>>

ServerCrash ==
    /\ faults < MaxFaults
    /\ faults' = faults + 1
    /\ CutShort(Ticks)
    /\ tick' = [k \in Ticks |-> Idle]
    /\ sweep' = {}
    /\ UNCHANGED <<schedVars, execs, fired, overlaps>>

-----------------------------------------------------------------------------

TickStep(k) ==
    \/ \E s \in Scheds : Targets(k, s) \/ Prime(k, s)
    \/ SkipInFlight(k) \/ Enqueue(k) \/ SetNext(k) \/ DisableOnce(k)
    \/ \E d \in Devices : Insert(k, d) \/ StartRun(k, d)

Next ==
    \/ \E s \in Scheds : SlotComes(s) \/ Toggle(s)
    \/ \E k \in Ticks, svc \in Services : StartTick(k, svc)
    \/ \E k \in Ticks : TickStep(k) \/ RunError(k)
    \/ \E e \in execs : Ack(e) \/ Ages(e)
    \/ StartSweep \/ (\E i \in sweep : SweepOne(i)) \/ ServerCrash

\* Every await of a tick or a sweep comes back, both start again every minute,
\* and time passes.  Nothing is assumed of agents and users.
Fairness ==
    /\ \A k \in Ticks : WF_vars(TickStep(k))
    /\ \A svc \in Services : WF_vars(\E k \in Ticks : StartTick(k, svc))
    /\ WF_vars(\E e \in execs : Ages(e))
    /\ WF_vars(StartSweep) /\ WF_vars(\E i \in sweep : SweepOne(i))

Spec == Init /\ [][Next]_vars /\ Fairness

-----------------------------------------------------------------------------
(* Properties *)

\* Every row, tick and execution holds a value of its type.
TypeOK ==
    /\ kind \in [Scheds -> Kinds]
    /\ latest \in [Scheds -> Nat]
    /\ next \in [Scheds -> Nat]
    /\ enabled \in [Scheds -> BOOLEAN]
    /\ tick \in [Ticks -> Tick]
    /\ execs \subseteq Execution
    /\ sweep \subseteq Nat
    /\ overlaps \in Nat
    /\ faults \in Nat

\* A moment of a schedule reaches a device once, and once more for each tick that was
\* cut short (a crash or an error) after it had dispatched that moment to that device
\* and before it wrote the next one, or that overlapped another tick.  Any other fault,
\* whatever the ticks and the users do, fires nothing twice.
RefiredOnlyAfterACut ==
    \A s \in Scheds, n \in 1..MaxSlots, d \in Devices :
        fired[<<s, n, d>>] <= 1 + overlaps + cut[<<s, n, d>>]

\* scenarioGraphCron.service.ts:11-12, "a reboot mid-tick simply skips one cycle, never
\* double-fires": a moment of a trigger node starts at most one run on a device.
NeverDoubleFires ==
    \A s \in Scheds, n \in 1..MaxSlots, d \in Devices :
        kind[s] = "cron" => fired[<<s, n, d>>] <= 1

\* skip_if_in_flight: unless ticks overlap, a device never has two executions of
\* a schedule in flight, whatever happens to ticks, acks, sweeps and the server.
OneInFlight ==
    \A s \in Scheds, d \in Devices : Cardinality(InFlight(s, d)) <= 1 + overlaps

\* Whatever is lost (the ack, the command, the server between the insert and the
\* enqueue), an execution does not block its device for ever.
DeviceIsFreed == \A s \in Scheds, d \in Devices : []<>(InFlight(s, d) = {})

\* A schedule that is due is run, however long ago its moment was and whatever
\* failed before, unless somebody disables it.
DueIsServed ==
    \A s \in Scheds :
        LET overdue == enabled[s] /\ latest[s] >= 1 /\ next[s] <= latest[s]
        IN  overdue ~> ~overdue

=============================================================================
