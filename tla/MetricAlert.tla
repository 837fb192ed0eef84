------------------------------ MODULE MetricAlert ------------------------------
(***************************************************************************)
(* The metric levels of one device: what a push reports, which breaches    *)
(* may alert, and what is sent about them.  Administrators switch the      *)
(* alerts of a metric off and on; a background job then lowers the stored  *)
(* level silently, so that no "back to normal" is sent for a metric that   *)
(* was only muted.  Pushes, the job and the saves interleave at their      *)
(* awaits, and the thresholds are cached.                                  *)
(*                                                                         *)
(* The values of the thresholds do not change: a reading gives the level   *)
(* of each metric.  The metric incident of the bell is one value, which    *)
(* LiveAlert justifies; the users who delete its row are modelled there.   *)
(***************************************************************************)
EXTENDS Naturals, FiniteSets

CONSTANTS
    Metrics,    \* cpu, ram and the mounts of the device
    Switches,   \* the `notify` slots: one per metric kind, one per mount
    Gates,      \* [Metrics -> SUBSET Switches]: the switches that must all be on
    Readings,   \* the readings [Metrics -> Levels] that a push may carry
    Pushes,     \* pushes that may be in flight together
    MaxSaves,   \* bound: saves of switches over the whole behaviour
    MaxFaults   \* bound: crashes and failed steps over the whole behaviour

Levels == {"ok", "warning", "critical"}

Bad == {"warning", "critical"}

ASSUME MetricAlertAssumption ==
    /\ Gates \in [Metrics -> SUBSET Switches]
    /\ Readings \subseteq [Metrics -> Levels]
    /\ MaxSaves \in Nat
    /\ MaxFaults \in Nat

\* A column that may be NULL, or no level at all.
MaybeLevel == Levels \cup {"null"}

\* A layer of the cascade: what it says of each switch.
Layer == [Switches -> {"unset", "on", "off"}]

\* The layers above the groups are cached, the device's own group and override
\* are read with each push.
Layers == {"shared", "own"}

EmptyLayer == [s \in Switches |-> "unset"]

\* What a push or the job knows of the row; a set of at most one reading.
Row == [latest : SUBSET Readings, level : MaybeLevel, alert : MaybeLevel, enabled : BOOLEAN]

NoRow == [latest |-> {}, level |-> "null", alert |-> "null", enabled |-> TRUE]

\* What a push decides: the columns it writes ("null" = not written), whether the
\* incident ends silently, what is sent, and the trigger.
Plan == [level : MaybeLevel, alert : MaybeLevel, silent : BOOLEAN,
         notify : {"none", "alert", "recovery"}, severity : Levels, trigger : BOOLEAN]

NoPlan == [level |-> "null", alert |-> "null", silent |-> FALSE, notify |-> "none",
           severity |-> "ok", trigger |-> FALSE]

Push == [pc : {"idle", "touch", "resolve", "load", "store", "silent", "levels", "notify", "bell", "trigger"},
         v : SUBSET Readings, prev : Row, own : Layer, shared : Layer, plan : Plan]

IdlePush == [pc |-> "idle", v |-> {}, prev |-> NoRow, own |-> EmptyLayer, shared |-> EmptyLayer, plan |-> NoPlan]

\* The job: prev and next are the level it read and the one it would store.
Job == [pc : {"idle", "rows", "resolve", "load", "store", "lower", "bell"},
        row : Row, own : Layer, shared : Layer, prev : MaybeLevel, next : MaybeLevel]

IdleJob == [pc |-> "idle", row |-> NoRow, own |-> EmptyLayer, shared |-> EmptyLayer,
            prev |-> "null", next |-> "null"]

VARIABLES
    row,      \* the columns of the device that the metrics use
    saved,    \* [Layers -> Layer]: the switches in the database
    cache,    \* globalCache and tenantCache: a set of at most one layer
    saving,   \* the layer whose save has been written and not yet followed up
    queued,   \* jobs in the promise chain of the re-baseline
    push,     \* [Pushes -> Push]
    job,      \* Job
    bell,     \* severity of the active row of the metric incident, "ok" = none
    notice,   \* history: the last message sent to the channels
    standing, \* history: the breaches of the last report
    ended,    \* history: a breach has ended that no push has accounted for yet
    lost,     \* history: an alert that the level calls for was never sent
    excused,  \* history: the bell was left to a race or a fault
    saves,    \* history: saves so far
    faults    \* history: faults so far

history == <<notice, standing, ended, lost, excused>>
vars == <<row, saved, cache, saving, queued, push, job, bell, history, saves, faults>>

Init ==
    /\ row = NoRow
    /\ saved = [l \in Layers |-> EmptyLayer]
    /\ cache = {}
    /\ saving = "none"
    /\ queued = 0
    /\ push = [p \in Pushes |-> IdlePush]
    /\ job = IdleJob
    /\ bell = "ok"
    /\ notice = "none"
    /\ standing = {}
    /\ ended = FALSE
    /\ lost = FALSE
    /\ excused = FALSE
    /\ saves = 0
    /\ faults = 0

-----------------------------------------------------------------------------
(* thresholdCascade: pure functions *)

METRIC_SEVERITY == [l \in Levels |-> CASE l = "ok" -> 0 [] l = "warning" -> 1 [] l = "critical" -> 2]

\* resolveSlot, the `notify` slot: the innermost layer that sets it wins.
ResolveSlot(shared, own, s) ==
    IF own[s] # "unset" THEN own[s] ELSE IF shared[s] # "unset" THEN shared[s] ELSE "on"

\* filterNotifiedBreaches, isMountNotified: the metrics that may alert.
Notified(shared, own) == {m \in Metrics : \A s \in Gates[m] : ResolveSlot(shared, own, s) = "on"}

\* computeMetricStatus: the metrics in breach.
Breaches(v) == {m \in Metrics : v[m] \in Bad}

\* worstLevel of the breaches of the metrics ms.
WorstLevel(v, ms) ==
    IF \E m \in ms : v[m] = "critical" THEN "critical"
    ELSE IF \E m \in ms : v[m] = "warning" THEN "warning" ELSE "ok"

\* A NULL alertable level is read as the full level.
Coalesce(a, b) == IF a # "null" THEN a ELSE b

\* Variant: an unknown previous level is not a good one.
BecameBadFromOk(prev, next) == next \in Bad /\ (prev = "ok" \/ (prev = "warning" /\ next = "critical"))

\* levelTransition.becameBad
BecameBad(prev, next) == next \in Bad /\ (prev \in {"null", "ok"} \/ (prev = "warning" /\ next = "critical"))

\* levelTransition.recovered
Recovered(prev, next) == next = "ok" /\ prev \in Bad

\* rebaselineAlertLevel: only lowers, and only when the drop comes from a mute.
RebaselineAlertLevel(prevAlert, alert, full) ==
    IF METRIC_SEVERITY[alert] < METRIC_SEVERITY[prevAlert] /\ full # "ok" THEN alert ELSE "null"

\* Variant: no re-evaluation of the previous metrics.
NoInlineRebaseline(prev, alert, on) == "null"

\* inlineRebaselinePrevAlert: the previous metrics under the current switches.
InlineRebaseline(prev, alert, on) ==
    LET stored == Coalesce(prev.alert, prev.level) IN
    IF stored = "null" \/ prev.latest = {} \/ METRIC_SEVERITY[alert] >= METRIC_SEVERITY[stored] THEN "null"
    ELSE LET v == CHOOSE x \in prev.latest : TRUE IN
         RebaselineAlertLevel(stored, WorstLevel(v, on), WorstLevel(v, Metrics))

\* planMetricTransitions and what handlePush adds to it, for a push that was evaluated.
EvaluatedPlan(prev, v, on) ==
    LET full == WorstLevel(v, Metrics)
        alert == WorstLevel(v, on)
        rebased == InlineRebaseline(prev, alert, on)
        rawPrevAlert == Coalesce(rebased, prev.alert)
        prevAlert == Coalesce(rawPrevAlert, prev.level)
        alerts == BecameBad(prevAlert, alert)
    IN [level |-> IF prev.level # full THEN full ELSE "null",
        alert |-> IF rebased # "null" \/ rawPrevAlert # alert THEN alert ELSE "null",
        silent |-> rebased = "ok",
        notify |-> IF alerts THEN "alert"
                   ELSE IF Recovered(prevAlert, alert) THEN "recovery" ELSE "none",
        severity |-> IF alerts THEN alert ELSE "ok",
        trigger |-> prev.level # full /\ BecameBad(prev.level, full)]

\* The same when no thresholds were resolved: both levels go back to ok silently.
UnevaluatedPlan(prev) ==
    [NoPlan EXCEPT !.level = IF prev.level # "ok" THEN "ok" ELSE "null",
                   !.alert = IF prev.alert # "ok" THEN "ok" ELSE "null",
                   !.silent = Coalesce(prev.alert, prev.level) \in Bad]

Stored == Coalesce(row.alert, row.level)

-----------------------------------------------------------------------------
(* handlePush *)

Become(p, k) == push' = [push EXCEPT ![p] = k]

Goto(p, pc) == Become(p, IF pc = "idle" THEN IdlePush ELSE [push[p] EXCEPT !.pc = pc])

\* The previous state of the row; the reading is what the device reports now.
PushReads(p, v) ==
    /\ push[p].pc = "idle"
    /\ Become(p, [IdlePush EXCEPT !.pc = "touch", !.v = {v}, !.prev = row])
    /\ standing' = Breaches(v)
    /\ ended' = (ended \/ \E m \in standing : v[m] = "ok")
    /\ excused' = (excused \/ job.pc = "bell")
    /\ UNCHANGED <<row, saved, cache, saving, queued, job, bell, notice, lost, saves, faults>>

\* UPDATE latest_metrics.
PushTouches(p) ==
    /\ push[p].pc = "touch"
    /\ row' = [row EXCEPT !.latest = push[p].v]
    /\ Goto(p, "resolve")
    /\ UNCHANGED <<saved, cache, saving, queued, job, bell, history, saves, faults>>

\* What is left to do once the plan is known; the reading and the row that was
\* read are not used any more.
Decided(plan) == [IdlePush EXCEPT !.pc = "silent", !.plan = plan]

Decide(p, shared, own) ==
    LET v == CHOOSE x \in push[p].v : TRUE IN
    Become(p, Decided(EvaluatedPlan(push[p].prev, v, Notified(shared, own))))

\* resolveForDevice: the device's own layers; nothing is evaluated when the
\* all-metrics switch that was read is off.
PushResolves(p) ==
    /\ push[p].pc = "resolve"
    /\ Become(p, IF push[p].prev.enabled THEN [push[p] EXCEPT !.pc = "load", !.own = saved["own"]]
                 ELSE Decided(UnevaluatedPlan(push[p].prev)))
    /\ UNCHANGED <<row, saved, cache, saving, queued, job, bell, history, saves, faults>>

\* loadGlobal, loadTenant: the cached layer, or the SELECT ...
PushLoads(p) ==
    /\ push[p].pc = "load"
    /\ \/ \E shared \in cache : Decide(p, shared, push[p].own)
       \/ cache = {} /\ Become(p, [push[p] EXCEPT !.pc = "store", !.shared = saved["shared"]])
    /\ UNCHANGED <<row, saved, cache, saving, queued, job, bell, history, saves, faults>>

\* ... and its answer, which is cached even if the layer was saved meanwhile.
PushStores(p) ==
    /\ push[p].pc = "store"
    /\ cache' = {push[p].shared}
    /\ Decide(p, push[p].shared, push[p].own)
    /\ UNCHANGED <<row, saved, saving, queued, job, bell, history, saves, faults>>

\* resolveMutedMetricAlerts, when the incident ends without a message.
PushEndsSilently(p) ==
    /\ push[p].pc = "silent"
    /\ bell' = IF push[p].plan.silent THEN "ok" ELSE bell
    /\ Goto(p, "levels")
    /\ UNCHANGED <<row, saved, cache, saving, queued, job, history, saves, faults>>

AfterBell(plan) == IF plan.trigger THEN "trigger" ELSE "idle"

\* UPDATE of the two levels, by id.
PushWritesLevels(p) ==
    LET plan == push[p].plan IN
    /\ push[p].pc = "levels"
    /\ row' = [row EXCEPT !.level = Coalesce(plan.level, @), !.alert = Coalesce(plan.alert, @)]
    /\ Goto(p, IF plan.notify # "none" THEN "notify" ELSE AfterBell(plan))
    /\ ended' = (ended /\ plan.notify # "none")
    /\ UNCHANGED <<saved, cache, saving, queued, job, bell, notice, standing, lost, excused,
                   saves, faults>>

\* sendForAgent: the channels.
PushNotifies(p) ==
    LET plan == push[p].plan IN
    /\ push[p].pc = "notify"
    /\ notice' = plan.notify
    /\ ended' = FALSE
    /\ lost' = FALSE
    /\ Goto(p, "bell")
    /\ UNCHANGED <<row, saved, cache, saving, queued, job, bell, standing, excused, saves, faults>>

\* Variant: the row takes the kind of the message for its severity.
PushRingsKind(p) ==
    LET plan == push[p].plan IN
    /\ push[p].pc = "bell"
    /\ bell' = IF plan.notify = "recovery" THEN "ok" ELSE plan.notify
    /\ Goto(p, AfterBell(plan))
    /\ UNCHANGED <<row, saved, cache, saving, queued, job, history, saves, faults>>

\* The bell: resolveIncidents, or add, which replaces a row of another severity.
PushRings(p) ==
    LET plan == push[p].plan IN
    /\ push[p].pc = "bell"
    /\ bell' = IF plan.notify = "recovery" THEN "ok" ELSE plan.severity
    /\ Goto(p, AfterBell(plan))
    /\ UNCHANGED <<row, saved, cache, saving, queued, job, history, saves, faults>>

\* fireTrigger, a run of ScenarioGraph.
PushTriggers(p) ==
    /\ push[p].pc = "trigger"
    /\ Goto(p, "idle")
    /\ UNCHANGED <<row, saved, cache, saving, queued, job, bell, history, saves, faults>>

PushStep(p) ==
    \/ PushTouches(p) \/ PushResolves(p) \/ PushLoads(p) \/ PushStores(p) \/ PushEndsSilently(p)
    \/ PushWritesLevels(p) \/ PushNotifies(p) \/ PushRings(p) \/ PushTriggers(p)

-----------------------------------------------------------------------------
(* The switches *)

\* A layer is saved with one switch changed ...
SaveSwitch(l, s, x) ==
    /\ saving = "none" /\ saves < MaxSaves
    /\ saved[l][s] # x
    /\ saved' = [saved EXCEPT ![l][s] = x]
    /\ saving' = l
    /\ saves' = saves + 1
    /\ UNCHANGED <<row, cache, queued, push, job, bell, history, faults>>

\* ... then its cache is dropped and a re-baseline scheduled.
AfterSave ==
    /\ saving # "none"
    /\ cache' = IF saving = "shared" THEN {} ELSE cache
    /\ queued' = queued + 1
    /\ saving' = "none"
    /\ UNCHANGED <<row, saved, push, job, bell, history, saves, faults>>

\* The all-metrics switch of the device: no re-baseline, the next push resets the levels.
SetMetricAlertsEnabled ==
    /\ saves < MaxSaves
    /\ saves' = saves + 1
    /\ row' = [row EXCEPT !.enabled = ~@]
    /\ UNCHANGED <<saved, cache, saving, queued, push, job, bell, history, faults>>

\* CACHE_TTL_MS is over.
CacheExpires ==
    /\ cache # {}
    /\ cache' = {}
    /\ UNCHANGED <<row, saved, saving, queued, push, job, bell, history, saves, faults>>

-----------------------------------------------------------------------------
(* metricAlertRebaseline: one job at a time *)

JobGoto(pc) == job' = [job EXCEPT !.pc = pc]

JobEnds == job' = IdleJob

\* candidateIds
JobStarts ==
    /\ job.pc = "idle" /\ queued > 0
    /\ queued' = queued - 1
    /\ IF row.latest # {} /\ Stored \in Bad THEN JobGoto("rows") ELSE JobEnds
    /\ UNCHANGED <<row, saved, cache, saving, push, bell, history, saves, faults>>

\* processChunk, the rows.
JobReadsRows ==
    /\ job.pc = "rows"
    /\ job' = [job EXCEPT !.pc = "resolve", !.row = row]
    /\ UNCHANGED <<row, saved, cache, saving, queued, push, bell, history, saves, faults>>

\* The level the job would store for row k, "null" = none.
JobLevel(k, shared, own) ==
    LET prev == Coalesce(k.alert, k.level)
        v == CHOOSE x \in k.latest : TRUE IN
    IF ~k.enabled \/ prev = "null" \/ k.latest = {} THEN "null"
    ELSE RebaselineAlertLevel(prev, WorstLevel(v, Notified(shared, own)), WorstLevel(v, Metrics))

JobDecides(shared, own) ==
    LET next == JobLevel(job.row, shared, own) IN
    job' = IF next = "null" THEN IdleJob
           ELSE [IdleJob EXCEPT !.pc = "lower", !.next = next, !.prev = Coalesce(job.row.alert, job.row.level)]

\* resolveMany: the same two sources.
JobResolves ==
    /\ job.pc = "resolve"
    /\ job' = [job EXCEPT !.pc = "load", !.own = saved["own"]]
    /\ UNCHANGED <<row, saved, cache, saving, queued, push, bell, history, saves, faults>>

JobLoads ==
    /\ job.pc = "load"
    /\ \/ \E shared \in cache : JobDecides(shared, job.own)
       \/ cache = {} /\ job' = [job EXCEPT !.pc = "store", !.shared = saved["shared"]]
    /\ UNCHANGED <<row, saved, cache, saving, queued, push, bell, history, saves, faults>>

JobStores ==
    /\ job.pc = "store"
    /\ cache' = {job.shared}
    /\ JobDecides(job.shared, job.own)
    /\ UNCHANGED <<row, saved, saving, queued, push, bell, history, saves, faults>>

\* The conditional UPDATE: not if a push has stored another level meanwhile.
JobLowers ==
    LET lowers == Stored = job.prev IN
    /\ job.pc = "lower"
    /\ row' = IF lowers THEN [row EXCEPT !.alert = job.next] ELSE row
    /\ job' = IF lowers /\ job.next = "ok" THEN [IdleJob EXCEPT !.pc = "bell"] ELSE IdleJob
    /\ excused' = (excused \/ (lowers /\ \E p \in Pushes : push[p].pc # "idle"))
    /\ UNCHANGED <<saved, cache, saving, queued, push, bell, notice, standing, ended, lost, saves, faults>>

\* Variant: the alerts stay in the bell.
JobLeavesBell ==
    /\ job.pc = "bell"
    /\ JobEnds
    /\ UNCHANGED <<row, saved, cache, saving, queued, push, bell, history, saves, faults>>

\* resolveMutedMetricAlerts
JobResolvesBell ==
    /\ job.pc = "bell"
    /\ bell' = "ok"
    /\ JobEnds
    /\ UNCHANGED <<row, saved, cache, saving, queued, push, history, saves, faults>>

JobStep ==
    \/ JobStarts \/ JobReadsRows \/ JobResolves \/ JobLoads \/ JobStores \/ JobLowers \/ JobResolvesBell

-----------------------------------------------------------------------------
(* Faults *)

SpendFault == faults < MaxFaults /\ faults' = faults + 1

\* The evaluation throws: the push goes on without thresholds.
EvaluationFails(p) ==
    /\ SpendFault
    /\ push[p].pc \in {"resolve", "load"} /\ push[p].prev.enabled
    /\ Become(p, Decided(UnevaluatedPlan(push[p].prev)))
    /\ UNCHANGED <<row, saved, cache, saving, queued, job, bell, history, saves>>

\* The message fails, or every channel does: the catch goes on to the bell, and
\* nothing sends the message again.
MessageFails(p) ==
    /\ SpendFault
    /\ push[p].pc = "notify"
    /\ lost' = (lost \/ push[p].plan.notify = "alert")
    /\ ended' = FALSE
    /\ Goto(p, "bell")
    /\ UNCHANGED <<row, saved, cache, saving, queued, job, bell, notice, standing, excused, saves>>

\* A statement outside any catch throws: the push is over.
PushFails(p) ==
    /\ SpendFault
    /\ push[p].pc \in {"touch", "resolve", "silent", "levels", "notify"}
    /\ Goto(p, "idle")
    /\ lost' = (lost \/ (push[p].pc = "notify" /\ push[p].plan.notify = "alert"))
    /\ excused' = (excused \/ push[p].pc \in {"levels", "notify"})
    /\ UNCHANGED <<row, saved, cache, saving, queued, job, bell, notice, standing, ended, saves>>

\* A write of the bell fails and is caught.
BellFails(p) ==
    /\ SpendFault
    /\ push[p].pc = "bell" \/ (push[p].pc = "silent" /\ push[p].plan.silent)
    /\ Goto(p, IF push[p].pc = "silent" THEN "levels" ELSE AfterBell(push[p].plan))
    /\ excused' = TRUE
    /\ UNCHANGED <<row, saved, cache, saving, queued, job, bell, notice, standing, ended, lost, saves>>

\* A job throws: it is logged and the next one runs.
JobFails ==
    /\ SpendFault
    /\ job.pc # "idle"
    /\ JobEnds
    /\ excused' = (excused \/ job.pc = "bell")
    /\ UNCHANGED <<row, saved, cache, saving, queued, push, bell, notice, standing, ended, lost, saves>>

\* The process dies: pushes, jobs, caches and the follow-up of a save are gone.
ServerCrash ==
    /\ SpendFault
    /\ push' = [p \in Pushes |-> IdlePush]
    /\ job' = IdleJob
    /\ queued' = 0
    /\ cache' = {}
    /\ saving' = "none"
    /\ lost' = (lost \/ \E p \in Pushes : push[p].pc = "notify" /\ push[p].plan.notify = "alert")
    /\ excused' = (excused \/ job.pc = "bell" \/ \E p \in Pushes : push[p].pc \in {"levels", "notify", "bell"})
    /\ UNCHANGED <<row, saved, bell, notice, standing, ended, saves>>

-----------------------------------------------------------------------------

Next ==
    \/ \E p \in Pushes :
          \/ PushStep(p) \/ EvaluationFails(p) \/ MessageFails(p) \/ PushFails(p) \/ BellFails(p)
          \/ \E v \in Readings : PushReads(p, v)
    \/ \E l \in Layers, s \in Switches, x \in {"unset", "on", "off"} : SaveSwitch(l, s, x)
    \/ AfterSave \/ SetMetricAlertsEnabled \/ CacheExpires
    \/ JobStep \/ JobFails \/ ServerCrash

Spec == Init /\ [][Next]_vars

-----------------------------------------------------------------------------
(* Properties *)

\* Every column, plan and step in flight holds a value of its type.
TypeOK ==
    /\ row \in Row
    /\ saved \in [Layers -> Layer]
    /\ cache \subseteq Layer
    /\ saving \in Layers \cup {"none"}
    /\ queued \in Nat
    /\ push \in [Pushes -> Push]
    /\ job \in Job
    /\ bell \in Levels
    /\ notice \in {"none", "alert", "recovery"}
    /\ standing \subseteq Metrics
    /\ ended \in BOOLEAN
    /\ lost \in BOOLEAN
    /\ excused \in BOOLEAN
    /\ saves \in Nat
    /\ faults \in Nat

\* "the push cannot send a false 'back to normal'": a recovery is sent only when a
\* breach has ended since the last push that stored its levels, whatever was muted,
\* un-muted, cached or lost in between.
NoFalseRecovery ==
    [][\A p \in Pushes : PushNotifies(p) /\ notice' = "recovery" => ended]_vars

Quiet == \A p \in Pushes : push[p].pc = "idle"

\* A message that nothing loses is sent: while the stored alertable level is bad, the
\* last message about the device is an alert (so un-muting a breaching metric alerts),
\* unless the one alert for it was lost between the write of the level and the
\* channels: the process died, a statement threw, or the channels failed. The level
\* is stored all the same, so no later push repeats it.
LevelWasAnnounced == Quiet /\ Stored \in Bad => notice = "alert" \/ lost

\* The incident ends with the stored level, "otherwise its row would outlive it and
\* swallow the next real ok -> warning alert", and does not end before it.
BellMatchesLevel ==
    Quiet /\ job.pc # "bell" /\ ~excused =>
        /\ Stored \in {"ok", "null"} => bell = "ok"
        /\ Stored \in Bad => METRIC_SEVERITY[bell] >= METRIC_SEVERITY[Stored]

=============================================================================
