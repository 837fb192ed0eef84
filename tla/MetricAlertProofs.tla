--------------------------- MODULE MetricAlertProofs ---------------------------
(* What is sent about the metrics of a device and what the bell shows, for any *)
(* metrics, switches and readings, any number of saves and any fault.           *)
EXTENDS MetricAlert, TLAPS

\* The agent waits for the answer to a push before it sends the next one.
OneAtATime == \A p, q \in Pushes : p = q

StoredOf(r) == Coalesce(r.alert, r.level)

Announced == notice = "alert" \/ lost

Reading == {"touch", "resolve", "load", "store"}

Deciding == {"silent", "levels"}

\* Breaches of u, which the last report still had.
Persists(u) == Breaches(u) # {} /\ Breaches(u) \subseteq standing

-----------------------------------------------------------------------------
(* The three invariants, each about a push in flight k *)

\* What a push read of the levels: the job may have lowered them since.
ReadSound(k) ==
    /\ Stored \in Bad => StoredOf(k.prev) \in Bad
    /\ k.prev.alert # "null" => row.alert # "null"
    /\ StoredOf(k.prev) \in Bad => Announced

\* A push that will write a bad level sends an alert, or one was sent before.
PlanAnnounces(k) ==
    /\ k.plan.alert = "null" => row.alert # "null"
    /\ k.plan.notify = "none" /\ k.plan.alert \in Bad => Announced
    /\ k.plan.notify = "recovery" => k.plan.alert = "ok"

AlertIsOnItsWay == \E p \in Pushes : push[p].pc = "notify" /\ push[p].plan.notify = "alert"

AnnouncedInv ==
    /\ Stored \in Bad => Announced \/ AlertIsOnItsWay
    /\ job.pc = "lower" => job.prev \in Bad
    /\ job.pc = "lower" => job.next \in Levels /\ METRIC_SEVERITY[job.next] < METRIC_SEVERITY[job.prev]
    /\ \A p \in Pushes :
          /\ push[p].pc \in Reading => ReadSound(push[p])
          /\ push[p].pc \in Deciding => PlanAnnounces(push[p])
          /\ push[p].pc = "notify" => push[p].plan.notify # "none"
          /\ push[p].pc = "notify" /\ push[p].plan.notify = "recovery" => Stored \notin Bad

\* The level a decided push leaves.
FinalLevel(k) == Coalesce(k.plan.alert, row.alert)

\* The last reading is stored, and it is the last report.
LastReport == \E u \in Readings : row.latest = {u} /\ standing = Breaches(u)

\* A bad level rests on a stored reading with a breach.
BadLevelPersists ==
    Stored \in Bad /\ ~ended => \E u \in Readings : row.latest = {u} /\ Persists(u)

\* A push reports what it read, on top of such a reading; the levels it will leave
\* rest on its own; and it recovers only if a breach has ended.
RecoversSoundly(k) ==
    /\ k.pc \in Reading => \E v \in Readings : k.v = {v} /\ standing = Breaches(v)
    /\ k.pc \in Reading /\ k.pc # "touch" => row.latest = k.v
    /\ k.pc \in Reading /\ StoredOf(k.prev) \in Bad /\ ~ended =>
          \E u \in Readings : k.prev.latest = {u} /\ Persists(u)
    /\ k.pc \in Deciding => LastReport /\ (FinalLevel(k) \in Bad => standing # {})
    /\ k.pc = "notify" => LastReport /\ (Stored \in Bad => standing # {})
    /\ k.pc \in Deciding \cup {"notify"} /\ k.plan.notify = "recovery" => ended

RecoveryInv == BadLevelPersists /\ \A p \in Pushes : RecoversSoundly(push[p])

\* The bell b suits the level l.
Suits(b, l) ==
    /\ l \in {"ok", "null"} => b = "ok"
    /\ l \in Bad => METRIC_SEVERITY[b] >= METRIC_SEVERITY[l]

\* What the bell will show once push k is done.
FinalBell(k) ==
    IF k.plan.notify = "alert" THEN k.plan.severity
    ELSE IF k.plan.notify = "recovery" \/ (k.pc = "silent" /\ k.plan.silent) THEN "ok" ELSE bell

\* The bell suits the stored level while a push has written neither, and suits it
\* again once the push is done.
BellSound(k) ==
    /\ k.pc \in Reading => k.prev.level = row.level /\ k.prev.alert = row.alert
    /\ k.pc \in Reading \cup {"silent", "trigger"} => Suits(bell, Stored)
    /\ k.pc \in Deciding => Suits(FinalBell(k), FinalLevel(k))
    /\ k.pc \in {"notify", "bell"} => Suits(FinalBell(k), Stored) /\ k.plan.notify # "none"

BellCore ==
    /\ job.pc = "bell" => Quiet /\ Stored = "ok"
    /\ Quiet /\ job.pc # "bell" => Suits(bell, Stored)
    /\ \A p \in Pushes : BellSound(push[p])

BellInv == ~excused => BellCore

-----------------------------------------------------------------------------
(* The pure functions *)

\* The order of the levels.
LEMMA Severity ==
    METRIC_SEVERITY["ok"] = 0 /\ METRIC_SEVERITY["warning"] = 1 /\ METRIC_SEVERITY["critical"] = 2
BY DEF METRIC_SEVERITY, Levels

\* A set of one reading.
LEMMA TheReading == \A v : (CHOOSE x \in {v} : TRUE) = v
<1> TAKE v
<1>1. \E x : x \in {v}
  OBVIOUS
<1> QED BY <1>1

\* The worst level of some metrics is a level, and ok exactly without a breach.
LEMMA WorstFacts ==
    ASSUME NEW v \in Readings, NEW ms \in SUBSET Metrics
    PROVE  /\ WorstLevel(v, ms) \in Levels
           /\ WorstLevel(v, ms) = "ok" <=> Breaches(v) \cap ms = {}
<1>1. v \in [Metrics -> Levels]
  BY MetricAlertAssumption
<1> QED BY <1>1 DEF WorstLevel, Levels, Bad, Breaches

\* A level is a level whatever the reading.
LEMMA WorstType == \A v, ms : WorstLevel(v, ms) \in Levels
BY DEF WorstLevel, Levels

\* The re-evaluation of the previous metrics only lowers the stored level, and lowers
\* it to ok when every breach they had is muted now.
LEMMA RebaseFacts ==
    ASSUME NEW prev \in Row, NEW on \in SUBSET Metrics, NEW alert \in Levels
    PROVE  LET re == InlineRebaseline(prev, alert, on) IN
           /\ re \in MaybeLevel
           /\ re # "null" => /\ StoredOf(prev) \in Bad
                             /\ METRIC_SEVERITY[re] < METRIC_SEVERITY[StoredOf(prev)]
                             /\ METRIC_SEVERITY[alert] < METRIC_SEVERITY[StoredOf(prev)]
           /\ \A u \in Readings :
                 (/\ prev.latest = {u}
                  /\ Breaches(u) # {} /\ Breaches(u) \cap on = {}
                  /\ StoredOf(prev) \in Bad /\ alert = "ok")
                 => re = "ok"
<1> DEFINE re == InlineRebaseline(prev, alert, on)
           st == StoredOf(prev)
           v  == CHOOSE x \in prev.latest : TRUE
           a  == WorstLevel(v, on)
           f  == WorstLevel(v, Metrics)
<1>1. st \in MaybeLevel /\ a \in Levels /\ f \in Levels
  BY WorstType DEF StoredOf, Coalesce, Row, MaybeLevel
<1>2. re = IF st = "null" \/ prev.latest = {} \/ METRIC_SEVERITY[alert] >= METRIC_SEVERITY[st]
           THEN "null" ELSE RebaselineAlertLevel(st, a, f)
  BY DEF InlineRebaseline, StoredOf
<1>3. ASSUME NEW u \in Readings, prev.latest = {u}, Breaches(u) # {}, Breaches(u) \cap on = {},
             st \in Bad, alert = "ok"
      PROVE  re = "ok"
  <2>1. v = u
    BY <1>3, TheReading
  <2>2. a = "ok" /\ f # "ok"
    <3>1. Breaches(u) \cap Metrics # {}
      BY <1>3 DEF Breaches
    <3> QED BY <1>3, <2>1, <3>1, WorstFacts
  <2> HIDE DEF a, f, v, re, st
  <2> QED BY <1>2, <1>3, <2>2, Severity DEF RebaselineAlertLevel, Bad
<1> HIDE DEF a, f, v, st, re
<1>4. re \in MaybeLevel
  BY <1>1, <1>2 DEF RebaselineAlertLevel, MaybeLevel
<1>5. re # "null" => /\ st \in Bad
                     /\ METRIC_SEVERITY[re] < METRIC_SEVERITY[st]
                     /\ METRIC_SEVERITY[alert] < METRIC_SEVERITY[st]
  BY <1>1, <1>2, Severity DEF RebaselineAlertLevel, MaybeLevel, Levels, Bad
<1>6. \A u \in Readings :
        (/\ prev.latest = {u}
         /\ Breaches(u) # {} /\ Breaches(u) \cap on = {}
         /\ st \in Bad /\ alert = "ok")
        => re = "ok"
  BY <1>3
<1> QED BY <1>4, <1>5, <1>6 DEF re, st

\* What a push decides about the level it read, stored, and the one it found, alert:
\* the level it leaves, and when it says nothing, an alert or a recovery.
LEMMA PlanFacts ==
    ASSUME NEW prev \in Row, NEW v, NEW on \in SUBSET Metrics
    PROVE  LET plan == EvaluatedPlan(prev, v, on)
               alert == WorstLevel(v, on)
               stored == StoredOf(prev)
           IN  /\ plan \in Plan
               /\ plan.alert \in {"null", alert}
               /\ plan.alert = "null" => prev.alert = alert
               /\ plan.notify = "alert" => alert \in Bad /\ plan.severity = alert
               /\ plan.notify = "recovery" =>
                     /\ alert = "ok" /\ plan.alert = "ok" /\ stored \in Bad
                     /\ InlineRebaseline(prev, alert, on) # "ok"
               /\ plan.notify = "none" /\ alert \in Bad =>
                     stored \in Bad /\ METRIC_SEVERITY[alert] <= METRIC_SEVERITY[stored]
               /\ plan.notify = "none" /\ plan.silent => alert = "ok"
               /\ plan.notify = "none" /\ alert = "ok" /\ ~plan.silent => stored \in {"ok", "null"}
<1> DEFINE full == WorstLevel(v, Metrics)
           alert == WorstLevel(v, on)
           re == InlineRebaseline(prev, alert, on)
           raw == Coalesce(re, prev.alert)
           pa == Coalesce(raw, prev.level)
           st == StoredOf(prev)
           plan == EvaluatedPlan(prev, v, on)
<1>1. full \in Levels /\ alert \in Levels
  BY WorstType
<1>2. /\ re \in MaybeLevel
      /\ re # "null" => /\ st \in Bad
                        /\ METRIC_SEVERITY[re] < METRIC_SEVERITY[st]
                        /\ METRIC_SEVERITY[alert] < METRIC_SEVERITY[st]
  BY <1>1, RebaseFacts
<1>3. plan = [level |-> IF prev.level # full THEN full ELSE "null",
              alert |-> IF re # "null" \/ raw # alert THEN alert ELSE "null",
              silent |-> re = "ok",
              notify |-> IF BecameBad(pa, alert) THEN "alert"
                         ELSE IF Recovered(pa, alert) THEN "recovery" ELSE "none",
              severity |-> IF BecameBad(pa, alert) THEN alert ELSE "ok",
              trigger |-> prev.level # full /\ BecameBad(prev.level, full)]
  BY DEF EvaluatedPlan
<1>4. prev.level \in MaybeLevel /\ prev.alert \in MaybeLevel
  BY DEF Row
<1>5. /\ re # "null" => pa = re /\ raw = re
      /\ re = "null" => pa = st /\ raw = prev.alert
      /\ st \in MaybeLevel
  BY <1>2, <1>4 DEF Coalesce, StoredOf, MaybeLevel
<1>6. re = "null" /\ prev.alert = alert => pa = alert
  BY <1>1 DEF Coalesce, Levels
<1>p. plan \in Plan
  <2> HIDE DEF full, alert, re, raw, pa
  <2>1. (re = "ok") \in BOOLEAN /\ (prev.level # full /\ BecameBad(prev.level, full)) \in BOOLEAN
    BY DEF BecameBad
  <2>2. /\ (IF prev.level # full THEN full ELSE "null") \in MaybeLevel
        /\ (IF re # "null" \/ raw # alert THEN alert ELSE "null") \in MaybeLevel
        /\ (IF BecameBad(pa, alert) THEN alert ELSE "ok") \in Levels
        /\ (IF BecameBad(pa, alert) THEN "alert"
            ELSE IF Recovered(pa, alert) THEN "recovery" ELSE "none") \in {"none", "alert", "recovery"}
    BY <1>1 DEF MaybeLevel, Levels
  <2> QED BY <1>3, <2>1, <2>2 DEF Plan
<1>7. /\ plan.alert = IF re # "null" \/ raw # alert THEN alert ELSE "null"
      /\ plan.silent = (re = "ok")
      /\ plan.notify = IF BecameBad(pa, alert) THEN "alert"
                       ELSE IF Recovered(pa, alert) THEN "recovery" ELSE "none"
      /\ plan.severity = IF BecameBad(pa, alert) THEN alert ELSE "ok"
  BY <1>3
<1> HIDE DEF full, alert, re, raw, pa, st, plan
<1>8. plan.alert \in {"null", alert} /\ (plan.alert = "null" => prev.alert = alert)
  BY <1>1, <1>5, <1>7 DEF Levels
<1>9. plan.notify = "alert" => alert \in Bad /\ plan.severity = alert
  BY <1>7 DEF BecameBad
<1>10. plan.notify = "recovery" => alert = "ok" /\ plan.alert = "ok" /\ st \in Bad /\ re # "ok"
  BY <1>1, <1>2, <1>5, <1>6, <1>7 DEF Recovered, Bad
<1>11. plan.notify = "none" /\ alert \in Bad =>
         st \in Bad /\ METRIC_SEVERITY[alert] <= METRIC_SEVERITY[st]
  BY <1>1, <1>2, <1>5, <1>7, Severity DEF BecameBad, Bad, MaybeLevel, Levels
<1>12. plan.notify = "none" /\ plan.silent => alert = "ok"
  BY <1>1, <1>5, <1>7 DEF BecameBad, Bad, Levels
<1>13. plan.notify = "none" /\ alert = "ok" /\ ~plan.silent => st \in {"ok", "null"}
  BY <1>1, <1>2, <1>5, <1>7 DEF Recovered, Bad, Levels, MaybeLevel
<1> QED BY <1>p, <1>8, <1>9, <1>10, <1>11, <1>12, <1>13 DEF plan, alert, st, re

\* Without thresholds both levels go back to ok, silently.
LEMMA UnevaluatedFacts ==
    ASSUME NEW prev \in Row
    PROVE  LET plan == UnevaluatedPlan(prev)
           IN  /\ plan \in Plan
               /\ plan.notify = "none"
               /\ plan.alert \in {"null", "ok"}
               /\ plan.alert = "null" => prev.alert = "ok"
               /\ plan.silent <=> StoredOf(prev) \in Bad
<1>1. NoPlan \in Plan
  BY DEF NoPlan, Plan, MaybeLevel, Levels
<1>2. prev.level \in MaybeLevel /\ prev.alert \in MaybeLevel
  BY DEF Row
<1> DEFINE l == IF prev.level # "ok" THEN "ok" ELSE "null"
           a == IF prev.alert # "ok" THEN "ok" ELSE "null"
           s == Coalesce(prev.alert, prev.level) \in Bad
           plan == UnevaluatedPlan(prev)
<1>3. l \in MaybeLevel /\ a \in {"null", "ok"} /\ s \in BOOLEAN /\ a \in MaybeLevel
  BY DEF MaybeLevel, Levels
<1>4. plan = [NoPlan EXCEPT !.level = l, !.alert = a, !.silent = s]
  BY DEF UnevaluatedPlan
<1>5. a = "null" => prev.alert = "ok"
  OBVIOUS
<1> HIDE DEF l, a, s, plan
<1>6. plan \in Plan
  BY <1>1, <1>3, <1>4 DEF Plan
<1>7. plan.alert = a /\ plan.silent = s /\ plan.notify = "none"
  BY <1>4 DEF NoPlan
<1> QED BY <1>3, <1>5, <1>6, <1>7 DEF plan, s, StoredOf

-----------------------------------------------------------------------------
(* Types *)

\* The records a push and the job start from.
LEMMA StartTypes == NoRow \in Row /\ EmptyLayer \in Layer /\ NoPlan \in Plan
                    /\ IdlePush \in Push /\ IdleJob \in Job
<1>1. NoRow \in Row
  BY DEF NoRow, Row, MaybeLevel
<1>2. EmptyLayer \in Layer
  BY DEF EmptyLayer, Layer
<1>3. NoPlan \in Plan
  BY DEF NoPlan, Plan, MaybeLevel, Levels
<1>4. IdlePush \in Push
  BY <1>1, <1>2, <1>3 DEF IdlePush, Push
<1>5. IdleJob \in Job
  BY <1>1, <1>2 DEF IdleJob, Job, MaybeLevel
<1> QED BY <1>1, <1>2, <1>3, <1>4, <1>5

\* A push becomes what its action says, the others stay.
LEMMA BecomeFacts ==
    ASSUME TypeOK, NEW p \in Pushes, NEW k \in Push, Become(p, k)
    PROVE  /\ push' \in [Pushes -> Push]
           /\ push'[p] = k
           /\ \A q \in Pushes : q # p => push'[q] = push[q]
<1>1. push \in [Pushes -> Push]
  BY DEF TypeOK
<1> QED BY <1>1 DEF Become

\* A push goes on: only its place changes, or it is done.
LEMMA GotoFacts ==
    ASSUME TypeOK, NEW p \in Pushes,
           NEW pc \in {"idle", "resolve", "levels", "notify", "bell", "trigger"}, Goto(p, pc)
    PROVE  /\ push' \in [Pushes -> Push]
           /\ push'[p].pc = pc
           /\ pc # "idle" => /\ push'[p].v = push[p].v /\ push'[p].prev = push[p].prev
                             /\ push'[p].plan = push[p].plan
           /\ \A q \in Pushes : q # p => push'[q] = push[q]
<1> DEFINE k == IF pc = "idle" THEN IdlePush ELSE [push[p] EXCEPT !.pc = pc]
<1>1. push[p] \in Push
  BY DEF TypeOK
<1>2. Become(p, k)
  BY DEF Goto
<1>3. k \in Push /\ k.pc = pc /\ (pc # "idle" => /\ k.v = push[p].v /\ k.prev = push[p].prev
                                                 /\ k.plan = push[p].plan)
  <2>1. CASE pc = "idle"
    BY <2>1, StartTypes DEF IdlePush
  <2>2. CASE pc # "idle"
    BY <1>1, <2>2 DEF Push
  <2> QED BY <2>1, <2>2
<1> HIDE DEF k
<1> QED BY <1>2, <1>3, BecomeFacts

\* What is left of a push that has decided.
LEMMA DecidedFacts ==
    ASSUME NEW plan \in Plan
    PROVE  Decided(plan) \in Push /\ Decided(plan).pc = "silent" /\ Decided(plan).plan = plan
BY StartTypes DEF Decided, Push, IdlePush

\* The push decides with some layers, on what it read.
LEMMA DecideFacts ==
    ASSUME TypeOK, NEW p \in Pushes, NEW shared, NEW own, Decide(p, shared, own)
    PROVE  \E v, on : /\ on \in SUBSET Metrics
                      /\ \A r : push[p].v = {r} => v = r
                      /\ EvaluatedPlan(push[p].prev, v, on) \in Plan
                      /\ Become(p, Decided(EvaluatedPlan(push[p].prev, v, on)))
<1> DEFINE v == CHOOSE x \in push[p].v : TRUE
           on == Notified(shared, own)
<1>1. push[p].prev \in Row
  BY DEF TypeOK, Push
<1>2. on \in SUBSET Metrics
  BY DEF Notified
<1>3. Become(p, Decided(EvaluatedPlan(push[p].prev, v, on)))
  BY DEF Decide
<1>4. \A r : push[p].v = {r} => v = r
  BY TheReading
<1>5. EvaluatedPlan(push[p].prev, v, on) \in Plan
  <2> HIDE DEF on, v
  <2> QED BY <1>1, <1>2, PlanFacts
<1> QED BY <1>2, <1>3, <1>4, <1>5

\* The levels a push writes, by id.
LEMMA WrittenRow ==
    ASSUME TypeOK, NEW p \in Pushes, PushWritesLevels(p)
    PROVE  /\ row' \in Row
           /\ row'.level = Coalesce(push[p].plan.level, row.level)
           /\ row'.alert = Coalesce(push[p].plan.alert, row.alert)
           /\ row'.latest = row.latest
<1>1. row \in Row /\ push[p].plan \in Plan
  BY DEF TypeOK, Push
<1> DEFINE l == Coalesce(push[p].plan.level, row.level)
           a == Coalesce(push[p].plan.alert, row.alert)
<1>2. l \in MaybeLevel /\ a \in MaybeLevel
  BY <1>1 DEF Coalesce, Row, Plan
<1>3. row' = [row EXCEPT !.level = l, !.alert = a]
  BY DEF PushWritesLevels
<1> HIDE DEF l, a
<1>4. row' \in Row /\ row'.level = l /\ row'.alert = a /\ row'.latest = row.latest
  BY <1>1, <1>2, <1>3 DEF Row
<1> QED BY <1>4 DEF l, a

\* The level the job would store.
LEMMA JobLevelFacts ==
    ASSUME NEW k \in Row, NEW shared, NEW own
    PROVE  LET next == JobLevel(k, shared, own) IN
           /\ next \in MaybeLevel
           /\ next # "null" => /\ StoredOf(k) \in Bad
                               /\ METRIC_SEVERITY[next] < METRIC_SEVERITY[StoredOf(k)]
<1> DEFINE st == StoredOf(k)
           v  == CHOOSE x \in k.latest : TRUE
           a  == WorstLevel(v, Notified(shared, own))
           f  == WorstLevel(v, Metrics)
           next == JobLevel(k, shared, own)
<1>1. st \in MaybeLevel /\ a \in Levels /\ f \in Levels
  BY WorstType DEF StoredOf, Coalesce, Row, MaybeLevel
<1>2. next = IF ~k.enabled \/ st = "null" \/ k.latest = {} THEN "null"
             ELSE RebaselineAlertLevel(st, a, f)
  BY DEF JobLevel, StoredOf
<1> HIDE DEF st, v, a, f, next
<1>3. next \in MaybeLevel
  BY <1>1, <1>2 DEF RebaselineAlertLevel, MaybeLevel
<1>4. next # "null" => st \in Bad /\ METRIC_SEVERITY[next] < METRIC_SEVERITY[st]
  BY <1>1, <1>2, Severity DEF RebaselineAlertLevel, MaybeLevel, Levels, Bad
<1> QED BY <1>3, <1>4 DEF next, st

\* The job gives up, or knows the level to store and the one it replaces.
LEMMA JobDecidesFacts ==
    ASSUME TypeOK, NEW shared, NEW own, JobDecides(shared, own)
    PROVE  /\ job' \in Job
           /\ job'.pc \in {"idle", "lower"}
           /\ job'.pc = "lower" => /\ job'.prev \in Bad /\ job'.next \in Levels
                                   /\ METRIC_SEVERITY[job'.next] < METRIC_SEVERITY[job'.prev]
<1> DEFINE next == JobLevel(job.row, shared, own)
           k == [IdleJob EXCEPT !.pc = "lower", !.next = next, !.prev = StoredOf(job.row)]
<1>1. job.row \in Row
  BY DEF TypeOK, Job
<1>2. /\ next \in MaybeLevel
      /\ next # "null" => /\ StoredOf(job.row) \in Bad
                          /\ METRIC_SEVERITY[next] < METRIC_SEVERITY[StoredOf(job.row)]
  BY <1>1, JobLevelFacts
<1>3. StoredOf(job.row) \in MaybeLevel
  BY <1>1 DEF StoredOf, Coalesce, Row
<1>4. job' = IF next = "null" THEN IdleJob ELSE k
  BY DEF JobDecides, StoredOf
<1> HIDE DEF next
<1>5. k \in Job /\ k.pc = "lower" /\ k.next = next /\ k.prev = StoredOf(job.row)
  BY <1>2, <1>3, StartTypes DEF Job, IdleJob
<1>6. IdleJob \in Job /\ IdleJob.pc = "idle"
  BY StartTypes DEF IdleJob
<1> HIDE DEF k
<1>7. CASE next = "null"
  BY <1>4, <1>6, <1>7
<1>8. CASE next # "null"
  BY <1>2, <1>4, <1>5, <1>8 DEF MaybeLevel
<1> QED BY <1>7, <1>8

\* The job goes on.
LEMMA JobRecords ==
    ASSUME TypeOK
    PROVE  /\ \A pc \in {"rows", "resolve", "load", "store", "lower", "bell"} :
                 [job EXCEPT !.pc = pc] \in Job
           /\ [job EXCEPT !.pc = "resolve", !.row = row] \in Job
           /\ [job EXCEPT !.pc = "load", !.own = saved["own"]] \in Job
           /\ [job EXCEPT !.pc = "store", !.shared = saved["shared"]] \in Job
           /\ [IdleJob EXCEPT !.pc = "bell"] \in Job
           /\ IdleJob \in Job
<1>1. job \in Job /\ row \in Row /\ saved["own"] \in Layer /\ saved["shared"] \in Layer
  BY DEF TypeOK, Layers
<1>2. /\ [job EXCEPT !.pc = "resolve", !.row = row] \in Job
      /\ [job EXCEPT !.pc = "load", !.own = saved["own"]] \in Job
      /\ [job EXCEPT !.pc = "store", !.shared = saved["shared"]] \in Job
  BY <1>1 DEF Job
<1>3. \A pc \in {"rows", "resolve", "load", "store", "lower", "bell"} : [job EXCEPT !.pc = pc] \in Job
  BY <1>1 DEF Job
<1>4. IdleJob \in Job /\ [IdleJob EXCEPT !.pc = "bell"] \in Job
  BY StartTypes DEF Job
<1> QED BY <1>2, <1>3, <1>4

\* The records a push goes through while it reads.
LEMMA PushRecords ==
    ASSUME TypeOK, NEW p \in Pushes
    PROVE  /\ \A v \in Readings :
                 LET k == [IdlePush EXCEPT !.pc = "touch", !.v = {v}, !.prev = row]
                 IN  k \in Push /\ k.pc = "touch" /\ k.v = {v} /\ k.prev = row
           /\ LET k == [push[p] EXCEPT !.pc = "load", !.own = saved["own"]]
              IN  k \in Push /\ k.pc = "load" /\ k.v = push[p].v /\ k.prev = push[p].prev
           /\ LET k == [push[p] EXCEPT !.pc = "store", !.shared = saved["shared"]]
              IN  k \in Push /\ k.pc = "store" /\ k.v = push[p].v /\ k.prev = push[p].prev
<1>1. push[p] \in Push /\ row \in Row /\ saved["own"] \in Layer /\ saved["shared"] \in Layer
  BY DEF TypeOK, Layers
<1>2. \A v \in Readings : {v} \in SUBSET Readings
  OBVIOUS
<1>3. ASSUME NEW v \in Readings
      PROVE  LET k == [IdlePush EXCEPT !.pc = "touch", !.v = {v}, !.prev = row]
             IN  k \in Push /\ k.pc = "touch" /\ k.v = {v} /\ k.prev = row
  BY <1>1, <1>2, StartTypes DEF Push
<1>4. LET k == [push[p] EXCEPT !.pc = "load", !.own = saved["own"]]
      IN  k \in Push /\ k.pc = "load" /\ k.v = push[p].v /\ k.prev = push[p].prev
  BY <1>1 DEF Push
<1>5. LET k == [push[p] EXCEPT !.pc = "store", !.shared = saved["shared"]]
      IN  k \in Push /\ k.pc = "store" /\ k.v = push[p].v /\ k.prev = push[p].prev
  BY <1>1 DEF Push
<1> QED BY <1>3, <1>4, <1>5

\* What a push starts with.
LEMMA ReadsFacts ==
    ASSUME TypeOK, NEW p \in Pushes, NEW v \in Readings, PushReads(p, v)
    PROVE  push'[p].pc = "touch" /\ push'[p].v = {v} /\ push'[p].prev = row
<1> DEFINE k == [IdlePush EXCEPT !.pc = "touch", !.v = {v}, !.prev = row]
<1>1. k \in Push /\ k.pc = "touch" /\ k.v = {v} /\ k.prev = row
  BY PushRecords
<1>2. Become(p, k)
  BY DEF PushReads
<1> HIDE DEF k
<1> QED BY <1>1, <1>2, BecomeFacts

\* A push decides: with the layers it got, or without thresholds.
Decides(p) ==
    \/ \E shared, own : Decide(p, shared, own)
    \/ Become(p, Decided(UnevaluatedPlan(push[p].prev)))

\* The plan of a push that decides is a plan.
LEMMA DecidesType ==
    ASSUME TypeOK, NEW p \in Pushes, Decides(p)
    PROVE  push' \in [Pushes -> Push]
<1>1. push[p].prev \in Row
  BY DEF TypeOK, Push
<1>2. ASSUME NEW plan \in Plan, Become(p, Decided(plan)) PROVE push' \in [Pushes -> Push]
  BY <1>2, DecidedFacts, BecomeFacts
<1>3. CASE Become(p, Decided(UnevaluatedPlan(push[p].prev)))
  BY <1>1, <1>2, <1>3, UnevaluatedFacts
<1>4. CASE \E shared, own : Decide(p, shared, own)
  BY <1>2, <1>4, DecideFacts
<1> QED BY <1>3, <1>4 DEF Decides

\* The steps of a push keep every type.
LEMMA PushTypes ==
    ASSUME TypeOK, NEW p \in Pushes,
           \/ PushStep(p) \/ EvaluationFails(p) \/ MessageFails(p) \/ PushFails(p) \/ BellFails(p)
           \/ \E v \in Readings : PushReads(p, v)
    PROVE  TypeOK'
<1>0. push[p] \in Push /\ row \in Row /\ push[p].plan \in Plan /\ push \in [Pushes -> Push]
  BY DEF TypeOK, Push
<1> USE DEF history
<1>1. ASSUME NEW v \in Readings, PushReads(p, v) PROVE TypeOK'
  <2>1. push' \in [Pushes -> Push]
    BY <1>1, PushRecords, BecomeFacts DEF PushReads
  <2>2. standing' \subseteq Metrics
    BY <1>1 DEF PushReads, Breaches
  <2>3. ended' \in BOOLEAN /\ excused' \in BOOLEAN
    BY <1>1 DEF PushReads
  <2> QED BY <1>1, <2>1, <2>2, <2>3 DEF TypeOK, PushReads
<1>2. CASE PushTouches(p)
  <2>1. push' \in [Pushes -> Push]
    BY <1>2, GotoFacts DEF PushTouches
  <2>2. row' \in Row
    BY <1>0, <1>2 DEF PushTouches, Row, Push
  <2> QED BY <1>2, <2>1, <2>2 DEF TypeOK, PushTouches
<1>3. CASE PushResolves(p)
  <2>1. push' \in [Pushes -> Push]
    <3>1. CASE push[p].prev.enabled
      BY <1>3, <3>1, PushRecords, BecomeFacts DEF PushResolves
    <3>2. CASE ~push[p].prev.enabled
      BY <1>3, <3>2, DecidesType DEF PushResolves, Decides
    <3> QED BY <3>1, <3>2
  <2> QED BY <1>3, <2>1 DEF TypeOK, PushResolves
<1>4. CASE PushLoads(p)
  <2>1. push' \in [Pushes -> Push]
    BY <1>4, PushRecords, BecomeFacts, DecidesType DEF PushLoads, Decides
  <2> QED BY <1>4, <2>1 DEF TypeOK, PushLoads
<1>5. CASE PushStores(p)
  <2>1. push' \in [Pushes -> Push]
    BY <1>5, DecidesType DEF PushStores, Decides
  <2>2. cache' \subseteq Layer
    BY <1>0, <1>5 DEF PushStores, Push
  <2> QED BY <1>5, <2>1, <2>2 DEF TypeOK, PushStores
<1>6. CASE PushEndsSilently(p)
  <2>1. push' \in [Pushes -> Push]
    BY <1>6, GotoFacts DEF PushEndsSilently
  <2>2. bell' \in Levels
    BY <1>6 DEF PushEndsSilently, TypeOK, Levels
  <2> QED BY <1>6, <2>1, <2>2 DEF TypeOK, PushEndsSilently
<1>7. CASE PushWritesLevels(p)
  <2>1. push' \in [Pushes -> Push]
    BY <1>7, GotoFacts DEF PushWritesLevels, AfterBell
  <2>2. row' \in Row
    BY <1>7, WrittenRow
  <2>3. ended' \in BOOLEAN
    BY <1>7 DEF PushWritesLevels
  <2> QED BY <1>7, <2>1, <2>2, <2>3 DEF TypeOK, PushWritesLevels
<1>8. CASE PushNotifies(p)
  <2>1. push' \in [Pushes -> Push]
    BY <1>8, GotoFacts DEF PushNotifies
  <2>2. notice' \in {"none", "alert", "recovery"}
    BY <1>0, <1>8 DEF PushNotifies, Plan
  <2> QED BY <1>8, <2>1, <2>2 DEF TypeOK, PushNotifies
<1>9. CASE PushRings(p)
  <2>1. push' \in [Pushes -> Push]
    BY <1>9, GotoFacts DEF PushRings, AfterBell
  <2>2. bell' \in Levels
    BY <1>0, <1>9 DEF PushRings, Plan, Levels
  <2> QED BY <1>9, <2>1, <2>2 DEF TypeOK, PushRings
<1>10. CASE PushTriggers(p)
  <2>1. push' \in [Pushes -> Push]
    BY <1>10, GotoFacts DEF PushTriggers
  <2> QED BY <1>10, <2>1 DEF TypeOK, PushTriggers
<1>11. CASE EvaluationFails(p)
  <2>1. push' \in [Pushes -> Push]
    BY <1>11, DecidesType DEF EvaluationFails, Decides
  <2> QED BY <1>11, <2>1 DEF TypeOK, EvaluationFails, SpendFault
<1>12. CASE BellFails(p)
  <2>1. push' \in [Pushes -> Push]
    BY <1>12, GotoFacts DEF BellFails, AfterBell
  <2> QED BY <1>12, <2>1 DEF TypeOK, BellFails, SpendFault
<1>13. CASE MessageFails(p) \/ PushFails(p)
  <2>1. push' \in [Pushes -> Push]
    BY <1>13, GotoFacts DEF MessageFails, PushFails
  <2>2. lost' \in BOOLEAN /\ excused' \in BOOLEAN /\ ended' \in BOOLEAN
    BY <1>13 DEF MessageFails, PushFails, TypeOK
  <2> QED BY <1>13, <2>1, <2>2 DEF TypeOK, MessageFails, PushFails, SpendFault
<1> QED
  BY <1>1, <1>2, <1>3, <1>4, <1>5, <1>6, <1>7, <1>8, <1>9, <1>10, <1>11, <1>12, <1>13 DEF PushStep

\* The level the job stores.
LEMMA LoweredRow ==
    ASSUME TypeOK
    PROVE  LET r == [row EXCEPT !.alert = job.next]
           IN  r \in Row /\ r.alert = job.next /\ r.level = row.level /\ r.latest = row.latest
<1>1. row \in Row /\ job.next \in MaybeLevel
  BY DEF TypeOK, Job
<1> QED BY <1>1 DEF Row

\* Every step keeps every type.
LEMMA TypeStep == TypeOK /\ [Next]_vars => TypeOK'
<1> SUFFICES ASSUME TypeOK, [Next]_vars PROVE TypeOK'
  OBVIOUS
<1> USE DEF history
<1>1. ASSUME NEW p \in Pushes, \/ PushStep(p) \/ EvaluationFails(p) \/ MessageFails(p)
                               \/ PushFails(p) \/ BellFails(p)
                               \/ \E v \in Readings : PushReads(p, v)
      PROVE  TypeOK'
  BY <1>1, PushTypes
<1>2. ASSUME NEW l \in Layers, NEW s \in Switches, NEW x \in {"unset", "on", "off"},
             SaveSwitch(l, s, x)
      PROVE  TypeOK'
  <2>1. saved' \in [Layers -> Layer]
    <3>1. saved[l] \in Layer /\ saved \in [Layers -> Layer]
      BY DEF TypeOK
    <3>2. [saved[l] EXCEPT ![s] = x] \in Layer
      BY <3>1 DEF Layer
    <3>3. saved' = [saved EXCEPT ![l] = [saved[l] EXCEPT ![s] = x]]
      BY <1>2 DEF SaveSwitch
    <3> QED BY <3>1, <3>2, <3>3
  <2> QED BY <1>2, <2>1 DEF TypeOK, SaveSwitch
<1>3. CASE AfterSave
  BY <1>3 DEF TypeOK, AfterSave
<1>4. CASE SetMetricAlertsEnabled
  <2>1. row' \in Row
    BY <1>4 DEF SetMetricAlertsEnabled, TypeOK, Row
  <2> QED BY <1>4, <2>1 DEF TypeOK, SetMetricAlertsEnabled
<1>5. CASE CacheExpires
  BY <1>5 DEF TypeOK, CacheExpires
<1>6. CASE JobStarts
  <2>1. job' \in Job
    BY <1>6, JobRecords DEF JobStarts, JobGoto, JobEnds
  <2>2. queued' \in Nat
    BY <1>6 DEF JobStarts, TypeOK
  <2> QED BY <1>6, <2>1, <2>2 DEF TypeOK, JobStarts
<1>7. CASE JobReadsRows \/ JobResolves
  <2>1. job' \in Job
    BY <1>7, JobRecords DEF JobReadsRows, JobResolves
  <2> QED BY <1>7, <2>1 DEF TypeOK, JobReadsRows, JobResolves
<1>8. CASE JobLoads
  <2>1. job' \in Job
    BY <1>8, JobRecords, JobDecidesFacts DEF JobLoads
  <2> QED BY <1>8, <2>1 DEF TypeOK, JobLoads
<1>9. CASE JobStores
  <2>1. job' \in Job
    BY <1>9, JobDecidesFacts DEF JobStores
  <2>2. cache' \subseteq Layer
    BY <1>9 DEF JobStores, TypeOK, Job
  <2> QED BY <1>9, <2>1, <2>2 DEF TypeOK, JobStores
<1>10. CASE JobLowers
  <2>1. job' \in Job
    BY <1>10, JobRecords DEF JobLowers
  <2>2. row' \in Row
    BY <1>10, LoweredRow DEF JobLowers, TypeOK
  <2>3. excused' \in BOOLEAN
    BY <1>10 DEF JobLowers
  <2> QED BY <1>10, <2>1, <2>2, <2>3 DEF TypeOK, JobLowers
<1>11. CASE JobResolvesBell
  <2>1. job' \in Job /\ bell' \in Levels
    BY <1>11, JobRecords DEF JobResolvesBell, JobEnds, Levels
  <2> QED BY <1>11, <2>1 DEF TypeOK, JobResolvesBell
<1>12. CASE JobFails
  <2>1. job' \in Job /\ excused' \in BOOLEAN
    BY <1>12, JobRecords DEF JobFails, JobEnds
  <2> QED BY <1>12, <2>1 DEF TypeOK, JobFails, SpendFault
<1>13. CASE ServerCrash
  <2>1. job' \in Job /\ push' \in [Pushes -> Push]
    BY <1>13, StartTypes DEF ServerCrash
  <2>2. excused' \in BOOLEAN /\ lost' \in BOOLEAN
    BY <1>13 DEF ServerCrash
  <2> QED BY <1>13, <2>1, <2>2 DEF TypeOK, ServerCrash, SpendFault
<1>14. CASE UNCHANGED vars
  BY <1>14 DEF TypeOK, vars
<1> QED
  BY <1>1, <1>2, <1>3, <1>4, <1>5, <1>6, <1>7, <1>8, <1>9, <1>10, <1>11, <1>12, <1>13, <1>14
     DEF Next, JobStep

\* Every column, plan and step in flight holds a value of its type, for any number
\* of overlapping pushes.
THEOREM MetricTypes == Spec => []TypeOK
<1>1. Init => TypeOK
  <2> SUFFICES ASSUME Init PROVE TypeOK
    OBVIOUS
  <2>1. push \in [Pushes -> Push] /\ saved \in [Layers -> Layer]
    BY StartTypes DEF Init
  <2> QED BY <2>1, StartTypes DEF Init, TypeOK, Levels
<1> QED BY <1>1, TypeStep, PTL DEF Spec

-----------------------------------------------------------------------------
(* Every bad level is announced *)

\* A step of the only push p.
LEMMA AnnouncedPush ==
    ASSUME OneAtATime, AnnouncedInv, NEW p \in Pushes, UNCHANGED job,
           Stored' \in Bad => \/ Announced'
                              \/ push'[p].pc = "notify" /\ push'[p].plan.notify = "alert",
           push'[p].pc \in Reading => ReadSound(push[p])',
           push'[p].pc \in Deciding => PlanAnnounces(push[p])',
           push'[p].pc = "notify" => push'[p].plan.notify # "none",
           push'[p].pc = "notify" /\ push'[p].plan.notify = "recovery" => Stored' \notin Bad
    PROVE  AnnouncedInv'
<1>1. \A q \in Pushes : q = p
  BY DEF OneAtATime
<1>2. Stored' \in Bad => (Announced \/ AlertIsOnItsWay)'
  BY DEF AlertIsOnItsWay
<1>3. /\ job'.pc = "lower" => job'.prev \in Bad
      /\ job'.pc = "lower" => /\ job'.next \in Levels
                              /\ METRIC_SEVERITY[job'.next] < METRIC_SEVERITY[job'.prev]
  BY DEF AnnouncedInv
<1> QED BY <1>1, <1>2, <1>3 DEF AnnouncedInv

\* A step of anybody else that leaves the levels.
LEMMA AnnouncedRest ==
    ASSUME AnnouncedInv, UNCHANGED <<push, notice, lost>>,
           row'.alert = row.alert, row'.level = row.level,
           job'.pc = "lower" => /\ job'.prev \in Bad /\ job'.next \in Levels
                                /\ METRIC_SEVERITY[job'.next] < METRIC_SEVERITY[job'.prev]
    PROVE  AnnouncedInv'
<1>1. Stored' = Stored /\ Announced' = Announced /\ AlertIsOnItsWay' = AlertIsOnItsWay
  BY DEF Stored, Announced, AlertIsOnItsWay
<1>2. \A p \in Pushes : ReadSound(push[p])' = ReadSound(push[p])
                        /\ PlanAnnounces(push[p])' = PlanAnnounces(push[p])
  BY <1>1 DEF ReadSound, PlanAnnounces
<1> QED BY <1>1, <1>2 DEF AnnouncedInv

\* While the only push is at work before its message, its alert is not on its way.
LEMMA StoredIsAnnounced ==
    ASSUME OneAtATime, AnnouncedInv, NEW p \in Pushes,
           push[p].pc # "notify" \/ push[p].plan.notify # "alert", Stored \in Bad
    PROVE  Announced
BY DEF OneAtATime, AnnouncedInv, AlertIsOnItsWay

\* The plan of a push that decides announces what it will write.
LEMMA AnnouncedDecides ==
    ASSUME OneAtATime, TypeOK, AnnouncedInv, NEW p \in Pushes, push[p].pc \in Reading, Decides(p),
           UNCHANGED <<row, job, notice, lost>>
    PROVE  AnnouncedInv'
<1> DEFINE prev == push[p].prev
<1>1. prev \in Row /\ ReadSound(push[p])
  BY DEF TypeOK, Push, AnnouncedInv
<1>2. ASSUME NEW plan \in Plan, Become(p, Decided(plan)),
             plan.alert = "null" => prev.alert # "null",
             plan.notify = "none" /\ plan.alert \in Bad => StoredOf(prev) \in Bad,
             plan.notify = "recovery" => plan.alert = "ok"
      PROVE  AnnouncedInv'
  <2>1. push'[p].pc = "silent" /\ push'[p].plan = plan
    BY <1>2, DecidedFacts, BecomeFacts
  <2>2. PlanAnnounces(push[p])'
    BY <1>1, <1>2, <2>1 DEF PlanAnnounces, ReadSound, Announced
  <2>3. Stored' = Stored /\ Announced' = Announced
    BY DEF Stored, Announced
  <2>4. Stored \in Bad => Announced
    BY StoredIsAnnounced DEF Reading
  <2> QED BY <2>1, <2>2, <2>3, <2>4, AnnouncedPush DEF Reading
<1>3. CASE Become(p, Decided(UnevaluatedPlan(prev)))
  <2>1. /\ UnevaluatedPlan(prev) \in Plan
        /\ UnevaluatedPlan(prev).notify = "none"
        /\ UnevaluatedPlan(prev).alert \in {"null", "ok"}
        /\ UnevaluatedPlan(prev).alert = "null" => prev.alert = "ok"
    BY <1>1, UnevaluatedFacts
  <2> QED BY <1>2, <1>3, <2>1 DEF Bad
<1>4. ASSUME NEW shared, NEW own, Decide(p, shared, own) PROVE AnnouncedInv'
  <2>1. PICK v, on : /\ on \in SUBSET Metrics
                     /\ Become(p, Decided(EvaluatedPlan(prev, v, on)))
    BY <1>4, DecideFacts
  <2> DEFINE plan == EvaluatedPlan(prev, v, on)
             alert == WorstLevel(v, on)
  <2>2. /\ plan \in Plan
        /\ plan.alert \in {"null", alert}
        /\ plan.alert = "null" => prev.alert = alert
        /\ plan.notify = "recovery" => plan.alert = "ok"
        /\ plan.notify = "none" /\ alert \in Bad => StoredOf(prev) \in Bad
    BY <1>1, <2>1, PlanFacts
  <2>3. alert \in Levels
    BY WorstType
  <2>4. Become(p, Decided(plan))
    BY <2>1
  <2> HIDE DEF plan, alert
  <2> QED BY <1>2, <2>2, <2>3, <2>4 DEF Levels, Bad
<1> QED BY <1>3, <1>4 DEF Decides

\* A step of the push that decides nothing and leaves the levels and the messages.
LEMMA AnnouncedGoes ==
    ASSUME OneAtATime, AnnouncedInv, NEW p \in Pushes, UNCHANGED <<job, notice, lost>>,
           row'.alert = row.alert, row'.level = row.level,
           push[p].pc # "notify", push'[p].pc # "notify",
           push'[p].pc \in Reading => push[p].pc \in Reading /\ push'[p].prev = push[p].prev,
           push'[p].pc \in Deciding => push[p].pc \in Deciding /\ push'[p].plan = push[p].plan
    PROVE  AnnouncedInv'
<1>1. Stored' = Stored /\ Announced' = Announced
  BY DEF Stored, Announced
<1>2. Stored \in Bad => Announced
  BY StoredIsAnnounced
<1>3. push'[p].pc \in Reading => ReadSound(push[p])'
  BY <1>1 DEF AnnouncedInv, ReadSound
<1>4. push'[p].pc \in Deciding => PlanAnnounces(push[p])'
  BY <1>1 DEF AnnouncedInv, PlanAnnounces
<1> QED BY <1>1, <1>2, <1>3, <1>4, AnnouncedPush

\* A push writes its levels: a bad one with its alert under way, or announced before.
LEMMA AnnouncedWrites ==
    ASSUME OneAtATime, TypeOK, AnnouncedInv, NEW p \in Pushes, PushWritesLevels(p)
    PROVE  AnnouncedInv'
<1> DEFINE plan == push[p].plan
<1>1. /\ push[p].pc = "levels" /\ PlanAnnounces(push[p])
      /\ UNCHANGED <<job, notice, lost>>
  BY DEF PushWritesLevels, AnnouncedInv, Deciding
<1>2. row'.alert = Coalesce(plan.alert, row.alert)
  BY WrittenRow
<1>3. /\ push'[p].pc = IF plan.notify # "none" THEN "notify" ELSE AfterBell(plan)
      /\ plan.notify # "none" => push'[p].plan = plan
  BY GotoFacts DEF PushWritesLevels, AfterBell
<1>4. push'[p].pc \in {"notify", "trigger", "idle"} /\ (push'[p].pc = "notify" <=> plan.notify # "none")
  BY <1>3 DEF AfterBell
<1>5. Stored \in Bad => Announced
  BY <1>1, StoredIsAnnounced
<1>6. Stored' \in Bad => plan.alert \in Bad \/ (plan.alert = "null" /\ Stored \in Bad)
  BY <1>1, <1>2 DEF PlanAnnounces, Stored, Coalesce
<1>7. Stored' \in Bad => plan.notify # "recovery" /\ (plan.notify = "none" => Announced)
  BY <1>1, <1>5, <1>6 DEF PlanAnnounces, Bad
<1>8. plan \in Plan
  BY DEF TypeOK, Push
<1>9. plan.notify \in {"none", "alert", "recovery"}
  BY <1>8 DEF Plan
<1>10. Stored' \in Bad => Announced' \/ (push'[p].pc = "notify" /\ push'[p].plan.notify = "alert")
  BY <1>1, <1>3, <1>4, <1>7, <1>9 DEF Announced
<1>11. push'[p].pc = "notify" => push'[p].plan = plan /\ plan.notify # "none"
  BY <1>3, <1>4
<1> QED BY <1>1, <1>4, <1>7, <1>10, <1>11, AnnouncedPush DEF Reading, Deciding

\* No step stores a bad level that nobody hears of.
LEMMA AnnouncedStep ==
    ASSUME OneAtATime, TypeOK, AnnouncedInv, [Next]_vars
    PROVE  AnnouncedInv'
<1> USE DEF history
<1>1. ASSUME NEW p \in Pushes, NEW v \in Readings, PushReads(p, v) PROVE AnnouncedInv'
  <2>1. push'[p].pc = "touch" /\ push'[p].prev = row
    BY <1>1, ReadsFacts
  <2>2. push[p].pc = "idle" /\ UNCHANGED <<row, job, notice, lost>>
    BY <1>1 DEF PushReads
  <2>3. Stored' = Stored /\ Announced' = Announced /\ (Stored \in Bad => Announced)
    BY <2>2, StoredIsAnnounced DEF Stored, Announced
  <2>4. ReadSound(push[p])'
    BY <2>1, <2>2, <2>3 DEF ReadSound, StoredOf, Stored
  <2> QED BY <2>1, <2>2, <2>3, <2>4, AnnouncedPush DEF Deciding
<1>2. ASSUME NEW p \in Pushes, PushTouches(p) PROVE AnnouncedInv'
  <2>1. push[p].pc = "touch" /\ push'[p].pc = "resolve" /\ push'[p].prev = push[p].prev
    BY <1>2, GotoFacts DEF PushTouches
  <2>2. row'.alert = row.alert /\ row'.level = row.level
    BY <1>2 DEF PushTouches, TypeOK, Row
  <2> QED BY <1>2, <2>1, <2>2, AnnouncedGoes DEF PushTouches, Reading, Deciding
<1>3. ASSUME NEW p \in Pushes, PushResolves(p) PROVE AnnouncedInv'
  <2>1. CASE push[p].prev.enabled
    <3>1. push[p].pc = "resolve" /\ push'[p].pc = "load" /\ push'[p].prev = push[p].prev
      BY <1>3, <2>1, PushRecords, BecomeFacts, ZenonT(40) DEF PushResolves
    <3> QED BY <1>3, <3>1, AnnouncedGoes DEF PushResolves, Reading, Deciding
  <2>2. CASE ~push[p].prev.enabled
    BY <1>3, <2>2, AnnouncedDecides DEF PushResolves, Decides, Reading
  <2> QED BY <2>1, <2>2
<1>4. ASSUME NEW p \in Pushes, PushLoads(p) PROVE AnnouncedInv'
  <2>1. CASE Decides(p)
    BY <1>4, <2>1, AnnouncedDecides DEF PushLoads, Reading
  <2>2. CASE Become(p, [push[p] EXCEPT !.pc = "store", !.shared = saved["shared"]])
    <3>1. push[p].pc = "load" /\ push'[p].pc = "store" /\ push'[p].prev = push[p].prev
      BY <1>4, <2>2, PushRecords, BecomeFacts DEF PushLoads
    <3> QED BY <1>4, <3>1, AnnouncedGoes DEF PushLoads, Reading, Deciding
  <2> QED BY <1>4, <2>1, <2>2 DEF PushLoads, Decides
<1>5. ASSUME NEW p \in Pushes, PushStores(p) \/ EvaluationFails(p) PROVE AnnouncedInv'
  BY <1>5, AnnouncedDecides DEF PushStores, EvaluationFails, Decides, Reading
<1>6. ASSUME NEW p \in Pushes, PushEndsSilently(p) PROVE AnnouncedInv'
  <2>1. push[p].pc = "silent" /\ push'[p].pc = "levels" /\ push'[p].plan = push[p].plan
    BY <1>6, GotoFacts DEF PushEndsSilently
  <2> QED BY <1>6, <2>1, AnnouncedGoes DEF PushEndsSilently, Reading, Deciding
<1>7. ASSUME NEW p \in Pushes, PushWritesLevels(p) PROVE AnnouncedInv'
  BY <1>7, AnnouncedWrites
<1>8. ASSUME NEW p \in Pushes, PushNotifies(p) PROVE AnnouncedInv'
  <2>1. push'[p].pc = "bell"
    BY <1>8, GotoFacts DEF PushNotifies
  <2>2. /\ push[p].pc = "notify" /\ notice' = push[p].plan.notify /\ UNCHANGED <<row, job>>
        /\ push[p].plan.notify # "none"
        /\ push[p].plan.notify = "recovery" => Stored \notin Bad
    BY <1>8 DEF PushNotifies, AnnouncedInv
  <2>3. push[p].plan.notify \in {"none", "alert", "recovery"}
    BY DEF TypeOK, Push, Plan
  <2>4. Stored' \in Bad => Announced'
    BY <2>2, <2>3 DEF Stored, Announced
  <2> QED BY <2>1, <2>2, <2>4, AnnouncedPush DEF Reading, Deciding
<1>9. ASSUME NEW p \in Pushes, PushRings(p) \/ PushTriggers(p) PROVE AnnouncedInv'
  <2>1. push[p].pc \in {"bell", "trigger"} /\ push'[p].pc \in {"trigger", "idle"}
    BY <1>9, GotoFacts DEF PushRings, PushTriggers, AfterBell
  <2> QED BY <1>9, <2>1, AnnouncedGoes DEF PushRings, PushTriggers, Reading, Deciding
<1>10. ASSUME NEW p \in Pushes, BellFails(p) PROVE AnnouncedInv'
  <2>1. CASE push[p].pc = "silent"
    <3>1. push'[p].pc = "levels" /\ push'[p].plan = push[p].plan
      BY <1>10, <2>1, GotoFacts DEF BellFails
    <3> QED BY <1>10, <2>1, <3>1, AnnouncedGoes DEF BellFails, Reading, Deciding
  <2>2. CASE push[p].pc # "silent"
    <3>1. push[p].pc = "bell" /\ push'[p].pc \in {"trigger", "idle"}
      BY <1>10, <2>2, GotoFacts DEF BellFails, AfterBell
    <3> QED BY <1>10, <3>1, AnnouncedGoes DEF BellFails, Reading, Deciding
  <2> QED BY <2>1, <2>2
<1>11. CASE \/ \E l \in Layers, s \in Switches, x \in {"unset", "on", "off"} : SaveSwitch(l, s, x)
            \/ AfterSave \/ CacheExpires \/ UNCHANGED vars
  <2>1. UNCHANGED <<push, job, row, notice, lost>>
    BY <1>11 DEF SaveSwitch, AfterSave, CacheExpires, vars
  <2> QED BY <2>1, AnnouncedRest DEF AnnouncedInv
<1>12. CASE SetMetricAlertsEnabled
  <2>1. row'.alert = row.alert /\ row'.level = row.level
    BY <1>12 DEF SetMetricAlertsEnabled, TypeOK, Row
  <2> QED BY <1>12, <2>1, AnnouncedRest DEF SetMetricAlertsEnabled, AnnouncedInv
<1>13. CASE JobStarts \/ JobReadsRows \/ JobResolves \/ JobResolvesBell \/ JobFails
  <2>1. job \in Job /\ IdleJob.pc = "idle"
    BY DEF TypeOK, IdleJob
  <2>2. job'.pc # "lower"
    BY <1>13, <2>1 DEF JobStarts, JobReadsRows, JobResolves, JobResolvesBell, JobFails,
                       JobGoto, JobEnds, Job
  <2>3. UNCHANGED <<push, row, notice, lost>>
    BY <1>13 DEF JobStarts, JobReadsRows, JobResolves, JobResolvesBell, JobFails
  <2> QED BY <2>2, <2>3, AnnouncedRest
<1>14. CASE JobLoads \/ JobStores
  <2>1. UNCHANGED <<push, row, notice, lost>>
    BY <1>14 DEF JobLoads, JobStores
  <2>2. ASSUME NEW shared, NEW own, JobDecides(shared, own) PROVE AnnouncedInv'
    BY <2>1, <2>2, JobDecidesFacts, AnnouncedRest
  <2>3. ASSUME job' = [job EXCEPT !.pc = "store", !.shared = saved["shared"]] PROVE AnnouncedInv'
    <3>1. job'.pc # "lower"
      BY <2>3 DEF TypeOK, Job
    <3> QED BY <2>1, <3>1, AnnouncedRest
  <2> QED BY <1>14, <2>2, <2>3 DEF JobLoads, JobStores
<1>15. CASE JobLowers
  <2>0. job.pc = "lower" /\ job.prev \in Bad /\ job.next \in Levels
    BY <1>15 DEF JobLowers, AnnouncedInv
  <2>1. job'.pc # "lower" /\ UNCHANGED <<push, notice, lost>>
    BY <1>15 DEF JobLowers, IdleJob
  <2>2. CASE Stored # job.prev
    <3>1. row' = row
      BY <1>15, <2>2 DEF JobLowers
    <3> QED BY <2>1, <3>1, AnnouncedRest
  <2>3. CASE Stored = job.prev
    <3>1. row'.alert = job.next /\ row'.level = row.level
      BY <1>15, <2>3, LoweredRow DEF JobLowers
    <3>2. Stored \in Bad /\ row'.alert # "null"
      BY <2>0, <2>3, <3>1 DEF Levels
    <3>3. Announced' = Announced /\ AlertIsOnItsWay' = AlertIsOnItsWay
      BY <2>1 DEF Announced, AlertIsOnItsWay
    <3>4. \A p \in Pushes : push[p].pc \in Reading => ReadSound(push[p])'
      BY <2>1, <3>2, <3>3 DEF AnnouncedInv, ReadSound
    <3>5. \A p \in Pushes : push[p].pc \in Deciding => PlanAnnounces(push[p])'
      BY <2>1, <3>2, <3>3 DEF AnnouncedInv, PlanAnnounces
    <3>6. Announced \/ AlertIsOnItsWay
      BY <3>2 DEF AnnouncedInv
    <3>7. \A p \in Pushes : ~(push[p].pc = "notify" /\ push[p].plan.notify = "recovery")
      BY <3>2 DEF AnnouncedInv
    <3>8. \A p \in Pushes : push[p].pc = "notify" => push[p].plan.notify # "none"
      BY DEF AnnouncedInv
    <3> QED BY <2>1, <3>3, <3>4, <3>5, <3>6, <3>7, <3>8 DEF AnnouncedInv
  <2> QED BY <2>2, <2>3
<1>16. CASE ServerCrash
  <2>1. /\ \A p \in Pushes : push'[p].pc = "idle"
        /\ job'.pc = "idle" /\ UNCHANGED <<row, notice>>
        /\ lost' = (lost \/ AlertIsOnItsWay)
    BY <1>16 DEF ServerCrash, IdlePush, IdleJob, AlertIsOnItsWay
  <2>2. Stored' \in Bad => Announced'
    BY <2>1 DEF AnnouncedInv, Announced, Stored
  <2> QED BY <2>1, <2>2 DEF AnnouncedInv, Reading, Deciding
<1>17. ASSUME NEW p \in Pushes, MessageFails(p) \/ PushFails(p) PROVE AnnouncedInv'
  <2>1. push'[p].pc \in {"bell", "idle"}
    BY <1>17, GotoFacts DEF MessageFails, PushFails
  <2>2. /\ UNCHANGED <<row, job, notice>>
        /\ lost' = (lost \/ (push[p].pc = "notify" /\ push[p].plan.notify = "alert"))
    BY <1>17 DEF MessageFails, PushFails
  <2>3. Stored' \in Bad => Announced'
    BY <2>2, StoredIsAnnounced DEF Announced, Stored
  <2> QED BY <2>1, <2>2, <2>3, AnnouncedPush DEF Reading, Deciding
<1> QED
  BY <1>1, <1>2, <1>3, <1>4, <1>5, <1>6, <1>7, <1>8, <1>9, <1>10, <1>11, <1>12, <1>13, <1>14,
     <1>15, <1>16, <1>17 DEF Next, PushStep, JobStep

\* Pushes served one at a time never leave a bad level that was not announced, unless
\* its one alert was lost after the level was written: whatever is muted, un-muted,
\* cached or lowered by the job meanwhile.
THEOREM LevelsAreAnnounced == OneAtATime => (Spec => []LevelWasAnnounced)
<1> SUFFICES ASSUME OneAtATime PROVE Spec => []LevelWasAnnounced
  OBVIOUS
<1>1. Init => AnnouncedInv
  BY DEF Init, AnnouncedInv, Stored, Coalesce, NoRow, IdlePush, IdleJob, Bad, Reading, Deciding
<1>2. AnnouncedInv => LevelWasAnnounced
  BY DEF AnnouncedInv, LevelWasAnnounced, Quiet, Announced, AlertIsOnItsWay
<1>3. TypeOK /\ AnnouncedInv /\ [Next]_vars => AnnouncedInv'
  BY AnnouncedStep
<1> QED BY <1>1, <1>2, <1>3, MetricTypes, PTL DEF Spec

-----------------------------------------------------------------------------
(* No false "back to normal" *)

\* A step of the only push p.
LEMMA RecoveryPush ==
    ASSUME OneAtATime, NEW p \in Pushes, BadLevelPersists', RecoversSoundly(push[p])'
    PROVE  RecoveryInv'
<1>1. \A q \in Pushes : q = p
  BY DEF OneAtATime
<1> QED BY <1>1 DEF RecoveryInv

\* A step of anybody else that leaves the row and the reports.
LEMMA RecoveryRest ==
    ASSUME RecoveryInv, UNCHANGED <<push, standing, ended>>, row'.latest = row.latest,
           row'.alert = row.alert, row'.level = row.level
    PROVE  RecoveryInv'
<1>1. Stored' = Stored /\ LastReport' = LastReport
  BY DEF Stored, LastReport
<1>2. BadLevelPersists'
  BY <1>1 DEF RecoveryInv, BadLevelPersists, Persists
<1>3. ASSUME NEW p \in Pushes PROVE RecoversSoundly(push[p])'
  <2>1. RecoversSoundly(push[p])
    BY DEF RecoveryInv
  <2>2. FinalLevel(push[p])' = FinalLevel(push[p])
    BY DEF FinalLevel
  <2> QED BY <1>1, <2>1, <2>2 DEF RecoversSoundly, Persists
<1> QED BY <1>2, <1>3 DEF RecoveryInv

\* Breaches that the last report had and that did not end are breaches still.
LEMMA StillBreaching ==
    ASSUME TypeOK, NEW v \in Readings, ~\E m \in standing : v[m] = "ok"
    PROVE  standing \subseteq Breaches(v)
<1>1. v \in [Metrics -> Levels] /\ standing \subseteq Metrics
  BY MetricAlertAssumption DEF TypeOK
<1> QED BY <1>1 DEF Breaches, Levels, Bad

\* A push reads: what it reports is the last report.
LEMMA RecoveryReads ==
    ASSUME OneAtATime, TypeOK, RecoveryInv, NEW p \in Pushes, NEW v \in Readings, PushReads(p, v)
    PROVE  RecoveryInv'
<1>1. push'[p].pc = "touch" /\ push'[p].v = {v} /\ push'[p].prev = row
  BY ReadsFacts
<1>2. /\ row' = row /\ standing' = Breaches(v)
      /\ ended' = (ended \/ \E m \in standing : v[m] = "ok")
  BY DEF PushReads
<1>3. Stored' = Stored /\ Stored = StoredOf(row)
  BY <1>2 DEF Stored, StoredOf
<1>4. Stored \in Bad /\ ~ended' => \E u \in Readings : row.latest = {u} /\ Persists(u)'
  <2> SUFFICES ASSUME Stored \in Bad, ~ended'
               PROVE  \E u \in Readings : row.latest = {u} /\ Persists(u)'
    OBVIOUS
  <2>1. PICK u \in Readings : row.latest = {u} /\ Persists(u)
    BY <1>2 DEF RecoveryInv, BadLevelPersists
  <2>2. standing \subseteq Breaches(v)
    BY <1>2, StillBreaching
  <2>3. Persists(u)'
    BY <1>2, <2>1, <2>2 DEF Persists
  <2> QED BY <2>1, <2>3
<1>5. BadLevelPersists'
  BY <1>2, <1>3, <1>4 DEF BadLevelPersists
<1>6. RecoversSoundly(push[p])'
  BY <1>1, <1>2, <1>3, <1>4 DEF RecoversSoundly, Reading, Deciding
<1> QED BY <1>5, <1>6, RecoveryPush

\* latest_metrics follows the report.
LEMMA RecoveryTouches ==
    ASSUME OneAtATime, TypeOK, AnnouncedInv, RecoveryInv, NEW p \in Pushes, PushTouches(p)
    PROVE  RecoveryInv'
<1>1. /\ push[p].pc = "touch" /\ push'[p].pc = "resolve"
      /\ push'[p].prev = push[p].prev /\ push'[p].v = push[p].v
  BY GotoFacts DEF PushTouches
<1>2. row'.latest = push[p].v /\ row'.alert = row.alert /\ row'.level = row.level
  BY DEF PushTouches, TypeOK, Row
<1>3. UNCHANGED <<standing, ended>> /\ Stored' = Stored
  BY <1>2 DEF PushTouches, history, Stored
<1>4. ReadSound(push[p]) /\ RecoversSoundly(push[p])
  BY <1>1 DEF AnnouncedInv, RecoveryInv, Reading
<1>5. PICK v \in Readings : push[p].v = {v} /\ standing = Breaches(v)
  BY <1>1, <1>4 DEF RecoversSoundly, Reading
<1>6. Stored \in Bad /\ ~ended => Persists(v)
  <2> SUFFICES ASSUME Stored \in Bad, ~ended PROVE Persists(v)
    OBVIOUS
  <2>1. \E u \in Readings : Persists(u)
    BY <1>1, <1>4 DEF ReadSound, RecoversSoundly, Reading
  <2> QED BY <1>5, <2>1 DEF Persists
<1>7. BadLevelPersists'
  BY <1>2, <1>3, <1>5, <1>6 DEF BadLevelPersists, Persists
<1>8. RecoversSoundly(push[p])'
  BY <1>1, <1>2, <1>3, <1>4 DEF RecoversSoundly, Reading, Deciding, Persists
<1> QED BY <1>7, <1>8, RecoveryPush

\* A push goes on to its next step and leaves the row and the reports.
LEMMA RecoveryGoes ==
    ASSUME OneAtATime, RecoveryInv, NEW p \in Pushes, UNCHANGED <<row, standing, ended>>,
           \/ push'[p].pc \in {"bell", "trigger", "idle"}
           \/ /\ push[p].pc \in Reading /\ push[p].pc # "touch"
              /\ push'[p].pc \in Reading
              /\ push'[p].prev = push[p].prev /\ push'[p].v = push[p].v
           \/ /\ push[p].pc \in Deciding /\ push'[p].pc \in Deciding
              /\ push'[p].plan = push[p].plan
    PROVE  RecoveryInv'
<1>1. RecoversSoundly(push[p]) /\ Stored' = Stored /\ LastReport' = LastReport
  BY DEF RecoveryInv, Stored, LastReport
<1>2. BadLevelPersists'
  BY <1>1 DEF RecoveryInv, BadLevelPersists, Persists
<1>3. RecoversSoundly(push[p])'
  BY <1>1 DEF RecoversSoundly, Reading, Deciding, Persists, FinalLevel
<1> QED BY <1>2, <1>3, RecoveryPush

\* A push decides: it announces a recovery only if a breach has ended, because it
\* looks at the previous metrics under the switches it has.
LEMMA RecoveryDecides ==
    ASSUME OneAtATime, TypeOK, AnnouncedInv, RecoveryInv, NEW p \in Pushes,
           push[p].pc \in Reading, push[p].pc # "touch", Decides(p),
           UNCHANGED <<row, standing, ended>>
    PROVE  RecoveryInv'
<1> DEFINE prev == push[p].prev
<1>1. prev \in Row /\ ReadSound(push[p]) /\ RecoversSoundly(push[p])
  BY DEF TypeOK, Push, AnnouncedInv, RecoveryInv
<1>2. PICK w \in Readings : push[p].v = {w} /\ row.latest = {w} /\ standing = Breaches(w)
  BY <1>1 DEF RecoversSoundly
<1>3. LastReport' /\ Stored' = Stored
  BY <1>2 DEF LastReport, Stored
<1>4. BadLevelPersists'
  BY <1>3 DEF RecoveryInv, BadLevelPersists, Persists
<1>5. ASSUME NEW plan \in Plan, Become(p, Decided(plan)),
             plan.alert \in Bad => standing # {},
             plan.alert = "null" => prev.alert # "null" /\ (prev.alert \in Bad => standing # {}),
             plan.notify = "recovery" => ended
      PROVE  RecoveryInv'
  <2>1. push'[p].pc = "silent" /\ push'[p].plan = plan
    BY <1>5, DecidedFacts, BecomeFacts
  <2>2. plan.alert = "null" /\ row.alert \in Bad => standing # {}
    <3> SUFFICES ASSUME plan.alert = "null", row.alert \in Bad PROVE standing # {}
      OBVIOUS
    <3>1. Stored \in Bad
      BY DEF Stored, Coalesce, Bad
    <3>2. prev.alert \in Bad
      BY <1>1, <1>5, <3>1 DEF ReadSound, StoredOf, Coalesce
    <3> QED BY <1>5, <3>2
  <2>3. FinalLevel(push[p])' \in Bad => standing # {}
    BY <1>5, <2>1, <2>2 DEF FinalLevel, Coalesce
  <2>4. RecoversSoundly(push[p])'
    BY <1>3, <1>5, <2>1, <2>3 DEF RecoversSoundly, Reading, Deciding
  <2> QED BY <1>4, <2>4, RecoveryPush
<1>6. CASE Become(p, Decided(UnevaluatedPlan(prev)))
  <2>1. /\ UnevaluatedPlan(prev) \in Plan
        /\ UnevaluatedPlan(prev).notify = "none"
        /\ UnevaluatedPlan(prev).alert \in {"null", "ok"}
        /\ UnevaluatedPlan(prev).alert = "null" => prev.alert = "ok"
    BY <1>1, UnevaluatedFacts
  <2> QED BY <1>5, <1>6, <2>1 DEF Bad
<1>7. ASSUME NEW shared, NEW own, Decide(p, shared, own) PROVE RecoveryInv'
  <2>1. PICK v, on : /\ on \in SUBSET Metrics
                     /\ \A r : push[p].v = {r} => v = r
                     /\ Become(p, Decided(EvaluatedPlan(prev, v, on)))
    BY <1>7, DecideFacts
  <2>2. v = w /\ on \in SUBSET Metrics
    BY <1>2, <2>1
  <2> DEFINE plan == EvaluatedPlan(prev, w, on)
             alert == WorstLevel(w, on)
             re == InlineRebaseline(prev, alert, on)
  <2>3. /\ plan \in Plan
        /\ plan.alert \in {"null", alert}
        /\ plan.alert = "null" => prev.alert = alert
        /\ plan.notify = "recovery" => alert = "ok" /\ StoredOf(prev) \in Bad /\ re # "ok"
    BY <1>1, <2>2, PlanFacts
  <2>4. alert \in Levels /\ (alert = "ok" <=> standing \cap on = {})
    BY <1>2, <2>2, WorstFacts
  <2>5. plan.notify = "recovery" => ended
    <3> SUFFICES ASSUME plan.notify = "recovery", ~ended PROVE FALSE
      OBVIOUS
    <3>1. PICK u \in Readings : prev.latest = {u} /\ Persists(u)
      BY <1>1, <2>3 DEF RecoversSoundly
    <3>2. Breaches(u) # {} /\ Breaches(u) \cap on = {}
      BY <2>3, <2>4, <3>1 DEF Persists
    <3> HIDE DEF plan
    <3>3. re = "ok"
      BY <1>1, <2>2, <2>3, <2>4, <3>1, <3>2, RebaseFacts
    <3> QED BY <2>3, <3>3
  <2>6. Become(p, Decided(plan))
    BY <2>1, <2>2
  <2> HIDE DEF plan, alert, re
  <2>7. alert \in Bad => standing # {}
    BY <2>4 DEF Bad
  <2> QED BY <1>5, <2>3, <2>4, <2>5, <2>6, <2>7 DEF Levels, Bad
<1> QED BY <1>6, <1>7 DEF Decides

\* The levels are written, on the reading that was stored.
LEMMA RecoveryWrites ==
    ASSUME OneAtATime, TypeOK, AnnouncedInv, RecoveryInv, NEW p \in Pushes, PushWritesLevels(p)
    PROVE  RecoveryInv'
<1> DEFINE plan == push[p].plan
<1>1. /\ push[p].pc = "levels" /\ UNCHANGED standing
      /\ ended' = (ended /\ plan.notify # "none")
      /\ PlanAnnounces(push[p]) /\ RecoversSoundly(push[p])
  BY DEF PushWritesLevels, AnnouncedInv, RecoveryInv, Deciding
<1>2. row'.alert = FinalLevel(push[p]) /\ row'.latest = row.latest
  BY WrittenRow DEF FinalLevel
<1>3. Stored' = FinalLevel(push[p])
  BY <1>1, <1>2 DEF Stored, FinalLevel, PlanAnnounces, Coalesce
<1>4. LastReport /\ (FinalLevel(push[p]) \in Bad => standing # {})
  BY <1>1 DEF RecoversSoundly, Deciding
<1>5. BadLevelPersists' /\ LastReport'
  BY <1>1, <1>2, <1>3, <1>4 DEF BadLevelPersists, LastReport, Persists
<1>6. /\ push'[p].pc = IF plan.notify # "none" THEN "notify" ELSE AfterBell(plan)
      /\ plan.notify # "none" => push'[p].plan = plan
  BY GotoFacts DEF PushWritesLevels, AfterBell
<1>7. plan.notify = "recovery" => ended
  BY <1>1 DEF RecoversSoundly, Deciding
<1>8. RecoversSoundly(push[p])'
  <2>1. CASE plan.notify # "none"
    BY <1>1, <1>3, <1>4, <1>5, <1>6, <1>7, <2>1 DEF RecoversSoundly, Reading, Deciding
  <2>2. CASE plan.notify = "none"
    BY <1>6, <2>2 DEF RecoversSoundly, Reading, Deciding, AfterBell
  <2> QED BY <2>1, <2>2
<1> QED BY <1>5, <1>8, RecoveryPush

\* The job lowers a bad level only.
LEMMA RecoveryLowers ==
    ASSUME TypeOK, AnnouncedInv, RecoveryInv, JobLowers
    PROVE  RecoveryInv'
<1>1. job.prev \in Bad /\ job.next \in Levels /\ UNCHANGED <<push, standing, ended>>
  BY DEF JobLowers, AnnouncedInv
<1>2. CASE Stored # job.prev
  <2>1. row' = row
    BY <1>2 DEF JobLowers
  <2> QED BY <1>1, <2>1, RecoveryRest
<1>3. CASE Stored = job.prev
  <2>1. row'.alert = job.next /\ row'.level = row.level /\ row'.latest = row.latest
    BY <1>3, LoweredRow DEF JobLowers
  <2>2. Stored \in Bad /\ LastReport' = LastReport
    BY <1>1, <1>3, <2>1 DEF LastReport
  <2>3. BadLevelPersists'
    BY <1>1, <2>1, <2>2 DEF RecoveryInv, BadLevelPersists, Persists
  <2>4. ASSUME NEW p \in Pushes PROVE RecoversSoundly(push[p])'
    <3>1. RecoversSoundly(push[p]) /\ (push[p].pc \in Deciding => PlanAnnounces(push[p]))
      BY DEF RecoveryInv, AnnouncedInv
    <3>2. push[p].pc \in Deciding => (FinalLevel(push[p])' \in Bad => standing # {})
      <4> SUFFICES ASSUME push[p].pc \in Deciding, FinalLevel(push[p])' \in Bad
                   PROVE  standing # {}
        OBVIOUS
      <4>1. CASE push[p].plan.alert # "null"
        BY <1>1, <3>1, <4>1 DEF FinalLevel, Coalesce, RecoversSoundly
      <4>2. CASE push[p].plan.alert = "null"
        <5>1. FinalLevel(push[p]) = Stored
          BY <3>1, <4>2 DEF FinalLevel, Coalesce, PlanAnnounces, Stored
        <5> QED BY <2>2, <3>1, <5>1 DEF RecoversSoundly
      <4> QED BY <4>1, <4>2
    <3> QED BY <1>1, <2>1, <2>2, <3>1, <3>2 DEF RecoversSoundly, Persists
  <2> QED BY <2>3, <2>4 DEF RecoveryInv
<1> QED BY <1>2, <1>3

\* No step leaves a recovery under way for a breach that has not ended.
LEMMA RecoveryStep ==
    ASSUME OneAtATime, TypeOK, AnnouncedInv, RecoveryInv, [Next]_vars
    PROVE  RecoveryInv'
<1> USE DEF history
<1>1. ASSUME NEW p \in Pushes, NEW v \in Readings, PushReads(p, v) PROVE RecoveryInv'
  BY <1>1, RecoveryReads
<1>2. ASSUME NEW p \in Pushes, PushTouches(p) PROVE RecoveryInv'
  BY <1>2, RecoveryTouches
<1>3. ASSUME NEW p \in Pushes, PushResolves(p) PROVE RecoveryInv'
  <2>1. CASE push[p].prev.enabled
    <3>1. /\ push[p].pc = "resolve" /\ push'[p].pc = "load"
          /\ push'[p].prev = push[p].prev /\ push'[p].v = push[p].v
      BY <1>3, <2>1, PushRecords, BecomeFacts, ZenonT(40) DEF PushResolves
    <3> QED BY <1>3, <3>1, RecoveryGoes DEF PushResolves, Reading
  <2>2. CASE ~push[p].prev.enabled
    BY <1>3, <2>2, RecoveryDecides DEF PushResolves, Decides, Reading
  <2> QED BY <2>1, <2>2
<1>4. ASSUME NEW p \in Pushes, PushLoads(p) PROVE RecoveryInv'
  <2>1. CASE Decides(p)
    BY <1>4, <2>1, RecoveryDecides DEF PushLoads, Reading
  <2>2. CASE Become(p, [push[p] EXCEPT !.pc = "store", !.shared = saved["shared"]])
    <3>1. /\ push[p].pc = "load" /\ push'[p].pc = "store"
          /\ push'[p].prev = push[p].prev /\ push'[p].v = push[p].v
      BY <1>4, <2>2, PushRecords, BecomeFacts DEF PushLoads
    <3> QED BY <1>4, <3>1, RecoveryGoes DEF PushLoads, Reading
  <2> QED BY <1>4, <2>1, <2>2 DEF PushLoads, Decides
<1>5. ASSUME NEW p \in Pushes, PushStores(p) \/ EvaluationFails(p) PROVE RecoveryInv'
  BY <1>5, RecoveryDecides DEF PushStores, EvaluationFails, Decides, Reading
<1>6. ASSUME NEW p \in Pushes, PushEndsSilently(p) PROVE RecoveryInv'
  <2>1. push[p].pc = "silent" /\ push'[p].pc = "levels" /\ push'[p].plan = push[p].plan
    BY <1>6, GotoFacts DEF PushEndsSilently
  <2> QED BY <1>6, <2>1, RecoveryGoes DEF PushEndsSilently, Deciding
<1>7. ASSUME NEW p \in Pushes, PushWritesLevels(p) PROVE RecoveryInv'
  BY <1>7, RecoveryWrites
<1>8. ASSUME NEW p \in Pushes, PushNotifies(p) \/ MessageFails(p) PROVE RecoveryInv'
  <2>1. push'[p].pc = "bell"
    BY <1>8, GotoFacts DEF PushNotifies, MessageFails
  <2>2. push[p].pc = "notify" /\ UNCHANGED <<row, standing>> /\ RecoversSoundly(push[p])
    BY <1>8 DEF PushNotifies, MessageFails, RecoveryInv
  <2>3. LastReport /\ (Stored \in Bad => standing # {})
    BY <2>2 DEF RecoversSoundly
  <2>4. BadLevelPersists'
    BY <2>2, <2>3 DEF BadLevelPersists, LastReport, Persists, Stored
  <2>5. RecoversSoundly(push[p])'
    BY <2>1 DEF RecoversSoundly, Reading, Deciding
  <2> QED BY <2>4, <2>5, RecoveryPush
<1>9. ASSUME NEW p \in Pushes, PushRings(p) \/ PushTriggers(p) PROVE RecoveryInv'
  <2>1. push'[p].pc \in {"trigger", "idle"}
    BY <1>9, GotoFacts DEF PushRings, PushTriggers, AfterBell
  <2> QED BY <1>9, <2>1, RecoveryGoes DEF PushRings, PushTriggers
<1>10. ASSUME NEW p \in Pushes, BellFails(p) PROVE RecoveryInv'
  <2>1. CASE push[p].pc = "silent"
    <3>1. push'[p].pc = "levels" /\ push'[p].plan = push[p].plan
      BY <1>10, <2>1, GotoFacts DEF BellFails
    <3> QED BY <1>10, <2>1, <3>1, RecoveryGoes DEF BellFails, Deciding
  <2>2. CASE push[p].pc # "silent"
    <3>1. push'[p].pc \in {"trigger", "idle"}
      BY <1>10, <2>2, GotoFacts DEF BellFails, AfterBell
    <3> QED BY <1>10, <3>1, RecoveryGoes DEF BellFails
  <2> QED BY <2>1, <2>2
<1>11. CASE \/ \E l \in Layers, s \in Switches, x \in {"unset", "on", "off"} : SaveSwitch(l, s, x)
            \/ AfterSave \/ CacheExpires \/ UNCHANGED vars
  <2>1. UNCHANGED <<push, row, standing, ended>>
    BY <1>11 DEF SaveSwitch, AfterSave, CacheExpires, vars
  <2> QED BY <2>1, RecoveryRest
<1>12. CASE SetMetricAlertsEnabled
  <2>1. row'.alert = row.alert /\ row'.level = row.level /\ row'.latest = row.latest
    BY <1>12 DEF SetMetricAlertsEnabled, TypeOK, Row
  <2> QED BY <1>12, <2>1, RecoveryRest DEF SetMetricAlertsEnabled
<1>13. CASE \/ JobStarts \/ JobReadsRows \/ JobResolves \/ JobLoads \/ JobStores
            \/ JobResolvesBell \/ JobFails
  <2>1. UNCHANGED <<push, row, standing, ended>>
    BY <1>13 DEF JobStarts, JobReadsRows, JobResolves, JobLoads, JobStores, JobResolvesBell, JobFails
  <2> QED BY <2>1, RecoveryRest
<1>14. CASE JobLowers
  BY <1>14, RecoveryLowers
<1>15. CASE ServerCrash
  <2>1. /\ \A p \in Pushes : push'[p].pc = "idle"
        /\ UNCHANGED <<row, standing, ended>>
    BY <1>15 DEF ServerCrash, IdlePush
  <2>2. BadLevelPersists'
    BY <2>1 DEF RecoveryInv, BadLevelPersists, Persists, Stored
  <2>3. \A p \in Pushes : RecoversSoundly(push[p])'
    BY <2>1 DEF RecoversSoundly, Reading, Deciding
  <2> QED BY <2>2, <2>3 DEF RecoveryInv
<1>16. ASSUME NEW p \in Pushes, PushFails(p) PROVE RecoveryInv'
  <2>1. push'[p].pc = "idle" /\ UNCHANGED <<row, standing, ended>>
    BY <1>16, GotoFacts DEF PushFails
  <2>2. BadLevelPersists'
    BY <2>1 DEF RecoveryInv, BadLevelPersists, Persists, Stored
  <2>3. RecoversSoundly(push[p])'
    BY <2>1 DEF RecoversSoundly, Reading, Deciding
  <2> QED BY <2>2, <2>3, RecoveryPush
<1> QED
  BY <1>1, <1>2, <1>3, <1>4, <1>5, <1>6, <1>7, <1>8, <1>9, <1>10, <1>11, <1>12, <1>13, <1>14,
     <1>15, <1>16 DEF Next, PushStep, JobStep

\* Pushes served one at a time never send a "back to normal" unless a breach has ended
\* that no earlier push accounted for: muting a breaching metric never sends one,
\* whatever the caches held and wherever the process died.
THEOREM NoFalseBackToNormal == OneAtATime => (Spec => NoFalseRecovery)
<1> SUFFICES ASSUME OneAtATime PROVE Spec => NoFalseRecovery
  OBVIOUS
<1>1. Init => AnnouncedInv /\ RecoveryInv
  <2> SUFFICES ASSUME Init PROVE AnnouncedInv /\ RecoveryInv
    OBVIOUS
  <2>1. AnnouncedInv
    BY DEF Init, AnnouncedInv, Stored, Coalesce, NoRow, IdlePush, IdleJob, Bad, Reading, Deciding
  <2>2. BadLevelPersists
    BY DEF Init, BadLevelPersists, Stored, Coalesce, NoRow, Bad
  <2>3. \A p \in Pushes : push[p].pc = "idle"
    BY DEF Init, IdlePush
  <2>4. \A p \in Pushes : RecoversSoundly(push[p])
    BY <2>3 DEF RecoversSoundly, Reading, Deciding
  <2> QED BY <2>1, <2>2, <2>4 DEF RecoveryInv
<1>2. TypeOK /\ AnnouncedInv /\ RecoveryInv /\ [Next]_vars => AnnouncedInv' /\ RecoveryInv'
  BY AnnouncedStep, RecoveryStep
<1>3. RecoveryInv => \A p \in Pushes : PushNotifies(p) /\ notice' = "recovery" => ended
  BY DEF RecoveryInv, RecoversSoundly, PushNotifies
<1>4. RecoveryInv /\ [Next]_vars =>
        [\A p \in Pushes : PushNotifies(p) /\ notice' = "recovery" => ended]_vars
  BY <1>3
<1> QED BY <1>1, <1>2, <1>4, MetricTypes, PTL DEF Spec, NoFalseRecovery

-----------------------------------------------------------------------------
(* The bell follows the level *)

\* While a push is in flight the job is not about to clear the bell.
LEMMA BellBusy ==
    ASSUME BellInv, ~excused, NEW p \in Pushes
    PROVE  BellSound(push[p]) /\ (push[p].pc # "idle" => job.pc # "bell")
BY DEF BellInv, BellCore, Quiet

\* A step of the only push p.
LEMMA BellPush ==
    ASSUME OneAtATime, NEW p \in Pushes, UNCHANGED job,
           ~excused' => /\ job.pc # "bell"
                        /\ BellSound(push[p])'
                        /\ push'[p].pc = "idle" => Suits(bell, Stored)'
    PROVE  BellInv'
<1> SUFFICES ASSUME ~excused' PROVE BellCore'
  BY DEF BellInv
<1>1. \A q \in Pushes : q = p
  BY DEF OneAtATime
<1>2. \A q \in Pushes : BellSound(push[q])'
  BY <1>1
<1>3. Quiet' => Suits(bell, Stored)'
  BY DEF Quiet
<1> QED BY <1>2, <1>3 DEF BellCore

\* A step of anybody else that leaves the levels and the bell.
LEMMA BellRest ==
    ASSUME BellInv, UNCHANGED <<push, bell>>, row'.alert = row.alert, row'.level = row.level,
           ~excused' => ~excused /\ (job'.pc = "bell" <=> job.pc = "bell")
    PROVE  BellInv'
<1> SUFFICES ASSUME ~excused' PROVE BellCore'
  BY DEF BellInv
<1>1. BellCore /\ Stored' = Stored /\ Quiet' = Quiet
  BY DEF BellInv, Stored, Quiet
<1>2. \A p \in Pushes : BellSound(push[p])'
  BY <1>1 DEF BellCore, BellSound, FinalBell, FinalLevel
<1> QED BY <1>1, <1>2 DEF BellCore

\* A push that reads goes on and leaves the levels and the bell.
LEMMA BellGoes ==
    ASSUME OneAtATime, BellInv, NEW p \in Pushes, UNCHANGED <<job, bell, excused>>,
           row'.alert = row.alert, row'.level = row.level,
           push[p].pc \in Reading, push'[p].pc \in Reading, push'[p].prev = push[p].prev
    PROVE  BellInv'
<1>1. Stored' = Stored /\ push[p].pc # "idle" /\ push'[p].pc # "idle"
  BY DEF Stored, Reading
<1>2. ~excused' => job.pc # "bell" /\ BellSound(push[p])
  BY <1>1, BellBusy
<1>3. ~excused' => BellSound(push[p])'
  BY <1>1, <1>2 DEF BellSound, Reading, Deciding
<1> QED BY <1>1, <1>2, <1>3, BellPush

\* A push decides: the message and the silent end it plans give the bell that suits
\* the level it plans.
LEMMA BellDecides ==
    ASSUME OneAtATime, TypeOK, BellInv, NEW p \in Pushes, push[p].pc \in Reading, Decides(p),
           UNCHANGED <<row, job, bell, excused>>
    PROVE  BellInv'
<1> DEFINE prev == push[p].prev
<1>1. prev \in Row /\ row \in Row /\ bell \in Levels
  BY DEF TypeOK, Push
<1>2. push[p].pc # "idle" /\ Stored' = Stored
  BY DEF Reading, Stored
<1>3. ASSUME ~excused
      PROVE  /\ job.pc # "bell" /\ Suits(bell, Stored) /\ prev.alert = row.alert
             /\ StoredOf(prev) = Stored /\ Stored \in MaybeLevel
  <2>1. job.pc # "bell" /\ BellSound(push[p])
    BY <1>2, <1>3, BellBusy
  <2>2. Suits(bell, Stored) /\ prev.alert = row.alert /\ prev.level = row.level
    BY <2>1 DEF BellSound
  <2> QED BY <1>1, <2>1, <2>2 DEF StoredOf, Stored, Coalesce, Row
<1>4. ASSUME NEW plan \in Plan, Become(p, Decided(plan)), NEW level,
             plan.alert \in {"null", level}, plan.alert = "null" => prev.alert = level,
             level # "null",
             ~excused => Suits(IF plan.notify = "alert" THEN plan.severity
                               ELSE IF plan.notify = "recovery" \/ plan.silent THEN "ok" ELSE bell,
                               level)
      PROVE  BellInv'
  <2>1. push'[p].pc = "silent" /\ push'[p].plan = plan
    BY <1>4, DecidedFacts, BecomeFacts
  <2>2. ~excused => FinalLevel(push[p])' = level
    BY <1>3, <1>4, <2>1 DEF FinalLevel, Coalesce
  <2>3. FinalBell(push[p])' = IF plan.notify = "alert" THEN plan.severity
                              ELSE IF plan.notify = "recovery" \/ plan.silent THEN "ok" ELSE bell
    BY <2>1 DEF FinalBell
  <2>4. ~excused => BellSound(push[p])'
    BY <1>2, <1>3, <1>4, <2>1, <2>2, <2>3 DEF BellSound, Reading, Deciding
  <2> QED BY <1>3, <2>1, <2>4, BellPush
<1>5. CASE Become(p, Decided(UnevaluatedPlan(prev)))
  <2> DEFINE plan == UnevaluatedPlan(prev)
  <2>1. /\ plan \in Plan
        /\ plan.notify = "none"
        /\ plan.alert \in {"null", "ok"}
        /\ plan.alert = "null" => prev.alert = "ok"
        /\ plan.silent <=> StoredOf(prev) \in Bad
    BY <1>1, UnevaluatedFacts
  <2>2. Become(p, Decided(plan))
    BY <1>5
  <2> HIDE DEF plan
  <2>3. ~excused => Suits(IF plan.silent THEN "ok" ELSE bell, "ok")
    BY <1>3, <2>1 DEF Suits, Bad, MaybeLevel, Levels
  <2>4. ~excused => Suits(IF plan.notify = "alert" THEN plan.severity
                          ELSE IF plan.notify = "recovery" \/ plan.silent THEN "ok" ELSE bell, "ok")
    BY <2>1, <2>3
  <2> QED BY <1>4, <2>1, <2>2, <2>4
<1>6. ASSUME NEW shared, NEW own, Decide(p, shared, own) PROVE BellInv'
  <2>1. PICK v, on : /\ on \in SUBSET Metrics
                     /\ Become(p, Decided(EvaluatedPlan(prev, v, on)))
    BY <1>6, DecideFacts
  <2> DEFINE plan == EvaluatedPlan(prev, v, on)
             alert == WorstLevel(v, on)
  <2>2. /\ plan \in Plan
        /\ plan.alert \in {"null", alert}
        /\ plan.alert = "null" => prev.alert = alert
        /\ plan.notify = "alert" => alert \in Bad /\ plan.severity = alert
        /\ plan.notify = "recovery" => alert = "ok"
        /\ plan.notify = "none" /\ alert \in Bad =>
              StoredOf(prev) \in Bad /\ METRIC_SEVERITY[alert] <= METRIC_SEVERITY[StoredOf(prev)]
        /\ plan.notify = "none" /\ plan.silent => alert = "ok"
        /\ plan.notify = "none" /\ alert = "ok" /\ ~plan.silent => StoredOf(prev) \in {"ok", "null"}
    BY <1>1, <2>1, PlanFacts
  <2>3. alert \in Levels
    BY WorstType
  <2>4. Become(p, Decided(plan))
    BY <2>1
  <2> HIDE DEF plan, alert
  <2>5. plan.notify \in {"none", "alert", "recovery"}
    BY <2>2 DEF Plan
  <2>6. ASSUME ~excused
        PROVE  Suits(IF plan.notify = "alert" THEN plan.severity
                     ELSE IF plan.notify = "recovery" \/ plan.silent THEN "ok" ELSE bell, alert)
    <3>1. CASE plan.notify = "alert"
      BY <2>2, <3>1, Severity DEF Suits, Bad
    <3>2. CASE plan.notify = "recovery"
      BY <2>2, <3>2 DEF Suits, Bad
    <3>3. CASE plan.notify = "none" /\ alert \in Bad
      <4>1. ~plan.silent
        BY <2>2, <3>3 DEF Bad
      <4>2. METRIC_SEVERITY[bell] >= METRIC_SEVERITY[StoredOf(prev)]
        BY <1>3, <2>2, <2>6, <3>3 DEF Suits
      <4>3. METRIC_SEVERITY[bell] >= METRIC_SEVERITY[alert]
        BY <1>1, <2>2, <2>3, <3>3, <4>2, Severity DEF Bad, Levels
      <4> QED BY <3>3, <4>1, <4>3 DEF Suits, Bad
    <3>4. CASE plan.notify = "none" /\ alert \notin Bad
      <4>1. alert = "ok"
        BY <2>3, <3>4 DEF Levels, Bad
      <4>2. ~plan.silent => bell = "ok"
        BY <1>3, <2>2, <2>6, <3>4, <4>1 DEF Suits
      <4> QED BY <3>4, <4>1, <4>2 DEF Suits, Bad
    <3> QED BY <2>5, <3>1, <3>2, <3>3, <3>4
  <2> QED BY <1>4, <2>2, <2>3, <2>4, <2>6 DEF Levels
<1> QED BY <1>5, <1>6 DEF Decides

\* The incident ends silently, as the push planned.
LEMMA BellEndsSilently ==
    ASSUME OneAtATime, TypeOK, BellInv, NEW p \in Pushes, PushEndsSilently(p)
    PROVE  BellInv'
<1>1. push[p].pc = "silent" /\ push'[p].pc = "levels" /\ push'[p].plan = push[p].plan
  BY GotoFacts DEF PushEndsSilently
<1>2. /\ UNCHANGED <<row, job, excused>>
      /\ bell' = IF push[p].plan.silent THEN "ok" ELSE bell
  BY DEF PushEndsSilently, history
<1>3. FinalBell(push[p])' = FinalBell(push[p]) /\ FinalLevel(push[p])' = FinalLevel(push[p])
  BY <1>1, <1>2 DEF FinalBell, FinalLevel
<1>4. ~excused => job.pc # "bell" /\ BellSound(push[p])
  BY <1>1, BellBusy
<1>5. ~excused => BellSound(push[p])'
  BY <1>1, <1>3, <1>4 DEF BellSound, Reading, Deciding
<1> QED BY <1>1, <1>2, <1>4, <1>5, BellPush

\* The level catches up with the plan.
LEMMA BellWrites ==
    ASSUME OneAtATime, TypeOK, AnnouncedInv, BellInv, NEW p \in Pushes, PushWritesLevels(p)
    PROVE  BellInv'
<1> DEFINE plan == push[p].plan
<1>1. push[p].pc = "levels" /\ PlanAnnounces(push[p]) /\ UNCHANGED <<job, bell, excused>>
  BY DEF PushWritesLevels, AnnouncedInv, Deciding
<1>2. row'.alert = FinalLevel(push[p])
  BY WrittenRow DEF FinalLevel
<1>3. Stored' = FinalLevel(push[p])
  BY <1>1, <1>2 DEF Stored, FinalLevel, PlanAnnounces, Coalesce
<1>4. /\ push'[p].pc = IF plan.notify # "none" THEN "notify" ELSE AfterBell(plan)
      /\ plan.notify # "none" => push'[p].plan = plan
  BY GotoFacts DEF PushWritesLevels, AfterBell
<1>5. ASSUME ~excused PROVE job.pc # "bell" /\ Suits(FinalBell(push[p]), Stored')
  BY <1>1, <1>3, <1>5, BellBusy DEF BellSound, Deciding
<1>6. CASE plan.notify # "none"
  <2>1. push'[p].pc = "notify" /\ push'[p].plan = plan
    BY <1>4, <1>6
  <2>2. FinalBell(push[p])' = FinalBell(push[p])
    BY <1>1, <2>1 DEF FinalBell
  <2>3. ~excused => BellSound(push[p])'
    BY <1>5, <1>6, <2>1, <2>2 DEF BellSound, Reading, Deciding
  <2> QED BY <1>1, <1>5, <2>1, <2>3, BellPush
<1>7. CASE plan.notify = "none"
  <2>1. push'[p].pc \in {"trigger", "idle"}
    BY <1>4, <1>7 DEF AfterBell
  <2>2. FinalBell(push[p]) = bell
    BY <1>1, <1>7 DEF FinalBell
  <2>3. ~excused => Suits(bell, Stored)'
    BY <1>1, <1>5, <2>2
  <2>4. ~excused => BellSound(push[p])'
    BY <2>1, <2>3 DEF BellSound, Reading, Deciding
  <2> QED BY <1>1, <1>5, <2>3, <2>4, BellPush
<1> QED BY <1>6, <1>7

\* The job lowers the level of a device no push is working on; at ok it clears the bell next.
LEMMA BellLowers ==
    ASSUME TypeOK, AnnouncedInv, BellInv, JobLowers
    PROVE  BellInv'
<1> SUFFICES ASSUME ~excused' PROVE BellInv'
  BY DEF BellInv
<1>1. /\ job.pc = "lower" /\ job.prev \in Bad /\ job.next \in Levels
      /\ METRIC_SEVERITY[job.next] < METRIC_SEVERITY[job.prev]
      /\ UNCHANGED <<push, bell>> /\ ~excused
  BY DEF JobLowers, AnnouncedInv
<1>2. IdleJob.pc = "idle" /\ [IdleJob EXCEPT !.pc = "bell"].pc = "bell"
  BY DEF IdleJob
<1>3. CASE Stored # job.prev
  <2>1. row' = row /\ job' = IdleJob
    BY <1>3 DEF JobLowers
  <2> QED BY <1>1, <1>2, <2>1, BellRest
<1>4. CASE Stored = job.prev
  <2>1. row'.alert = job.next
    BY <1>4, LoweredRow DEF JobLowers
  <2>2. Stored' = job.next
    BY <1>1, <2>1 DEF Stored, Coalesce, Levels
  <2>3. Quiet /\ Quiet'
    BY <1>1, <1>4 DEF JobLowers, Quiet
  <2>4. Suits(bell, Stored) /\ bell \in Levels
    BY <1>1, <2>3 DEF BellInv, BellCore, TypeOK
  <2>5. job'.pc = IF job.next = "ok" THEN "bell" ELSE "idle"
    BY <1>2, <1>4 DEF JobLowers
  <2>6. METRIC_SEVERITY[bell] >= METRIC_SEVERITY[job.prev]
    BY <1>1, <1>4, <2>4 DEF Suits
  <2>7. METRIC_SEVERITY[bell] >= METRIC_SEVERITY[job.next]
    BY <1>1, <2>4, <2>6, Severity DEF Bad, Levels
  <2>8. job.next # "ok" => Suits(bell, job.next)
    BY <1>1, <2>7 DEF Suits, Levels, Bad
  <2>9. \A p \in Pushes : BellSound(push[p])'
    BY <2>3 DEF Quiet, BellSound, Reading, Deciding
  <2> QED BY <1>1, <2>2, <2>3, <2>5, <2>8, <2>9 DEF BellInv, BellCore
<1> QED BY <1>3, <1>4

\* No step leaves the bell behind the level, races and faults excepted.
LEMMA BellStep ==
    ASSUME OneAtATime, TypeOK, AnnouncedInv, BellInv, [Next]_vars
    PROVE  BellInv'
<1> USE DEF history
<1>1. ASSUME NEW p \in Pushes, NEW v \in Readings, PushReads(p, v) PROVE BellInv'
  <2>1. push'[p].pc = "touch" /\ push'[p].prev = row
    BY <1>1, ReadsFacts
  <2>2. /\ push[p].pc = "idle" /\ UNCHANGED <<row, job, bell>>
        /\ ~excused' => ~excused /\ job.pc # "bell"
    BY <1>1 DEF PushReads
  <2>3. Quiet /\ Stored' = Stored
    BY <2>2 DEF OneAtATime, Quiet, Stored
  <2>4. ~excused' => Suits(bell, Stored)
    BY <2>2, <2>3 DEF BellInv, BellCore
  <2>5. ~excused' => BellSound(push[p])'
    BY <2>1, <2>2, <2>3, <2>4 DEF BellSound, Reading, Deciding
  <2> QED BY <2>1, <2>2, <2>5, BellPush
<1>2. ASSUME NEW p \in Pushes, PushTouches(p) PROVE BellInv'
  <2>1. push[p].pc = "touch" /\ push'[p].pc = "resolve" /\ push'[p].prev = push[p].prev
    BY <1>2, GotoFacts DEF PushTouches
  <2>2. row'.alert = row.alert /\ row'.level = row.level
    BY <1>2 DEF PushTouches, TypeOK, Row
  <2> QED BY <1>2, <2>1, <2>2, BellGoes DEF PushTouches, Reading
<1>3. ASSUME NEW p \in Pushes, PushResolves(p) PROVE BellInv'
  <2>1. CASE push[p].prev.enabled
    <3>1. push[p].pc = "resolve" /\ push'[p].pc = "load" /\ push'[p].prev = push[p].prev
      BY <1>3, <2>1, PushRecords, BecomeFacts, ZenonT(40) DEF PushResolves
    <3> QED BY <1>3, <3>1, BellGoes DEF PushResolves, Reading
  <2>2. CASE ~push[p].prev.enabled
    BY <1>3, <2>2, BellDecides DEF PushResolves, Decides, Reading
  <2> QED BY <2>1, <2>2
<1>4. ASSUME NEW p \in Pushes, PushLoads(p) PROVE BellInv'
  <2>1. CASE Decides(p)
    BY <1>4, <2>1, BellDecides DEF PushLoads, Reading
  <2>2. CASE Become(p, [push[p] EXCEPT !.pc = "store", !.shared = saved["shared"]])
    <3>1. push[p].pc = "load" /\ push'[p].pc = "store" /\ push'[p].prev = push[p].prev
      BY <1>4, <2>2, PushRecords, BecomeFacts DEF PushLoads
    <3> QED BY <1>4, <3>1, BellGoes DEF PushLoads, Reading
  <2> QED BY <1>4, <2>1, <2>2 DEF PushLoads, Decides
<1>5. ASSUME NEW p \in Pushes, PushStores(p) \/ EvaluationFails(p) PROVE BellInv'
  BY <1>5, BellDecides DEF PushStores, EvaluationFails, Decides, Reading
<1>6. ASSUME NEW p \in Pushes, PushEndsSilently(p) PROVE BellInv'
  BY <1>6, BellEndsSilently
<1>7. ASSUME NEW p \in Pushes, PushWritesLevels(p) PROVE BellInv'
  BY <1>7, BellWrites
<1>8. ASSUME NEW p \in Pushes, PushNotifies(p) \/ MessageFails(p) PROVE BellInv'
  <2>1. push'[p].pc = "bell" /\ push'[p].plan = push[p].plan
    BY <1>8, GotoFacts DEF PushNotifies, MessageFails
  <2>2. push[p].pc = "notify" /\ UNCHANGED <<row, job, bell, excused>>
    BY <1>8 DEF PushNotifies, MessageFails
  <2>3. ~excused => job.pc # "bell" /\ BellSound(push[p])
    BY <2>2, BellBusy
  <2>4. FinalBell(push[p])' = FinalBell(push[p]) /\ Stored' = Stored
    BY <2>1, <2>2 DEF FinalBell, Stored
  <2>5. ~excused => BellSound(push[p])'
    BY <2>1, <2>2, <2>3, <2>4 DEF BellSound, Reading, Deciding
  <2> QED BY <2>1, <2>2, <2>3, <2>5, BellPush
<1>9. ASSUME NEW p \in Pushes, PushRings(p) PROVE BellInv'
  <2>1. push[p].pc = "bell" /\ push'[p].pc \in {"trigger", "idle"}
    BY <1>9, GotoFacts DEF PushRings, AfterBell
  <2>2. /\ UNCHANGED <<row, job, excused>>
        /\ bell' = IF push[p].plan.notify = "recovery" THEN "ok" ELSE push[p].plan.severity
    BY <1>9 DEF PushRings
  <2>3. push[p].plan.notify \in {"none", "alert", "recovery"}
    BY DEF TypeOK, Push, Plan
  <2>4. ~excused => /\ job.pc # "bell" /\ push[p].plan.notify # "none"
                    /\ Suits(FinalBell(push[p]), Stored)
    BY <2>1, BellBusy DEF BellSound
  <2>5. ~excused => bell' = FinalBell(push[p])
    BY <2>1, <2>2, <2>3, <2>4 DEF FinalBell
  <2>6. ~excused => Suits(bell, Stored)'
    BY <2>2, <2>4, <2>5 DEF Stored
  <2>7. ~excused => BellSound(push[p])'
    BY <2>1, <2>6 DEF BellSound, Reading, Deciding
  <2> QED BY <2>2, <2>4, <2>6, <2>7, BellPush
<1>10. ASSUME NEW p \in Pushes, PushTriggers(p) PROVE BellInv'
  <2>1. push[p].pc = "trigger" /\ push'[p].pc = "idle" /\ UNCHANGED <<row, job, bell, excused>>
    BY <1>10, GotoFacts DEF PushTriggers
  <2>2. ~excused => job.pc # "bell" /\ Suits(bell, Stored)'
    BY <2>1, BellBusy DEF BellSound, Stored
  <2>3. BellSound(push[p])'
    BY <2>1 DEF BellSound, Reading, Deciding
  <2> QED BY <2>1, <2>2, <2>3, BellPush
<1>11. ASSUME NEW p \in Pushes, BellFails(p) PROVE BellInv'
  BY <1>11 DEF BellFails, BellInv
<1>12. CASE \/ \E l \in Layers, s \in Switches, x \in {"unset", "on", "off"} : SaveSwitch(l, s, x)
            \/ AfterSave \/ CacheExpires \/ UNCHANGED vars
  <2>1. UNCHANGED <<push, job, row, bell, excused>>
    BY <1>12 DEF SaveSwitch, AfterSave, CacheExpires, vars
  <2> QED BY <2>1, BellRest
<1>13. CASE SetMetricAlertsEnabled
  <2>1. row'.alert = row.alert /\ row'.level = row.level
    BY <1>13 DEF SetMetricAlertsEnabled, TypeOK, Row
  <2> QED BY <1>13, <2>1, BellRest DEF SetMetricAlertsEnabled
<1>14. CASE JobStarts \/ JobReadsRows \/ JobResolves \/ JobFails
  <2>1. job \in Job /\ IdleJob.pc = "idle"
    BY DEF TypeOK, IdleJob
  <2>2. UNCHANGED <<push, row, bell>>
    BY <1>14 DEF JobStarts, JobReadsRows, JobResolves, JobFails
  <2>3. ~excused' => ~excused /\ job.pc # "bell"
    BY <1>14 DEF JobStarts, JobReadsRows, JobResolves, JobFails
  <2>4. job'.pc # "bell"
    BY <1>14, <2>1 DEF JobStarts, JobReadsRows, JobResolves, JobFails, JobGoto, JobEnds, Job
  <2> QED BY <2>2, <2>3, <2>4, BellRest
<1>15. CASE JobLoads \/ JobStores
  <2>1. UNCHANGED <<push, row, bell, excused>> /\ job.pc # "bell"
    BY <1>15 DEF JobLoads, JobStores
  <2>2. ASSUME NEW shared, NEW own, JobDecides(shared, own) PROVE job'.pc # "bell"
    BY <2>2, JobDecidesFacts
  <2>3. ASSUME job' = [job EXCEPT !.pc = "store", !.shared = saved["shared"]] PROVE job'.pc # "bell"
    BY <2>3 DEF TypeOK, Job
  <2>4. job'.pc # "bell"
    BY <1>15, <2>2, <2>3 DEF JobLoads, JobStores
  <2> QED BY <2>1, <2>4, BellRest
<1>16. CASE JobLowers
  BY <1>16, BellLowers
<1>17. CASE JobResolvesBell
  <2>1. /\ job.pc = "bell" /\ bell' = "ok" /\ job'.pc = "idle"
        /\ UNCHANGED <<push, row, excused>>
    BY <1>17 DEF JobResolvesBell, JobEnds, IdleJob
  <2>2. ~excused => Quiet /\ Quiet' /\ Stored' = "ok"
    BY <2>1 DEF BellInv, BellCore, Quiet, Stored
  <2>3. ~excused => \A p \in Pushes : BellSound(push[p])'
    BY <2>2 DEF Quiet, BellSound, Reading, Deciding
  <2>4. Suits("ok", "ok")
    BY DEF Suits, Bad
  <2> QED BY <2>1, <2>2, <2>3, <2>4 DEF BellInv, BellCore
<1>18. CASE ServerCrash
  <2> SUFFICES ASSUME ~excused' PROVE BellCore'
    BY DEF BellInv
  <2>1. /\ \A p \in Pushes : push'[p].pc = "idle"
        /\ job'.pc = "idle" /\ UNCHANGED <<row, bell>>
        /\ ~excused /\ job.pc # "bell"
        /\ \A p \in Pushes : push[p].pc \notin {"levels", "notify", "bell"}
    BY <1>18 DEF ServerCrash, IdlePush, IdleJob
  <2>2. Suits(bell, Stored)
    <3>1. CASE Quiet
      BY <2>1, <3>1 DEF BellInv, BellCore
    <3>2. ASSUME NEW p \in Pushes, push[p].pc # "idle" PROVE Suits(bell, Stored)
      <4>1. push[p].pc \in Reading \cup {"silent", "trigger"}
        BY <2>1, <3>2 DEF TypeOK, Push, Reading
      <4> QED BY <2>1, <4>1, BellBusy DEF BellSound
    <3> QED BY <3>1, <3>2 DEF Quiet
  <2>3. Suits(bell, Stored)'
    BY <2>1, <2>2 DEF Stored
  <2>4. \A p \in Pushes : BellSound(push[p])'
    BY <2>1 DEF BellSound, Reading, Deciding
  <2> QED BY <2>1, <2>3, <2>4 DEF BellCore
<1>19. ASSUME NEW p \in Pushes, PushFails(p) PROVE BellInv'
  <2>1. push'[p].pc = "idle" /\ UNCHANGED <<row, job, bell>>
    BY <1>19, GotoFacts DEF PushFails
  <2>2. /\ push[p].pc \in {"touch", "resolve", "silent", "levels", "notify"}
        /\ ~excused' => ~excused /\ push[p].pc \notin {"levels", "notify"}
    BY <1>19 DEF PushFails
  <2>3. ~excused' => job.pc # "bell" /\ Suits(bell, Stored)'
    BY <2>1, <2>2, BellBusy DEF BellSound, Reading, Stored
  <2>4. BellSound(push[p])'
    BY <2>1 DEF BellSound, Reading, Deciding
  <2> QED BY <2>1, <2>2, <2>3, <2>4, BellPush
<1> QED
  BY <1>1, <1>2, <1>3, <1>4, <1>5, <1>6, <1>7, <1>8, <1>9, <1>10, <1>11, <1>12, <1>13, <1>14,
     <1>15, <1>16, <1>17, <1>18, <1>19 DEF Next, PushStep, JobStep

\* Pushes served one at a time leave the metric incident open exactly while the stored
\* level is bad, and at least as severe, unless a fault hit the bell or the job lowered
\* the level under a push.
THEOREM BellFollowsLevel == OneAtATime => (Spec => []BellMatchesLevel)
<1> SUFFICES ASSUME OneAtATime PROVE Spec => []BellMatchesLevel
  OBVIOUS
<1>1. Init => AnnouncedInv /\ BellInv
  <2> SUFFICES ASSUME Init PROVE AnnouncedInv /\ BellInv
    OBVIOUS
  <2>1. AnnouncedInv
    BY DEF Init, AnnouncedInv, Stored, Coalesce, NoRow, IdlePush, IdleJob, Bad, Reading, Deciding
  <2>2. /\ \A p \in Pushes : push[p].pc = "idle"
        /\ job.pc = "idle" /\ bell = "ok" /\ Stored = "null"
    BY DEF Init, IdlePush, IdleJob, NoRow, Stored, Coalesce
  <2>3. Suits(bell, Stored)
    BY <2>2 DEF Suits, Bad
  <2>4. \A p \in Pushes : BellSound(push[p])
    BY <2>2 DEF BellSound, Reading, Deciding
  <2> QED BY <2>1, <2>2, <2>3, <2>4 DEF BellInv, BellCore
<1>2. TypeOK /\ AnnouncedInv /\ BellInv /\ [Next]_vars => AnnouncedInv' /\ BellInv'
  BY AnnouncedStep, BellStep
<1>3. BellInv => BellMatchesLevel
  BY DEF BellInv, BellCore, BellMatchesLevel, Suits
<1> QED BY <1>1, <1>2, <1>3, MetricTypes, PTL DEF Spec

=============================================================================
