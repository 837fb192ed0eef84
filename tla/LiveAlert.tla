------------------------------- MODULE LiveAlert -------------------------------
(***************************************************************************)
(* The live alerts (web bell, mobile inbox): the live_alerts rows, and the *)
(* transactions that raise and resolve the incidents they belong to.       *)
(*                                                                         *)
(* An incident is one alert kind of one device.  A raise and a resolve of  *)
(* the same incident are serialised by an advisory lock on the hash of its *)
(* key; a resolve may take several locks.  Each action is one statement of *)
(* PostgreSQL (READ COMMITTED), and what a transaction writes is visible   *)
(* from its commit on.  Deletions of rows take no advisory lock.           *)
(***************************************************************************)
EXTENDS Integers, FiniteSets

CONSTANTS
    Incidents,   \* (kind, device) pairs
    Devices,
    DeviceOf,    \* [Incidents -> Devices]
    OfflineKind, \* the incidents of kind 'offline'
    Hash,        \* [Incidents -> Int]: hashtext of the lock key, not injective
    Tenants,
    Levels,      \* what a raise asks for: stable key and severity
    Tasks,       \* server tasks with a transaction on the alerts
    Keep,        \* rows kept per tenant by the trim (200 in the code)
    MaxId,       \* bound: rows inserted over the whole behaviour
    MaxFaults    \* bound: crashes of the server and failed transactions

NoTask == "noTask"

ASSUME LiveAlertAssumption ==
    /\ Incidents # {} /\ Tenants # {} /\ Levels # {}
    /\ IsFiniteSet(Tasks)
    /\ DeviceOf \in [Incidents -> Devices]
    /\ OfflineKind \subseteq Incidents
    /\ Hash \in [Incidents -> Int]
    /\ Keep \in Nat \ {0}
    /\ MaxId \in Nat
    /\ MaxFaults \in Nat
    /\ NoTask \notin Tasks

LockIds == {Hash[i] : i \in Incidents}

Ids == 1..MaxId

Alert == [st : {"none", "active", "resolved", "deleted"},
          inc : Incidents, tenant : Tenants, level : Levels]

Steps == {"idle", "lock", "check", "read", "insert", "commit", "resolve", "trim"}

\* A transaction: the incidents it is about, the locks it still has to take,
\* and (raise) whether the incident is open, the active rows it has read and
\* the id its INSERT got (0 = none).
Task == [pc : Steps, op : {"raise", "resolve"}, refs : SUBSET Incidents, want : SUBSET LockIds,
         inc : Incidents, tenant : Tenants, level : Levels,
         open : BOOLEAN, seen : SUBSET Ids, newId : Nat]

VARIABLES
    alert,   \* [Ids -> Alert]: the committed rows of live_alerts
    nextId,  \* the serial
    lock,    \* [LockIds -> Tasks \cup {NoTask}]: the advisory locks
    task,    \* [Tasks -> Task]
    exists,  \* the devices that have a row
    offline, \* the devices whose status is 'offline'
    buried,  \* history: incidents of a deleted device that were resolved since
    faults   \* history: faults so far

rowVars == <<alert, nextId>>
deviceVars == <<exists, offline>>
vars == <<alert, nextId, lock, task, exists, offline, buried, faults>>

NoAlert == [st |-> "none", inc |-> CHOOSE i \in Incidents : TRUE,
            tenant |-> CHOOSE n \in Tenants : TRUE, level |-> CHOOSE l \in Levels : TRUE]

IdleTask == [pc |-> "idle", op |-> "resolve", refs |-> {}, want |-> {},
             inc |-> CHOOSE i \in Incidents : TRUE, tenant |-> CHOOSE n \in Tenants : TRUE,
             level |-> CHOOSE l \in Levels : TRUE, open |-> FALSE, seen |-> {}, newId |-> 0]

Init ==
    /\ alert = [a \in Ids |-> NoAlert]
    /\ nextId = 1
    /\ lock = [h \in LockIds |-> NoTask]
    /\ task = [t \in Tasks |-> IdleTask]
    /\ exists = Devices
    /\ offline = {}
    /\ buried = {}
    /\ faults = 0

Idle(t) == task[t].pc = "idle"

Become(t, k) == task' = [task EXCEPT ![t] = k]

Active(a) == alert[a].st = "active"

Row(a) == alert[a].st \in {"active", "resolved"}

\* Row a is an active row of incident i.
ActiveOf(a, i) == Active(a) /\ alert[a].inc = i

Release(t) == lock' = [h \in LockIds |-> IF lock[h] = t THEN NoTask ELSE lock[h]]

\* The transaction is over and undone.
Abort(t) == Release(t) /\ Become(t, IdleTask)

SpendFault == faults < MaxFaults /\ faults' = faults + 1

-----------------------------------------------------------------------------
(* Transactions start *)

\* Variant: a transaction takes no lock.
LocksOfNone(refs) == {}

\* The lock ids of several incidents, without duplicates.
LocksOf(refs) == {Hash[i] : i \in refs}

BeginRaise(t, i, tenant, level) ==
    Become(t, [IdleTask EXCEPT !.pc = "lock", !.op = "raise", !.refs = {i}, !.want = LocksOf({i}),
                               !.inc = i, !.tenant = tenant, !.level = level])

BeginResolve(t, refs) ==
    Become(t, [IdleTask EXCEPT !.pc = "lock", !.op = "resolve", !.refs = refs, !.want = LocksOf(refs)])

\* add() with an incident key: the caller saw the problem some time ago.
Raise(t, i, tenant, level) ==
    /\ Idle(t)
    /\ BeginRaise(t, i, tenant, level)
    /\ UNCHANGED <<rowVars, lock, deviceVars, buried, faults>>

\* resolveIncidents: a recovery of one kind of one or several devices.
Resolve(t, refs) ==
    /\ Idle(t)
    /\ refs # {}
    /\ BeginResolve(t, refs)
    /\ UNCHANGED <<rowVars, lock, deviceVars, buried, faults>>

IncidentsOf(ds) == {i \in Incidents : DeviceOf[i] \in ds}

\* deleteDevice: the row goes, then every incident of the device is resolved.
DeleteDevice(t, d) ==
    /\ Idle(t)
    /\ d \in exists
    /\ exists' = exists \ {d}
    /\ offline' = offline \ {d}
    /\ BeginResolve(t, IncidentsOf({d}))
    /\ UNCHANGED <<rowVars, lock, buried, faults>>

\* The devices of active rows that have no row any more.
Orphans == {DeviceOf[alert[a].inc] : a \in {x \in Ids : Active(x)}} \ exists

\* Variant: the sweep looks at the offline rows only.
OrphanSweepOffline(t) ==
    /\ Idle(t)
    /\ Orphans # {}
    /\ BeginResolve(t, IncidentsOf(Orphans) \cap OfflineKind)
    /\ UNCHANGED <<rowVars, lock, deviceVars, buried, faults>>

\* resolveOrphanIncidents, from the periodic cleanOrphans.
OrphanSweep(t) ==
    /\ Idle(t)
    /\ Orphans # {}
    /\ BeginResolve(t, IncidentsOf(Orphans))
    /\ UNCHANGED <<rowVars, lock, deviceVars, buried, faults>>

\* The status column of a device becomes, or stops being, 'offline'.
StatusChanges(d) ==
    /\ d \in exists
    /\ offline' = IF d \in offline THEN offline \ {d} ELSE offline \cup {d}
    /\ UNCHANGED <<rowVars, lock, task, exists, buried, faults>>

-----------------------------------------------------------------------------
(* The locks *)

\* Variant: the locks are taken in whatever order they were listed.
AnyLock(t, h) == h \in task[t].want

\* ORDER BY hashtext: the smallest lock that is still missing comes next.
NextLock(t, h) == h \in task[t].want /\ \A g \in task[t].want : h <= g

\* pg_advisory_xact_lock: waits while another transaction holds the lock.
AcquireLock(t) ==
    /\ task[t].pc = "lock"
    /\ \E h \in task[t].want :
          /\ NextLock(t, h)
          /\ lock[h] = NoTask
          /\ lock' = [lock EXCEPT ![h] = t]
          /\ Become(t, [task[t] EXCEPT !.want = @ \ {h}])
    /\ UNCHANGED <<rowVars, deviceVars, buried, faults>>

\* Every lock is held: the first statement under the locks comes next.
LocksTaken(t) ==
    /\ task[t].pc = "lock"
    /\ task[t].want = {}
    /\ Become(t, [task[t] EXCEPT !.pc = IF task[t].op = "raise" THEN "check" ELSE "resolve"])
    /\ UNCHANGED <<rowVars, lock, deviceVars, buried, faults>>

-----------------------------------------------------------------------------
(* raiseIncident *)

\* Variant: no second look at the device.
CheckNothing(t) ==
    /\ task[t].pc = "check"
    /\ Become(t, [task[t] EXCEPT !.pc = "read", !.open = TRUE])
    /\ UNCHANGED <<rowVars, lock, deviceVars, buried, faults>>

\* Is the incident still open? The device is there and, for an offline alert, offline.
CheckDevice(t) ==
    LET d == DeviceOf[task[t].inc] IN
    /\ task[t].pc = "check"
    /\ Become(t, [task[t] EXCEPT !.pc = "read",
                     !.open = d \in exists /\ (task[t].inc \in OfflineKind => d \in offline)])
    /\ UNCHANGED <<rowVars, lock, deviceVars, buried, faults>>

\* The SELECT of the active rows of the incident, in any tenant.
ReadActive(t) ==
    /\ task[t].pc = "read"
    /\ Become(t, [task[t] EXCEPT !.pc = "insert", !.seen = {a \in Ids : ActiveOf(a, task[t].inc)}])
    /\ UNCHANGED <<rowVars, lock, deviceVars, buried, faults>>

\* A row that already says what the raise asks for.
Same(a, k) == alert[a].tenant = k.tenant /\ alert[a].level = k.level

\* The row that is kept: the newest of those, if the incident is open.
Kept(k) == {a \in k.seen : k.open /\ Same(a, k) /\ \A b \in k.seen : Same(b, k) => b <= a}

\* INSERT, when the incident is open and no row is kept: the serial moves now,
\* the row appears at the commit.
InsertRow(t) ==
    LET new == task[t].open /\ Kept(task[t]) = {} IN
    /\ task[t].pc = "insert"
    /\ new => nextId <= MaxId
    /\ nextId' = IF new THEN nextId + 1 ELSE nextId
    /\ Become(t, [task[t] EXCEPT !.pc = "commit", !.seen = @ \ Kept(task[t]), !.newId = IF new THEN nextId ELSE 0])
    /\ UNCHANGED <<alert, lock, deviceVars, buried, faults>>

\* The bound on the rows of the model is reached: the INSERT fails.
SerialExhausted(t) ==
    /\ task[t].pc = "insert"
    /\ task[t].open /\ Kept(task[t]) = {}
    /\ nextId > MaxId
    /\ Abort(t)
    /\ UNCHANGED <<rowVars, deviceVars, buried, faults>>

\* The commit: the stale rows are resolved, the new one appears, the lock goes.
CommitRaise(t) ==
    LET k == task[t] IN
    /\ k.pc = "commit"
    /\ alert' = [a \in Ids |->
          IF a = k.newId THEN [st |-> "active", inc |-> k.inc, tenant |-> k.tenant, level |-> k.level]
          ELSE IF a \in k.seen /\ Active(a) THEN [alert[a] EXCEPT !.st = "resolved"]
          ELSE alert[a]]
    /\ Release(t)
    /\ Become(t, IF k.newId = 0 THEN IdleTask ELSE [k EXCEPT !.pc = "trim"])
    /\ UNCHANGED <<nextId, deviceVars, buried, faults>>

\* ORDER BY (resolved_at IS NULL) DESC, id DESC: row b comes before row a.
TrimBefore(b, a) == (Active(b) /\ ~Active(a)) \/ (Active(b) = Active(a) /\ b > a)

\* Variant: one row too many is kept.
TrimmedOffByOne(tenant) ==
    {a \in Ids : /\ Row(a) /\ alert[a].tenant = tenant
                 /\ Cardinality({b \in Ids : Row(b) /\ alert[b].tenant = tenant /\ TrimBefore(b, a)}) > Keep}

\* The rows of a tenant outside the first Keep.
Trimmed(tenant) ==
    {a \in Ids : /\ Row(a) /\ alert[a].tenant = tenant
                 /\ Cardinality({b \in Ids : Row(b) /\ alert[b].tenant = tenant /\ TrimBefore(b, a)}) >= Keep}

Delete(as) == alert' = [a \in Ids |-> IF a \in as THEN [alert[a] EXCEPT !.st = "deleted"] ELSE alert[a]]

\* trimTenant, after the transaction and outside the locks.
TrimTenant(t) ==
    /\ task[t].pc = "trim"
    /\ Delete(Trimmed(task[t].tenant))
    /\ Become(t, IdleTask)
    /\ UNCHANGED <<nextId, lock, deviceVars, buried, faults>>

-----------------------------------------------------------------------------
(* resolveIncidentRefs, the UPDATE and the commit *)

CommitResolve(t) ==
    /\ task[t].pc = "resolve"
    /\ alert' = [a \in Ids |->
          IF Active(a) /\ alert[a].inc \in task[t].refs THEN [alert[a] EXCEPT !.st = "resolved"] ELSE alert[a]]
    /\ buried' = buried \cup {i \in task[t].refs : DeviceOf[i] \notin exists}
    /\ Release(t)
    /\ Become(t, IdleTask)
    /\ UNCHANGED <<nextId, deviceVars, faults>>

-----------------------------------------------------------------------------
(* Users, and the end of the process *)

DeleteAlert(a) ==
    /\ Row(a)
    /\ Delete({a})
    /\ UNCHANGED <<nextId, lock, task, deviceVars, buried, faults>>

ClearAll(tenant) ==
    /\ \E a \in Ids : Row(a) /\ alert[a].tenant = tenant
    /\ Delete({a \in Ids : Row(a) /\ alert[a].tenant = tenant})
    /\ UNCHANGED <<nextId, lock, task, deviceVars, buried, faults>>

\* A statement fails: the transaction is rolled back, the caller logs the error.
RollBack(t) ==
    /\ SpendFault
    /\ task[t].pc \notin {"idle", "trim"}
    /\ Abort(t)
    /\ UNCHANGED <<rowVars, deviceVars, buried>>

\* Open transactions are rolled back, their locks go, and no task resumes.
ServerCrash ==
    /\ SpendFault
    /\ task' = [t \in Tasks |-> IdleTask]
    /\ lock' = [h \in LockIds |-> NoTask]
    /\ UNCHANGED <<rowVars, deviceVars, buried>>

-----------------------------------------------------------------------------

Start(t) ==
    \/ \E i \in Incidents, tenant \in Tenants, level \in Levels : Raise(t, i, tenant, level)
    \/ \E refs \in SUBSET Incidents : Resolve(t, refs)
    \/ \E d \in Devices : DeleteDevice(t, d)
    \/ OrphanSweep(t)

TaskStep(t) ==
    \/ AcquireLock(t) \/ LocksTaken(t) \/ CheckDevice(t) \/ ReadActive(t) \/ InsertRow(t)
    \/ SerialExhausted(t) \/ CommitRaise(t) \/ TrimTenant(t) \/ CommitResolve(t)

Next ==
    \/ \E t \in Tasks : Start(t) \/ TaskStep(t)
    \/ \E d \in Devices : StatusChanges(d)
    \/ \E a \in Ids : DeleteAlert(a)
    \/ \E tenant \in Tenants : ClearAll(tenant)
    \/ \E t \in Tasks : RollBack(t)
    \/ ServerCrash

Spec == Init /\ [][Next]_vars

\* PostgreSQL serves the waiters of a lock in turn and answers every statement,
\* and the orphan sweep is periodic.
Fairness ==
    /\ \A t \in Tasks : SF_vars(TaskStep(t))
    /\ SF_vars(\E t \in Tasks : OrphanSweep(t))

FairSpec == Spec /\ Fairness

-----------------------------------------------------------------------------
(* Properties *)

\* Every row, lock and transaction holds a value of its type; an offline device
\* exists, also while deletions race with the offline detector.
TypeOK ==
    /\ alert \in [Ids -> Alert]
    /\ nextId \in 1..(MaxId + 1)
    /\ lock \in [LockIds -> Tasks \cup {NoTask}]
    /\ task \in [Tasks -> Task]
    /\ exists \subseteq Devices
    /\ offline \subseteq exists
    /\ buried \subseteq Incidents
    /\ faults \in Nat

\* "At most ONE row of the incident is active", in all tenants together, whatever
\* raises, recoveries, deletions and crashes overlap.
OneActivePerIncident ==
    \A i \in Incidents : \A a, b \in Ids : ActiveOf(a, i) /\ ActiveOf(b, i) => a = b

\* A deleted device stays out of the bell: once its incidents were resolved, no
\* raise that started earlier brings a row back.
DeletedStaysResolved == \A i \in buried : \A a \in Ids : ~ActiveOf(a, i)

\* No two transactions wait for each other's locks.
Waits(t, u) ==
    /\ task[t].pc = "lock"
    /\ \E h \in task[t].want : NextLock(t, h) /\ lock[h] = u

NoCircularWait == \A t, u \in Tasks : t # u => ~(Waits(t, u) /\ Waits(u, t))

\* Per tenant, no more rows than the trim keeps and the raises that have not
\* trimmed yet, or never will because of a fault, can add.
TenantBounded ==
    \A n \in Tenants :
        Cardinality({a \in Ids : Row(a) /\ alert[a].tenant = n})
            <= Keep + Cardinality({t \in Tasks : task[t].pc = "trim"}) + faults * Cardinality(Tasks)

\* Every transaction ends: no deadlock and no transaction waits for ever.
TransactionsEnd == \A t \in Tasks : (task[t].pc # "idle") ~> (task[t].pc = "idle")

\* The alerts of a deleted device leave the bell, also when the server crashes,
\* or a statement fails, between the deletion of the device and the resolution of its alerts.
OrphansLeave ==
    \A d \in Devices : (d \notin exists) ~> (\A a \in Ids : ~(Active(a) /\ DeviceOf[alert[a].inc] = d))

\* Why they hold: what a task in flight knows.  It holds exactly the locks it has
\* taken, below all those it still wants; between reading the active rows and its
\* commit a raise has seen every active row of its incident, all of which it will
\* resolve but the one it keeps; the id of its row is its own; and it does not
\* insert for a deleted device whose incidents were resolved.
Locked(k) == k.pc \notin {"idle", "trim"}

HoldsItsLocks(t, k) ==
    /\ k.want \subseteq LocksOf(k.refs)
    /\ k.pc # "lock" => k.want = {}
    /\ \A h \in LockIds : lock[h] = t <=> (Locked(k) /\ h \in LocksOf(k.refs) /\ h \notin k.want)
    /\ \A h \in LocksOf(k.refs), g \in k.want : h \notin k.want => h < g
    /\ k.pc \in {"check", "read", "insert", "commit"} => k.op = "raise"
    /\ k.pc = "resolve" => k.op = "resolve"
    /\ k.op = "raise" => k.refs = {k.inc}

SeesItsRows(k) ==
    /\ k.pc = "insert" => \A a \in Ids : ActiveOf(a, k.inc) => a \in k.seen
    /\ k.pc = "commit" => \A a, b \in Ids :
          ActiveOf(a, k.inc) /\ ActiveOf(b, k.inc) => a = b \/ a \in k.seen \/ b \in k.seen
    /\ k.pc = "commit" /\ k.newId # 0 =>
          /\ \A a \in Ids : ActiveOf(a, k.inc) => a \in k.seen
          /\ k.newId \in Ids /\ k.newId < nextId /\ alert[k.newId].st = "none"
          /\ k.open
    /\ k.pc \in {"read", "insert", "commit"} /\ k.inc \in buried => ~k.open

TasksAreSound == \A t \in Tasks : HoldsItsLocks(t, task[t]) /\ SeesItsRows(task[t])

IdsAreFresh ==
    /\ \A a \in Ids : a >= nextId => alert[a].st = "none"
    /\ \A t, u \in Tasks :
          task[t].pc = "commit" /\ task[u].pc = "commit" /\ task[t].newId = task[u].newId
             => t = u \/ task[t].newId = 0

LiveInv ==
    /\ TypeOK
    /\ TasksAreSound
    /\ IdsAreFresh
    /\ \A i \in buried : DeviceOf[i] \notin exists
    /\ OneActivePerIncident
    /\ DeletedStaysResolved

=============================================================================
