--------------------------- MODULE LiveAlertProofs ---------------------------
(* LiveInv is an inductive invariant of LiveAlert, for any set of incidents, *)
(* devices, tenants and concurrent tasks, any hash function (collisions      *)
(* included) and any number of faults.                                        *)
EXTENDS AlertPhone, FiniteSetTheorems, TLAPS

USE DEF NoTask

\* The record of a task that has nothing to do.
LEMMA IdleFacts ==
    /\ IdleTask \in Task
    /\ IdleTask.pc = "idle" /\ IdleTask.want = {} /\ IdleTask.refs = {} /\ IdleTask.op = "resolve"
BY LiveAlertAssumption DEF IdleTask, Task, Steps

\* Locks are integers, and the locks of incidents are locks.
LEMMA LockFacts ==
    /\ LockIds \subseteq Int
    /\ \A refs \in SUBSET Incidents : LocksOf(refs) \subseteq LockIds
    /\ \A refs \in SUBSET Incidents : \A i \in refs : Hash[i] \in LocksOf(refs)
    /\ \A i \in Incidents : LocksOf({i}) = {Hash[i]} /\ Hash[i] \in LockIds
BY LiveAlertAssumption DEF LockIds, LocksOf

\* A raise past its lock, and a resolve past its locks, hold the locks of their incidents.
LEMMA HoldersHold ==
    ASSUME LiveInv, NEW t \in Tasks
    PROVE  /\ task[t].pc \in {"check", "read", "insert", "commit"} =>
                 task[t].inc \in Incidents /\ lock[Hash[task[t].inc]] = t
           /\ task[t].pc = "resolve" => \A i \in task[t].refs : i \in Incidents /\ lock[Hash[i]] = t
<1> DEFINE k == task[t]
<1>1. k \in Task /\ HoldsItsLocks(t, k)
  BY DEF LiveInv, TypeOK, TasksAreSound
<1>2. k.inc \in Incidents /\ k.refs \in SUBSET Incidents
  BY <1>1 DEF Task
<1> HIDE DEF k
<1>3. ASSUME k.pc \in {"check", "read", "insert", "commit"} PROVE lock[Hash[k.inc]] = t
  BY <1>1, <1>2, <1>3, LockFacts DEF HoldsItsLocks, Locked
<1>4. ASSUME k.pc = "resolve", NEW i \in k.refs PROVE i \in Incidents /\ lock[Hash[i]] = t
  BY <1>1, <1>2, <1>4, LockFacts DEF HoldsItsLocks, Locked
<1> QED BY <1>2, <1>3, <1>4 DEF k

\* A task that does not move keeps its locks while nobody touches them.
LEMMA HoldsStays ==
    ASSUME NEW u \in Tasks, NEW k \in Task, HoldsItsLocks(u, k),
           \A h \in LockIds : lock'[h] = u <=> lock[h] = u
    PROVE  HoldsItsLocks(u, k)'
BY DEF HoldsItsLocks, Locked, LocksOf

\* What step of task t may do to the rest, when every other task is to stay sound.
SafeForOthers(t) ==
    /\ \A u \in Tasks \ {t} : \A h \in LockIds : lock'[h] = u <=> lock[h] = u
    /\ \A a \in Ids, i \in Incidents : ActiveOf(a, i)' => ActiveOf(a, i) \/ lock[Hash[i]] = t
    /\ \A a \in Ids : alert[a].st = "none" =>
          alert'[a].st = "none" \/ (task[t].pc = "commit" /\ task[t].newId = a)
    /\ \A i \in buried' : i \in buried \/ lock[Hash[i]] = t
    /\ nextId' \in Int /\ nextId' >= nextId

\* One task moves, the others stay sound.
LEMMA TaskMoves ==
    ASSUME LiveInv, NEW t \in Tasks, NEW k \in Task, Become(t, k), SafeForOthers(t),
           HoldsItsLocks(t, k)', SeesItsRows(k)'
    PROVE  task' \in [Tasks -> Task] /\ TasksAreSound'
<1>1. task' = [task EXCEPT ![t] = k] /\ task \in [Tasks -> Task] /\ task' \in [Tasks -> Task]
  BY DEF LiveInv, TypeOK, Become
<1>2. ASSUME NEW u \in Tasks, u # t
      PROVE  HoldsItsLocks(u, task[u])' /\ SeesItsRows(task[u])'
  <2>1. PICK j \in Task : j = task[u] /\ j = task'[u]
    BY <1>1, <1>2
  <2>2. HoldsItsLocks(u, j) /\ SeesItsRows(j)
    BY <2>1 DEF LiveInv, TasksAreSound
  <2>3. HoldsItsLocks(u, j)'
    BY <1>2, <2>2, HoldsStays DEF SafeForOthers
  <2>4. j.pc \in {"read", "insert", "commit"} => lock[Hash[j.inc]] = u /\ j.inc \in Incidents
    BY <2>1, HoldersHold
  <2>5. j.pc \in {"read", "insert", "commit"} =>
           /\ \A a \in Ids : ActiveOf(a, j.inc)' => ActiveOf(a, j.inc)
           /\ j.inc \in buried' => j.inc \in buried
    BY <1>2, <2>4 DEF SafeForOthers
  <2>6. j.pc = "commit" /\ j.newId # 0 => alert'[j.newId].st = "none"
    <3> SUFFICES ASSUME j.pc = "commit", j.newId # 0
                 PROVE  alert'[j.newId].st = "none"
      OBVIOUS
    <3>1. j.newId \in Ids /\ alert[j.newId].st = "none"
      BY <2>2 DEF SeesItsRows
    <3>2. ~(task[t].pc = "commit" /\ task[t].newId = j.newId)
      BY <1>2, <2>1 DEF LiveInv, IdsAreFresh
    <3> QED BY <3>1, <3>2 DEF SafeForOthers
  <2>7. nextId \in Int /\ nextId' \in Int /\ nextId' >= nextId
    BY DEF SafeForOthers, LiveInv, TypeOK
  <2>8. SeesItsRows(j)'
    <3>1. j.pc = "insert" => \A a \in Ids : ActiveOf(a, j.inc)' => a \in j.seen
      BY <2>2, <2>5 DEF SeesItsRows
    <3>2. j.pc = "commit" => \A a, b \in Ids :
             ActiveOf(a, j.inc)' /\ ActiveOf(b, j.inc)' => a = b \/ a \in j.seen \/ b \in j.seen
      BY <2>2, <2>5 DEF SeesItsRows
    <3>3. j.pc = "commit" /\ j.newId # 0 => \A a \in Ids : ActiveOf(a, j.inc)' => a \in j.seen
      BY <2>2, <2>5 DEF SeesItsRows
    <3>4. j.pc = "commit" /\ j.newId # 0 => j.newId \in Ids /\ j.newId < nextId' /\ j.open
      BY <2>2, <2>7 DEF SeesItsRows, Ids
    <3>5. j.pc \in {"read", "insert", "commit"} /\ j.inc \in buried' => ~j.open
      BY <2>2, <2>5 DEF SeesItsRows
    <3> QED BY <3>1, <3>2, <3>3, <3>4, <3>5, <2>6 DEF SeesItsRows, Ids
  <2> QED BY <2>1, <2>3, <2>8
<1>3. HoldsItsLocks(t, task[t])' /\ SeesItsRows(task[t])'
  <2>1. task'[t] = k
    BY <1>1
  <2> QED BY <2>1
<1> QED BY <1>1, <1>2, <1>3 DEF TasksAreSound

\* An idle task is sound once it holds no lock.
LEMMA IdleIsSound ==
    ASSUME NEW t \in Tasks, \A h \in LockIds : lock'[h] # t
    PROVE  HoldsItsLocks(t, IdleTask)' /\ SeesItsRows(IdleTask)'
<1>1. PICK k \in Task : k = IdleTask /\ k.pc = "idle" /\ k.want = {} /\ k.refs = {} /\ k.op = "resolve"
  BY IdleFacts
<1>2. HoldsItsLocks(t, k)'
  BY <1>1 DEF HoldsItsLocks, Locked, LocksOf
<1>3. SeesItsRows(k)'
  BY <1>1 DEF SeesItsRows
<1> QED BY <1>1, <1>2, <1>3

\* Releasing the locks of one task.
LEMMA ReleaseFacts ==
    ASSUME TypeOK, NEW t \in Tasks, Release(t)
    PROVE  /\ lock' \in [LockIds -> Tasks \cup {NoTask}]
           /\ \A h \in LockIds : lock'[h] # t
           /\ \A u \in Tasks \ {t} : \A h \in LockIds : lock'[h] = u <=> lock[h] = u
BY LiveAlertAssumption DEF TypeOK, Release

\* The steps that only move one task: the rows, the locks and the devices stay.
LEMMA OnlyTaskMoves ==
    ASSUME LiveInv, NEW t \in Tasks, NEW k \in Task, Become(t, k), k.pc # "commit",
           UNCHANGED <<alert, nextId, lock, exists, offline, buried, faults>>,
           HoldsItsLocks(t, k), SeesItsRows(k)
    PROVE  LiveInv'
<1>1. SafeForOthers(t)
  BY DEF SafeForOthers, ActiveOf, Active, LiveInv, TypeOK
<1>2. HoldsItsLocks(t, k)' /\ SeesItsRows(k)'
  BY HoldsStays DEF SeesItsRows, ActiveOf, Active, Ids
<1>3. task' \in [Tasks -> Task] /\ TasksAreSound'
  BY <1>1, <1>2, TaskMoves
<1>4. TypeOK'
  BY <1>3 DEF LiveInv, TypeOK, Ids, LockIds
<1>5. \A u \in Tasks : task'[u].pc = "commit" => task'[u] = task[u]
  BY DEF LiveInv, TypeOK, Become
<1>6. IdsAreFresh'
  BY <1>5 DEF LiveInv, IdsAreFresh, Ids
<1> QED BY <1>3, <1>4, <1>6
        DEF LiveInv, OneActivePerIncident, DeletedStaysResolved, ActiveOf, Active, Ids

\* A transaction that starts: it wants every lock and holds none.
LEMMA StartIsSound ==
    ASSUME LiveInv, NEW t \in Tasks, Idle(t), NEW k \in Task, k.pc = "lock",
           k.want = LocksOf(k.refs), k.op = "raise" => k.refs = {k.inc}
    PROVE  HoldsItsLocks(t, k) /\ SeesItsRows(k)
<1>1. \A h \in LockIds : lock[h] # t
  BY DEF LiveInv, TasksAreSound, HoldsItsLocks, Locked, Idle
<1>2. HoldsItsLocks(t, k)
  BY <1>1 DEF HoldsItsLocks
<1>3. SeesItsRows(k)
  BY DEF SeesItsRows
<1> QED BY <1>2, <1>3

\* The first statement of a raise.
LEMMA BeginRaiseInv ==
    ASSUME LiveInv, NEW t \in Tasks, NEW i \in Incidents, NEW tenant \in Tenants, NEW level \in Levels,
           Raise(t, i, tenant, level)
    PROVE  LiveInv'
<1> DEFINE k == [IdleTask EXCEPT !.pc = "lock", !.op = "raise", !.refs = {i}, !.want = LocksOf({i}),
                                 !.inc = i, !.tenant = tenant, !.level = level]
<1>1. LocksOf({i}) \in SUBSET LockIds
  BY LockFacts
<1>2. k \in Task /\ k.pc = "lock" /\ k.refs = {i} /\ k.inc = i /\ k.want = LocksOf({i}) /\ k.op = "raise"
  BY <1>1, IdleFacts DEF Task, Steps
<1>3. Become(t, k) /\ Idle(t) /\ UNCHANGED <<alert, nextId, lock, exists, offline, buried, faults>>
  BY DEF Raise, BeginRaise, rowVars, deviceVars
<1> HIDE DEF k
<1> QED BY <1>2, <1>3, StartIsSound, OnlyTaskMoves

\* The first statement of a resolve.
LEMMA BeginResolveFacts ==
    ASSUME NEW t \in Tasks, NEW refs \in SUBSET Incidents, BeginResolve(t, refs)
    PROVE  \E k \in Task : /\ Become(t, k) /\ k.pc = "lock" /\ k.refs = refs
                            /\ k.want = LocksOf(refs) /\ k.op = "resolve"
<1> DEFINE k == [IdleTask EXCEPT !.pc = "lock", !.op = "resolve", !.refs = refs, !.want = LocksOf(refs)]
<1>1. LocksOf(refs) \in SUBSET LockIds
  BY LockFacts
<1>2. k \in Task /\ k.pc = "lock" /\ k.refs = refs /\ k.want = LocksOf(refs) /\ k.op = "resolve"
  BY <1>1, IdleFacts DEF Task, Steps
<1>3. Become(t, k)
  BY DEF BeginResolve
<1> HIDE DEF k
<1> QED BY <1>2, <1>3

\* A resolve starts.
LEMMA BeginResolveInv ==
    ASSUME LiveInv, NEW t \in Tasks, Idle(t), NEW refs \in SUBSET Incidents, BeginResolve(t, refs),
           UNCHANGED <<alert, nextId, lock, exists, offline, buried, faults>>
    PROVE  LiveInv'
<1>1. PICK k \in Task : /\ Become(t, k) /\ k.pc = "lock" /\ k.refs = refs
                        /\ k.want = LocksOf(refs) /\ k.op = "resolve"
  BY BeginResolveFacts
<1> QED BY <1>1, StartIsSound, OnlyTaskMoves

\* No task moves and rows only leave the bell.
LEMMA RowsLeave ==
    ASSUME LiveInv, UNCHANGED <<task, lock, nextId, buried, exists, offline, faults>>,
           alert' \in [Ids -> Alert],
           \A a \in Ids, i \in Incidents : ActiveOf(a, i)' => ActiveOf(a, i),
           \A a \in Ids : alert[a].st = "none" => alert'[a].st = "none"
    PROVE  LiveInv'
<1>1. ASSUME NEW u \in Tasks
      PROVE  HoldsItsLocks(u, task[u])' /\ SeesItsRows(task[u])'
  <2>1. PICK j \in Task : j = task[u] /\ j = task'[u]
    BY DEF LiveInv, TypeOK
  <2>2. HoldsItsLocks(u, j) /\ SeesItsRows(j) /\ j.inc \in Incidents
    BY <2>1 DEF LiveInv, TasksAreSound, Task
  <2>3. HoldsItsLocks(u, j)'
    BY <2>2, HoldsStays
  <2>4. \A a \in Ids : ActiveOf(a, j.inc)' => ActiveOf(a, j.inc)
    BY <2>2
  <2>5. j.newId \in Ids /\ alert[j.newId].st = "none" => alert'[j.newId].st = "none"
    OBVIOUS
  <2>6. SeesItsRows(j)'
    BY <2>2, <2>4, <2>5 DEF SeesItsRows, Ids
  <2> QED BY <2>1, <2>3, <2>6
<1>2. TypeOK'
  BY DEF LiveInv, TypeOK, Ids, LockIds
<1>3. IdsAreFresh'
  BY DEF LiveInv, IdsAreFresh, Ids
<1>4. OneActivePerIncident' /\ DeletedStaysResolved'
  BY DEF LiveInv, OneActivePerIncident, DeletedStaysResolved, Ids, TypeOK
<1> QED BY <1>1, <1>2, <1>3, <1>4 DEF LiveInv, TasksAreSound

\* Deleting rows takes them out of the bell.
LEMMA DeleteFacts ==
    ASSUME TypeOK, NEW as \in SUBSET Ids, \A a \in as : Row(a), Delete(as)
    PROVE  /\ alert' \in [Ids -> Alert]
           /\ \A a \in Ids, i \in Incidents : ActiveOf(a, i)' => ActiveOf(a, i)
           /\ \A a \in Ids : alert[a].st = "none" => alert'[a].st = "none"
<1>1. alert \in [Ids -> Alert]
  BY DEF TypeOK
<1>2. ASSUME NEW a \in Ids
      PROVE  /\ alert'[a] \in Alert
             /\ alert'[a] = alert[a] \/ (a \in as /\ alert'[a].st = "deleted")
  BY <1>1 DEF Delete, Alert
<1>3. alert' = [a \in Ids |-> alert'[a]]
  BY DEF Delete
<1>4. alert' \in [Ids -> Alert]
  BY <1>2, <1>3
<1> QED BY <1>2, <1>4 DEF ActiveOf, Active, Row

\* A task ends without a commit, its locks go.
LEMMA AbortInv ==
    ASSUME LiveInv, NEW t \in Tasks, Abort(t),
           UNCHANGED <<alert, nextId, exists, offline, buried>>, faults' \in Nat
    PROVE  LiveInv'
<1>1. Release(t) /\ Become(t, IdleTask) /\ IdleTask \in Task /\ IdleTask.pc = "idle"
  BY IdleFacts DEF Abort
<1>2. /\ lock' \in [LockIds -> Tasks \cup {NoTask}]
      /\ \A h \in LockIds : lock'[h] # t
      /\ \A u \in Tasks \ {t} : \A h \in LockIds : lock'[h] = u <=> lock[h] = u
  BY <1>1, ReleaseFacts DEF LiveInv
<1>3. SafeForOthers(t)
  BY <1>2 DEF SafeForOthers, ActiveOf, Active, LiveInv, TypeOK
<1>4. task' \in [Tasks -> Task] /\ TasksAreSound'
  BY <1>1, <1>2, <1>3, IdleIsSound, TaskMoves
<1>5. TypeOK'
  BY <1>2, <1>4 DEF LiveInv, TypeOK, Ids, LockIds
<1>6. \A u \in Tasks : task'[u].pc = "commit" => task'[u] = task[u]
  BY <1>1 DEF LiveInv, TypeOK, Become
<1>7. IdsAreFresh'
  BY <1>6 DEF LiveInv, IdsAreFresh, Ids
<1> QED BY <1>4, <1>5, <1>7
        DEF LiveInv, OneActivePerIncident, DeletedStaysResolved, ActiveOf, Active, Ids

\* The initial state satisfies the invariant.
LEMMA InitInv == Init => LiveInv
<1> SUFFICES ASSUME Init PROVE LiveInv
  OBVIOUS
<1>1. NoAlert \in Alert /\ NoAlert.st = "none"
  BY LiveAlertAssumption DEF NoAlert, Alert
<1>2. TypeOK
  BY <1>1, IdleFacts, LiveAlertAssumption DEF Init, TypeOK, Ids
<1>3. ASSUME NEW t \in Tasks PROVE HoldsItsLocks(t, task[t]) /\ SeesItsRows(task[t])
  <2>1. PICK k \in Task : k = task[t] /\ k.pc = "idle" /\ k.want = {} /\ k.refs = {} /\ k.op = "resolve"
    BY IdleFacts DEF Init
  <2>2. \A h \in LockIds : lock[h] # t
    BY LiveAlertAssumption DEF Init
  <2>3. HoldsItsLocks(t, k) /\ SeesItsRows(k)
    BY <2>1, <2>2 DEF HoldsItsLocks, SeesItsRows, Locked, LocksOf
  <2> QED BY <2>1, <2>3
<1>4. IdsAreFresh
  <2>1. \A t \in Tasks : task[t].pc = "idle"
    BY IdleFacts DEF Init
  <2> QED BY <1>1, <2>1 DEF Init, IdsAreFresh
<1>5. OneActivePerIncident /\ DeletedStaysResolved /\ buried = {}
  BY <1>1 DEF Init, OneActivePerIncident, DeletedStaysResolved, ActiveOf, Active
<1> QED BY <1>2, <1>3, <1>4, <1>5 DEF LiveInv, TasksAreSound

\* deleteDevice: the device goes and a resolve of its incidents starts.
LEMMA DeleteDeviceInv ==
    ASSUME LiveInv, NEW t \in Tasks, NEW d \in Devices, DeleteDevice(t, d)
    PROVE  LiveInv'
<1>1. PICK k \in Task : /\ Become(t, k) /\ k.pc = "lock" /\ k.refs = IncidentsOf({d})
                        /\ k.want = LocksOf(IncidentsOf({d})) /\ k.op = "resolve"
  <2>1. IncidentsOf({d}) \in SUBSET Incidents
    BY DEF IncidentsOf
  <2> QED BY <2>1, BeginResolveFacts, ZenonT(40) DEF DeleteDevice
<1>2. HoldsItsLocks(t, k) /\ SeesItsRows(k)
  BY <1>1, StartIsSound DEF DeleteDevice
<1>3. UNCHANGED <<alert, nextId, lock, buried, faults>> /\ exists' = exists \ {d} /\ offline' = offline \ {d}
  BY DEF DeleteDevice, rowVars
<1>4. SafeForOthers(t)
  BY <1>3 DEF SafeForOthers, ActiveOf, Active, LiveInv, TypeOK
<1>5. HoldsItsLocks(t, k)' /\ SeesItsRows(k)'
  BY <1>2, <1>3, HoldsStays DEF SeesItsRows, ActiveOf, Active, Ids
<1>6. task' \in [Tasks -> Task] /\ TasksAreSound'
  BY <1>1, <1>4, <1>5, TaskMoves
<1>7. TypeOK'
  BY <1>3, <1>6 DEF LiveInv, TypeOK, Ids, LockIds
<1>8. \A u \in Tasks : task'[u].pc = "commit" => task'[u] = task[u]
  BY <1>1 DEF LiveInv, TypeOK, Become
<1>9. IdsAreFresh'
  BY <1>3, <1>8 DEF LiveInv, IdsAreFresh, Ids
<1> QED BY <1>3, <1>6, <1>7, <1>9
        DEF LiveInv, OneActivePerIncident, DeletedStaysResolved, ActiveOf, Active, Ids

\* A transaction starts.
LEMMA StartInv ==
    ASSUME LiveInv, NEW t \in Tasks, Start(t)
    PROVE  LiveInv'
<1>1. ASSUME NEW refs \in SUBSET Incidents, Resolve(t, refs) PROVE LiveInv'
  <2>1. BeginResolve(t, refs) /\ Idle(t) /\ UNCHANGED <<alert, nextId, lock, exists, offline, buried, faults>>
    BY <1>1 DEF Resolve, rowVars, deviceVars
  <2> QED BY <2>1, BeginResolveInv
<1>2. ASSUME OrphanSweep(t) PROVE LiveInv'
  <2>1. /\ BeginResolve(t, IncidentsOf(Orphans)) /\ Idle(t)
        /\ UNCHANGED <<alert, nextId, lock, exists, offline, buried, faults>>
    BY <1>2 DEF OrphanSweep, rowVars, deviceVars
  <2>2. IncidentsOf(Orphans) \in SUBSET Incidents
    BY DEF IncidentsOf
  <2> QED BY <2>1, <2>2, BeginResolveInv
<1> QED BY <1>1, <1>2, BeginRaiseInv, DeleteDeviceInv DEF Start

\* The status of a device changes.
LEMMA StatusChangesInv ==
    ASSUME LiveInv, NEW d \in Devices, StatusChanges(d)
    PROVE  LiveInv'
<1>1. UNCHANGED <<alert, nextId, lock, task, exists, buried, faults>> /\ offline' \subseteq exists
  BY DEF StatusChanges, rowVars, LiveInv, TypeOK
<1>2. TypeOK'
  BY <1>1 DEF LiveInv, TypeOK, Ids, LockIds
<1>3. ASSUME NEW u \in Tasks
      PROVE  HoldsItsLocks(u, task[u])' /\ SeesItsRows(task[u])'
  <2>1. PICK j \in Task : j = task[u] /\ j = task'[u]
    BY <1>1 DEF LiveInv, TypeOK
  <2>2. HoldsItsLocks(u, j) /\ SeesItsRows(j)
    BY <2>1 DEF LiveInv, TasksAreSound
  <2>3. HoldsItsLocks(u, j)'
    BY <1>1, <2>2, HoldsStays
  <2>4. SeesItsRows(j)'
    BY <1>1, <2>2 DEF SeesItsRows, ActiveOf, Active, Ids
  <2> QED BY <2>1, <2>3, <2>4
<1>4. IdsAreFresh' /\ OneActivePerIncident' /\ DeletedStaysResolved'
  BY <1>1 DEF LiveInv, IdsAreFresh, OneActivePerIncident, DeletedStaysResolved, ActiveOf, Active, Ids
<1> QED BY <1>1, <1>2, <1>3, <1>4 DEF LiveInv, TasksAreSound

\* The smallest missing lock is taken: it lies above all the locks the task holds.
LEMMA AcquireLockInv ==
    ASSUME LiveInv, NEW t \in Tasks, AcquireLock(t)
    PROVE  LiveInv'
<1>1. /\ task[t] \in Task /\ HoldsItsLocks(t, task[t]) /\ task[t].pc = "lock"
      /\ lock \in [LockIds -> Tasks \cup {NoTask}]
  BY DEF LiveInv, TypeOK, TasksAreSound, AcquireLock
<1>2. PICK h \in task[t].want : /\ NextLock(t, h) /\ lock[h] = NoTask /\ lock' = [lock EXCEPT ![h] = t]
                                /\ Become(t, [task[t] EXCEPT !.want = @ \ {h}])
  BY DEF AcquireLock
<1>3. UNCHANGED <<alert, nextId, exists, offline, buried, faults>>
  BY DEF AcquireLock, rowVars, deviceVars
<1>4. PICK k \in Task : /\ Become(t, k) /\ k.pc = "lock" /\ k.refs = task[t].refs
                        /\ k.want = task[t].want \ {h} /\ k.op = task[t].op /\ k.inc = task[t].inc
  <2> DEFINE j == [task[t] EXCEPT !.want = @ \ {h}]
  <2>1. /\ j \in Task /\ j.pc = "lock" /\ j.refs = task[t].refs
        /\ j.want = task[t].want \ {h} /\ j.op = task[t].op /\ j.inc = task[t].inc
    BY <1>1 DEF Task
  <2>2. Become(t, j)
    BY <1>2
  <2> HIDE DEF j
  <2> QED BY <2>1, <2>2
<1>5. Become(t, k)
  BY <1>4
<1>6. h \in LockIds /\ task[t].want \subseteq LockIds /\ LockIds \subseteq Int
  BY <1>1, LockFacts DEF Task
<1>7. /\ lock' \in [LockIds -> Tasks \cup {NoTask}]
      /\ \A g \in LockIds : lock'[g] = IF g = h THEN t ELSE lock[g]
  BY <1>1, <1>2, <1>6
<1>8. HoldsItsLocks(t, k)'
  <2>1. task[t].want \subseteq LocksOf(task[t].refs) /\ LocksOf(task[t].refs) \subseteq LockIds
    BY <1>1, LockFacts DEF HoldsItsLocks, Task
  <2>2. \A g \in LockIds : lock'[g] = t <=> (Locked(k) /\ g \in LocksOf(k.refs) /\ g \notin k.want)
    BY <1>1, <1>2, <1>4, <1>6, <1>7, <2>1 DEF HoldsItsLocks, Locked
  <2>3. \A f \in LocksOf(k.refs), g \in k.want : f \notin k.want => f < g
    BY <1>1, <1>2, <1>4, <1>6, <2>1 DEF HoldsItsLocks, NextLock
  <2>4. k.want \subseteq LocksOf(k.refs)
    BY <1>4, <2>1
  <2>5. k.op = "raise" => k.refs = {k.inc}
    BY <1>1, <1>4 DEF HoldsItsLocks
  <2> QED BY <1>4, <2>2, <2>3, <2>4, <2>5 DEF HoldsItsLocks, Locked, LocksOf
<1>9. SeesItsRows(k)'
  BY <1>4 DEF SeesItsRows
<1>10. SafeForOthers(t)
  BY <1>2, <1>3, <1>7, LiveAlertAssumption DEF SafeForOthers, ActiveOf, Active, LiveInv, TypeOK
<1>11. task' \in [Tasks -> Task] /\ TasksAreSound'
  BY <1>4, <1>5, <1>8, <1>9, <1>10, TaskMoves
<1>12. TypeOK'
  BY <1>3, <1>7, <1>11 DEF LiveInv, TypeOK, Ids, LockIds
<1>13. \A u \in Tasks : task'[u].pc = "commit" => task'[u] = task[u]
  BY <1>4, <1>5 DEF LiveInv, TypeOK, Become
<1>14. IdsAreFresh'
  BY <1>3, <1>13 DEF LiveInv, IdsAreFresh, Ids
<1> QED BY <1>3, <1>11, <1>12, <1>14
        DEF LiveInv, OneActivePerIncident, DeletedStaysResolved, ActiveOf, Active, Ids

\* All locks are held.
LEMMA LocksTakenInv ==
    ASSUME LiveInv, NEW t \in Tasks, LocksTaken(t)
    PROVE  LiveInv'
<1> DEFINE k == [task[t] EXCEPT !.pc = IF task[t].op = "raise" THEN "check" ELSE "resolve"]
<1>1. /\ task[t] \in Task /\ HoldsItsLocks(t, task[t]) /\ task[t].pc = "lock" /\ task[t].want = {}
      /\ Become(t, k) /\ UNCHANGED <<alert, nextId, lock, exists, offline, buried, faults>>
  BY DEF LiveInv, TypeOK, TasksAreSound, LocksTaken, rowVars, deviceVars
<1>2. /\ k \in Task /\ k.pc = (IF task[t].op = "raise" THEN "check" ELSE "resolve")
      /\ k.refs = task[t].refs /\ k.want = {} /\ k.op = task[t].op /\ k.inc = task[t].inc
      /\ k.op \in {"raise", "resolve"}
  BY <1>1 DEF Task, Steps
<1> HIDE DEF k
<1>3. HoldsItsLocks(t, k)
  BY <1>1, <1>2 DEF HoldsItsLocks, Locked
<1>4. SeesItsRows(k)
  BY <1>2 DEF SeesItsRows
<1> QED BY <1>1, <1>2, <1>3, <1>4, OnlyTaskMoves

\* The device is read again under the lock: an incident that was buried is not open.
LEMMA CheckDeviceInv ==
    ASSUME LiveInv, NEW t \in Tasks, CheckDevice(t)
    PROVE  LiveInv'
<1> DEFINE d == DeviceOf[task[t].inc]
           o == d \in exists /\ (task[t].inc \in OfflineKind => d \in offline)
           k == [task[t] EXCEPT !.pc = "read", !.open = o]
<1>1. /\ task[t] \in Task /\ HoldsItsLocks(t, task[t]) /\ task[t].pc = "check"
      /\ Become(t, k) /\ UNCHANGED <<alert, nextId, lock, exists, offline, buried, faults>>
  BY DEF LiveInv, TypeOK, TasksAreSound, CheckDevice, rowVars, deviceVars
<1>2. o \in BOOLEAN /\ (o => task[t].inc \notin buried)
  BY DEF LiveInv
<1> HIDE DEF o
<1>3. /\ k \in Task /\ k.pc = "read" /\ k.open = o /\ k.refs = task[t].refs /\ k.want = task[t].want
      /\ k.op = task[t].op /\ k.inc = task[t].inc
  BY <1>1, <1>2 DEF Task, Steps
<1> HIDE DEF k
<1>4. HoldsItsLocks(t, k)
  BY <1>1, <1>3 DEF HoldsItsLocks, Locked
<1>5. SeesItsRows(k)
  BY <1>2, <1>3 DEF SeesItsRows
<1> QED BY <1>1, <1>3, <1>4, <1>5, OnlyTaskMoves

\* The active rows are read under the lock.
LEMMA ReadActiveInv ==
    ASSUME LiveInv, NEW t \in Tasks, ReadActive(t)
    PROVE  LiveInv'
<1> DEFINE s == {a \in Ids : ActiveOf(a, task[t].inc)}
           k == [task[t] EXCEPT !.pc = "insert", !.seen = s]
<1>1. /\ task[t] \in Task /\ HoldsItsLocks(t, task[t]) /\ SeesItsRows(task[t]) /\ task[t].pc = "read"
      /\ Become(t, k) /\ UNCHANGED <<alert, nextId, lock, exists, offline, buried, faults>>
  BY DEF LiveInv, TypeOK, TasksAreSound, ReadActive, rowVars, deviceVars
<1>2. s \in SUBSET Ids /\ \A a \in Ids : ActiveOf(a, task[t].inc) => a \in s
  OBVIOUS
<1> HIDE DEF s
<1>3. /\ k \in Task /\ k.pc = "insert" /\ k.seen = s /\ k.refs = task[t].refs /\ k.want = task[t].want
      /\ k.op = task[t].op /\ k.inc = task[t].inc /\ k.open = task[t].open
  BY <1>1, <1>2 DEF Task, Steps
<1> HIDE DEF k
<1>4. HoldsItsLocks(t, k)
  BY <1>1, <1>3 DEF HoldsItsLocks, Locked
<1>5. SeesItsRows(k)
  BY <1>1, <1>2, <1>3 DEF SeesItsRows
<1> QED BY <1>1, <1>3, <1>4, <1>5, OnlyTaskMoves

\* A raise keeps at most one row.
LEMMA KeptIsOne ==
    ASSUME NEW k \in Task, NEW a \in Kept(k), NEW b \in Kept(k)
    PROVE  a = b
<1>1. k.seen \subseteq Int
  BY DEF Task, Ids
<1> QED BY <1>1 DEF Kept

\* The INSERT: the serial gives an id no other raise has.
LEMMA InsertRowInv ==
    ASSUME LiveInv, NEW t \in Tasks, InsertRow(t)
    PROVE  LiveInv'
<1> DEFINE new == task[t].open /\ Kept(task[t]) = {}
<1>1. /\ task[t] \in Task /\ HoldsItsLocks(t, task[t]) /\ SeesItsRows(task[t]) /\ task[t].pc = "insert"
      /\ UNCHANGED <<alert, lock, exists, offline, buried, faults>>
      /\ new => nextId <= MaxId
      /\ nextId' = IF new THEN nextId + 1 ELSE nextId
      /\ nextId \in 1..(MaxId + 1) /\ MaxId \in Nat
  BY LiveAlertAssumption DEF LiveInv, TypeOK, TasksAreSound, InsertRow, deviceVars
<1>2. nextId' \in 1..(MaxId + 1) /\ nextId' >= nextId
  BY <1>1
<1>3. PICK k \in Task :
         /\ Become(t, k) /\ k.pc = "commit" /\ k.seen = task[t].seen \ Kept(task[t])
         /\ k.newId = (IF new THEN nextId ELSE 0) /\ k.refs = task[t].refs /\ k.want = task[t].want
         /\ k.op = task[t].op /\ k.inc = task[t].inc /\ k.open = task[t].open
  <2> DEFINE j == [task[t] EXCEPT !.pc = "commit", !.seen = @ \ Kept(task[t]), !.newId = IF new THEN nextId ELSE 0]
  <2>1. Become(t, j)
    BY DEF InsertRow
  <2>2. (IF new THEN nextId ELSE 0) \in Nat
    BY <1>1
  <2>3. /\ j \in Task /\ j.pc = "commit" /\ j.seen = task[t].seen \ Kept(task[t])
        /\ j.newId = (IF new THEN nextId ELSE 0) /\ j.refs = task[t].refs /\ j.want = task[t].want
        /\ j.op = task[t].op /\ j.inc = task[t].inc /\ j.open = task[t].open
    <3> HIDE DEF new
    <3> QED BY <1>1, <2>2 DEF Task, Steps
  <2> HIDE DEF j
  <2> QED BY <2>1, <2>3
<1>4. HoldsItsLocks(t, k)'
  <2>1. HoldsItsLocks(t, k)
    BY <1>1, <1>3 DEF HoldsItsLocks, Locked
  <2> QED BY <1>1, <2>1, HoldsStays
<1>5. SeesItsRows(k)'
  <2>1. \A a \in Ids : ActiveOf(a, k.inc)' => a \in task[t].seen
    BY <1>1, <1>3 DEF SeesItsRows, ActiveOf, Active
  <2>2. \A a, b \in Ids : ActiveOf(a, k.inc)' /\ ActiveOf(b, k.inc)' => a = b \/ a \in k.seen \/ b \in k.seen
    BY <1>1, <1>3, <2>1, KeptIsOne
  <2>3. ASSUME k.newId # 0
        PROVE  /\ \A a \in Ids : ActiveOf(a, k.inc)' => a \in k.seen
               /\ k.newId \in Ids /\ k.newId < nextId' /\ alert'[k.newId].st = "none" /\ k.open
    <3>1. new /\ k.newId = nextId
      BY <1>3, <2>3
    <3>2. k.newId \in Ids /\ k.newId < nextId'
      BY <1>1, <3>1 DEF Ids
    <3>3. alert'[k.newId].st = "none"
      BY <1>1, <3>1, <3>2 DEF LiveInv, IdsAreFresh, Ids
    <3> QED BY <1>3, <2>1, <3>1, <3>2, <3>3
  <2>4. k.inc \in buried' => ~k.open
    BY <1>1, <1>3 DEF SeesItsRows
  <2> QED BY <1>3, <2>2, <2>3, <2>4 DEF SeesItsRows, Ids
<1>6. SafeForOthers(t)
  BY <1>1, <1>2 DEF SafeForOthers, ActiveOf, Active
<1>7. task' \in [Tasks -> Task] /\ TasksAreSound'
  BY <1>3, <1>4, <1>5, <1>6, TaskMoves
<1>8. TypeOK'
  BY <1>1, <1>2, <1>7 DEF LiveInv, TypeOK, Ids, LockIds
<1>9. IdsAreFresh'
  <2>1. task' = [task EXCEPT ![t] = k] /\ task \in [Tasks -> Task]
    BY <1>3 DEF Become, LiveInv, TypeOK
  <2>2. ASSUME NEW u \in Tasks, u # t, task'[u].pc = "commit", task'[u].newId = k.newId
        PROVE  k.newId = 0
    <3>1. task'[u] = task[u] /\ SeesItsRows(task[u])
      BY <2>1, <2>2 DEF LiveInv, TasksAreSound
    <3>2. task[u].newId # 0 => task[u].newId < nextId /\ task[u].newId \in Ids
      BY <2>2, <3>1 DEF SeesItsRows
    <3> QED BY <1>1, <1>3, <2>2, <3>1, <3>2 DEF Ids
  <2>3. \A u, v \in Tasks : u # t /\ v # t => task'[u] = task[u] /\ task'[v] = task[v]
    BY <2>1
  <2>4. task'[t] = k
    BY <2>1
  <2>5. \A u, v \in Tasks :
          task'[u].pc = "commit" /\ task'[v].pc = "commit" /\ task'[u].newId = task'[v].newId
             => u = v \/ task'[u].newId = 0
    BY <2>2, <2>3, <2>4 DEF LiveInv, IdsAreFresh
  <2>6. \A a \in Ids : a >= nextId' => alert'[a].st = "none"
    BY <1>1, <1>2 DEF LiveInv, IdsAreFresh, Ids
  <2> QED BY <2>5, <2>6 DEF IdsAreFresh, Ids
<1> QED BY <1>1, <1>7, <1>8, <1>9
        DEF LiveInv, OneActivePerIncident, DeletedStaysResolved, ActiveOf, Active, Ids

\* The commit of a raise: its new row is the only active one of the incident.
LEMMA CommitRaiseInv ==
    ASSUME LiveInv, NEW t \in Tasks, CommitRaise(t)
    PROVE  LiveInv'
<1>1. PICK k \in Task : k = task[t]
  BY DEF LiveInv, TypeOK
<1>2. /\ HoldsItsLocks(t, k) /\ SeesItsRows(k) /\ k.pc = "commit" /\ k.op = "raise"
      /\ k.inc \in Incidents /\ k.tenant \in Tenants /\ k.level \in Levels
      /\ lock[Hash[k.inc]] = t
  BY <1>1, HoldersHold DEF LiveInv, TasksAreSound, CommitRaise, Task, HoldsItsLocks
<1>3. /\ alert \in [Ids -> Alert] /\ TypeOK
      /\ UNCHANGED <<nextId, exists, offline, buried, faults>> /\ Release(t)
  BY DEF LiveInv, TypeOK, CommitRaise, deviceVars
<1>4. alert' = [a \in Ids |->
          IF a = k.newId THEN [st |-> "active", inc |-> k.inc, tenant |-> k.tenant, level |-> k.level]
          ELSE IF a \in k.seen /\ Active(a) THEN [alert[a] EXCEPT !.st = "resolved"]
          ELSE alert[a]]
  BY <1>1 DEF CommitRaise
<1>5. ASSUME NEW a \in Ids
      PROVE  /\ alert'[a] \in Alert
             /\ a = k.newId => alert'[a].inc = k.inc
             /\ a # k.newId => alert'[a] = alert[a] \/ (alert[a].st = "active" /\ alert'[a].st = "resolved")
             /\ a # k.newId /\ a \in k.seen => alert'[a].st # "active"
  BY <1>2, <1>3, <1>4 DEF Alert, Active
<1>6. alert' \in [Ids -> Alert]
  BY <1>4, <1>5
<1> DEFINE r == IF k.newId = 0 THEN IdleTask ELSE [k EXCEPT !.pc = "trim"]
<1>7. r \in Task /\ r.pc \in {"idle", "trim"} /\ r.want = {} /\ Become(t, r)
      /\ (r.op = "raise" => r.refs = {r.inc})
  <2>1. k.newId # 0 => /\ [k EXCEPT !.pc = "trim"] \in Task /\ [k EXCEPT !.pc = "trim"].pc = "trim"
                       /\ [k EXCEPT !.pc = "trim"].want = {} /\ [k EXCEPT !.pc = "trim"].refs = k.refs
                       /\ [k EXCEPT !.pc = "trim"].inc = k.inc
    BY <1>2 DEF Task, Steps, HoldsItsLocks
  <2>2. k.refs = {k.inc}
    BY <1>2 DEF HoldsItsLocks
  <2>3. Become(t, r)
    BY <1>1 DEF CommitRaise
  <2> QED BY <2>1, <2>2, <2>3, IdleFacts
<1> HIDE DEF r
<1>8. PICK q \in Task : q = r
  BY <1>7
<1>9. /\ lock' \in [LockIds -> Tasks \cup {NoTask}]
      /\ \A h \in LockIds : lock'[h] # t
      /\ \A u \in Tasks \ {t} : \A h \in LockIds : lock'[h] = u <=> lock[h] = u
  BY <1>3, ReleaseFacts
<1>10. HoldsItsLocks(t, q)' /\ SeesItsRows(q)'
  BY <1>7, <1>8, <1>9 DEF HoldsItsLocks, SeesItsRows, Locked, LocksOf
<1>11. \A a \in Ids, i \in Incidents :
          ActiveOf(a, i)' => (a # k.newId /\ ActiveOf(a, i)) \/ (a = k.newId /\ i = k.inc)
  BY <1>5 DEF ActiveOf, Active
<1>12. SafeForOthers(t)
  <2>1. \A a \in Ids, i \in Incidents : ActiveOf(a, i)' => ActiveOf(a, i) \/ lock[Hash[i]] = t
    BY <1>2, <1>11
  <2>2. \A a \in Ids : alert[a].st = "none" => alert'[a].st = "none" \/ (task[t].pc = "commit" /\ task[t].newId = a)
    BY <1>1, <1>2, <1>5
  <2> QED BY <1>3, <1>9, <2>1, <2>2 DEF SafeForOthers, TypeOK
<1>13. task' \in [Tasks -> Task] /\ TasksAreSound'
  BY <1>7, <1>8, <1>10, <1>12, TaskMoves
<1>14. TypeOK'
  BY <1>3, <1>6, <1>9, <1>13 DEF TypeOK, Ids, LockIds
<1>15. IdsAreFresh'
  <2>1. \A u \in Tasks : task'[u].pc = "commit" => task'[u] = task[u]
    BY <1>7 DEF LiveInv, TypeOK, Become
  <2>2. k.newId # 0 => k.newId < nextId
    BY <1>2 DEF SeesItsRows
  <2>3. \A a \in Ids : a >= nextId => alert'[a].st = "none"
    BY <1>3, <1>5, <2>2 DEF LiveInv, IdsAreFresh, Ids, TypeOK
  <2> QED BY <1>3, <2>1, <2>3 DEF LiveInv, IdsAreFresh, Ids
<1>16. OneActivePerIncident'
  <2> SUFFICES ASSUME NEW i \in Incidents, NEW a \in Ids, NEW b \in Ids, ActiveOf(a, i)', ActiveOf(b, i)'
               PROVE  a = b
    BY DEF OneActivePerIncident, Ids
  <2>1. CASE a # k.newId /\ b # k.newId
    BY <1>11, <2>1 DEF LiveInv, OneActivePerIncident
  <2>2. ASSUME NEW x \in Ids, x # k.newId, k.newId \in Ids, ActiveOf(x, k.inc)' PROVE FALSE
    <3>1. ActiveOf(x, k.inc) /\ k.newId # 0
      BY <1>2, <1>11, <2>2 DEF Ids
    <3>2. x \in k.seen
      BY <1>2, <3>1 DEF SeesItsRows
    <3> QED BY <1>5, <2>2, <3>2 DEF ActiveOf, Active
  <2> QED BY <1>11, <2>1, <2>2
<1>17. DeletedStaysResolved'
  <2> SUFFICES ASSUME NEW i \in buried, NEW a \in Ids, ActiveOf(a, i)' PROVE FALSE
    BY <1>3 DEF DeletedStaysResolved, Ids
  <2>1. i \in Incidents /\ ~ActiveOf(a, i)
    BY <1>3 DEF LiveInv, DeletedStaysResolved, TypeOK
  <2>2. a = k.newId /\ i = k.inc /\ k.newId # 0
    BY <1>11, <2>1 DEF Ids
  <2> QED BY <1>2, <2>2 DEF SeesItsRows
<1> QED BY <1>3, <1>13, <1>14, <1>15, <1>16, <1>17 DEF LiveInv

\* The commit of a resolve: no raise of a resolved incident is under way.
LEMMA CommitResolveInv ==
    ASSUME LiveInv, NEW t \in Tasks, CommitResolve(t)
    PROVE  LiveInv'
<1> DEFINE gone == {i \in task[t].refs : DeviceOf[i] \notin exists}
<1>1. /\ \A i \in task[t].refs : i \in Incidents /\ lock[Hash[i]] = t
      /\ TypeOK /\ alert \in [Ids -> Alert] /\ task[t].pc = "resolve"
      /\ UNCHANGED <<nextId, exists, offline, faults>> /\ Release(t)
      /\ Become(t, IdleTask) /\ buried' = buried \cup gone
  BY HoldersHold DEF LiveInv, TypeOK, CommitResolve, deviceVars
<1>2. ASSUME NEW a \in Ids
      PROVE  /\ alert'[a] \in Alert
             /\ alert'[a] = alert[a] \/ (alert[a].st = "active" /\ alert'[a].st = "resolved")
             /\ alert'[a].st = "active" => alert'[a].inc \notin task[t].refs
  BY <1>1 DEF CommitResolve, Alert, Active
<1>3. alert' \in [Ids -> Alert]
  BY <1>2 DEF CommitResolve
<1>4. /\ lock' \in [LockIds -> Tasks \cup {NoTask}]
      /\ \A h \in LockIds : lock'[h] # t
      /\ \A u \in Tasks \ {t} : \A h \in LockIds : lock'[h] = u <=> lock[h] = u
  BY <1>1, ReleaseFacts
<1>5. \A a \in Ids, i \in Incidents : ActiveOf(a, i)' => ActiveOf(a, i) /\ i \notin task[t].refs
  BY <1>2 DEF ActiveOf, Active
<1>6. SafeForOthers(t)
  BY <1>1, <1>2, <1>4, <1>5 DEF SafeForOthers, TypeOK
<1>7. task' \in [Tasks -> Task] /\ TasksAreSound'
  BY <1>1, <1>4, <1>6, IdleFacts, IdleIsSound, TaskMoves
<1>8. TypeOK'
  BY <1>1, <1>3, <1>4, <1>7 DEF TypeOK, Ids, LockIds
<1>9. IdsAreFresh'
  <2>1. \A u \in Tasks : task'[u].pc = "commit" => task'[u] = task[u]
    BY <1>1, IdleFacts DEF TypeOK, Become
  <2>2. \A a \in Ids : a >= nextId => alert'[a].st = "none"
    BY <1>2 DEF LiveInv, IdsAreFresh
  <2> QED BY <1>1, <2>1, <2>2 DEF LiveInv, IdsAreFresh, Ids
<1>10. OneActivePerIncident'
  BY <1>5 DEF LiveInv, OneActivePerIncident, Ids
<1>11. DeletedStaysResolved'
  <2> SUFFICES ASSUME NEW i \in buried', NEW a \in Ids, ActiveOf(a, i)' PROVE FALSE
    BY DEF DeletedStaysResolved, Ids
  <2>1. i \in Incidents /\ (i \in buried \/ i \in task[t].refs)
    BY <1>1 DEF TypeOK
  <2> QED BY <1>5, <2>1 DEF LiveInv, DeletedStaysResolved
<1>12. \A i \in buried' : DeviceOf[i] \notin exists'
  BY <1>1 DEF LiveInv
<1> QED BY <1>7, <1>8, <1>9, <1>10, <1>11, <1>12 DEF LiveInv

\* trimTenant holds no lock and only deletes rows.
LEMMA TrimTenantInv ==
    ASSUME LiveInv, NEW t \in Tasks, TrimTenant(t)
    PROVE  LiveInv'
<1>1. /\ task[t].pc = "trim" /\ Delete(Trimmed(task[t].tenant)) /\ Become(t, IdleTask)
      /\ UNCHANGED <<nextId, lock, exists, offline, buried, faults>> /\ TypeOK
  BY DEF TrimTenant, deviceVars, LiveInv
<1>2. Trimmed(task[t].tenant) \in SUBSET Ids /\ \A a \in Trimmed(task[t].tenant) : Row(a)
  BY DEF Trimmed
<1>3. /\ alert' \in [Ids -> Alert]
      /\ \A a \in Ids, i \in Incidents : ActiveOf(a, i)' => ActiveOf(a, i)
      /\ \A a \in Ids : alert[a].st = "none" => alert'[a].st = "none"
  BY <1>1, <1>2, DeleteFacts
<1>4. \A h \in LockIds : lock[h] # t
  BY <1>1 DEF LiveInv, TasksAreSound, HoldsItsLocks, Locked
<1>5. SafeForOthers(t)
  BY <1>1, <1>3 DEF SafeForOthers, TypeOK
<1>6. task' \in [Tasks -> Task] /\ TasksAreSound'
  BY <1>1, <1>4, <1>5, IdleFacts, IdleIsSound, TaskMoves
<1>7. TypeOK'
  BY <1>1, <1>3, <1>6 DEF TypeOK, Ids, LockIds
<1>8. \A u \in Tasks : task'[u].pc = "commit" => task'[u] = task[u]
  BY <1>1, IdleFacts DEF TypeOK, Become
<1>9. IdsAreFresh'
  BY <1>1, <1>3, <1>8 DEF LiveInv, IdsAreFresh, Ids
<1> QED BY <1>1, <1>3, <1>6, <1>7, <1>9
        DEF LiveInv, OneActivePerIncident, DeletedStaysResolved, Ids, TypeOK

\* The server goes down: every task is idle, no lock is held, committed rows stay.
LEMMA ServerCrashInv ==
    ASSUME LiveInv, ServerCrash
    PROVE  LiveInv'
<1>1. /\ UNCHANGED <<alert, nextId, exists, offline, buried>> /\ faults' \in Nat
      /\ task' = [t \in Tasks |-> IdleTask] /\ lock' = [h \in LockIds |-> NoTask] /\ TypeOK
  BY DEF ServerCrash, SpendFault, rowVars, deviceVars, LiveInv, TypeOK
<1>2. TypeOK'
  BY <1>1, IdleFacts, LiveAlertAssumption DEF TypeOK, Ids, LockIds
<1>3. TasksAreSound'
  <2>1. ASSUME NEW t \in Tasks PROVE task'[t] = IdleTask /\ \A h \in LockIds : lock'[h] # t
    BY <1>1, LiveAlertAssumption
  <2>2. ASSUME NEW t \in Tasks PROVE HoldsItsLocks(t, task[t])' /\ SeesItsRows(task[t])'
    BY <2>1, <2>2, IdleIsSound
  <2> QED BY <2>2 DEF TasksAreSound
<1>4. IdsAreFresh'
  <2>1. \A t \in Tasks : task'[t].pc # "commit"
    BY <1>1, IdleFacts
  <2> QED BY <1>1, <2>1 DEF LiveInv, IdsAreFresh, Ids
<1> QED BY <1>1, <1>2, <1>3, <1>4
        DEF LiveInv, OneActivePerIncident, DeletedStaysResolved, ActiveOf, Active, Ids

\* Users delete rows.
LEMMA UserInv ==
    ASSUME LiveInv, (\E a \in Ids : DeleteAlert(a)) \/ (\E n \in Tenants : ClearAll(n))
    PROVE  LiveInv'
<1>1. PICK as \in SUBSET Ids : (\A a \in as : Row(a)) /\ Delete(as)
  <2>1. ASSUME NEW a \in Ids, DeleteAlert(a)
        PROVE  \E as \in SUBSET Ids : (\A x \in as : Row(x)) /\ Delete(as)
    <3>1. {a} \in SUBSET Ids /\ (\A x \in {a} : Row(x)) /\ Delete({a})
      BY <2>1 DEF DeleteAlert
    <3> QED BY <3>1
  <2>2. ASSUME NEW n \in Tenants, ClearAll(n)
        PROVE  \E as \in SUBSET Ids : (\A x \in as : Row(x)) /\ Delete(as)
    <3> DEFINE s == {a \in Ids : Row(a) /\ alert[a].tenant = n}
    <3>1. s \in SUBSET Ids /\ (\A x \in s : Row(x)) /\ Delete(s)
      BY <2>2 DEF ClearAll
    <3> HIDE DEF s
    <3> QED BY <3>1
  <2> QED BY <2>1, <2>2
<1>2. UNCHANGED <<task, lock, nextId, buried, exists, offline, faults>>
  BY DEF DeleteAlert, ClearAll, deviceVars
<1>3. /\ alert' \in [Ids -> Alert]
      /\ \A a \in Ids, i \in Incidents : ActiveOf(a, i)' => ActiveOf(a, i)
      /\ \A a \in Ids : alert[a].st = "none" => alert'[a].st = "none"
  BY <1>1, DeleteFacts DEF LiveInv
<1> QED BY <1>2, <1>3, RowsLeave

\* A statement of a transaction, or the trim that follows it.
LEMMA TaskStepInv ==
    ASSUME LiveInv, NEW t \in Tasks, TaskStep(t)
    PROVE  LiveInv'
<1>1. ASSUME SerialExhausted(t) PROVE LiveInv'
  BY <1>1, AbortInv DEF SerialExhausted, rowVars, deviceVars, LiveInv, TypeOK
<1> QED BY <1>1, AcquireLockInv, LocksTakenInv, CheckDeviceInv, ReadActiveInv, InsertRowInv,
           CommitRaiseInv, TrimTenantInv, CommitResolveInv DEF TaskStep

\* Every step preserves the invariant.
LEMMA StepInv == LiveInv /\ [Next]_vars => LiveInv'
<1> SUFFICES ASSUME LiveInv, [Next]_vars PROVE LiveInv'
  OBVIOUS
<1>1. ASSUME NEW t \in Tasks, RollBack(t) PROVE LiveInv'
  <2>1. faults' \in Nat
    BY <1>1 DEF RollBack, SpendFault, LiveInv, TypeOK
  <2> QED BY <1>1, <2>1, AbortInv DEF RollBack, rowVars, deviceVars
<1>2. ASSUME UNCHANGED vars PROVE LiveInv'
  <2>1. UNCHANGED <<task, lock, nextId, buried, exists, offline, faults>> /\ alert' = alert
    BY <1>2 DEF vars
  <2>2. alert' \in [Ids -> Alert]
    BY <2>1 DEF LiveInv, TypeOK
  <2> QED BY <2>1, <2>2, RowsLeave DEF ActiveOf, Active
<1> QED BY <1>1, <1>2, StartInv, TaskStepInv, StatusChangesInv, UserInv, ServerCrashInv DEF Next

\* The invariant of the alert transactions holds in every reachable state.
THEOREM LiveSafety == Spec => []LiveInv
BY InitInv, StepInv, PTL DEF Spec

\* "At most ONE row of the incident is active", for any number of concurrent
\* raises, recoveries, deletions, crashes and lock collisions.
THEOREM OneActive == Spec => []OneActivePerIncident
<1>1. LiveInv => OneActivePerIncident
  BY DEF LiveInv
<1> QED BY <1>1, LiveSafety, PTL

\* A late raise never brings a deleted device back into the bell.
THEOREM DeletedQuiet == Spec => []DeletedStaysResolved
<1>1. LiveInv => DeletedStaysResolved
  BY DEF LiveInv
<1> QED BY <1>1, LiveSafety, PTL

\* Taking the locks in the order of their numbers excludes that two
\* transactions wait for each other.
THEOREM NoDeadlock == Spec => []NoCircularWait
<1>1. LiveInv => NoCircularWait
  <2> SUFFICES ASSUME LiveInv, NEW t \in Tasks, NEW u \in Tasks, t # u, Waits(t, u), Waits(u, t)
               PROVE  FALSE
    BY DEF NoCircularWait
  <2>1. PICK h \in task[t].want : lock[h] = u
    BY DEF Waits
  <2>2. PICK g \in task[u].want : lock[g] = t
    BY DEF Waits
  <2>3. /\ HoldsItsLocks(t, task[t]) /\ HoldsItsLocks(u, task[u])
        /\ task[t].want \subseteq LockIds /\ task[u].want \subseteq LockIds
    BY DEF LiveInv, TypeOK, TasksAreSound, Task
  <2>4. h \in LocksOf(task[u].refs) /\ h \notin task[u].want
    BY <2>1, <2>3 DEF HoldsItsLocks
  <2>5. g \in LocksOf(task[t].refs) /\ g \notin task[t].want
    BY <2>2, <2>3 DEF HoldsItsLocks
  <2>6. h < g /\ g < h
    BY <2>1, <2>2, <2>3, <2>4, <2>5 DEF HoldsItsLocks
  <2>7. h \in Int /\ g \in Int
    BY <2>1, <2>2, <2>3, LockFacts
  <2> QED BY <2>6, <2>7
<1> QED BY <1>1, LiveSafety, PTL

-----------------------------------------------------------------------------
(* How many rows a tenant has.  TenantBounded counts every raise that has    *)
(* not trimmed yet; what is inductive counts, per tenant, its own raises.    *)

RowsOf(n) == {a \in Ids : Row(a) /\ alert[a].tenant = n}

Trimming(n) == {t \in Tasks : task[t].pc = "trim" /\ task[t].tenant = n}

TenantInv ==
    \A n \in Tenants :
        Cardinality(RowsOf(n)) <= Keep + Cardinality(Trimming(n)) + faults * Cardinality(Tasks)

\* Rows and tasks can be counted.
LEMMA RowsFinite ==
    /\ IsFiniteSet(Ids) /\ IsFiniteSet(Tasks) /\ Cardinality(Tasks) \in Nat
    /\ \A n : /\ IsFiniteSet(RowsOf(n)) /\ Cardinality(RowsOf(n)) \in Nat
              /\ IsFiniteSet(Trimming(n)) /\ Cardinality(Trimming(n)) \in Nat
              /\ Cardinality(Trimming(n)) <= Cardinality(Tasks)
<1>1. IsFiniteSet(Ids) /\ IsFiniteSet(Tasks)
  BY FS_Interval, LiveAlertAssumption DEF Ids
<1>2. Cardinality(Tasks) \in Nat
  BY <1>1, FS_CardinalityType
<1>3. ASSUME NEW n
      PROVE  /\ IsFiniteSet(RowsOf(n)) /\ Cardinality(RowsOf(n)) \in Nat
             /\ IsFiniteSet(Trimming(n)) /\ Cardinality(Trimming(n)) \in Nat
             /\ Cardinality(Trimming(n)) <= Cardinality(Tasks)
  <2>1. RowsOf(n) \in SUBSET Ids /\ Trimming(n) \in SUBSET Tasks
    BY DEF RowsOf, Trimming
  <2> QED BY <1>1, <2>1, FS_Subset, FS_CardinalityType
<1> QED BY <1>1, <1>2, <1>3

\* The order of the trim is a strict total order on the rows.
LEMMA TrimOrder ==
    ASSUME NEW a \in Ids, NEW b \in Ids, NEW c \in Ids
    PROVE  /\ ~TrimBefore(a, a)
           /\ TrimBefore(a, b) /\ TrimBefore(b, c) => TrimBefore(a, c)
           /\ a # b => TrimBefore(a, b) \/ TrimBefore(b, a)
<1>1. a \in Int /\ b \in Int /\ c \in Int
  BY DEF Ids
<1>2. Active(a) \in BOOLEAN /\ Active(b) \in BOOLEAN /\ Active(c) \in BOOLEAN
  BY DEF Active
<1> QED BY <1>1, <1>2 DEF TrimBefore

\* The trim leaves at most Keep rows: the number of rows before it tells the
\* remaining rows apart, and is below Keep for each of them.
LEMMA TrimKeeps ==
    ASSUME NEW n \in Tenants
    PROVE  Cardinality(RowsOf(n) \ Trimmed(n)) <= Keep
<1> DEFINE R == RowsOf(n)
           Ahead(a) == {b \in R : TrimBefore(b, a)}
           S == R \ Trimmed(n)
           rank == [a \in S |-> Cardinality(Ahead(a))]
<1>1. IsFiniteSet(R) /\ R \subseteq Ids /\ Keep \in Nat
  BY RowsFinite, LiveAlertAssumption DEF RowsOf
<1>2. ASSUME NEW a \in R PROVE IsFiniteSet(Ahead(a)) /\ Cardinality(Ahead(a)) \in Nat
  <2>1. Ahead(a) \in SUBSET R
    OBVIOUS
  <2> QED BY <1>1, <2>1, FS_Subset, FS_CardinalityType
<1>3. ASSUME NEW a \in S PROVE Cardinality(Ahead(a)) < Keep
  <2>1. {b \in Ids : Row(b) /\ alert[b].tenant = n /\ TrimBefore(b, a)} = Ahead(a)
    BY DEF RowsOf
  <2>2. a \in R /\ a \in Ids /\ Row(a) /\ alert[a].tenant = n /\ a \notin Trimmed(n)
    BY DEF RowsOf
  <2>3. ~(Cardinality(Ahead(a)) >= Keep)
    BY <2>1, <2>2 DEF Trimmed
  <2>4. Cardinality(Ahead(a)) \in Nat
    BY <1>2, <2>2
  <2> HIDE DEF Ahead
  <2> QED BY <1>1, <2>3, <2>4
<1>4. ASSUME NEW a \in R, NEW b \in R, TrimBefore(b, a) PROVE Cardinality(Ahead(b)) # Cardinality(Ahead(a))
  <2>1. Ahead(b) \in SUBSET Ahead(a)
    BY <1>1, <1>4, TrimOrder
  <2>2. b \in Ahead(a) /\ b \notin Ahead(b)
    BY <1>1, <1>4, TrimOrder
  <2>3. IsFiniteSet(Ahead(a)) /\ Ahead(b) # Ahead(a)
    BY <1>2, <2>2
  <2> HIDE DEF Ahead
  <2> QED BY <2>1, <2>3, FS_Subset
<1>5. ASSUME NEW a \in S, NEW b \in S, a # b PROVE Cardinality(Ahead(b)) # Cardinality(Ahead(a))
  <2>1. TrimBefore(a, b) \/ TrimBefore(b, a)
    BY <1>1, <1>5, TrimOrder
  <2> HIDE DEF Ahead
  <2> QED BY <1>4, <2>1
<1>6. S \subseteq R
  OBVIOUS
<1> HIDE DEF S, R, Ahead
<1>7. rank \in Injection(S, 0..(Keep - 1))
  <2>1. \A a \in S : Cardinality(Ahead(a)) \in 0..(Keep - 1)
    BY <1>1, <1>2, <1>3, <1>6
  <2>2. rank \in [S -> 0..(Keep - 1)]
    BY <2>1
  <2>3. \A a, b \in DOMAIN rank : rank[a] = rank[b] => a = b
    BY <1>5
  <2> QED BY <2>2, <2>3 DEF Injection, IsInjective
<1>8. IsFiniteSet(0..(Keep - 1)) /\ Cardinality(0..(Keep - 1)) = Keep
  <2>1. 0 \in Int /\ Keep - 1 \in Int /\ Keep >= 1
    BY LiveAlertAssumption
  <2>2. Cardinality(0..(Keep - 1)) = (IF 0 > Keep - 1 THEN 0 ELSE (Keep - 1) - 0 + 1)
    BY <2>1, FS_Interval
  <2> QED BY <1>1, <2>1, <2>2, FS_Interval
<1>9. Cardinality(S) <= Cardinality(0..(Keep - 1))
  BY <1>7, <1>8, FS_Injection
<1> QED BY <1>8, <1>9 DEF S, R

\* No row appears or changes hands, and no trim is over.
LEMMA TenantQuiet ==
    ASSUME LiveInv, TenantInv, faults' \in {faults, faults + 1},
           \A a \in Ids : Row(a)' => Row(a) /\ alert'[a].tenant = alert[a].tenant,
           \A u \in Tasks : task[u].pc = "trim" => task'[u] = task[u]
    PROVE  TenantInv'
<1> SUFFICES ASSUME NEW n \in Tenants
             PROVE  (Cardinality(RowsOf(n)) <= Keep + Cardinality(Trimming(n)) + faults * Cardinality(Tasks))'
  BY DEF TenantInv
<1> DEFINE R == RowsOf(n)
           Q == RowsOf(n)'
           T == Trimming(n)
           U == Trimming(n)'
           N == Cardinality(Tasks)
<1>1. Q \in SUBSET R /\ T \in SUBSET U /\ U \in SUBSET Tasks
  BY DEF RowsOf, Trimming
<1>2. /\ IsFiniteSet(R) /\ Cardinality(R) \in Nat /\ Cardinality(T) \in Nat
      /\ IsFiniteSet(Tasks) /\ N \in Nat /\ Keep \in Nat /\ faults \in Nat
  BY RowsFinite, LiveAlertAssumption DEF LiveInv, TypeOK
<1>3. Cardinality(R) <= Keep + Cardinality(T) + faults * N
  BY DEF TenantInv
<1> HIDE DEF R, Q, T, U, N
<1>4. IsFiniteSet(U) /\ IsFiniteSet(Q) /\ Cardinality(U) \in Nat /\ Cardinality(Q) \in Nat
  BY <1>1, <1>2, FS_Subset, FS_CardinalityType
<1>5. Cardinality(Q) <= Cardinality(R) /\ Cardinality(T) <= Cardinality(U)
  BY <1>1, <1>2, <1>4, FS_Subset
<1>6. faults * N \in Nat /\ (faults + 1) * N = faults * N + N
  BY <1>2
<1>7. faults' * N \in Nat /\ faults * N <= faults' * N
  <2>1. CASE faults' = faults
    BY <1>2, <1>6, <2>1
  <2>2. CASE faults' = faults + 1
    BY <1>2, <1>6, <2>2
  <2> QED BY <2>1, <2>2
<1>8. Cardinality(Q) <= Keep + Cardinality(U) + faults' * N
  BY <1>2, <1>3, <1>4, <1>5, <1>6, <1>7
<1> QED BY <1>8 DEF Q, U, N

\* The commit of a raise adds its row and becomes a raise that has to trim.
LEMMA TenantCommit ==
    ASSUME LiveInv, TenantInv, NEW t \in Tasks, CommitRaise(t)
    PROVE  TenantInv'
<1> DEFINE k == task[t]
<1>1. /\ k.pc = "commit" /\ k \in Task /\ SeesItsRows(k) /\ faults' = faults
      /\ Become(t, IF k.newId = 0 THEN IdleTask ELSE [k EXCEPT !.pc = "trim"])
  BY DEF CommitRaise, LiveInv, TypeOK, TasksAreSound
<1>2. \A u \in Tasks \ {t} : task'[u] = task[u]
  BY <1>1 DEF Become, LiveInv, TypeOK
<1>3. \A a \in Ids : a # k.newId => alert'[a].tenant = alert[a].tenant /\ (Row(a)' => Row(a))
  BY DEF CommitRaise, Row, Active, LiveInv, TypeOK, Alert
<1>4. CASE k.newId = 0
  <2>1. 0 \notin Ids
    BY DEF Ids
  <2>2. \A u \in Tasks : task[u].pc = "trim" => task'[u] = task[u]
    BY <1>1, <1>2
  <2>3. faults' \in {faults, faults + 1}
    BY <1>1
  <2>4. \A a \in Ids : Row(a)' => Row(a) /\ alert'[a].tenant = alert[a].tenant
    BY <1>3, <1>4, <2>1
  <2> QED BY <2>2, <2>3, <2>4, TenantQuiet
<1>5. CASE k.newId # 0
  <2> SUFFICES ASSUME NEW n \in Tenants
               PROVE  (Cardinality(RowsOf(n)) <= Keep + Cardinality(Trimming(n)) + faults * Cardinality(Tasks))'
    BY DEF TenantInv
  <2>1. k.newId \in Ids /\ ~Row(k.newId) /\ alert'[k.newId].tenant = k.tenant
    BY <1>1, <1>5 DEF SeesItsRows, Row, CommitRaise
  <2>2. task'[t].pc = "trim" /\ task'[t].tenant = k.tenant
    BY <1>1, <1>5 DEF Become, LiveInv, TypeOK, Task
  <2> DEFINE R == RowsOf(n)
             T == Trimming(n)
             F == faults * Cardinality(Tasks)
  <2>3. /\ IsFiniteSet(R) /\ Cardinality(R) \in Nat /\ IsFiniteSet(T) /\ Cardinality(T) \in Nat
        /\ Keep \in Nat /\ F \in Nat
    BY RowsFinite, LiveAlertAssumption DEF LiveInv, TypeOK
  <2>4. Cardinality(R) <= Keep + Cardinality(T) + F
    BY DEF TenantInv
  <2>5. t \notin T
    BY <1>1 DEF Trimming
  <2>6. CASE k.tenant = n
    <3>1. RowsOf(n)' \in SUBSET (R \cup {k.newId})
      BY <1>3 DEF RowsOf
    <3>2. Trimming(n)' = T \cup {t}
      BY <1>1, <1>2, <2>2, <2>6 DEF Trimming
    <3> HIDE DEF k, R, T, F
    <3>3. Cardinality(R \cup {k.newId}) <= Cardinality(R) + 1 /\ IsFiniteSet(R \cup {k.newId})
      <4>1. /\ IsFiniteSet(R \cup {k.newId})
            /\ \/ Cardinality(R \cup {k.newId}) = Cardinality(R)
               \/ Cardinality(R \cup {k.newId}) = Cardinality(R) + 1
        BY <2>3, FS_AddElement, Zenon
      <4> QED BY <2>3, <4>1
    <3>4. Cardinality(RowsOf(n)') <= Cardinality(R \cup {k.newId}) /\ Cardinality(RowsOf(n)') \in Nat
          /\ Cardinality(R \cup {k.newId}) \in Nat
      BY <3>1, <3>3, FS_Subset, FS_CardinalityType
    <3>5. Cardinality(T \cup {t}) = Cardinality(T) + 1
      BY <2>3, <2>5, FS_AddElement
    <3>6. Cardinality(RowsOf(n)') <= Keep + Cardinality(T \cup {t}) + F
      BY <2>3, <2>4, <3>3, <3>4, <3>5
    <3> QED BY <1>1, <3>2, <3>6 DEF F
  <2>7. CASE k.tenant # n
    <3>1. RowsOf(n)' \in SUBSET R
      BY <1>3, <2>1, <2>7 DEF RowsOf
    <3>2. Trimming(n)' = T
      BY <1>1, <1>2, <2>2, <2>7 DEF Trimming
    <3> HIDE DEF k, R, T, F
    <3>3. Cardinality(RowsOf(n)') <= Cardinality(R) /\ Cardinality(RowsOf(n)') \in Nat
      BY <2>3, <3>1, FS_Subset, FS_CardinalityType
    <3>4. Cardinality(RowsOf(n)') <= Keep + Cardinality(T) + F
      BY <2>3, <2>4, <3>3
    <3> QED BY <1>1, <3>2, <3>4 DEF F
  <2> QED BY <2>6, <2>7
<1> QED BY <1>4, <1>5

\* A trim brings its tenant down to Keep rows and leaves the other tenants alone.
LEMMA TenantTrim ==
    ASSUME LiveInv, TenantInv, NEW t \in Tasks, TrimTenant(t)
    PROVE  TenantInv'
<1> SUFFICES ASSUME NEW n \in Tenants
             PROVE  (Cardinality(RowsOf(n)) <= Keep + Cardinality(Trimming(n)) + faults * Cardinality(Tasks))'
  BY DEF TenantInv
<1> DEFINE m == task[t].tenant
<1>1. /\ task[t].pc = "trim" /\ Delete(Trimmed(m)) /\ Become(t, IdleTask) /\ faults' = faults
      /\ task \in [Tasks -> Task] /\ alert \in [Ids -> Alert] /\ faults \in Nat
  BY DEF TrimTenant, LiveInv, TypeOK
<1>2. \A a \in Ids : IF a \in Trimmed(m) THEN alert'[a].st = "deleted" ELSE alert'[a] = alert[a]
  BY <1>1 DEF Delete, Alert
<1> DEFINE F == faults * Cardinality(Tasks)
<1>3. F \in Nat /\ Keep \in Nat /\ F' = F
  BY <1>1, RowsFinite, LiveAlertAssumption
<1>4. CASE n = m
  <2>1. RowsOf(n)' \in SUBSET (RowsOf(n) \ Trimmed(n))
    BY <1>2, <1>4 DEF RowsOf, Row
  <2>2. IsFiniteSet(RowsOf(n) \ Trimmed(n))
    <3>1. RowsOf(n) \ Trimmed(n) \in SUBSET RowsOf(n)
      OBVIOUS
    <3> QED BY <3>1, RowsFinite, FS_Subset
  <2>3. Cardinality(RowsOf(n)') <= Cardinality(RowsOf(n) \ Trimmed(n)) /\ Cardinality(RowsOf(n)') \in Nat
        /\ Cardinality(RowsOf(n) \ Trimmed(n)) \in Nat
    BY <2>1, <2>2, FS_Subset, FS_CardinalityType
  <2>4. Cardinality(RowsOf(n) \ Trimmed(n)) <= Keep
    BY TrimKeeps
  <2>5. Trimming(n)' \in SUBSET Tasks
    BY DEF Trimming
  <2>6. Cardinality(Trimming(n)') \in Nat
    BY <2>5, RowsFinite, FS_Subset, FS_CardinalityType
  <2> HIDE DEF F
  <2>7. Cardinality(RowsOf(n)') <= Keep + Cardinality(Trimming(n)') + F
    BY <1>3, <2>3, <2>4, <2>6
  <2> QED BY <1>1, <2>7 DEF F
<1>5. CASE n # m
  <2>1. RowsOf(n)' \in SUBSET RowsOf(n)
    BY <1>2, <1>5 DEF RowsOf, Row
  <2>2. Trimming(n)' = Trimming(n)
    BY <1>1, <1>5, IdleFacts DEF Trimming, Become
  <2>3. /\ IsFiniteSet(RowsOf(n)) /\ Cardinality(RowsOf(n)) \in Nat /\ Cardinality(Trimming(n)) \in Nat
    BY RowsFinite
  <2>4. Cardinality(RowsOf(n)') <= Cardinality(RowsOf(n)) /\ Cardinality(RowsOf(n)') \in Nat
    BY <2>1, <2>3, FS_Subset, FS_CardinalityType
  <2>5. Cardinality(RowsOf(n)) <= Keep + Cardinality(Trimming(n)) + F
    BY DEF TenantInv
  <2> HIDE DEF F
  <2>6. Cardinality(RowsOf(n)') <= Keep + Cardinality(Trimming(n)) + F
    BY <1>3, <2>3, <2>4, <2>5
  <2> QED BY <1>1, <2>2, <2>6 DEF F
<1> QED BY <1>4, <1>5

\* A crash may lose the trim of every task, and is counted as such.
LEMMA TenantCrash ==
    ASSUME LiveInv, TenantInv, ServerCrash
    PROVE  TenantInv'
<1> SUFFICES ASSUME NEW n \in Tenants
             PROVE  (Cardinality(RowsOf(n)) <= Keep + Cardinality(Trimming(n)) + faults * Cardinality(Tasks))'
  BY DEF TenantInv
<1> DEFINE N == Cardinality(Tasks)
<1>1. alert' = alert /\ faults' = faults + 1
  BY DEF ServerCrash, SpendFault, rowVars
<1>2. RowsOf(n)' = RowsOf(n)
  BY <1>1 DEF RowsOf, Row
<1>3. Trimming(n)' \in SUBSET Tasks
  BY DEF Trimming
<1>4. Cardinality(Trimming(n)') \in Nat
  BY <1>3, RowsFinite, FS_Subset, FS_CardinalityType
<1>5. /\ Cardinality(RowsOf(n)) \in Nat /\ Cardinality(Trimming(n)) \in Nat /\ Cardinality(Trimming(n)) <= N
      /\ N \in Nat /\ Keep \in Nat /\ faults \in Nat
  BY RowsFinite, LiveAlertAssumption DEF LiveInv, TypeOK
<1>6. Cardinality(RowsOf(n)) <= Keep + Cardinality(Trimming(n)) + faults * N
  BY DEF TenantInv
<1> HIDE DEF N
<1>7. (faults + 1) * N = faults * N + N /\ faults * N \in Nat
  BY <1>5
<1>8. Cardinality(RowsOf(n)) <= Keep + Cardinality(Trimming(n)') + (faults + 1) * N
  BY <1>4, <1>5, <1>6, <1>7
<1> QED BY <1>1, <1>2, <1>8 DEF N

\* Every step preserves the count.
LEMMA StepTenant == LiveInv /\ TenantInv /\ [Next]_vars => TenantInv'
<1> SUFFICES ASSUME LiveInv, TenantInv, [Next]_vars PROVE TenantInv'
  OBVIOUS
<1>a. alert \in [Ids -> Alert] /\ task \in [Tasks -> Task] /\ faults \in Nat
  BY DEF LiveInv, TypeOK
<1>b. ASSUME NEW t \in Tasks, NEW k, Become(t, k), task[t].pc # "trim", faults' \in {faults, faults + 1},
             \A a \in Ids : Row(a)' => Row(a) /\ alert'[a].tenant = alert[a].tenant
      PROVE  TenantInv'
  <2>1. \A u \in Tasks : task[u].pc = "trim" => task'[u] = task[u]
    BY <1>a, <1>b DEF Become
  <2> QED BY <1>b, <2>1, TenantQuiet
<1>c. ASSUME alert' = alert PROVE \A a \in Ids : Row(a)' => Row(a) /\ alert'[a].tenant = alert[a].tenant
  BY <1>c DEF Row
<1>1. ASSUME NEW t \in Tasks, Start(t) PROVE TenantInv'
  <2>1. task[t].pc # "trim" /\ alert' = alert /\ faults' = faults /\ \E k : Become(t, k)
    BY <1>1 DEF Start, Raise, Resolve, DeleteDevice, OrphanSweep, BeginRaise, BeginResolve, Idle, rowVars
  <2> QED BY <1>a, <1>b, <1>c, <2>1
<1>2. ASSUME NEW t \in Tasks, AcquireLock(t) \/ LocksTaken(t) \/ CheckDevice(t) \/ ReadActive(t) \/ InsertRow(t)
                              \/ SerialExhausted(t)
      PROVE  TenantInv'
  <2>1. task[t].pc # "trim" /\ alert' = alert /\ faults' = faults /\ \E k : Become(t, k)
    BY <1>2 DEF AcquireLock, LocksTaken, CheckDevice, ReadActive, InsertRow, SerialExhausted, Abort, rowVars
  <2> QED BY <1>a, <1>b, <1>c, <2>1
<1>3. ASSUME NEW t \in Tasks, RollBack(t) PROVE TenantInv'
  <2>1. task[t].pc # "trim" /\ alert' = alert /\ faults' = faults + 1 /\ Become(t, IdleTask)
    BY <1>3 DEF RollBack, Abort, SpendFault, rowVars
  <2>2. faults' \in {faults, faults + 1}
    BY <2>1
  <2> QED BY <1>b, <1>c, <2>1, <2>2
<1>4. ASSUME NEW t \in Tasks, CommitResolve(t) PROVE TenantInv'
  <2>1. task[t].pc # "trim" /\ faults' = faults /\ Become(t, IdleTask)
    BY <1>4 DEF CommitResolve
  <2>2. \A a \in Ids : Row(a)' => Row(a) /\ alert'[a].tenant = alert[a].tenant
    BY <1>a, <1>4 DEF CommitResolve, Row, Active, Alert
  <2> QED BY <1>a, <1>b, <2>1, <2>2
<1>5. ASSUME (\E a \in Ids : DeleteAlert(a)) \/ (\E n \in Tenants : ClearAll(n)) PROVE TenantInv'
  <2>1. task' = task /\ faults' = faults
    BY <1>5 DEF DeleteAlert, ClearAll
  <2>2. PICK as : Delete(as)
    BY <1>5 DEF DeleteAlert, ClearAll
  <2>3. \A a \in Ids : Row(a)' => Row(a) /\ alert'[a].tenant = alert[a].tenant
    BY <1>a, <2>2 DEF Delete, Row, Alert
  <2> QED BY <1>a, <2>1, <2>3, TenantQuiet
<1>6. ASSUME (\E d \in Devices : StatusChanges(d)) \/ UNCHANGED vars PROVE TenantInv'
  <2>1. task' = task /\ faults' = faults /\ alert' = alert
    BY <1>6 DEF StatusChanges, vars, rowVars
  <2> QED BY <1>a, <1>c, <2>1, TenantQuiet
<1>7. ASSUME NEW t \in Tasks, TaskStep(t) PROVE TenantInv'
  BY <1>2, <1>4, <1>7, TenantCommit, TenantTrim DEF TaskStep
<1> QED BY <1>1, <1>3, <1>5, <1>6, <1>7, TenantCrash DEF Next

\* The trim, which runs outside the locks and after the commit, bounds the rows of a
\* tenant: Keep, one for each raise on its way to the trim, and what faults lost.
THEOREM TenantsAreBounded == Spec => []TenantBounded
<1>1. Init => TenantInv
  <2> SUFFICES ASSUME Init, NEW n \in Tenants
               PROVE  Cardinality(RowsOf(n)) <= Keep + Cardinality(Trimming(n)) + faults * Cardinality(Tasks)
    BY DEF TenantInv
  <2>1. RowsOf(n) = {}
    BY DEF Init, RowsOf, Row, NoAlert
  <2>2. Cardinality({}) = 0 /\ Cardinality(Trimming(n)) \in Nat /\ Cardinality(Tasks) \in Nat /\ faults = 0
    BY FS_EmptySet, RowsFinite DEF Init
  <2> QED BY <2>1, <2>2, LiveAlertAssumption
<1>2. LiveInv /\ TenantInv => TenantBounded
  <2> SUFFICES ASSUME LiveInv, TenantInv, NEW n \in Tenants
               PROVE  Cardinality(RowsOf(n)) <= Keep + Cardinality({t \in Tasks : task[t].pc = "trim"})
                                                     + faults * Cardinality(Tasks)
    BY DEF TenantBounded, RowsOf
  <2> DEFINE U == {t \in Tasks : task[t].pc = "trim"}
             F == faults * Cardinality(Tasks)
  <2>1. Trimming(n) \in SUBSET U /\ U \in SUBSET Tasks
    BY DEF Trimming
  <2>2. F \in Nat /\ Keep \in Nat /\ Cardinality(RowsOf(n)) \in Nat /\ Cardinality(Trimming(n)) \in Nat
    BY RowsFinite, LiveAlertAssumption DEF LiveInv, TypeOK
  <2>3. Cardinality(RowsOf(n)) <= Keep + Cardinality(Trimming(n)) + F
    BY DEF TenantInv
  <2> HIDE DEF U, F
  <2>4. IsFiniteSet(U) /\ Cardinality(U) \in Nat /\ Cardinality(Trimming(n)) <= Cardinality(U)
    BY <2>1, RowsFinite, FS_Subset, FS_CardinalityType
  <2>5. Cardinality(RowsOf(n)) <= Keep + Cardinality(U) + F
    BY <2>2, <2>3, <2>4
  <2> QED BY <2>5 DEF U, F
<1>3. LiveInv /\ TenantInv /\ [Next]_vars => TenantInv'
  BY StepTenant
<1> QED BY LiveSafety, <1>1, <1>2, <1>3, PTL DEF Spec

-----------------------------------------------------------------------------
(* The phone.  The mark may go back, but a poll that ends leaves it at or    *)
(* above every active alert; and an alert that turns active had no row       *)
(* before, so it has not rung: of the alerts that rang in a poll that was    *)
(* not cut, only one that is no longer active is above the mark, unless the  *)
(* mark is not set or the poll is not over.                                  *)

\* A notification of a was posted by a poll that ended, or is not over.
Counted(a) == rung[a] > cut[a]

PhoneTypes ==
    /\ mark \in Int
    /\ worker \in Worker
    /\ rung \in [Ids -> Nat] /\ cut \in [Ids -> Nat]

\* What the worker knows at its program counter.
WorkerSound(w) ==
    /\ w.pc # "posting" => w.todo = {} /\ w.posted = {}
    /\ w.pc = "got" =>
          /\ \A a \in w.feed : Counted(a) /\ mark # NoMark => a <= mark
          /\ \A a \in Ids : Active(a) /\ Counted(a) => \E b \in w.feed : a <= b
    /\ w.pc = "posting" =>
          /\ \A a \in w.todo : ~Counted(a) /\ alert[a].st # "none" /\ a <= w.mark
          /\ \A a \in Ids : Active(a) /\ Counted(a) => a <= w.mark

PhoneInv ==
    /\ PhoneTypes
    /\ \A a \in Ids : rung[a] > 0 => alert[a].st # "none"
    /\ \A a \in Ids : rung[a] <= 1 + cut[a]
    /\ worker.pc = "got" => \A a \in worker.feed : alert[a].st # "none"
    /\ mark # NoMark => \A a \in Ids : Active(a) /\ Counted(a) /\ a \notin worker.posted => a <= mark
    /\ WorkerSound(worker)

\* A set of ids that is not empty has a greatest element.
LEMMA GreatestId ==
    ASSUME NEW S \in SUBSET Ids, S # {}
    PROVE  \E m \in S : \A y \in S : m >= y
<1> DEFINE T == {MaxId - a : a \in S}
           R == OpToRel(<, Nat)
<1>1. MaxId \in Nat /\ \A a \in S : a \in Int /\ a <= MaxId
  BY LiveAlertAssumption DEF Ids
<1>2. T \subseteq Nat /\ T # {}
  BY <1>1
<1>3. IsWellFoundedOn(R, Nat)
  BY NatLessThanWellFounded
<1> HIDE DEF T, R
<1>4. PICK x \in T : \A y \in T : ~(<<y, x>> \in R)
  BY <1>2, <1>3, WFMin
<1>5. \A y \in T : ~(y < x)
  BY <1>2, <1>4 DEF R, OpToRel
<1>6. PICK m \in S : x = MaxId - m
  BY DEF T
<1>7. ASSUME NEW y \in S PROVE m >= y
  <2>1. MaxId - y \in T
    BY DEF T
  <2>2. ~(MaxId - y < MaxId - m)
    BY <1>5, <1>6, <2>1
  <2> QED BY <1>1, <2>2
<1> QED BY <1>7

\* The feed holds the newest active alert: none is above all of it.
LEMMA FeedCovers ==
    /\ Feed \in SUBSET Ids /\ \A b \in Feed : Active(b)
    /\ \A a \in Ids : Active(a) => \E b \in Feed : a <= b
<1>1. ActiveIds \in SUBSET Ids /\ Feed \in SUBSET ActiveIds
  BY DEF ActiveIds, Feed
<1>2. ASSUME NEW a \in ActiveIds PROVE \E b \in Feed : a <= b
  <2>1. PICK m \in ActiveIds : \A y \in ActiveIds : m >= y
    BY <1>1, <1>2, GreatestId
  <2>2. {b \in ActiveIds : b > m} = {}
    <3>1. \A b \in ActiveIds : b \in Int /\ m \in Int /\ m >= b
      BY <1>1, <2>1 DEF Ids
    <3> QED BY <3>1
  <2>3. m \in Feed
    BY <2>2, FS_EmptySet, AlertPhoneAssumption DEF Feed
  <2>4. a \in Int /\ m \in Int /\ m >= a
    BY <1>1, <2>1 DEF Ids
  <2> QED BY <2>3, <2>4
<1> QED BY <1>1, <1>2 DEF ActiveIds

\* The new mark is at or above every row of the response.
LEMMA MarkCovers ==
    ASSUME NEW feed \in SUBSET Ids, mark \in Int
    PROVE  NewMark(feed) \in Int /\ \A b \in feed : b <= NewMark(feed)
<1>1. CASE feed = {}
  BY <1>1 DEF NewMark
<1>2. CASE feed # {}
  <2>1. PICK m \in feed : \A y \in feed : m >= y
    BY <1>2, GreatestId
  <2>2. Max(feed) \in feed /\ \A y \in feed : Max(feed) >= y
    BY <2>1 DEF Max
  <2> HIDE DEF Max
  <2>3. NewMark(feed) = Max(feed)
    BY <1>2 DEF NewMark
  <2>4. \A y \in feed : y \in Int
    BY DEF Ids
  <2> QED BY <2>2, <2>3, <2>4
<1> QED BY <1>1, <1>2

\* No step of the server brings a row back that had left its first state, nor makes
\* one active that was resolved or deleted.
LEMMA RowsOnlyLeave ==
    ASSUME LiveInv, [Next]_vars, NEW a \in Ids
    PROVE  /\ alert[a].st # "none" => alert'[a].st # "none"
           /\ Active(a)' => Active(a) \/ alert[a].st = "none"
<1>a. alert \in [Ids -> Alert]
  BY DEF LiveInv, TypeOK
<1>b. ASSUME alert' = alert
      PROVE  /\ alert[a].st # "none" => alert'[a].st # "none"
             /\ Active(a)' => Active(a) \/ alert[a].st = "none"
  BY <1>b DEF Active
<1>c. ASSUME NEW as, Delete(as)
      PROVE  /\ alert[a].st # "none" => alert'[a].st # "none"
             /\ Active(a)' => Active(a) \/ alert[a].st = "none"
  BY <1>a, <1>c DEF Delete, Active, Alert
<1>1. ASSUME NEW t \in Tasks, Start(t)
      PROVE  alert' = alert
  BY <1>1 DEF Start, Raise, Resolve, DeleteDevice, OrphanSweep, rowVars
<1>2. ASSUME NEW t \in Tasks, AcquireLock(t) \/ LocksTaken(t) \/ CheckDevice(t) \/ ReadActive(t) \/ InsertRow(t)
                              \/ SerialExhausted(t) \/ RollBack(t)
      PROVE  alert' = alert
  BY <1>2 DEF AcquireLock, LocksTaken, CheckDevice, ReadActive, InsertRow, SerialExhausted, RollBack, rowVars
<1>3. ASSUME NEW t \in Tasks, CommitRaise(t)
      PROVE  /\ alert[a].st # "none" => alert'[a].st # "none"
             /\ Active(a)' => Active(a) \/ alert[a].st = "none"
  <2> DEFINE k == task[t]
  <2>1. k.pc = "commit" /\ k \in Task /\ SeesItsRows(k)
    BY <1>3 DEF CommitRaise, LiveInv, TypeOK, TasksAreSound
  <2>2. 0 \notin Ids
    BY DEF Ids
  <2>3. a = k.newId => alert[a].st = "none"
    BY <2>1, <2>2 DEF SeesItsRows
  <2> QED BY <1>a, <1>3, <2>3 DEF CommitRaise, Active, Alert
<1>4. ASSUME NEW t \in Tasks, CommitResolve(t)
      PROVE  /\ alert[a].st # "none" => alert'[a].st # "none"
             /\ Active(a)' => Active(a) \/ alert[a].st = "none"
  BY <1>a, <1>4 DEF CommitResolve, Active, Alert
<1>5. ASSUME (\E t \in Tasks : TrimTenant(t)) \/ (\E b \in Ids : DeleteAlert(b)) \/ (\E n \in Tenants : ClearAll(n))
      PROVE  \E as : Delete(as)
  BY <1>5, Zenon DEF TrimTenant, DeleteAlert, ClearAll
<1>6. ASSUME (\E d \in Devices : StatusChanges(d)) \/ ServerCrash \/ UNCHANGED vars PROVE alert' = alert
  BY <1>6 DEF StatusChanges, ServerCrash, vars, rowVars
<1>7. ASSUME NEW t \in Tasks, TaskStep(t)
      PROVE  /\ alert[a].st # "none" => alert'[a].st # "none"
             /\ Active(a)' => Active(a) \/ alert[a].st = "none"
  BY <1>b, <1>c, <1>2, <1>3, <1>4, <1>5, <1>7 DEF TaskStep
<1> QED BY <1>b, <1>c, <1>1, <1>2, <1>5, <1>6, <1>7 DEF Next

\* A step of the server does not make an alert active that has rung.
LEMMA ServerKeepsPhone ==
    ASSUME LiveInv, PhoneInv, [Next]_vars, UNCHANGED phoneVars
    PROVE  PhoneInv'
<1>1. mark' = mark /\ worker' = worker /\ rung' = rung /\ cut' = cut
  BY DEF phoneVars
<1>2. \A a \in Ids : Counted(a) => rung[a] > 0
  BY DEF Counted, PhoneInv, PhoneTypes
<1>3. \A a \in Ids : /\ alert[a].st # "none" => alert'[a].st # "none"
                     /\ Active(a)' /\ Counted(a) => Active(a)
  BY <1>2, RowsOnlyLeave DEF PhoneInv
<1>4. worker.todo \in SUBSET Ids /\ worker.feed \in SUBSET Ids
  BY DEF PhoneInv, PhoneTypes, Worker
<1>5. WorkerSound(worker)'
  BY <1>1, <1>3, <1>4, Zenon DEF PhoneInv, WorkerSound, Counted
<1>6. \A a \in Ids : rung[a] > 0 => alert'[a].st # "none"
  BY <1>3 DEF PhoneInv
<1>7. worker.pc = "got" => \A a \in worker.feed : alert'[a].st # "none"
  BY <1>3, <1>4 DEF PhoneInv
<1>8. mark # NoMark => \A a \in Ids : Active(a)' /\ Counted(a) /\ a \notin worker.posted => a <= mark
  BY <1>3 DEF PhoneInv
<1> QED BY <1>1, <1>5, <1>6, <1>7, <1>8 DEF PhoneInv, PhoneTypes, Counted

\* The response holds active rows, the newest of them first.
LEMMA GetKeepsPhone ==
    ASSUME PhoneInv, PollGets
    PROVE  PhoneInv'
<1>1. /\ worker.pc = "idle" /\ worker.posted = {}
      /\ worker' = [IdleWorker EXCEPT !.pc = "got", !.feed = Feed]
      /\ mark' = mark /\ rung' = rung /\ cut' = cut /\ alert' = alert
  BY DEF PollGets, PhoneInv, WorkerSound, vars
<1>2. /\ worker' \in Worker /\ worker'.pc = "got" /\ worker'.feed = Feed
      /\ worker'.todo = {} /\ worker'.posted = {}
  <2>1. PICK f \in SUBSET Ids : f = Feed /\ worker' = [IdleWorker EXCEPT !.pc = "got", !.feed = f]
    BY <1>1, FeedCovers
  <2>2. IdleWorker \in Worker /\ IdleWorker.todo = {} /\ IdleWorker.posted = {}
    BY DEF IdleWorker, Worker
  <2> QED BY <2>1, <2>2 DEF Worker
<1>3. \A a \in Feed : a \in Ids /\ alert[a].st # "none"
  BY FeedCovers DEF Active
<1>4. \A a \in Feed : Counted(a) /\ mark # NoMark => a <= mark
  BY <1>1, FeedCovers DEF PhoneInv
<1>5. WorkerSound(worker)'
  BY <1>1, <1>2, <1>4, FeedCovers DEF WorkerSound, Counted, Active
<1> QED BY <1>1, <1>2, <1>3, <1>5 DEF PhoneInv, PhoneTypes, Counted, Active

\* An alert that will ring is above the mark that was read: no poll counts it.
LEMMA ProcessKeepsPhone ==
    ASSUME PhoneInv, PollProcesses
    PROVE  PhoneInv'
<1>1. worker.pc = "got" /\ mark' = mark /\ rung' = rung /\ cut' = cut /\ alert' = alert
  BY DEF PollProcesses, vars
<1>2. worker.feed \in SUBSET Ids /\ mark \in Int /\ worker.posted = {}
  BY <1>1 DEF PhoneInv, PhoneTypes, Worker, WorkerSound
<1> DEFINE m == NewMark(worker.feed)
<1>3. m \in Int /\ \A b \in worker.feed : b <= m
  BY <1>2, MarkCovers
<1> HIDE DEF m
<1>4. PICK unread \in SUBSET Fresh(worker.feed) :
         worker' = [IdleWorker EXCEPT !.pc = "posting", !.todo = unread, !.mark = m]
  BY DEF PollProcesses, m
<1>5. \A a \in unread : a \in worker.feed /\ mark # NoMark /\ a > mark
  BY <1>4 DEF Fresh
<1>6. /\ worker' \in Worker /\ worker'.pc = "posting" /\ worker'.todo = unread
      /\ worker'.posted = {} /\ worker'.mark = m
  BY <1>2, <1>3, <1>4, <1>5 DEF IdleWorker, Worker
<1>7. \A a \in unread : ~Counted(a) /\ alert[a].st # "none" /\ a <= m
  <2> TAKE a \in unread
  <2>1. a \in Int /\ mark \in Int /\ a > mark /\ a \in worker.feed
    BY <1>2, <1>5 DEF Ids
  <2>2. Counted(a) => a <= mark
    BY <1>1, <1>5 DEF PhoneInv, WorkerSound
  <2>3. ~Counted(a)
    BY <2>1, <2>2
  <2>4. alert[a].st # "none"
    BY <1>1, <2>1 DEF PhoneInv
  <2> QED BY <1>3, <2>1, <2>3, <2>4
<1>8. ASSUME NEW a \in Ids, Active(a), Counted(a) PROVE a <= m
  <2>1. PICK b \in worker.feed : a <= b
    BY <1>1, <1>8 DEF PhoneInv, WorkerSound
  <2>2. a \in Int /\ b \in Int /\ b <= m
    BY <1>2, <1>3 DEF Ids
  <2> QED BY <1>3, <2>1, <2>2
<1>9. WorkerSound(worker)'
  BY <1>1, <1>6, <1>7, <1>8 DEF WorkerSound, Counted, Active
<1> QED BY <1>1, <1>2, <1>6, <1>9 DEF PhoneInv, PhoneTypes, Counted, Active

\* A notification.
LEMMA PostKeepsPhone ==
    ASSUME PhoneInv, NEW x \in Ids, Post(x)
    PROVE  PhoneInv'
<1>1. /\ worker.pc = "posting" /\ x \in worker.todo
      /\ rung' = [rung EXCEPT ![x] = @ + 1] /\ mark' = mark /\ cut' = cut /\ alert' = alert
      /\ worker' = [worker EXCEPT !.todo = @ \ {x}, !.posted = @ \cup {x}]
  BY DEF Post, vars
<1>2. /\ worker \in Worker /\ mark \in Int /\ rung \in [Ids -> Nat] /\ cut \in [Ids -> Nat]
      /\ worker.todo \in SUBSET Ids /\ worker.posted \in SUBSET Ids /\ worker.mark \in Int
  BY DEF PhoneInv, PhoneTypes, Worker
<1>3. /\ worker' \in Worker /\ worker'.pc = "posting" /\ worker'.todo = worker.todo \ {x}
      /\ worker'.posted = worker.posted \cup {x} /\ worker'.mark = worker.mark
  BY <1>1, <1>2 DEF Worker
<1>4. rung' \in [Ids -> Nat] /\ rung'[x] = rung[x] + 1 /\ \A a \in Ids \ {x} : rung'[a] = rung[a]
  BY <1>1, <1>2
<1>5. ~Counted(x) /\ alert[x].st # "none" /\ x <= worker.mark
  BY <1>1 DEF PhoneInv, WorkerSound
<1>6. rung'[x] <= 1 + cut[x]
  BY <1>2, <1>4, <1>5 DEF Counted
<1>7. \A a \in Ids \ {x} : Counted(a)' <=> Counted(a)
  BY <1>1, <1>4 DEF Counted
<1>8. \A a \in worker.todo \ {x} : ~Counted(a)' /\ alert[a].st # "none" /\ a <= worker.mark
  BY <1>1, <1>2, <1>7 DEF PhoneInv, WorkerSound
<1>9. \A a \in Ids : Active(a) /\ Counted(a)' => a <= worker.mark
  BY <1>1, <1>5, <1>7 DEF PhoneInv, WorkerSound
<1>10. WorkerSound(worker)'
  BY <1>1, <1>3, <1>8, <1>9 DEF WorkerSound, Active
<1>11. \A a \in Ids : rung'[a] > 0 => alert[a].st # "none"
  BY <1>4, <1>5 DEF PhoneInv
<1>12. \A a \in Ids : rung'[a] <= 1 + cut[a]
  BY <1>4, <1>6 DEF PhoneInv
<1>13. mark # NoMark => \A a \in Ids : Active(a) /\ Counted(a)' /\ a \notin worker'.posted => a <= mark
  BY <1>3, <1>7 DEF PhoneInv
<1>14. PhoneTypes'
  BY <1>1, <1>2, <1>3, <1>4 DEF PhoneTypes
<1> QED BY <1>1, <1>3, <1>10, <1>11, <1>12, <1>13, <1>14 DEF PhoneInv, Active

\* The mark is stored: it is at or above every active alert that is counted.
LEMMA StoreKeepsPhone ==
    ASSUME PhoneInv, StoreMark
    PROVE  PhoneInv'
<1>1. /\ worker.pc = "posting" /\ mark' = worker.mark /\ worker' = IdleWorker
      /\ rung' = rung /\ cut' = cut /\ alert' = alert
  BY DEF StoreMark, vars
<1>2. worker.mark \in Int /\ IdleWorker \in Worker
  BY DEF PhoneInv, PhoneTypes, Worker, IdleWorker
<1>3. \A a \in Ids : Active(a) /\ Counted(a) => a <= worker.mark
  BY <1>1 DEF PhoneInv, WorkerSound
<1> QED BY <1>1, <1>2, <1>3 DEF PhoneInv, PhoneTypes, WorkerSound, IdleWorker, Counted, Active

\* The process ends: what the poll has posted does not count, and may ring again.
LEMMA DeathKeepsPhone ==
    ASSUME PhoneInv, WorkerDies
    PROVE  PhoneInv'
<1>1. /\ cut' = [a \in Ids |-> IF a \in worker.posted THEN cut[a] + 1 ELSE cut[a]]
      /\ worker' = IdleWorker /\ mark' = mark /\ rung' = rung /\ alert' = alert
  BY DEF WorkerDies, vars
<1>2. IdleWorker \in Worker /\ cut' \in [Ids -> Nat] /\ \A a \in Ids : cut'[a] >= cut[a]
  BY <1>1 DEF PhoneInv, PhoneTypes, Worker, IdleWorker
<1>3. \A a \in Ids : rung[a] \in Nat /\ cut[a] \in Nat /\ rung[a] <= 1 + cut[a]
  BY DEF PhoneInv, PhoneTypes
<1>4. \A a \in Ids : Counted(a)' => Counted(a) /\ a \notin worker.posted
  BY <1>1, <1>2, <1>3 DEF Counted
<1>5. \A a \in Ids : rung[a] <= 1 + cut'[a]
  BY <1>1, <1>3
<1>6. mark # NoMark => \A a \in Ids : Active(a) /\ Counted(a)' => a <= mark
  BY <1>4 DEF PhoneInv
<1>7. PhoneTypes'
  BY <1>1, <1>2 DEF PhoneInv, PhoneTypes
<1> QED BY <1>1, <1>5, <1>6, <1>7 DEF PhoneInv, WorkerSound, IdleWorker, Active

\* Every step of the server or of the phone preserves what is known of the phone.
LEMMA PhoneStep == LiveInv /\ PhoneInv /\ [PhoneNext]_allVars => LiveInv' /\ PhoneInv'
<1> SUFFICES ASSUME LiveInv, PhoneInv, [PhoneNext]_allVars PROVE LiveInv' /\ PhoneInv'
  OBVIOUS
<1>1. [Next]_vars
  BY DEF PhoneNext, Polls, PollGets, PollProcesses, Post, StoreMark, EnableAgain, WorkerDies, allVars
<1>2. LiveInv'
  BY <1>1, StepInv
<1>3. CASE UNCHANGED phoneVars
  BY <1>1, <1>2, <1>3, ServerKeepsPhone
<1>4. CASE Polls
  BY <1>2, <1>4, GetKeepsPhone, ProcessKeepsPhone, PostKeepsPhone, StoreKeepsPhone DEF Polls
<1>5. CASE EnableAgain
  <2>1. alert' = alert /\ mark' = NoMark /\ worker' = worker /\ rung' = rung /\ cut' = cut
    BY <1>5 DEF EnableAgain, vars
  <2>2. WorkerSound(worker)'
    BY <2>1 DEF PhoneInv, WorkerSound, Counted, Active
  <2> QED BY <1>2, <2>1, <2>2 DEF PhoneInv, PhoneTypes, NoMark, Counted, Active
<1>6. CASE WorkerDies
  BY <1>2, <1>6, DeathKeepsPhone
<1> QED BY <1>2, <1>3, <1>4, <1>5, <1>6 DEF PhoneNext, allVars

\* Of the polls that ring for an alert one at most comes to its end, although commits are
\* not in the order of the ids, the mark goes back with the newest alert and is forgotten
\* when the user starts again.
THEOREM PhoneRingsOnce == PhoneSpec => []RingsOnceUnlessCut
<1>1. PhoneInit => LiveInv /\ PhoneInv
  <2> SUFFICES ASSUME PhoneInit PROVE LiveInv /\ PhoneInv
    OBVIOUS
  <2>1. LiveInv
    BY InitInv DEF PhoneInit
  <2>2. PhoneTypes
    BY DEF PhoneInit, PhoneTypes, NoMark, IdleWorker, Worker
  <2> QED BY <2>1, <2>2 DEF PhoneInit, PhoneInv, WorkerSound, IdleWorker, Counted
<1>2. PhoneInv => RingsOnceUnlessCut
  BY DEF PhoneInv, RingsOnceUnlessCut
<1>3. LiveInv /\ PhoneInv /\ [PhoneNext]_allVars => LiveInv' /\ PhoneInv'
  BY PhoneStep
<1> QED BY <1>1, <1>2, <1>3, PTL DEF PhoneSpec

=============================================================================
