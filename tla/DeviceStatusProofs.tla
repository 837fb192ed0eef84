-------------------------- MODULE DeviceStatusProofs --------------------------
(* Type correctness, and two properties of the status of a device, for any   *)
(* number of overlapping requests, updates, failing statements and crashes.   *)
EXTENDS DeviceStatus, TLAPS

StatusInv == TypeOK /\ UpdatingHasStart

\* The records of a handler and of a detector that have nothing to do.
LEMMA IdleTypes ==
    /\ IdleHandler \in Handler
    /\ IdleDetector \in Detector
BY DEF IdleHandler, IdleDetector, Handler, Detector, Statuses, Protected

\* Moving one handler keeps the handlers well typed.
LEMMA BecomeType ==
    ASSUME TypeOK, NEW h \in Handlers, NEW k \in Handler, Become(h, k)
    PROVE  handler' \in [Handlers -> Handler]
BY DEF TypeOK, Become

\* Going on to another step of a request.
LEMMA GotoType ==
    ASSUME TypeOK, NEW h \in Handlers, NEW pc \in {"idle", "write", "recover", "trigger"}, Goto(h, pc)
    PROVE  handler' \in [Handlers -> Handler]
<1>1. handler[h] \in Handler
  BY DEF TypeOK
<1>2. [handler[h] EXCEPT !.pc = pc] \in Handler
  BY <1>1 DEF Handler
<1>3. (IF pc = "idle" THEN IdleHandler ELSE [handler[h] EXCEPT !.pc = pc]) \in Handler
  BY <1>2, IdleTypes
<1> QED BY <1>3, BecomeType DEF Goto

\* Going on to another step of the detector.
LEMMA StepType ==
    ASSUME TypeOK, NEW pc \in {"idle", "flip", "raise", "updates", "error"}, Step(pc)
    PROVE  detector' \in Detector
BY IdleTypes DEF TypeOK, Step, Detector

\* The step after a status write is a step.
LEMMA AfterWriteType ==
    ASSUME NEW k PROVE AfterWrite(k) \in {"idle", "write", "recover", "trigger"}
BY DEF AfterWrite

\* Stamping the row.
LEMMA TouchType ==
    ASSUME TypeOK, Touch
    PROVE  lastPush' = "fresh" /\ detector' \in Detector
BY DEF TypeOK, Touch, Detector

\* What a push writes is never an update state, and a row read as updating is always written.
LEMMA TargetFacts ==
    ASSUME NEW k \in Handler, NEW level \in Reachable
    PROVE  /\ Target(k, level) \in Statuses \ Updating
           /\ k.prev \in Updating => Target(k, level) # k.prev
BY DEF Target, Handler, Statuses, Reachable, Updating, Protected

\* A step of a request preserves the invariant.
LEMMA HandlerInv ==
    ASSUME StatusInv, NEW h \in Handlers, HandlerStep(h)
    PROVE  StatusInv'
<1>1. TypeOK /\ UpdatingHasStart /\ handler[h] \in Handler
  BY DEF StatusInv, TypeOK
<1>2. CASE ReadRow(h)
  <2> DEFINE k == [handler[h] EXCEPT !.prev = status,
                                     !.pc = IF handler[h].kind = "push" THEN "touch" ELSE "write"]
  <2>1. k \in Handler
    BY <1>1 DEF Handler, TypeOK
  <2>2. Become(h, k)
    BY <1>2 DEF ReadRow
  <2>3. handler' \in [Handlers -> Handler]
    BY <1>1, <2>1, <2>2, BecomeType
  <2> QED BY <1>1, <1>2, <2>3 DEF StatusInv, TypeOK, UpdatingHasStart, ReadRow, row
<1>3. CASE PushTouches(h)
  <2>1. handler' \in [Handlers -> Handler]
    BY <1>1, <1>3, GotoType DEF PushTouches
  <2>2. lastPush' = "fresh" /\ detector' \in Detector
    BY <1>1, <1>3, TouchType DEF PushTouches
  <2> QED BY <1>1, <1>3, <2>1, <2>2 DEF StatusInv, TypeOK, UpdatingHasStart, PushTouches
<1>4. ASSUME NEW level \in Reachable, PushWrites(h, level) PROVE StatusInv'
  <2>1. handler' \in [Handlers -> Handler]
    BY <1>1, <1>4, GotoType, AfterWriteType DEF PushWrites
  <2>2. status' \in Statuses /\ started' \in {"none", "recent", "old"} /\ UpdatingHasStart'
    BY <1>1, <1>4, TargetFacts DEF PushWrites, TypeOK, UpdatingHasStart, Updating
  <2> QED BY <1>1, <1>4, <2>1, <2>2 DEF StatusInv, TypeOK, PushWrites
<1>5. CASE Recover(h)
  <2>1. handler' \in [Handlers -> Handler]
    BY <1>1, <1>5, GotoType DEF Recover
  <2> QED BY <1>1, <1>5, <2>1 DEF StatusInv, TypeOK, UpdatingHasStart, Recover, row
<1>6. CASE FireBackOnline(h)
  <2>1. handler' \in [Handlers -> Handler]
    BY <1>1, <1>6, GotoType DEF FireBackOnline
  <2> QED BY <1>1, <1>6, <2>1 DEF StatusInv, TypeOK, UpdatingHasStart, FireBackOnline
<1>7. CASE ChannelWrites(h)
  <2>1. handler' \in [Handlers -> Handler]
    BY <1>1, <1>7, GotoType, AfterWriteType DEF ChannelWrites
  <2>2. lastPush' \in {"never", "fresh", "old"} /\ detector' \in Detector
    BY <1>1, <1>7, TouchType DEF ChannelWrites, TypeOK
  <2>3. status' \in Statuses /\ started' \in {"none", "recent", "old"} /\ UpdatingHasStart'
    BY <1>1, <1>7 DEF ChannelWrites, TypeOK, UpdatingHasStart, Statuses, Reachable
  <2> QED BY <1>1, <1>7, <2>1, <2>2, <2>3 DEF StatusInv, TypeOK, ChannelWrites
<1> QED BY <1>2, <1>3, <1>4, <1>5, <1>6, <1>7 DEF HandlerStep, PushStep

\* A step of the detector preserves the invariant.
LEMMA DetectorInv ==
    ASSUME StatusInv, DetectorStep
    PROVE  StatusInv'
<1>1. TypeOK /\ UpdatingHasStart
  BY DEF StatusInv
<1>2. CASE DetectorTick
  <2>1. detector' \in Detector
    BY <1>2 DEF DetectorTick, IdleDetector, Detector
  <2> QED BY <1>1, <1>2, <2>1 DEF StatusInv, TypeOK, UpdatingHasStart, DetectorTick, row
<1>3. CASE DetectorLooks
  <2>1. detector' \in Detector
    BY <1>1, <1>3, StepType DEF DetectorLooks
  <2> QED BY <1>1, <1>3, <2>1 DEF StatusInv, TypeOK, UpdatingHasStart, DetectorLooks, row
<1>4. CASE DetectorFlips
  <2>1. detector' \in Detector
    BY <1>1, <1>4, StepType DEF DetectorFlips
  <2>2. lastOffline' \in BOOLEAN /\ missed' \in BOOLEAN
    BY <1>4 DEF DetectorFlips
  <2>3. status' \in Statuses /\ UpdatingHasStart'
    BY <1>1, <1>4 DEF DetectorFlips, TypeOK, UpdatingHasStart, Statuses
  <2> QED BY <1>1, <1>4, <2>1, <2>2, <2>3 DEF StatusInv, TypeOK, DetectorFlips
<1>5. CASE RaiseChecks
  <2>1. detector' \in Detector
    BY <1>1, <1>5 DEF RaiseChecks, Detector, TypeOK
  <2> QED BY <1>1, <1>5, <2>1 DEF StatusInv, TypeOK, UpdatingHasStart, RaiseChecks, row
<1>6. CASE RaiseCommits
  <2>1. detector' \in Detector /\ alert' \in BOOLEAN
    BY <1>1, <1>6, StepType DEF RaiseCommits, TypeOK, Detector
  <2> QED BY <1>1, <1>6, <2>1 DEF StatusInv, TypeOK, UpdatingHasStart, RaiseCommits, row
<1>7. CASE DetectorReadsUpdates
  <2>1. detector' \in Detector
    BY <1>1, <1>7, StepType DEF DetectorReadsUpdates
  <2> QED BY <1>1, <1>7, <2>1 DEF StatusInv, TypeOK, UpdatingHasStart, DetectorReadsUpdates, row
<1>8. CASE UpdateTimesOut
  <2>1. detector' \in Detector
    BY <1>1, <1>8, StepType DEF UpdateTimesOut
  <2> QED BY <1>1, <1>8, <2>1 DEF StatusInv, TypeOK, UpdatingHasStart, UpdateTimesOut, Statuses, Updating
<1> QED BY <1>2, <1>3, <1>4, <1>5, <1>6, <1>7, <1>8 DEF DetectorStep

\* Every step preserves the invariant.
LEMMA StatusStep == StatusInv /\ [Next]_vars => StatusInv'
<1> SUFFICES ASSUME StatusInv, [Next]_vars PROVE StatusInv'
  OBVIOUS
<1>1. TypeOK /\ UpdatingHasStart
  BY DEF StatusInv
<1>2. ASSUME NEW h \in Handlers, PushArrives(h) \/ ChannelConnects(h) PROVE StatusInv'
  <2>1. handler' \in [Handlers -> Handler]
    <3>1. [IdleHandler EXCEPT !.pc = "read"] \in Handler
          /\ [IdleHandler EXCEPT !.kind = "channel", !.pc = "read"] \in Handler
      BY IdleTypes DEF Handler
    <3> QED BY <1>1, <1>2, <3>1, BecomeType DEF PushArrives, ChannelConnects
  <2> QED BY <1>1, <1>2, <2>1 DEF StatusInv, TypeOK, UpdatingHasStart, PushArrives, ChannelConnects, row
<1>3. ASSUME NEW s \in Protected \cup {"offline"}, NEW a \in {"pending", "approved", "refused"}, Set(s, a)
      PROVE  StatusInv'
  BY <1>1, <1>3 DEF StatusInv, TypeOK, UpdatingHasStart, Set, Statuses, Protected
<1>4. CASE Admin
  BY <1>1, <1>3, <1>4 DEF Admin, ApproveDevice, RefuseDevice, SuspendDevice, UnsuspendDevice,
     InitiateUninstall, CancelUninstall, TypeOK, Protected
<1>5. CASE ChannelCloses
  BY <1>1, <1>5 DEF StatusInv, TypeOK, UpdatingHasStart, ChannelCloses, row
<1>6. CASE NotifyingUpdate
  BY <1>1, <1>6 DEF StatusInv, TypeOK, UpdatingHasStart, NotifyingUpdate, Statuses, Updating
<1>7. CASE Clock
  BY <1>1, <1>7 DEF StatusInv, TypeOK, UpdatingHasStart, Clock
<1>8. ASSUME SpendFault PROVE faults' \in Nat
  <2>1. faults \in Nat /\ faults' = faults + 1
    BY <1>1, <1>8 DEF SpendFault, TypeOK
  <2> QED BY <2>1
<1>9. CASE ServerCrash
  <2>1. handler' \in [Handlers -> Handler] /\ detector' \in Detector
    BY <1>9, IdleTypes DEF ServerCrash
  <2>2. faults' \in Nat
    BY <1>8, <1>9 DEF ServerCrash
  <2>3. connected' \in BOOLEAN /\ missed' \in BOOLEAN
    BY <1>9 DEF ServerCrash
  <2> QED BY <1>1, <1>9, <2>1, <2>2, <2>3 DEF StatusInv, TypeOK, UpdatingHasStart, ServerCrash, row
<1>10. ASSUME NEW h \in Handlers, RequestFails(h) \/ RecoverFails(h) PROVE StatusInv'
  <2>1. handler' \in [Handlers -> Handler]
    BY <1>1, <1>10, GotoType DEF RequestFails, RecoverFails
  <2>2. faults' \in Nat
    BY <1>8, <1>10 DEF RequestFails, RecoverFails
  <2> QED BY <1>1, <1>10, <2>1, <2>2 DEF StatusInv, TypeOK, UpdatingHasStart, RequestFails, RecoverFails, row
<1>11. CASE RaiseFails
  <2>1. detector' \in Detector /\ faults' \in Nat
    BY <1>1, <1>8, <1>11, StepType DEF RaiseFails
  <2> QED BY <1>1, <1>11, <2>1 DEF StatusInv, TypeOK, UpdatingHasStart, RaiseFails, row
<1>12. CASE TickFails
  <2>1. detector' \in Detector /\ faults' \in Nat
    BY <1>1, <1>8, <1>12, StepType DEF TickFails
  <2> QED BY <1>1, <1>12, <2>1 DEF StatusInv, TypeOK, UpdatingHasStart, TickFails, row
<1>13. CASE UNCHANGED vars
  BY <1>1, <1>13 DEF StatusInv, TypeOK, UpdatingHasStart, vars, row
<1> QED BY <1>2, <1>4, <1>5, <1>6, <1>7, <1>9, <1>10, <1>11, <1>12, <1>13, HandlerInv, DetectorInv DEF Next

\* A device in update mode always has a start time: the timeout that ends the
\* update can always be computed, for any overlap of late writes.
THEOREM UpdatesCanEnd == Spec => []UpdatingHasStart
<1>1. Init => StatusInv
  <2> SUFFICES ASSUME Init PROVE StatusInv
    OBVIOUS
  <2>1. handler \in [Handlers -> Handler] /\ detector \in Detector
    BY IdleTypes DEF Init
  <2>2. status \in Statuses /\ approval \in {"pending", "approved", "refused"} /\ UpdatingHasStart
    BY DEF Init, Statuses, Protected, UpdatingHasStart
  <2> QED BY <2>1, <2>2 DEF Init, StatusInv, TypeOK
<1>2. StatusInv => UpdatingHasStart
  BY DEF StatusInv
<1> QED BY <1>1, <1>2, StatusStep, PTL DEF Spec

\* No push and no command channel ever takes a device out of 'pending_uninstall'.
THEOREM UninstallStands == Spec => UninstallIsKept
<1>1. ASSUME NEW h \in Handlers, HandlerStep(h), status = "pending_uninstall" PROVE status' = status
  BY <1>1 DEF HandlerStep, PushStep, ReadRow, PushTouches, PushWrites, Recover, FireBackOnline,
     ChannelWrites, row
<1>2. [Next]_vars => [\A h \in Handlers : HandlerStep(h) /\ status = "pending_uninstall" => status' = status]_vars
  BY <1>1
<1> QED BY <1>2, PTL DEF Spec, UninstallIsKept

=============================================================================
