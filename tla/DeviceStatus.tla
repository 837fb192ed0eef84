----------------------------- MODULE DeviceStatus -----------------------------
(***************************************************************************)
(* The status of one device: the agent's pushes, its command channel, the  *)
(* offline detector, the update timeout and the administrators all write   *)
(* the same column, each after reading it some time before.                *)
(*                                                                         *)
(* Every action is one SQL statement of a handler, or a synchronous part of*)
(* it; handlers interleave at their awaits.  The offline incident is one   *)
(* boolean, which LiveAlert justifies; a raise still checks the device and *)
(* commits in two steps, and excludes a recovery in between.               *)
(***************************************************************************)
EXTENDS Naturals

CONSTANTS
    Handlers,   \* requests of the agent that may be in flight together
    MaxUpdates, \* bound: updates that the agent announces
    MaxFaults   \* bound: exits of the server and failing statements

ASSUME DeviceStatusAssumption == MaxUpdates \in Nat /\ MaxFaults \in Nat

Reachable == {"online", "warning", "critical"}

Updating == {"updating", "update_error"}

\* States that carry the intent of an administrator.
Protected == {"pending", "pending_uninstall", "suspended"}

Statuses == Reachable \cup Updating \cup Protected \cup {"offline"}

\* A request in flight: where it is, and the status it read.
Handler == [kind : {"push", "channel"},
            pc : {"idle", "read", "touch", "write", "recover", "trigger"},
            prev : Statuses]

\* The detector: due = the row has not been touched since the tick's threshold;
\* open = the device was offline under the incident lock.
Detector == [pc : {"idle", "look", "flip", "raise", "insert", "updates", "error"},
             due : BOOLEAN, open : BOOLEAN]

VARIABLES
    status,      \* devices.status
    approval,    \* devices.approval_status
    lastPush,    \* last_push_at: "never", "fresh" or "old" (past the missed pushes)
    started,     \* update_started_at: "none", "recent" or "old" (past 10 minutes)
    lastOffline, \* last_offline_at is set
    connected,   \* agentHub holds an open command channel
    alert,       \* the offline incident has an active row
    handler,     \* [Handlers -> Handler]
    detector,    \* Detector
    updates,     \* history: updates announced
    missed,      \* history: the raise of the last outage failed or died
    faults       \* history: exits of the server and failing statements

row == <<status, approval, lastPush, started, lastOffline>>
vars == <<row, connected, alert, handler, detector, updates, missed, faults>>

IdleHandler == [kind |-> "push", pc |-> "idle", prev |-> "pending"]

IdleDetector == [pc |-> "idle", due |-> FALSE, open |-> FALSE]

\* registerDevice, with or without the tenant's auto-approval.
Init ==
    /\ \/ status = "pending" /\ approval = "pending"
       \/ status = "offline" /\ approval = "approved"
    /\ lastPush = "never"
    /\ started = "none"
    /\ lastOffline = FALSE
    /\ connected = FALSE
    /\ alert = FALSE
    /\ handler = [h \in Handlers |-> IdleHandler]
    /\ detector = IdleDetector
    /\ updates = 0
    /\ missed = FALSE
    /\ faults = 0

Become(h, k) == handler' = [handler EXCEPT ![h] = k]

Goto(h, pc) == Become(h, IF pc = "idle" THEN IdleHandler ELSE [handler[h] EXCEPT !.pc = pc])

\* The row is stamped: neither the clock nor a running tick sees it as stale.
Touch == lastPush' = "fresh" /\ detector' = [detector EXCEPT !.due = FALSE]

-----------------------------------------------------------------------------
(* POST /api/agent/push *)

\* The route: refused and suspended devices get a 403, pending ones a 202.
PushArrives(h) ==
    /\ handler[h].pc = "idle"
    /\ approval = "approved" /\ status # "suspended"
    /\ Become(h, [IdleHandler EXCEPT !.pc = "read"])
    /\ UNCHANGED <<row, connected, alert, detector, updates, missed, faults>>

\* The previous state of the row, by a push or by a new command channel.
ReadRow(h) ==
    /\ handler[h].pc = "read"
    /\ Become(h, [handler[h] EXCEPT !.prev = status,
                                    !.pc = IF handler[h].kind = "push" THEN "touch" ELSE "write"])
    /\ UNCHANGED <<row, connected, alert, detector, updates, missed, faults>>

PushTouches(h) ==
    /\ handler[h].pc = "touch"
    /\ Touch
    /\ Goto(h, "write")
    /\ UNCHANGED <<status, approval, started, lastOffline, connected, alert, updates, missed, faults>>

\* What comes after the status write.
AfterWrite(k) == IF k.prev = "offline" THEN "recover" ELSE "idle"

\* Variant: 'offline' counts as a protected state.
TargetKeepsOffline(k, level) == IF k.prev \in Protected \cup {"offline"} THEN k.prev ELSE level

\* The status that a push asks for: the metric level, unless the row it read was protected.
Target(k, level) == IF k.prev \in Protected THEN k.prev ELSE level

\* Variant: the UPDATE does not exclude pending_uninstall.
PushWritesAlways(h, level) ==
    LET k == handler[h] IN
    /\ k.kind = "push" /\ k.pc = "write"
    /\ status' = IF k.prev # Target(k, level) THEN Target(k, level) ELSE status
    /\ started' = IF k.prev \in Updating THEN "none" ELSE started
    /\ Goto(h, AfterWrite(k))
    /\ UNCHANGED <<approval, lastPush, lastOffline, connected, alert, detector, updates, missed, faults>>

\* Variant: the end of an update is recorded, the status is left to a later write.
PushEndsUpdateOnly(h, level) ==
    LET k == handler[h] IN
    /\ k.kind = "push" /\ k.pc = "write"
    /\ status' = IF k.prev \notin Updating /\ k.prev # Target(k, level) /\ status # "pending_uninstall"
                 THEN Target(k, level) ELSE status
    /\ started' = IF k.prev \in Updating /\ status # "pending_uninstall" THEN "none" ELSE started
    /\ Goto(h, AfterWrite(k))
    /\ UNCHANGED <<approval, lastPush, lastOffline, connected, alert, detector, updates, missed, faults>>

\* Status resolution: one UPDATE, WHERE status is not pending_uninstall.
PushWrites(h, level) ==
    LET k == handler[h] IN
    /\ k.kind = "push" /\ k.pc = "write"
    /\ status' = IF k.prev # Target(k, level) /\ status # "pending_uninstall" THEN Target(k, level) ELSE status
    /\ started' = IF k.prev \in Updating /\ status # "pending_uninstall" THEN "none" ELSE started
    /\ Goto(h, AfterWrite(k))
    /\ UNCHANGED <<approval, lastPush, lastOffline, connected, alert, detector, updates, missed, faults>>

\* Back from 'offline': the incident is resolved, once no raise holds its lock.
Recover(h) ==
    /\ handler[h].pc = "recover"
    /\ detector.pc # "insert"
    /\ alert' = FALSE
    /\ Goto(h, IF handler[h].kind = "push" THEN "trigger" ELSE "idle")
    /\ UNCHANGED <<row, connected, detector, updates, missed, faults>>

\* The agent_back_online trigger (a run of ScenarioGraph), and last_offline_at is cleared.
FireBackOnline(h) ==
    /\ handler[h].pc = "trigger"
    /\ lastOffline' = FALSE
    /\ Goto(h, "idle")
    /\ UNCHANGED <<status, approval, lastPush, started, connected, alert, detector, updates, missed, faults>>

-----------------------------------------------------------------------------
(* The command channel *)

\* agentHub.register: the connection is recorded at once.
ChannelConnects(h) ==
    /\ handler[h].pc = "idle"
    /\ connected' = TRUE
    /\ Become(h, [IdleHandler EXCEPT !.kind = "channel", !.pc = "read"])
    /\ UNCHANGED <<row, alert, detector, updates, missed, faults>>

\* The patch of register: a heartbeat, and transient states become 'online'.
ChannelWrites(h) ==
    LET k == handler[h]
        transient == k.prev \in Updating \cup {"offline"} IN
    /\ k.kind = "channel" /\ k.pc = "write"
    /\ IF status = "pending_uninstall"
       THEN UNCHANGED <<status, started, lastPush, detector>>
       ELSE /\ Touch
            /\ status' = IF transient THEN "online" ELSE status
            /\ started' = IF transient THEN "none" ELSE started
    /\ Goto(h, AfterWrite(k))
    /\ UNCHANGED <<approval, lastOffline, connected, alert, updates, missed, faults>>

ChannelCloses ==
    /\ connected
    /\ connected' = FALSE
    /\ UNCHANGED <<row, alert, handler, detector, updates, missed, faults>>

\* POST /api/agent/notifying-update: no look at the status of the row.
NotifyingUpdate ==
    /\ updates < MaxUpdates
    /\ updates' = updates + 1
    /\ status' = "updating"
    /\ started' = "recent"
    /\ UNCHANGED <<approval, lastPush, lastOffline, connected, alert, handler, detector, missed, faults>>

-----------------------------------------------------------------------------
(* checkOfflineDevices *)

\* What the tick knows of the device is forgotten with its second loop.
Step(pc) ==
    detector' = IF pc \in {"idle", "updates"} THEN [IdleDetector EXCEPT !.pc = pc] ELSE [detector EXCEPT !.pc = pc]

\* The SELECT, and the comparison of last_push_at with the threshold.
DetectorTick ==
    /\ detector.pc = "idle"
    /\ detector' = IF status \in Reachable /\ approval = "approved" /\ lastPush = "old"
                   THEN [pc |-> "look", due |-> TRUE, open |-> FALSE]
                   ELSE [IdleDetector EXCEPT !.pc = "updates"]
    /\ UNCHANGED <<row, connected, alert, handler, updates, missed, faults>>

\* A device with an open command channel is not flipped.
DetectorLooks ==
    /\ detector.pc = "look"
    /\ Step(IF connected THEN "updates" ELSE "flip")
    /\ UNCHANGED <<row, connected, alert, handler, updates, missed, faults>>

\* The conditional UPDATE.
DetectorFlips ==
    LET flips == status \in Reachable /\ detector.due IN
    /\ detector.pc = "flip"
    /\ status' = IF flips THEN "offline" ELSE status
    /\ lastOffline' = (flips \/ lastOffline)
    /\ missed' = (missed /\ ~flips)
    /\ Step(IF flips THEN "raise" ELSE "updates")
    /\ UNCHANGED <<approval, lastPush, started, connected, alert, handler, updates, faults>>

\* Variant: the raise looks at the row that the SELECT returned.
RaiseChecksSelected ==
    /\ detector.pc = "raise"
    /\ detector' = [detector EXCEPT !.pc = "insert", !.open = FALSE]
    /\ UNCHANGED <<row, connected, alert, handler, updates, missed, faults>>

\* liveAlertService.add takes the lock of the incident and reads the device again.
RaiseChecks ==
    /\ detector.pc = "raise"
    /\ detector' = [detector EXCEPT !.pc = "insert", !.open = (status = "offline")]
    /\ UNCHANGED <<row, connected, alert, handler, updates, missed, faults>>

RaiseCommits ==
    /\ detector.pc = "insert"
    /\ alert' = detector.open
    /\ Step("updates")
    /\ UNCHANGED <<row, connected, handler, updates, missed, faults>>

\* The second loop: devices that have been updating for too long.
DetectorReadsUpdates ==
    /\ detector.pc = "updates"
    /\ Step(IF status = "updating" /\ started = "old" THEN "error" ELSE "idle")
    /\ UNCHANGED <<row, connected, alert, handler, updates, missed, faults>>

\* Variant: the stuck update is only logged.
UpdateNeverTimesOut ==
    /\ detector.pc = "error"
    /\ Step("idle")
    /\ UNCHANGED <<row, connected, alert, handler, updates, missed, faults>>

\* The UPDATE is by id only.
UpdateTimesOut ==
    /\ detector.pc = "error"
    /\ status' = "update_error"
    /\ started' = "none"
    /\ Step("idle")
    /\ UNCHANGED <<approval, lastPush, lastOffline, connected, alert, handler, updates, missed, faults>>

-----------------------------------------------------------------------------
(* Administrators, the clock, the process *)

Set(s, a) ==
    /\ status' = s
    /\ approval' = a
    /\ UNCHANGED <<lastPush, started, lastOffline, connected, alert, handler, detector, updates, missed, faults>>

ApproveDevice == Set("offline", "approved")

RefuseDevice == Set("suspended", "refused")

SuspendDevice == Set("suspended", approval)

UnsuspendDevice == Set("offline", approval)

InitiateUninstall == Set("pending_uninstall", approval)

\* cancelUninstall, and expireUninstalls when the ten minutes are over.
CancelUninstall == status = "pending_uninstall" /\ Set("offline", approval)

\* A request is answered well within the window of missed pushes.
Clock ==
    /\ \A h \in Handlers : handler[h].pc = "idle"
    /\ \/ lastPush = "fresh" /\ lastPush' = "old" /\ UNCHANGED started
       \/ started = "recent" /\ started' = "old" /\ UNCHANGED lastPush
    /\ UNCHANGED <<status, approval, lastOffline, connected, alert, handler, detector, updates, missed, faults>>

SpendFault == faults < MaxFaults /\ faults' = faults + 1

Raising == detector.pc \in {"raise", "insert"}

\* A statement of a request throws: the push is answered 500, register logs the error.
RequestFails(h) ==
    /\ SpendFault
    /\ handler[h].pc \in {"read", "touch", "write", "recover"}
    /\ Goto(h, "idle")
    /\ UNCHANGED <<row, connected, alert, detector, updates, missed>>

\* The resolve of the incident, or the clearing of last_offline_at, fails: the request goes on.
RecoverFails(h) ==
    /\ SpendFault
    /\ handler[h].pc \in {"recover", "trigger"}
    /\ Goto(h, IF handler[h].kind = "push" /\ handler[h].pc = "recover" THEN "trigger" ELSE "idle")
    /\ UNCHANGED <<row, connected, alert, detector, updates, missed>>

\* The raise fails: it is logged, the tick goes on, and the next ticks no longer
\* select the device, which is 'offline' now.
RaiseFails ==
    /\ SpendFault
    /\ Raising
    /\ Step("updates")
    /\ missed' = TRUE
    /\ UNCHANGED <<row, connected, alert, handler, updates>>

\* Another statement of the tick fails: the tick ends.
TickFails ==
    /\ SpendFault
    /\ detector.pc \in {"look", "flip", "updates", "error"}
    /\ Step("idle")
    /\ UNCHANGED <<row, connected, alert, handler, updates, missed>>

ServerCrash ==
    /\ SpendFault
    /\ connected' = FALSE
    /\ handler' = [h \in Handlers |-> IdleHandler]
    /\ detector' = IdleDetector
    /\ missed' = (missed \/ Raising)
    /\ UNCHANGED <<row, alert, updates>>

-----------------------------------------------------------------------------

PushStep(h) ==
    \/ ReadRow(h) \/ PushTouches(h) \/ (\E level \in Reachable : PushWrites(h, level))
    \/ Recover(h) \/ FireBackOnline(h)

HandlerStep(h) == PushStep(h) \/ ChannelWrites(h)

DetectorStep ==
    \/ DetectorTick \/ DetectorLooks \/ DetectorFlips \/ RaiseChecks \/ RaiseCommits
    \/ DetectorReadsUpdates \/ UpdateTimesOut

Admin ==
    \/ ApproveDevice \/ RefuseDevice \/ SuspendDevice \/ UnsuspendDevice
    \/ InitiateUninstall \/ CancelUninstall

Next ==
    \/ \E h \in Handlers : PushArrives(h) \/ ChannelConnects(h) \/ HandlerStep(h)
    \/ DetectorStep \/ ChannelCloses \/ NotifyingUpdate
    \/ Admin \/ Clock
    \/ (\E h \in Handlers : RequestFails(h) \/ RecoverFails(h)) \/ RaiseFails \/ TickFails
    \/ ServerCrash

Spec == Init /\ [][Next]_vars

\* Statements are answered, the detector runs every 30 s, time passes, and the
\* agent pushes again and again.
Fairness ==
    /\ \A h \in Handlers : WF_vars(HandlerStep(h))
    /\ WF_vars(DetectorStep)
    /\ WF_vars(Clock)
    /\ SF_vars(\E h \in Handlers : PushArrives(h))

FairSpec == Spec /\ Fairness

-----------------------------------------------------------------------------
(* Properties *)

\* Every column and every step in flight holds a value of its type.
TypeOK ==
    /\ status \in Statuses
    /\ approval \in {"pending", "approved", "refused"}
    /\ lastPush \in {"never", "fresh", "old"}
    /\ started \in {"none", "recent", "old"}
    /\ lastOffline \in BOOLEAN
    /\ connected \in BOOLEAN
    /\ alert \in BOOLEAN
    /\ handler \in [Handlers -> Handler]
    /\ detector \in Detector
    /\ updates \in Nat
    /\ missed \in BOOLEAN
    /\ faults \in Nat

\* A device in update mode has the start time its timeout is counted from,
\* whatever late writes of pushes, channels and timeouts land on the row:
\* without it the detector would never end the update.
UpdatingHasStart == status = "updating" => started # "none"

\* "never override pending_uninstall status": no push and no reconnection takes a
\* device out of its uninstallation, however old the row it read.
UninstallIsKept ==
    [][\A h \in Handlers : HandlerStep(h) /\ status = "pending_uninstall" => status' = status]_vars

\* A device whose agent pushes does not stay offline, although the writes of the
\* detector and of late pushes race with each other.
LeavesOffline == (status = "offline" /\ approval = "approved") ~> (status # "offline")

\* A device that said it updates does not stay in update mode: the next push or
\* the detector's timeout ends it, also after a crash.
LeavesUpdating == (status = "updating") ~> (status # "updating")

\* An outage that the detector recorded is in the bell, unless the device is back:
\* neither a recovery that overlaps with the raise nor the second look of the raise
\* loses it.  Only a raise that fails itself, or dies, does: it is never repeated.
OutageIsAnnounced == (detector.pc = "raise") ~> (alert \/ status # "offline" \/ missed)

=============================================================================
