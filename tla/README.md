# Obliance in TLA+

Obliance is a remote monitoring and management system: a Node server over
PostgreSQL, a Go agent on every device, a web client and an Android app. This
directory models the parts whose correctness depends on the order of things:
the command queue between server and agent, the live alerts and the phone that
polls them, the status and the metric levels of a device, the scenario engine,
everything started by the clock, remote sessions and two-step approvals. The
modules are translated from the code; `PROJECT.json` maps each definition to
its lines.

## How the code runs, and how that is modelled

The server is **one Node process**. A handler runs without interruption between
two `await`s; whatever it reads before an `await` may be old after it. Almost
nothing is locked: the tables are shared by HTTP requests, WebSocket messages,
timers and periodic jobs, and most updates are "read, decide, update by id".
Only the live alerts use transactions with advisory locks. So in every module

* a *task* (or *handler*) is one chain of awaits, a record with a program
  counter `pc`; an action is the code from one SQL statement to the next;
* rows survive a crash of the server, tasks and in-memory maps do not;
* the number of tasks in flight is a constant. The code has no such bound.

## Inventory

| Component | State | Operations | Interacts with | What is hard |
|---|---|---|---|---|
| Command queue (`command.service.ts`, `agentHub.service.ts`, `device.service.ts`, agent) | `command_queue` rows; the hub's WebSocket per device; the agent's running commands and unsent acks | enqueue, push at once, cancel, expire; push, poll and drain dispatch; acks over HTTP and WebSocket | every feature that makes a device do something; reports results to the scenario engine and the executions | three dispatchers race for one row; responses and acks are lost; either side restarts |
| Live alerts (`liveAlert.service.ts`) | `live_alerts` rows, advisory locks | raise, resolve, device deletion, orphan sweep, trim, user deletions | raised by device status, disk health and metrics; read by web and phone | raise and recovery overlap; several locks per transaction; a device vanishes meanwhile |
| Phone (`LiveAlerts.kt`, `AlertsWorker.kt`) | high-water mark | poll, enable again | polls the live alerts | ids are allocated before the commit; the process may end between a notification and the mark |
| Device status (`device.service.ts`, `agentHub.service.ts`, `update_notify.go`) | `devices.status`, `last_push_at`, `update_started_at`, the open command channel | push, channel connect and close, offline detector, update timeout, administrator actions | raises and resolves the offline alert; fires the `agent_back_online` trigger | five writers of one column, each with an old read |
| Metric levels (`thresholdCascade.ts`, `threshold.service.ts`, `metricAlertRebaseline.service.ts`, `handlePush`) | `last_metric_status`, `last_metric_alert_status`, the threshold rows and their caches | evaluate a push, notify, ring, save a switch, re-baseline | a push evaluates them; they ring the bell | a save, the job and a push overlap; caches are stale; the level is written before its message |
| Scenario engine (`scenarioGraph.service.ts`, `cancelRun`) | runs, node runs, cooldown rows; in memory the fan-outs and timers | start, execute node, report, advance, end, cancel, re-arm at boot | enqueues commands, hears of their results | reports come twice or late; restarts; read-modify-write of the run row |
| Script schedules, scenario cron (`schedule.service.ts`, `scenarioGraphCron.service.ts`) | `next_run_at`, `next_cron_run_at`, `fire_once_at`, executions | minute tick, dispatch, in-flight check, sweep | start runs, enqueue commands | overlapping ticks; a crash in the middle of one; lost acks block a device |
| Remote sessions (`remote.service.ts`, `index.ts`, `tunnel.go`, SSH bastion) | `remote_sessions` row; the in-memory map of tunnels, sockets, buffered frames | create, two upgrades, pair, relay, end in five ways, stale cleanup | commands to the agent; user deactivation | reads before the upgrade; entries that outlive the map; closes from both sides; ends that fail half way |
| Approvals (`approval.service.ts`) | `pending_approvals` row | create, approve and execute, deny, cancel, expire | gates commands, scripts, settings, user management | two approvers; refusal against approval; the script changes meanwhile |
| Maintenance windows | windows, a cache | recurrence, scope | none at run time (its jobs are never started) | |
| OS updates, compliance, CVE, reports, notification channels, permissions, inventory, user interfaces | tables of results | import, match, render, deliver | commands, which are modelled | mostly sequential data processing |

What makes each correct: a command reaches the agent, is not run more often than
requests overlap, and its result is heard; an incident has one active row and
leaves the bell when its cause does; the phone rings once for each alert that
its worker lives to record; the status tells what the device last said without
undoing what an administrator decided; no message says "back to normal" about
something that was only muted; a scenario run is walked by one token and ends;
what is due runs, once as long as no tick is cut short, and an execution never
blocks its device for good; one agent hears the user, the session ends and stays
ended; a request is decided once, by somebody else, and a script that carries a
hash runs at the version that was reviewed, but for an edit in the last moment.
The code keeps several of these only up to an exception; "What the code does not
guarantee" lists them all.

## Modules

| Module | Models | Run module | Theorems |
|---|---|---|---|
| `CommandQueue` | queue, dispatch and acks of one device | `MCCommandQueue` | `CommandQueueProofs` |
| `LiveAlert` | incidents and their transactions | `MCLiveAlert` (liveness), `MCAlertPhone` | `LiveAlertProofs` |
| `AlertPhone` | the Android worker, composed with `LiveAlert` | `MCAlertPhone` | `LiveAlertProofs` |
| `DeviceStatus` | the status column of one device | `MCDeviceStatus` | `DeviceStatusProofs` |
| `MetricAlert` | the metric levels of one device | `MCMetricAlert` | `MetricAlertProofs` |
| `ScenarioGraph` | runs of one scenario | `MCScenarioGraph` | `ScenarioGraphProofs` |
| `Schedule` | script schedules, scenario cron, executions | `MCSchedule` | `ScheduleProofs` |
| `RemoteSession` | one remote session | `MCRemoteSession` | `RemoteSessionProofs` |
| `Decision` | what an approval promises (abstract) | | |
| `Approval` | one approval request; implements `Decision` | `MCApproval` | `ApprovalProofs` |

A definition commented "Variant:" is a plausible bug of the definition that
follows it, used to see that a property can fail. A run module may define
`Bounded`, a condition on states that keeps its instance small: steps that leave
it are cut, so that one run holds several scenes. No step that fairness requires
is cut, and the theorems know nothing of it.

**CommandQueue.** `status`, `created` and `due` are columns; `task` holds the
requests in flight; `hubConn` is `byDevice.get(deviceId)`; `runs`,
`pendingAcks` and `awaiting` belong to the agent's dispatcher and its two HTTP
loops. A dispatch is `SelectPending`, `MarkSent` and a reply, three actions,
because two awaits separate them. `Origin` says whether a row is only queued,
pushed at once and then marked, or pushed at once and never marked.
Faults are a lost response or ack, a disconnect, and a crash of either side.

**LiveAlert.** Each action is one statement under READ COMMITTED. A lock is the
hash of an incident's key, and `Hash` need not be injective. A raise takes the
lock, checks that the device exists (and is offline, for that kind), reads the
active rows, inserts, and commits; the trim follows the commit. Updates of rows
take effect at the commit. `buried` remembers which incidents of a deleted
device were resolved.

**AlertPhone** adds the mark and the worker that polls: the GET, the computation
of what is fresh, one notification after the other, and only then the write of
the mark (`AlertsWorker.kt:70-72`). `WorkerDies` ends the process after a
notification; `cut` counts, for each alert, the polls that rang for it and
stored no mark. The settings may forget the mark in the middle of a poll.
Whether an alert was marked as read before the poll is a free choice.

**DeviceStatus.** `handler` holds pushes and channel connections with the row
they read; `detector` is the tick of `checkOfflineDevices`. `lastPush` and
`started` are three-valued ages. `Clock` makes them older only while no request
is in flight: a request lasts seconds, the thresholds are minutes. The offline
incident is a boolean; `LiveAlert` shows why that is enough. What a push finds
in its metrics is a free choice of level here, and computed in `MetricAlert`.
Every statement may fail, and is handled where the code catches it:
`RequestFails` ends a push or a connection, `RecoverFails` is caught and the
push goes on, `TickFails` ends the tick, and `RaiseFails` is the caught error of
the raise (`device.service.ts:1930`), after which no tick selects the device
again; `missed` remembers it.

**MetricAlert.** Two levels of a device: what the metrics say
(`last_metric_status`), and what may alert (`last_metric_alert_status`). A
switch is a `notify` slot of the cascade; `Gates` says which switches must be on
for a metric to alert. The cascade has a shared layer (global and tenant, cached
for a minute without a guard) and the device's own (groups and override, read
with every push or guarded by a generation). A push is read, touch, resolve
(with its cache loads), silent end, level write, message, bell, trigger: each
behind an await. `MessageFails` is the caught error of the message, or channels
that fail (`device.service.ts:1503`): the push goes on and the level stands.
`PushFails` is a statement that no `catch` surrounds. `lost` remembers an alert
that was not sent after its level was written. The job reads rows, resolves,
lowers levels with a conditional UPDATE and resolves the bell. A move of a
device or group is a save of its own layer. Two history variables say when a
message is true: `standing` is what the last report had in breach, `ended` that
a breach has ended which no push has accounted for. The agent waits for the
answer to a push before the next one, so the run has one push at a time and the
theorems about messages assume it (`OneAtATime`): overlapping pushes send their
messages in either order, and no property about messages survives that.

**ScenarioGraph.** `run`, `nodeRuns`, `cmds`, `cooldown` are rows; `fanOut` is
`pendingFanOuts`; `timers` are the armed `setTimeout`s. A walk is the chain
`enter` (executeNode reads the run), `visit`, `insert`, `exec`, `complete`,
`mirror` (the two statements of `_completeNode`), `advance`. `guards` is the
stack of enclosing `try` blocks, so that a statement that fails is handled where
the code catches it; `single` in the run row is the marker of a test of one
node. A command reports at most `MaxReports` times; `CommandQueue` shows how it
comes to more than one: the expiry is followed by a late ack, or the command
runs twice. `status` of a command is what its row says: the cleanup expires it
from `pending` or `sent`, not from `ack_running`; there it may lose its terminal
ack (`AckLost`), and in `pending` and `sent` somebody may withdraw it
(`CancelCommand`), which the engine is not told. A node run is `Parked` when
something may still resume it: a timer, a command that has not reported, or a
fan-out whose received and outstanding reports together still reach what it
expects. One token per run means one walking task or one parked node run, never
both. The graph does not change during a run; a `wait` of zero seconds is an
immediate node; the privacy skip of `startRun` writes nothing and is left out.

**Schedule.** Time is counted in slots, the moments of a cron expression:
`latest` is the last one that has come, `next` the column. A tick selects what
is due, resolves the targets, leaves out devices in flight, inserts an
execution, enqueues its command, writes `next`, and disables a one-time
schedule: each behind an await. The scenario cron ticks apart and starts runs.
`given` is who got the moment from a tick that has not yet written the next one;
a crash or an error there adds to `cut`, the history of the moments that are due
again although a device had them. The sweep selects executions that are too old
and writes `timeout` by id.

**RemoteSession.** `status`, `connected` are columns; `tun` numbers the
`TunnelEntry` objects and `cur` is the one the map has, because closures keep an
entry that has left the map; `home` is the entry a socket was registered in,
`wired` which agents hear a browser, `buf` and `out` frames buffered and handed
over. An upgrade is authorize (a read) and register (after another await);
`marking` is an agent whose UPDATE to `active` is under way; a `job` is one
`endSession` or `closeSessionsForUser`. It carries who began it (`by`), because
that decides what an error means. `EndFails` is a failing statement of a job whose
caller catches: the REST request, and `closeSessionsForUser` (498-512), which has
by then torn the sockets down (`failed` remembers it). Nobody awaits
`handleTunnelClose`, so an error of its `endSession` is an unhandled rejection; no
handler is installed, and Node ends the process: that is `ServerCrash`.
`MarkFails` is the UPDATE to `active` that fails or finds the session ended.

**Approval** implements **Decision**: decided once, by granting or refusing;
granted only by somebody else than the requester; effects only after a grant,
each at most once. `approve` reads the row, then claims it with a conditional
UPDATE; `deny`, `cancel` and the expiry decide on a read and write by id. The
execution of a script is three steps: `CheckScript` compares the hash, when the
request has one (`approval.service.ts:380`; kind `bare` has none), `executeNow`
reads the script again, and the devices get that version, one by one. The
refinement mapping `CurrentDecision` says "granted" from the successful claim
and "refused" from the first refusal that was written before any claim. The row
alone cannot be the mapping: a late denial overwrites `approved` and `executed`.

## Runs

Passing runs, with the bounds and why they are enough.

| Run | Shows | Bounds |
|---|---|---|
| `command_races` | a started command is never offered again by a dispatcher; a stored result comes from an execution; executions are bounded by the requests that overlap; until something is lost, the result of a started command is on its way; a cancellation holds once no request carries the row | one row, of any of the three origins, two tasks, two connections, one fault: every pair of dispatchers overlaps, with a fault before, between or after; the theorems cover several rows |
| `alert_incidents` | one active row per incident; no row comes back for a deleted device; no two transactions wait for each other; a tenant's rows are bounded; an alert rings once, and once more only for each poll that died between ringing and its mark | two incidents of one device, one of them `offline`, two transactions, one fault; a deletion takes two locks, the least that can deadlock. With the phone: two rows that commit in either order, a feed of one row, so that the mark is re-baselined downwards, one death, the mark forgotten at any point, no fault of the server |
| `alert_live` | transactions end; alerts of deleted devices leave | two devices, one fault, so a sweep repairs an aborted deletion |
| `device_races` | an update can always time out; an uninstallation is never undone by a push or a connection; no device stays offline or in update mode while its agent pushes; a recorded outage reaches the bell unless its raise failed | one request against the detector, an update, all administrator actions and one fault, which is any failing statement or a crash; the two safety properties are proved for any number of requests |
| `metric_levels` | no false "back to normal"; no bad level without its message, unless that was lost; the bell follows the level | a metric that can be muted (the worse one) and one that cannot, so that muting ends the incident or lowers it; three readings, two saves (off and on again), one fault (a message, a statement, the bell, the job or the process), one push at a time against the job and both caches |
| `scenario_walk` | until a second report or a restart: one token per run, a fan-out waits for all devices, a run notifies once; always: a run ends unless a command was withdrawn or lost its terminal ack or a statement failed, what arrives for an ended run changes nothing, and a wait resumes | the run of a trigger walks a loop with a fan-out to two devices and a branch, where each node is visited once before the cap ends it, with a cancelled run, a withdrawn command, a lost ack and one failing statement anywhere; or a line of a cooldown, an action and a wait, entered at the trigger, the action or the wait, also as the test of one node, with two reports per command and one restart at any point |
| `schedule_clock` | a moment reaches a device once, and once more for each tick cut short after giving it to that device or for an overlap, and no oftener; one execution per device in flight; every execution frees its device; what is due is served | a schedule of each of the three kinds (chosen in the initial state), two moments, so that one is missed while another is served, two ticks, one overlap, two faults |
| `remote_relay` | one agent hears the user; frames arrive once and in order; an active session has its agent or is being ended; an ended session stays ended | each of the four kinds of session; in a shell session, two browsers and an agent that sends two frames before, between and after they attach; in the others, two dials of the agent, and in a bastion session two ends in flight, each of which may overtake the other between its SELECT and its UPDATE or fail there; one crash, of a VM console |
| `approval_decision` | the requests implement `Decision`; one request runs one version, and with a hash it is the reviewed one unless the script was edited after the comparison | three users, three concurrent requests (an approval, a second approval and a refusal), two effects, two edits, one crash |

Runs in which TLC refutes what a comment says; `PROJECT.json` quotes the text
under `findings`.

| Run | What happens |
|---|---|
| `scenario_worst_exit` | a timeout is exit code -1, the maximum with a success is 0: the success branch is taken |
| `remote_orphan` | `endSession` takes the entry out of the map and closes no socket; when the agent closes, `handleTunnelClose` finds no entry and the other end stays open |
| `schedule_reboot` | the scenario cron starts the runs of a moment, the server is rebooted before it writes the next one, and the first tick starts them again; `RebootSpec` allows no other fault |

Type invariants of `CommandQueue`, `LiveAlert`, `DeviceStatus` and `Approval`
are conjuncts of proved invariants and not checked again by TLC.

### What the code does not guarantee

These are the cases in which a property stops to hold when its bounds are
widened, or in which a stronger one could not be stated. Comments
of the code that say otherwise are quoted.

* **Commands.** Two dispatches that overlap both send a row that both selected
  (`agentHub.service.ts:244` claims that the early mark prevents it); a request
  that selected a row before its cancellation still sends it. A terminal ack
  that is lost after `ack_running` leaves a row that the cleanup job does not
  look at (`command.service.ts:623`), and its scenario run never hears of it,
  although the comment at lines 612-617 requires that it does: otherwise "the
  scenario_runs row stays 'running' forever". `RunsEnd` names this exception.
* **Alerts.** Two raises may commit in the other order than their ids: a phone
  that polls in between never rings for the lower one. A phone whose process ends
  between the notifications and the write of the mark rings for them again.
* **Device status.** A push that read the row before a suspension writes its
  metric level over it (`device.service.ts:1391`). A push that read `online`
  and is overtaken by the detector overwrites `offline` and resolves nothing:
  the offline alert stays until the next outage. A channel that reconnects
  before the first push hides the recovery from the `agent_back_online` trigger.
  A raise of the offline alert that fails is logged and not repeated: the device
  is `offline` by then, and the detector does not select it again.
* **Metric levels.** When the job lowers the level between a push's level write
  and its bell insert, the row stays: a raise re-checks only the offline kind. A
  level whose message failed, or whose push died before it, is never announced:
  the next push finds the level unchanged. A SELECT issued before a save may be
  cached after the save's invalidation, for a minute.
* **Scenarios.** With two reports per command, the expiry and the late ack of
  one device count as two devices of a fan-out, and a second report starts a
  second walk that loses visit counts of the first. A restart forgets the
  fan-outs: the first report then advances alone. Two runs that reach a cooldown
  node together both pass. A cancelled run becomes `success` or `failure` when a
  walk that had passed its check ends. A command that an administrator withdraws
  reports nothing, and its run stays `running`. A statement that fails while a
  wait resumes strands the run until a restart.
* **Schedules.** A crash, or a failing statement, between the dispatch and the
  write of the next moment fires it again, where
  `scenarioGraphCron.service.ts:12` says the engine never double-fires (run
  `schedule_reboot`). `processCatchup` dispatches nothing. `POST
  /executions/:id/cancel` always fails (it writes a column the table does not
  have), and `/stop` matches no execution, because nothing writes the statuses
  it looks for.
* **Remote sessions.** After a restart nothing ends a session that was active.
  The same holds of a session that `closeSessionsForUser` tore down before a
  statement of its `endSession` failed: it stays `active` without an agent. An
  error of `handleTunnelClose` ends the process, and with it every other
  session's relay. When the UPDATE to `active` fails, the session is relayed but
  its row still waits, and the cleanup may end it. A session that connected may
  be recorded as `expired` when the read of `endSession` came before the UPDATE
  to `active`.
* **Approvals.** A denial decided on an old read overwrites `approved` or
  `executed`: the row then says denied although everything ran. A script edited
  between the comparison of hashes and the read of `executeNow` runs as edited,
  although `script.routes.ts:211` says that "a later edit of the script refuses
  execution": `ReviewedContentRuns` names this exception. A request that carries
  no hash, such as one filed through `POST /api/commands` with the client's own
  parameters, runs whatever the script says when it is approved. `sweepExpired`
  has no caller, so an untouched request stays pending.

Deadlock is not checked where the system may stop: the bounds on rows, ids,
faults and runs are the model's, and a state where they are used up and nothing
is in flight is a quiet system.

## Fairness

Weak fairness of the steps of each task, handler, tick and job: Node runs every
ready callback and PostgreSQL answers every statement. Periodic jobs and loops
(the agent's push, the orphan sweep, the detector, the ticks and the execution
sweep, the stale-session cleanup, the boot's re-arming) run again and again.
Time passes (`Clock`, `Ages`). Strong fairness where an action needs a free
task, or, for a socket's close event, a free job: the server accepts every
request, and the number of tasks is the model's bound. A lock is also strongly
fair: PostgreSQL serves its waiters in turn. No fairness is assumed of users,
administrators, faults or new runs, nor of acks in general. In `ScenarioGraph` a
command that waits expires, and one that is acknowledged ends and reports,
because the agent's script executor has a timeout (`agent/scripts.go:107-113`);
losing that report is a step of its own, after which nothing follows.
`CommandQueue`, `MetricAlert` and `Approval` have safety properties only and no
fairness.

## Proofs

Every safety property that a passing run checks is also a theorem. The theorems
hold for every value of the constants that satisfies the named assumption of the
module, so for any number of overlapping tasks and faults. The assumptions are
about the shape of an instance: finitely many commands, tasks, ticks and devices
where a proof counts them, at least one schedule and one device, functions of
the right type, and sentinels (`NoTask`, `NoRun`, `None`) that are no member of
the set they stand outside of. Two conditions say more, the first as a hypothesis
of the theorems that need it, the second in the properties themselves:

* `OneAtATime` (`MetricAlertProofs`): one push of the device is in flight.
* `Regular` (`ScenarioGraph`): no command has reported twice and the server was
  not restarted. It is a condition on the state inside three properties, not a
  bound: they hold up to the first second report or restart, and after one TLC
  finds each of them violated (see "What the code does not guarantee").

A property is seldom inductive; what follows says which invariant carries it and
why.

* **CommandQueueProofs.** What matters is what a task in flight carries.
  `CommandInv` adds that a reply is only sent for rows that are already past
  `pending` (`Carries`), that acks and runs of the agent stand for started
  commands (`AgentReportsRuns`) and that a started command has a row. Rows only
  move forward (`Forward`), so what a task knows stays true (`KeepsCarrying`);
  each action then shows what its own task learns. `CommandSafety`, `NoRequeue`,
  `ResultsAreReal`, and the action property `CancellationSafety`. `OverlapInv`
  counts the starts of a command together with the tasks that may still deliver
  it; while the row is `pending` only routes have delivered it, and once it is
  past `pending` no dispatcher can take it up (`OverlapBound`). `ResultInv` adds
  the order of the agent's acks: behind a running ack comes the terminal one, or
  the command is still running, so a row in `ack_running` has its result still
  to come (`ResultArrives`).
* **LiveAlertProofs.** `LiveInv` says of each transaction which locks it holds
  (exactly those of its incidents that it has taken, in increasing order), and
  that a raise in progress has read every active row of its incident; ids are
  fresh. Two transactions that hold the same lock are the same transaction, so
  one cannot disturb what another has read. `OneActive`, `DeletedQuiet`, and,
  from the order of the locks, `NoDeadlock`. `TenantInv` counts the raises on
  their way to the trim, tenant by tenant (`TenantsAreBounded`). `PhoneInv` is
  about the composition with the phone. An alert is `Counted` when a poll that
  ended, or goes on, rang for it: such an alert, if still active, is at or below
  the mark, unless the mark is unset or this very poll rang for it.
  `WorkerSound` is what a poll under way knows: what it has still to ring for is
  not counted, and the mark it will store is above everything counted
  (`PhoneRingsOnce`).
* **DeviceStatusProofs.** `StatusInv` is the type invariant with
  `UpdatingHasStart`; `UpdatesCanEnd`, and the action property
  `UninstallStands`, which rests on the UPDATEs of pushes and channels excluding
  `pending_uninstall` themselves: what they read before would be too old. Both
  hold whatever statements fail.
* **MetricAlertProofs.** `MetricTypes` needs no hypothesis. `AnnouncedInv` says
  that a stored bad level was announced, was `lost` with its message (a fault
  after the write of the level), or is that of a push about to send it; and that
  a push has read a bad level wherever one is stored, since meanwhile the job
  can only lower it (`LevelsAreAnnounced`). `RecoveryInv` relates the stored
  alert level to the breaches it stands for: a push that plans a recovery has a
  breach that ended, whatever was muted since it read (`NoFalseBackToNormal`).
  `BellInv` says which push or job still has to ring or resolve the bell when it
  differs from the level (`BellFollowsLevel`).
* **ScenarioGraphProofs.** `TypeInv` is the type invariant with `LinkInv`: a
  task refers to node runs of its own run (`ScenarioTypes`). For the action
  property `EndedRunsAreLeftAlone`, every write of an action is to the run of
  its task, and every action of an ended run that no task walks is one of the
  early returns. `TokenInv` accounts for the token while the run is `Regular`
  (which never becomes true again: `RegularBefore`): what is unreported,
  resumable or committed determines at each program point of a task whether its
  node run can be resumed by anything else, and nothing can while a task has it
  (`OneToken`); the fan-out's count is that of the commands that have reported
  (`FanOutIsComplete`), and a run that is still running has not notified, apart
  from the task that ends it (`EndsOnce`).
* **ScheduleProofs.** `ScheduleInv` is the type invariant with what a tick has
  read of its schedule. `FlightInv` adds the ticks that have looked and will
  insert to the executions in flight (`AtMostOneInFlight`). `FiredInv` says
  where a moment is: still due in the row, or in the hands of the ticks that
  selected it and have not given it to the device. Each further firing was paid
  for by an overlap, or by a tick that was cut short after it gave this device
  this moment; `GivenInv` keeps apart whom a tick has served and whom it has
  still to serve (`SlotsAreFiredOnce`).
* **RemoteSessionProofs.** `OneAgentHears` speaks of sockets that a browser is
  bridged to, which may hang on entries no longer in the map. `RelayInv` adds
  `Paths`: an entry knows only sockets registered in it, an open agent is still
  the agent of its entry, and the two ends of a bridge come from the same entry.
  `SessionInv` adds the row: whoever pushes an end has written it, and as long
  as nobody is ending an open session, and no end `failed` after it took the
  entry, its only agent is in the map and not gone; `JobTypes` says that only
  the kill of a user tears down before it ends. The property is void after a
  crash, because nothing ends a session whose relay was lost. `OneAgent`,
  `NoActiveOrphan`, and the action property `EndedStays`. `FrameInv` says that
  only an entry without a browser buffers, and that an agent's frames are split
  between what was handed over and its buffer (`FramesArriveInOrder`).
  `RemoteTypes`.
* **ApprovalProofs.** `ClaimInv` says that nobody executes before the claim, one
  task at most after it, and that what this task still has to do has not been
  done; with it every step of `Approval` is a step of `Decision` or leaves the
  mapping unchanged (`ApprovalImplementsDecision`). `VersionInv` orders the
  versions of the script: requested, at the claim, now; from the comparison on,
  what a task with a hash sends is the requested one, or `lateEdit` has seen the
  edit in between (`OnlyReviewedContent`).

Only model-checked: all liveness (`TransactionsEnd`, `OrphansLeave`,
`LeavesOffline`, `LeavesUpdating`, `OutageIsAnnounced`, `RunsEnd`, `WaitResumes`,
`DeviceIsFreed`, `DueIsServed`), which is outside the prover, and the three
comments that TLC refutes. Nothing proved rests on a recursive definition: the
prover cannot do the induction, and the models need none.

## Not modelled

`PROJECT.json` lists every component with the reason. Within the modelled ones:
payloads and the per-type processing of results; alerts that belong to no
incident, and read marks of the web; registration and identity of devices; the
values of thresholds and their merge per mount; what synchronous scenario nodes
do to devices, and editing a graph while it runs; edits of a schedule other
than enabling it, and schedules with `skip_if_in_flight` off; the SSH protocol,
menu and keys of the bastion; restriction profiles.

Of the components left out, the maintenance windows have no effect at run time
(their jobs are never started and no alert asks for them), and the OS updates
are row updates driven by inventories and acks. Two things in them are worth
knowing: a scan refreshes `updated_at` of a row in `pending_install`, so that
its release after six hours does not come while scans do, and nothing releases
a row in `installing`. The larger part of the repository is no protocol: web
pages and components, compliance presets, type declarations, installers and
documentation, which together outweigh the whole server several times.

## Plan

1. Weaker hypotheses: what remains of the metric properties when pushes overlap
   (the levels, not the order of messages), and of `OneTokenPerRun` for the runs
   that start after a restart.
2. An abstract specification of the command queue (queued, started, heard of,
   given up) and of a run's walk, with the detailed modules shown to implement
   them as `Approval` implements `Decision`.
3. Deeper invariants of the device status: what the offline alert and the status
   say of each other while a push and the detector overlap.
