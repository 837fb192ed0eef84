------------------------------ MODULE AlertPhone ------------------------------
(***************************************************************************)
(* The Android worker that polls the live alerts and rings for the new     *)
(* ones, composed with LiveAlert.  Ids are a serial, and the phone keeps   *)
(* the highest id it has seen: the high-water mark.                        *)
(***************************************************************************)
EXTENDS LiveAlert, FiniteSetsExt

CONSTANTS
    FeedSize,   \* rows the server returns (200 in the code)
    MaxDeaths   \* bound: ends of the app's process during a poll

ASSUME AlertPhoneAssumption == FeedSize \in Nat \ {0} /\ MaxDeaths \in Nat

NoMark == -1

\* The periodic worker: the rows of the response, the alerts it has still to
\* notify and those it has notified, and the mark it will store at the end.
Worker == [pc : {"idle", "got", "posting"}, feed : SUBSET Ids, todo : SUBSET Ids,
           posted : SUBSET Ids, mark : Int]

VARIABLES
    mark,     \* prefs.alertsHighWater, NoMark = not set
    worker,   \* Worker
    rung,     \* [Ids -> Nat]: history: notifications posted for each alert
    cut       \* [Ids -> Nat]: history: those of a poll that died before it stored its mark

phoneVars == <<mark, worker, rung, cut>>
allVars == <<vars, phoneVars>>

IdleWorker == [pc |-> "idle", feed |-> {}, todo |-> {}, posted |-> {}, mark |-> 0]

PhoneInit ==
    /\ Init
    /\ mark = NoMark
    /\ worker = IdleWorker
    /\ rung = [a \in Ids |-> 0]
    /\ cut = [a \in Ids |-> 0]

ActiveIds == {a \in Ids : Active(a)}

\* getForTenants: the newest active rows.
Feed == {a \in ActiveIds : Cardinality({b \in ActiveIds : b > a}) < FeedSize}

\* The GET of doWork is answered.
PollGets ==
    /\ worker.pc = "idle"
    /\ worker' = [IdleWorker EXCEPT !.pc = "got", !.feed = Feed]
    /\ UNCHANGED <<vars, mark, rung, cut>>

\* The rows of a response above the mark; none while the mark is not set.
Fresh(feed) == IF mark = NoMark THEN {} ELSE {a \in feed : a > mark}

\* Variant: the mark follows the first of the alerts that ring.
NewMarkOfFresh(feed) ==
    IF mark = NoMark THEN 0 ELSE IF Fresh(feed) = {} THEN mark ELSE Min(Fresh(feed))

\* The mark after a poll: it re-baselines when the newest alert is below it.
NewMark(feed) == IF feed # {} THEN Max(feed) ELSE IF mark = NoMark THEN 0 ELSE mark

\* LiveAlerts.process: the fresh alerts that nobody has marked as read will ring.
PollProcesses ==
    /\ worker.pc = "got"
    /\ \E unread \in SUBSET Fresh(worker.feed) :
          worker' = [IdleWorker EXCEPT !.pc = "posting", !.todo = unread, !.mark = NewMark(worker.feed)]
    /\ UNCHANGED <<vars, mark, rung, cut>>

\* One notification, oldest first (or a line of the summary).
Post(a) ==
    /\ worker.pc = "posting"
    /\ a \in worker.todo /\ \A b \in worker.todo : a <= b
    /\ rung' = [rung EXCEPT ![a] = @ + 1]
    /\ worker' = [worker EXCEPT !.todo = @ \ {a}, !.posted = @ \cup {a}]
    /\ UNCHANGED <<vars, mark, cut>>

\* The mark is stored when everything is posted.
StoreMark ==
    /\ worker.pc = "posting"
    /\ worker.todo = {}
    /\ mark' = worker.mark
    /\ worker' = IdleWorker
    /\ UNCHANGED <<vars, rung, cut>>

Polls == PollGets \/ PollProcesses \/ (\E a \in Ids : Post(a)) \/ StoreMark

\* SettingsActivity: enabling the notifications again forgets the mark, also under
\* a poll that has read it.
EnableAgain ==
    /\ mark # NoMark
    /\ mark' = NoMark
    /\ UNCHANGED <<vars, worker, rung, cut>>

\* The process of the app ends between a notification and the mark.
WorkerDies ==
    /\ worker.posted # {}
    /\ \A a \in worker.posted : cut[a] < MaxDeaths
    /\ cut' = [a \in Ids |-> IF a \in worker.posted THEN cut[a] + 1 ELSE cut[a]]
    /\ worker' = IdleWorker
    /\ UNCHANGED <<vars, mark, rung>>

PhoneNext ==
    \/ Next /\ UNCHANGED phoneVars
    \/ Polls \/ EnableAgain \/ WorkerDies

PhoneSpec == PhoneInit /\ [][PhoneNext]_allVars

-----------------------------------------------------------------------------
(* Properties *)

\* An alert rings again only when the process died between its notification and the
\* store of the mark, which come in this order in doWork: of the polls that ring for
\* an alert, one at most comes to its end.  It does not ring again because rows
\* commit out of the order of their ids, because the mark goes back when the newest
\* alert is resolved or deleted, or because it is forgotten under a poll.
RingsOnceUnlessCut == \A a \in Ids : rung[a] <= 1 + cut[a]

=============================================================================
