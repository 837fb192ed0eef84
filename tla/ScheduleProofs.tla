---------------------------- MODULE ScheduleProofs ----------------------------
(* The script schedules and the scenario cron, for any set of schedules and  *)
(* devices, any number of ticks in flight, overlaps, crashes and errors.     *)
EXTENDS Schedule, FiniteSetTheorems, TLAPS

\* The slot that tick t would dispatch for schedule s of its list.
SlotAt(t, s) == IF kind[s] = "once" THEN 1 ELSE t.snap[s]

\* What a tick knows: its list holds schedules of its own service, which were due at
\* its SELECT; the schedule in hand is one of them, the device in hand one of its own.
TickSound(t) ==
    /\ t.pc = "idle" => t.list = {}
    /\ \A s \in t.list : Service(s) = t.svc /\ SlotAt(t, s) <= t.at[s] /\ t.at[s] <= latest[s]
    /\ t.pc \in {"flight", "fire", "enqueue", "disable"} => t.cur \in t.list
    /\ t.pc = "enqueue" => t.dev \in t.todo
    /\ t.pc = "disable" => kind[t.cur] = "once"

TicksAreSound == \A k \in Ticks : TickSound(tick[k])

ScheduleInv ==
    /\ TypeOK
    /\ IsFiniteSet(execs) /\ IsFiniteSet(sweep)
    /\ TicksAreSound

(* At most one execution in flight.  A tick that passed skip_if_in_flight    *)
(* will insert: it is counted with the executions, and there are no more     *)
(* such ticks than ticks of the schedule service.                            *)

\* Tick t will still insert an execution of s on d.
WillInsert(t, s, d) ==
    /\ t.pc \in {"fire", "enqueue"} /\ t.cur = s /\ kind[s] # "cron" /\ d \in t.todo
    /\ t.pc = "enqueue" => t.dev # d

Inserters(s, d) == {k \in Ticks : WillInsert(tick[k], s, d)}

RunningBounded == \A svc \in Services : Cardinality(Running(svc)) <= 1 + overlaps

FlightInv ==
    /\ RunningBounded
    /\ \A s \in Scheds, d \in Devices :
          Cardinality(InFlight(s, d)) + Cardinality(Inserters(s, d)) <= 1 + overlaps

(* A slot is dispatched once.  A slot n of s is in the hands of the row, as  *)
(* its next moment, or of the ticks: those that may dispatch it, and those   *)
(* that were started one slot earlier and will write n as the next moment.   *)
(* A tick that is cut short hands its slot back to the row: the dispatches it *)
(* made are the ones that the slot may see once more.                         *)

\* Tick t has slot n of s in hand and has not given it to d.
WillFire(t, s, n, d) ==
    /\ s \in t.list /\ SlotAt(t, s) = n
    /\ t.pc # "pick" /\ t.cur = s => d \notin t.given

\* A tick gives a slot to those that are still to have it.
GivenOk(t) ==
    /\ t.pc \in {"idle", "pick", "flight"} => t.given = {}
    /\ t.given \cap t.todo = {}

GivenInv == \A k \in Ticks : GivenOk(tick[k])

\* Tick t will make n the next slot of s.
WillSet(t, s, n) == s \in t.list /\ kind[s] # "once" /\ t.at[s] + 1 = n

Holders(s, n, d) == {k \in Ticks : WillFire(tick[k], s, n, d) \/ WillSet(tick[k], s, n)}

\* The row asks for slot n, and no tick has read it yet.
Asks(s, n) ==
    /\ IF kind[s] = "once" THEN n = 1 /\ enabled[s] ELSE next[s] = n
    /\ \A k \in Ticks : s \in tick[k].list => SlotAt(tick[k], s) # n

FiredInv ==
    /\ fired \in [Scheds \X (1..MaxSlots) \X Devices -> Nat]
    /\ cut \in [Scheds \X (1..MaxSlots) \X Devices -> Nat]
    /\ \A s \in Scheds, n \in 1..MaxSlots, d \in Devices :
          /\ n > latest[s] => fired[<<s, n, d>>] = 0
          /\ fired[<<s, n, d>>] + Cardinality(Holders(s, n, d)) + (IF Asks(s, n) THEN 1 ELSE 0)
                <= 1 + overlaps + cut[<<s, n, d>>]

-----------------------------------------------------------------------------
(* Types, and what ticks know *)

USE DEF Null

\* The image of a finite set is no larger.
LEMMA ImageFacts ==
    ASSUME NEW S, IsFiniteSet(S), NEW f
    PROVE  IsFiniteSet({f[x] : x \in S}) /\ Cardinality({f[x] : x \in S}) <= Cardinality(S)
           /\ Cardinality({f[x] : x \in S}) \in Nat
<1> DEFINE T == {f[x] : x \in S}
           g == [x \in S |-> f[x]]
<1>1. g \in Surjection(S, T)
  BY DEF Surjection
<1> HIDE DEF T, g
<1>2. IsFiniteSet(T) /\ Cardinality(T) <= Cardinality(S)
  BY <1>1, FS_Surjection
<1> QED BY <1>2, FS_CardinalityType DEF T

LEMMA IdleFacts ==
    /\ Idle \in Tick /\ Idle.pc = "idle"
    /\ Idle.list = {} /\ Idle.todo = {} /\ Idle.given = {}
<1>1. AnySched \in Scheds /\ AnyDevice \in Devices
  BY ScheduleAssumption DEF AnySched, AnyDevice
<1> QED BY <1>1 DEF Idle, Tick, Services

\* An idle tick knows nothing.
LEMMA IdleSound == TickSound(Idle)'
<1>1. PICK t : t = Idle /\ t.pc = "idle" /\ t.list = {}
  BY IdleFacts
<1>2. TickSound(t)'
  BY <1>1 DEF TickSound
<1> QED BY <1>1, <1>2

\* There is an id that no row, tick or sweep holds.
LEMMA FreshIdFacts ==
    ASSUME ScheduleInv
    PROVE  FreshId \in Nat /\ FreshId # 0 /\ FreshId \notin {e.id : e \in execs} \cup sweep
<1> DEFINE E == {e.id : e \in execs}
           K == {tick[k].exec : k \in Ticks}
           N == Cardinality(execs) + Cardinality(Ticks) + Cardinality(sweep) + 1
           f == [e \in execs |-> e.id]
           g == [k \in Ticks |-> tick[k].exec]
<1>1. IsFiniteSet(execs) /\ IsFiniteSet(sweep) /\ IsFiniteSet(Ticks)
  BY ScheduleAssumption DEF ScheduleInv
<1>2. Cardinality(execs) \in Nat /\ Cardinality(sweep) \in Nat /\ Cardinality(Ticks) \in Nat
  BY <1>1, FS_CardinalityType
<1>3. IsFiniteSet(E) /\ Cardinality(E) <= Cardinality(execs) /\ Cardinality(E) \in Nat
  <2>1. E = {f[e] : e \in execs}
    BY SMT
  <2> HIDE DEF E, f
  <2> QED BY <1>1, <2>1, ImageFacts
<1>4. IsFiniteSet(K) /\ Cardinality(K) <= Cardinality(Ticks) /\ Cardinality(K) \in Nat
  <2>1. K = {g[k] : k \in Ticks}
    BY SMT
  <2> HIDE DEF K, g
  <2> QED BY <1>1, <2>1, ImageFacts
<1> HIDE DEF E, K
<1>5. IsFiniteSet(E \cup K) /\ Cardinality(E \cup K) <= Cardinality(execs) + Cardinality(Ticks)
      /\ Cardinality(E \cup K) \in Nat
  <2>1. IsFiniteSet(E \cap K) /\ Cardinality(E \cap K) \in Nat
    BY <1>3, FS_Intersection, FS_CardinalityType
  <2>2. IsFiniteSet(E \cup K) /\ Cardinality(E \cup K) = Cardinality(E) + Cardinality(K) - Cardinality(E \cap K)
    BY <1>3, <1>4, FS_Union
  <2>3. Cardinality(E \cup K) \in Nat
    BY <2>2, FS_CardinalityType
  <2> QED BY <1>2, <1>3, <1>4, <2>1, <2>2, <2>3
<1> DEFINE U == (E \cup K) \cup sweep
<1>6. IsFiniteSet(U) /\ Cardinality(U) < N
  <2> DEFINE V == E \cup K
  <2> HIDE DEF V
  <2>1. IsFiniteSet(V) /\ Cardinality(V) <= Cardinality(execs) + Cardinality(Ticks) /\ Cardinality(V) \in Nat
    BY <1>5 DEF V
  <2>2. IsFiniteSet(V \cap sweep) /\ Cardinality(V \cap sweep) \in Nat
    BY <2>1, FS_Intersection, FS_CardinalityType
  <2>3. IsFiniteSet(V \cup sweep)
        /\ Cardinality(V \cup sweep) = Cardinality(V) + Cardinality(sweep) - Cardinality(V \cap sweep)
    BY <1>1, <2>1, FS_Union
  <2>4. Cardinality(V \cup sweep) < N
    BY <1>2, <2>1, <2>2, <2>3
  <2> QED BY <2>3, <2>4 DEF V
<1>7. N \in Nat /\ N >= 1 /\ Cardinality(1..N) = N
  <2>1. N \in Nat /\ N >= 1
    BY <1>2
  <2> HIDE DEF N
  <2>2. Cardinality(1..N) = (IF 1 > N THEN 0 ELSE N - 1 + 1)
    BY <2>1, FS_Interval
  <2> QED BY <2>1, <2>2
<1> HIDE DEF U, N
<1>8. \E i \in 1..N : i \notin U
  <2> SUFFICES ASSUME 1..N \in SUBSET U PROVE FALSE
    BY Zenon
  <2>1. Cardinality(1..N) <= Cardinality(U) /\ Cardinality(U) \in Nat
    BY <1>6, FS_Subset, FS_CardinalityType
  <2> QED BY <1>6, <1>7, <2>1
<1>9. FreshId = CHOOSE i \in 1..N : i \notin U
  BY DEF FreshId, N, U, E, K
<1>10. FreshId \in 1..N /\ FreshId \notin U
  BY <1>8, <1>9
<1> QED BY <1>7, <1>10 DEF U, E

\* One tick moves, the kinds stay and the clock does not go back.
LEMMA TickMoves ==
    ASSUME ScheduleInv, NEW k \in Ticks, NEW t \in Tick, Become(k, t), TickSound(t)',
           kind' = kind, latest' = latest
    PROVE  tick' \in [Ticks -> Tick] /\ TicksAreSound'
<1>1. tick \in [Ticks -> Tick] /\ tick' = [tick EXCEPT ![k] = t] /\ tick' \in [Ticks -> Tick]
  BY DEF ScheduleInv, TypeOK, Become
<1>2. ASSUME NEW j \in Ticks PROVE TickSound(tick[j])'
  <2>1. CASE j = k
    <3>1. tick'[j] = t
      BY <1>1, <2>1
    <3> QED BY <3>1
  <2>2. CASE j # k
    <3>1. PICK u : u = tick[j] /\ u = tick'[j]
      BY <1>1, <2>2
    <3>2. TickSound(u)
      BY <3>1 DEF ScheduleInv, TicksAreSound
    <3>3. TickSound(u)'
      BY <3>2 DEF TickSound, SlotAt, Service
    <3> QED BY <3>1, <3>3
  <2> QED BY <2>1, <2>2
<1> QED BY <1>1, <1>2 DEF TicksAreSound

\* ... to the rest of its list.
LEMMA OnwardMoves ==
    ASSUME ScheduleInv, NEW k \in Ticks, Onward(k), kind' = kind, latest' = latest
    PROVE  tick' \in [Ticks -> Tick] /\ TicksAreSound'
<1>1. PICK u \in Tick : u = tick[k] /\ TickSound(u)
  BY DEF ScheduleInv, TypeOK, TicksAreSound
<1> DEFINE rest == u.list \ {u.cur}
           t == [u EXCEPT !.pc = "pick", !.list = rest, !.todo = {}, !.given = {}, !.exec = 0]
<1>2. CASE rest = {}
  <2>1. Become(k, Idle)
    BY <1>1, <1>2 DEF Onward
  <2> QED BY <2>1, TickMoves, IdleFacts, IdleSound
<1>3. CASE rest # {}
  <2>1. Become(k, t)
    BY <1>1, <1>3 DEF Onward
  <2>2. t \in Tick
    BY <1>1 DEF Tick
  <2>3. t.pc = "pick" /\ t.list \subseteq u.list /\ t.svc = u.svc /\ t.at = u.at /\ t.snap = u.snap
    BY <1>1 DEF Tick
  <2> HIDE DEF t
  <2>4. TickSound(t)'
    BY <1>1, <2>3 DEF TickSound, SlotAt, Service
  <2> QED BY <2>1, <2>2, <2>4, TickMoves
<1> QED BY <1>2, <1>3

LEMMA InitSound == Init => ScheduleInv
<1> SUFFICES ASSUME Init PROVE ScheduleInv
  OBVIOUS
<1>1. TypeOK
  BY IdleFacts DEF Init, TypeOK
<1>2. IsFiniteSet(execs) /\ IsFiniteSet(sweep)
  BY FS_EmptySet DEF Init
<1>3. \A k \in Ticks : tick[k] = Idle
  BY DEF Init
<1>4. PICK t : t = Idle /\ t.pc = "idle" /\ t.list = {}
  BY IdleFacts
<1>5. TickSound(t)
  BY <1>4 DEF TickSound
<1>6. TicksAreSound
  BY <1>3, <1>4, <1>5 DEF TicksAreSound
<1> QED BY <1>1, <1>2, <1>6 DEF ScheduleInv

\* Everything but the tick of one step is left alone or keeps its type.
LEMMA SoundFrom ==
    ASSUME ScheduleInv, tick' \in [Ticks -> Tick], TicksAreSound',
           kind' = kind, latest' = latest, next' \in [Scheds -> Nat], enabled' \in [Scheds -> BOOLEAN],
           execs' \subseteq Execution, IsFiniteSet(execs'), sweep' = sweep,
           overlaps' \in Nat, faults' \in Nat
    PROVE  ScheduleInv'
<1>1. TypeOK'
  BY DEF ScheduleInv, TypeOK
<1> QED BY <1>1 DEF ScheduleInv

LEMMA TypeFacts ==
    ASSUME ScheduleInv
    PROVE  /\ kind \in [Scheds -> Kinds] /\ latest \in [Scheds -> Nat]
           /\ next \in [Scheds -> Nat] /\ enabled \in [Scheds -> BOOLEAN]
           /\ tick \in [Ticks -> Tick]
           /\ execs \subseteq Execution /\ IsFiniteSet(execs)
           /\ sweep \subseteq Nat /\ IsFiniteSet(sweep)
           /\ overlaps \in Nat /\ faults \in Nat
BY DEF ScheduleInv, TypeOK

\* The clock and the users.
LEMMA ClockSound ==
    ASSUME ScheduleInv, NEW s \in Scheds, SlotComes(s) \/ Toggle(s)
    PROVE  ScheduleInv'
<1>1. /\ kind' = kind /\ tick' = tick /\ execs' = execs /\ sweep' = sweep /\ overlaps' = overlaps /\ faults' = faults
      /\ next' = next
  BY DEF SlotComes, Toggle
<1>2. latest' \in [Scheds -> Nat] /\ \A r \in Scheds : latest'[r] >= latest[r]
  BY TypeFacts DEF SlotComes, Toggle
<1>3. enabled' \in [Scheds -> BOOLEAN]
  BY TypeFacts DEF SlotComes, Toggle
<1>4. ASSUME NEW j \in Ticks PROVE TickSound(tick[j])'
  <2>1. PICK u \in Tick : u = tick[j] /\ u = tick'[j] /\ TickSound(u)
    BY <1>1, TypeFacts DEF ScheduleInv, TicksAreSound
  <2>2. \A r \in u.list : r \in Scheds /\ u.at[r] \in Nat /\ latest[r] \in Nat /\ latest'[r] \in Nat
    BY <1>2, <2>1, TypeFacts DEF Tick
  <2>3. \A r \in u.list : u.at[r] <= latest'[r]
    BY <1>2, <2>1, <2>2 DEF TickSound
  <2>4. TickSound(u)'
    BY <1>1, <2>1, <2>3 DEF TickSound, SlotAt, Service
  <2> QED BY <2>1, <2>4
<1>5. TypeOK'
  BY <1>1, <1>2, <1>3, TypeFacts DEF TypeOK
<1> QED BY <1>1, <1>4, <1>5, TypeFacts DEF ScheduleInv, TicksAreSound

\* The SELECT of a tick: what it lists is due.
LEMMA StartTickSound ==
    ASSUME ScheduleInv, NEW k \in Ticks, NEW svc \in Services, StartTick(k, svc)
    PROVE  ScheduleInv'
<1> DEFINE due == {s \in Scheds : Service(s) = svc /\ Due(s)}
           t == [Idle EXCEPT !.pc = "pick", !.svc = svc, !.at = latest, !.snap = next, !.list = due]
<1>1. /\ Become(k, t) /\ kind' = kind /\ latest' = latest /\ next' = next /\ enabled' = enabled
      /\ execs' = execs /\ sweep' = sweep /\ faults' = faults /\ overlaps' \in {overlaps, overlaps + 1}
  BY DEF StartTick, schedVars
<1>2. t \in Tick /\ t.pc = "pick" /\ t.svc = svc /\ t.at = latest /\ t.snap = next /\ t.list = due
  BY IdleFacts, TypeFacts DEF Tick
<1>3. ASSUME NEW s \in due
      PROVE  SlotAt(t, s) <= t.at[s] /\ t.at[s] <= latest[s] /\ Service(s) = t.svc
  <2>1. s \in Scheds /\ Service(s) = svc /\ Due(s) /\ latest[s] \in Nat /\ next[s] \in Nat /\ kind[s] \in Kinds
    BY TypeFacts
  <2>2. CASE kind[s] = "once"
    BY <1>2, <2>1, <2>2 DEF Due, SlotAt
  <2>3. CASE kind[s] = "script"
    BY <1>2, <2>1, <2>3 DEF Due, SlotAt
  <2>4. CASE kind[s] = "cron"
    BY <1>2, <2>1, <2>4 DEF Due, SlotAt
  <2> QED BY <2>1, <2>2, <2>3, <2>4 DEF Kinds
<1>4. PICK v \in Tick : v = t
  BY <1>2
<1> HIDE DEF t
<1>5. TickSound(v)'
  <2>1. \A s \in v.list : SlotAt(v, s) <= v.at[s] /\ v.at[s] <= latest[s] /\ Service(s) = v.svc
    BY <1>2, <1>3, <1>4
  <2>2. v.pc = "pick"
    BY <1>2, <1>4
  <2> HIDE DEF due
  <2> QED BY <1>1, <2>1, <2>2 DEF TickSound, SlotAt, Service
<1>6. overlaps' \in Nat
  BY <1>1, TypeFacts
<1>7. tick' \in [Ticks -> Tick] /\ TicksAreSound'
  BY <1>1, <1>4, <1>5, TickMoves
<1> QED BY <1>1, <1>6, <1>7, TypeFacts, SoundFrom

\* A tick takes up a schedule, or primes it.
LEMMA PickSound ==
    ASSUME ScheduleInv, NEW k \in Ticks, NEW s \in Scheds, Targets(k, s) \/ Prime(k, s)
    PROVE  ScheduleInv'
<1>1. PICK u \in Tick : u = tick[k] /\ TickSound(u)
  BY TypeFacts DEF ScheduleInv, TicksAreSound
<1>2. /\ u.pc = "pick" /\ s \in u.list /\ kind' = kind /\ latest' = latest /\ enabled' = enabled
      /\ execs' = execs /\ sweep' = sweep /\ faults' = faults /\ overlaps' = overlaps
  BY <1>1 DEF Targets, Prime, schedVars
<1>3. next' \in [Scheds -> Nat]
  <2>1. u.at[s] + 1 \in Nat
    BY <1>1 DEF Tick
  <2> QED BY <1>1, <2>1, TypeFacts DEF Targets, Prime, schedVars
<1>4. tick' \in [Ticks -> Tick] /\ TicksAreSound'
  <2>1. CASE Targets(k, s)
    <3>1. PICK D \in SUBSET Devices :
             Become(k, [u EXCEPT !.cur = s, !.todo = D, !.pc = IF kind[s] = "cron" THEN "fire" ELSE "flight"])
      BY <1>1, <2>1 DEF Targets
    <3> DEFINE t == [u EXCEPT !.cur = s, !.todo = D, !.pc = IF kind[s] = "cron" THEN "fire" ELSE "flight"]
    <3>2. /\ t \in Tick /\ t.pc \in {"fire", "flight"} /\ t.cur = s /\ t.list = u.list /\ t.svc = u.svc
          /\ t.at = u.at /\ t.snap = u.snap
      BY <1>1 DEF Tick
    <3>3. PICK v \in Tick : v = t /\ Become(k, v)
      BY <3>1, <3>2
    <3> HIDE DEF t
    <3>4. TickSound(v)'
      BY <1>1, <1>2, <3>2, <3>3 DEF TickSound, SlotAt, Service
    <3> QED BY <1>2, <3>3, <3>4, TickMoves
  <2>2. CASE Prime(k, s)
    <3> DEFINE t == [u EXCEPT !.list = u.list \ {s}]
    <3>1. Become(k, Idle) \/ Become(k, t)
      BY <1>1, <2>2 DEF Prime
    <3>2. /\ t \in Tick /\ t.pc = "pick" /\ t.list \subseteq u.list /\ t.svc = u.svc
          /\ t.at = u.at /\ t.snap = u.snap
      BY <1>1, <1>2 DEF Tick
    <3> HIDE DEF t
    <3>3. TickSound(t)'
      BY <1>1, <1>2, <3>2 DEF TickSound, SlotAt, Service
    <3> QED BY <1>2, <3>1, <3>2, <3>3, TickMoves, IdleFacts, IdleSound
  <2> QED BY <2>1, <2>2
<1> QED BY <1>2, <1>3, <1>4, TypeFacts, SoundFrom

\* A run is started, or not: the device is crossed off.
LEMMA StartRunTick ==
    ASSUME ScheduleInv, NEW k \in Ticks, NEW d \in Devices, StartRun(k, d),
           NEW u \in Tick, u = tick[k]
    PROVE  \E t \in Tick :
              /\ Become(k, t) /\ t.pc = "fire" /\ t.cur = u.cur /\ t.list = u.list /\ t.svc = u.svc
              /\ t.at = u.at /\ t.snap = u.snap /\ t.todo = u.todo \ {d}
              /\ \/ Fired(k, d) /\ t.given = u.given \cup {d}
                 \/ fired' = fired /\ t.given = u.given
<1>1. u.pc = "fire" /\ d \in u.todo
  BY DEF StartRun
<1>2. CASE Fired(k, d) /\ Become(k, [u EXCEPT !.todo = u.todo \ {d}, !.given = u.given \cup {d}])
  <2> DEFINE t == [u EXCEPT !.todo = u.todo \ {d}, !.given = u.given \cup {d}]
  <2>1. /\ t \in Tick /\ t.pc = "fire" /\ t.cur = u.cur /\ t.list = u.list /\ t.svc = u.svc
        /\ t.at = u.at /\ t.snap = u.snap /\ t.todo = u.todo \ {d} /\ t.given = u.given \cup {d}
    BY <1>1 DEF Tick
  <2>2. Become(k, t)
    BY <1>2
  <2> HIDE DEF t
  <2> QED BY <1>2, <2>1, <2>2
<1>3. CASE fired' = fired /\ Become(k, [u EXCEPT !.todo = u.todo \ {d}])
  <2> DEFINE t == [u EXCEPT !.todo = u.todo \ {d}]
  <2>1. /\ t \in Tick /\ t.pc = "fire" /\ t.cur = u.cur /\ t.list = u.list /\ t.svc = u.svc
        /\ t.at = u.at /\ t.snap = u.snap /\ t.todo = u.todo \ {d} /\ t.given = u.given
    BY <1>1 DEF Tick
  <2>2. Become(k, t)
    BY <1>3
  <2> HIDE DEF t
  <2> QED BY <1>3, <2>1, <2>2
<1> QED BY <1>2, <1>3 DEF StartRun

\* A tick checks what is in flight, inserts, or starts a run.
LEMMA FireSound ==
    ASSUME ScheduleInv, NEW k \in Ticks, NEW d \in Devices, SkipInFlight(k) \/ Insert(k, d) \/ StartRun(k, d)
    PROVE  ScheduleInv'
<1>1. PICK u \in Tick : u = tick[k] /\ TickSound(u)
  BY TypeFacts DEF ScheduleInv, TicksAreSound
<1>2. /\ u.pc \in {"flight", "fire"} /\ kind' = kind /\ latest' = latest /\ enabled' = enabled /\ next' = next
      /\ sweep' = sweep /\ faults' = faults /\ overlaps' = overlaps
  BY <1>1 DEF SkipInFlight, Insert, StartRun, schedVars
<1>3. PICK t \in Tick :
         /\ Become(k, t) /\ t.pc \in {"fire", "enqueue"} /\ t.cur = u.cur /\ t.list = u.list /\ t.svc = u.svc
         /\ t.at = u.at /\ t.snap = u.snap /\ (t.pc = "enqueue" => t.dev \in t.todo)
  <2>1. CASE SkipInFlight(k)
    <3> DEFINE t == [u EXCEPT !.pc = "fire", !.todo = {x \in u.todo : InFlight(u.cur, x) = {}}]
    <3>1. /\ t \in Tick /\ t.pc = "fire" /\ t.cur = u.cur /\ t.list = u.list /\ t.svc = u.svc
          /\ t.at = u.at /\ t.snap = u.snap
      BY <1>1 DEF Tick
    <3>2. Become(k, t)
      BY <1>1, <2>1 DEF SkipInFlight, Tick
    <3> HIDE DEF t
    <3> QED BY <3>1, <3>2
  <2>2. CASE Insert(k, d)
    <3>1. FreshId \in Nat
      BY FreshIdFacts
    <3> DEFINE t == [u EXCEPT !.pc = "enqueue", !.dev = d, !.exec = FreshId]
    <3>2. d \in u.todo /\ Become(k, t)
      BY <1>1, <2>2 DEF Insert
    <3>3. /\ t \in Tick /\ t.pc = "enqueue" /\ t.cur = u.cur /\ t.list = u.list /\ t.svc = u.svc
          /\ t.at = u.at /\ t.snap = u.snap /\ t.dev = d /\ t.todo = u.todo
      BY <1>1, <3>1 DEF Tick
    <3> HIDE DEF t
    <3> QED BY <3>2, <3>3
  <2>3. CASE StartRun(k, d)
    BY <1>1, <2>3, StartRunTick
  <2> QED BY <2>1, <2>2, <2>3
<1>4. TickSound(t)'
  BY <1>1, <1>2, <1>3 DEF TickSound, SlotAt, Service
<1>5. execs' \subseteq Execution /\ IsFiniteSet(execs')
  <2>1. CASE execs' = execs
    BY <2>1, TypeFacts
  <2>2. CASE Insert(k, d)
    <3> DEFINE e == [id |-> FreshId, sched |-> u.cur, dev |-> d, queued |-> FALSE, old |-> FALSE]
    <3>1. execs' = execs \cup {e}
      BY <1>1, <2>2 DEF Insert
    <3>2. e \in Execution
      BY <1>1, FreshIdFacts DEF Execution, Tick
    <3> HIDE DEF e
    <3>3. IsFiniteSet(execs \cup {e})
      BY TypeFacts, FS_AddElement
    <3> QED BY <3>1, <3>2, <3>3, TypeFacts
  <2> QED BY <2>1, <2>2 DEF SkipInFlight, StartRun
<1> QED BY <1>2, <1>3, <1>4, <1>5, TickMoves, TypeFacts, SoundFrom

\* The executions after the command of one of them was linked.
Linked(id) == {IF e.id = id THEN [e EXCEPT !.queued = TRUE] ELSE e : e \in execs}

\* Linking keeps the schedule and the device of every execution and adds none.
LEMMA LinkedFacts ==
    ASSUME ScheduleInv, NEW id
    PROVE  /\ Linked(id) \subseteq Execution /\ IsFiniteSet(Linked(id))
<1> DEFINE f == [e \in execs |-> IF e.id = id THEN [e EXCEPT !.queued = TRUE] ELSE e]
<1>1. Linked(id) = {f[e] : e \in execs}
  BY DEF Linked
<1>2. Linked(id) \subseteq Execution
  BY TypeFacts DEF Linked, Execution
<1> HIDE DEF f
<1>3. IsFiniteSet(Linked(id))
  BY <1>1, TypeFacts, ImageFacts
<1> QED BY <1>2, <1>3

\* A command is enqueued, the next moment is written, a one-time schedule is disabled.
LEMMA EndSound ==
    ASSUME ScheduleInv, NEW k \in Ticks, Enqueue(k) \/ SetNext(k) \/ DisableOnce(k) \/ RunError(k)
    PROVE  ScheduleInv'
<1>1. PICK u \in Tick : u = tick[k] /\ TickSound(u)
  BY TypeFacts DEF ScheduleInv, TicksAreSound
<1>2. kind' = kind /\ latest' = latest /\ sweep' = sweep /\ overlaps' = overlaps
  BY DEF Enqueue, SetNext, DisableOnce, RunError, schedVars
<1>3. faults' \in Nat
  BY TypeFacts DEF Enqueue, SetNext, DisableOnce, RunError
<1>4. next' \in [Scheds -> Nat] /\ enabled' \in [Scheds -> BOOLEAN]
  <2>1. u.at[u.cur] + 1 \in Nat /\ u.cur \in Scheds
    BY <1>1 DEF Tick
  <2>2. CASE SetNext(k)
    <3>1. PICK x \in Nat : next' = [next EXCEPT ![u.cur] = x]
      BY <1>1, <2>1, <2>2 DEF SetNext
    <3> QED BY <2>2, <3>1, TypeFacts, ZenonT(60) DEF SetNext
  <2>3. CASE ~SetNext(k)
    BY <1>1, <2>1, <2>3, TypeFacts DEF Enqueue, DisableOnce, RunError, schedVars
  <2> QED BY <2>2, <2>3
<1>5. execs' \subseteq Execution /\ IsFiniteSet(execs')
  <2>1. execs' = execs \/ execs' = Linked(u.exec)
    BY <1>1 DEF Enqueue, SetNext, DisableOnce, RunError, Linked
  <2> QED BY <2>1, TypeFacts, LinkedFacts
<1>6. tick' \in [Ticks -> Tick] /\ TicksAreSound'
  <2>1. CASE Onward(k)
    BY <1>2, <2>1, OnwardMoves
  <2>2. CASE Enqueue(k)
    <3> DEFINE t == [u EXCEPT !.pc = "fire", !.todo = u.todo \ {u.dev}, !.given = u.given \cup {u.dev},
                         !.dev = AnyDevice, !.exec = 0]
    <3>1. Become(k, t) /\ u.pc = "enqueue"
      BY <1>1, <2>2 DEF Enqueue, Tick
    <3>2. AnyDevice \in Devices
      BY ScheduleAssumption DEF AnyDevice
    <3>3. /\ t \in Tick /\ t.pc = "fire" /\ t.cur = u.cur /\ t.list = u.list /\ t.svc = u.svc
          /\ t.at = u.at /\ t.snap = u.snap
      BY <1>1, <3>2 DEF Tick
    <3> HIDE DEF t
    <3>4. TickSound(t)'
      BY <1>1, <1>2, <3>1, <3>3 DEF TickSound, SlotAt, Service
    <3> QED BY <1>2, <3>1, <3>3, <3>4, TickMoves
  <2>3. CASE SetNext(k) /\ kind[u.cur] = "once"
    <3> DEFINE t == [u EXCEPT !.pc = "disable"]
    <3>1. Become(k, t) /\ u.pc = "fire"
      BY <1>1, <2>3 DEF SetNext
    <3>2. /\ t \in Tick /\ t.pc = "disable" /\ t.cur = u.cur /\ t.list = u.list /\ t.svc = u.svc
          /\ t.at = u.at /\ t.snap = u.snap
      BY <1>1 DEF Tick
    <3> HIDE DEF t
    <3>3. TickSound(t)'
      BY <1>1, <1>2, <2>3, <3>1, <3>2 DEF TickSound, SlotAt, Service
    <3> QED BY <1>2, <3>1, <3>2, <3>3, TickMoves
  <2>4. CASE SetNext(k) /\ kind[u.cur] # "once"
    BY <1>1, <2>1, <2>4 DEF SetNext
  <2>5. CASE DisableOnce(k) \/ RunError(k)
    BY <2>1, <2>5 DEF DisableOnce, RunError
  <2> QED BY <2>2, <2>3, <2>4, <2>5
<1> QED BY <1>2, <1>3, <1>4, <1>5, <1>6, TypeFacts, SoundFrom

\* Executions end, age and are swept.
LEMMA ExecSound ==
    ASSUME ScheduleInv,
           (\E e \in execs : Ack(e) \/ Ages(e)) \/ StartSweep \/ (\E i \in sweep : SweepOne(i))
    PROVE  ScheduleInv'
<1>1. /\ kind' = kind /\ latest' = latest /\ next' = next /\ enabled' = enabled /\ tick' = tick
      /\ overlaps' = overlaps /\ faults' = faults
  BY DEF Ack, Ages, StartSweep, SweepOne, schedVars
<1>2. execs' \subseteq Execution /\ IsFiniteSet(execs')
  <2>1. CASE execs' \in SUBSET execs
    BY <2>1, TypeFacts, FS_Subset
  <2>2. ASSUME NEW e \in execs, Ages(e) PROVE execs' \subseteq Execution /\ IsFiniteSet(execs')
    <3> DEFINE x == [e EXCEPT !.old = TRUE]
    <3>1. execs' = (execs \ {e}) \cup {x} /\ x \in Execution
      BY <2>2, TypeFacts DEF Ages, Execution
    <3> HIDE DEF x
    <3>2. IsFiniteSet(execs \ {e})
      BY TypeFacts, FS_RemoveElement
    <3>3. IsFiniteSet((execs \ {e}) \cup {x})
      BY <3>2, FS_AddElement
    <3> QED BY <3>1, <3>3, TypeFacts
  <2>3. CASE ~\E e \in execs : Ages(e)
    <3>1. execs' \in SUBSET execs
      BY <2>3 DEF Ack, StartSweep, SweepOne
    <3> QED BY <2>1, <3>1
  <2> QED BY <2>2, <2>3
<1>3. sweep' \subseteq Nat /\ IsFiniteSet(sweep')
  <2>1. CASE sweep' \in SUBSET sweep
    BY <2>1, TypeFacts, FS_Subset
  <2>2. CASE StartSweep
    <3> DEFINE f == [e \in Stale |-> e.id]
    <3>1. Stale \in SUBSET execs
      BY DEF Stale
    <3>2. IsFiniteSet(Stale)
      BY <3>1, TypeFacts, FS_Subset
    <3>3. sweep' = {f[e] : e \in Stale}
      BY <2>2 DEF StartSweep
    <3>4. sweep' \subseteq Nat
      BY <2>2, <3>1, TypeFacts DEF StartSweep, Execution
    <3> HIDE DEF f
    <3> QED BY <3>2, <3>3, <3>4, ImageFacts
  <2>3. CASE ~StartSweep
    <3>1. sweep' \in SUBSET sweep
      BY <2>3 DEF Ack, Ages, SweepOne
    <3> QED BY <2>1, <3>1
  <2> QED BY <2>2, <2>3
<1>4. TicksAreSound'
  <2> SUFFICES ASSUME NEW j \in Ticks PROVE TickSound(tick[j])'
    BY DEF TicksAreSound
  <2>1. TickSound(tick[j])
    BY DEF ScheduleInv, TicksAreSound
  <2> QED BY <1>1, <2>1 DEF TickSound, SlotAt, Service
<1>5. TypeOK'
  BY <1>1, <1>2, <1>3, TypeFacts DEF TypeOK
<1> QED BY <1>2, <1>3, <1>4, <1>5 DEF ScheduleInv

LEMMA CrashSound == ASSUME ScheduleInv, ServerCrash PROVE ScheduleInv'
<1>1. /\ kind' = kind /\ latest' = latest /\ next' = next /\ enabled' = enabled /\ tick' = [k \in Ticks |-> Idle]
      /\ execs' = execs /\ sweep' = {} /\ overlaps' = overlaps /\ faults' = faults + 1
  BY DEF ServerCrash, schedVars
<1>2. TypeOK'
  BY <1>1, IdleFacts, TypeFacts DEF TypeOK
<1>3. TicksAreSound'
  <2> SUFFICES ASSUME NEW j \in Ticks PROVE TickSound(tick[j])'
    BY DEF TicksAreSound
  <2>1. tick'[j] = Idle
    BY <1>1
  <2>2. Idle' = Idle
    BY DEF Idle, AnySched, AnyDevice
  <2> QED BY <2>1, <2>2, IdleSound
<1> QED BY <1>1, <1>2, <1>3, FS_EmptySet, TypeFacts DEF ScheduleInv

LEMMA SoundStep == ScheduleInv /\ [Next]_vars => ScheduleInv'
<1> SUFFICES ASSUME ScheduleInv, [Next]_vars PROVE ScheduleInv'
  OBVIOUS
<1>1. ASSUME NEW k \in Ticks, TickStep(k) PROVE ScheduleInv'
  <2>1. \E d : d \in Devices
    BY ScheduleAssumption
  <2> QED BY <1>1, <2>1, PickSound, FireSound, EndSound DEF TickStep
<1>2. CASE UNCHANGED vars
  <2>1. TypeOK'
    BY <1>2, TypeFacts DEF vars, TypeOK
  <2> QED BY <1>2, <2>1 DEF vars, ScheduleInv, TicksAreSound, TickSound, SlotAt, Service
<1> QED BY <1>1, <1>2, ClockSound, StartTickSound, EndSound, ExecSound, CrashSound DEF Next

\* Every row, tick and execution keeps its type, and a tick only handles schedules that
\* its own SELECT found due.
THEOREM ScheduleTypes == Spec => []TypeOK
<1>1. ScheduleInv => TypeOK
  BY DEF ScheduleInv
<1> QED BY <1>1, InitSound, SoundStep, PTL DEF Spec

-----------------------------------------------------------------------------
(* At most one execution in flight *)

LEMMA FlightFinite ==
    ASSUME ScheduleInv, NEW s, NEW d, NEW svc
    PROVE  /\ IsFiniteSet(InFlight(s, d)) /\ Cardinality(InFlight(s, d)) \in Nat
           /\ IsFiniteSet(Inserters(s, d)) /\ Cardinality(Inserters(s, d)) \in Nat
           /\ IsFiniteSet(Running(svc)) /\ Cardinality(Running(svc)) \in Nat
<1>1. InFlight(s, d) \in SUBSET execs /\ Inserters(s, d) \in SUBSET Ticks /\ Running(svc) \in SUBSET Ticks
  BY DEF InFlight, Inserters, Running
<1>2. IsFiniteSet(execs) /\ IsFiniteSet(Ticks)
  BY TypeFacts, ScheduleAssumption
<1>3. IsFiniteSet(InFlight(s, d)) /\ IsFiniteSet(Inserters(s, d)) /\ IsFiniteSet(Running(svc))
  BY <1>1, <1>2, FS_Subset
<1> QED BY <1>3, FS_CardinalityType

\* Nobody starts, nobody passes skip_if_in_flight, nothing is inserted.
LEMMA FlightQuiet ==
    ASSUME ScheduleInv, FlightInv, overlaps' = overlaps,
           \A k \in Ticks : tick'[k].pc # "idle" => tick[k].pc # "idle" /\ tick'[k].svc = tick[k].svc,
           \A k \in Ticks, s \in Scheds, d \in Devices :
               WillInsert(tick[k], s, d)' => WillInsert(tick[k], s, d),
           \A s \in Scheds, d \in Devices :
               Cardinality(InFlight(s, d)') \in Nat /\ Cardinality(InFlight(s, d)') <= Cardinality(InFlight(s, d))
    PROVE  FlightInv'
<1>1. ASSUME NEW svc \in Services PROVE Cardinality(Running(svc)') <= 1 + overlaps'
  <2>1. Running(svc)' \in SUBSET Running(svc)
    BY DEF Running
  <2>2. Cardinality(Running(svc)') <= Cardinality(Running(svc)) /\ Cardinality(Running(svc)') \in Nat
    BY <2>1, FlightFinite, FS_Subset, FS_CardinalityType
  <2> QED BY <2>2, FlightFinite, TypeFacts, SMTT(40) DEF FlightInv, RunningBounded
<1>2. ASSUME NEW s \in Scheds, NEW d \in Devices
      PROVE  Cardinality(InFlight(s, d)') + Cardinality(Inserters(s, d)') <= 1 + overlaps'
  <2>1. Inserters(s, d)' \in SUBSET Inserters(s, d)
    BY DEF Inserters
  <2>2. Cardinality(Inserters(s, d)') <= Cardinality(Inserters(s, d)) /\ Cardinality(Inserters(s, d)') \in Nat
    BY <2>1, FlightFinite, FS_Subset, FS_CardinalityType
  <2>3. Cardinality(InFlight(s, d)) + Cardinality(Inserters(s, d)) <= 1 + overlaps
    BY DEF FlightInv
  <2>4. Cardinality(InFlight(s, d)') \in Nat /\ Cardinality(InFlight(s, d)') <= Cardinality(InFlight(s, d))
    OBVIOUS
  <2>5. Cardinality(InFlight(s, d)) \in Nat /\ Cardinality(Inserters(s, d)) \in Nat /\ overlaps \in Nat
    BY FlightFinite, TypeFacts
  <2> QED BY <2>2, <2>3, <2>4, <2>5
<1> QED BY <1>1, <1>2 DEF FlightInv, RunningBounded

\* Executions may end or change, but keep their schedule and device.
LEMMA FlightImage ==
    ASSUME ScheduleInv, NEW f, execs' = {f[e] : e \in execs},
           \A e \in execs : f[e].sched = e.sched /\ f[e].dev = e.dev,
           NEW s, NEW d
    PROVE  Cardinality(InFlight(s, d)') \in Nat /\ Cardinality(InFlight(s, d)') <= Cardinality(InFlight(s, d))
<1>1. InFlight(s, d)' = {f[e] : e \in InFlight(s, d)}
  BY DEF InFlight
<1>2. IsFiniteSet(InFlight(s, d))
  BY FlightFinite
<1> DEFINE I == InFlight(s, d)
<1> HIDE DEF I
<1>3. Cardinality({f[e] : e \in I}) \in Nat /\ Cardinality({f[e] : e \in I}) <= Cardinality(I)
  BY <1>2, ImageFacts DEF I
<1> QED BY <1>1, <1>3 DEF I

LEMMA FlightSubset ==
    ASSUME ScheduleInv, execs' \subseteq execs, NEW s, NEW d
    PROVE  Cardinality(InFlight(s, d)') \in Nat /\ Cardinality(InFlight(s, d)') <= Cardinality(InFlight(s, d))
<1>1. InFlight(s, d)' \in SUBSET InFlight(s, d)
  BY DEF InFlight
<1> QED BY <1>1, FlightFinite, FS_Subset, FS_CardinalityType

\* One tick moves on, and inserts no more than it would have.
LEMMA FlightTick ==
    ASSUME ScheduleInv, FlightInv, overlaps' = overlaps, kind' = kind, NEW k \in Ticks, NEW t, Become(k, t),
           t.pc # "idle" => tick[k].pc # "idle" /\ t.svc = tick[k].svc,
           \A s \in Scheds, d \in Devices : WillInsert(t, s, d) => WillInsert(tick[k], s, d),
           \A s \in Scheds, d \in Devices :
               Cardinality(InFlight(s, d)') \in Nat /\ Cardinality(InFlight(s, d)') <= Cardinality(InFlight(s, d))
    PROVE  FlightInv'
<1>1. \A j \in Ticks : tick'[j] = IF j = k THEN t ELSE tick[j]
  BY TypeFacts DEF Become
<1>2. \A j \in Ticks : tick'[j].pc # "idle" => tick[j].pc # "idle" /\ tick'[j].svc = tick[j].svc
  BY <1>1
<1>3. ASSUME NEW j \in Ticks, NEW s \in Scheds, NEW d \in Devices, WillInsert(tick[j], s, d)'
      PROVE  WillInsert(tick[j], s, d)
  <2>1. CASE j = k
    <3>1. WillInsert(t, s, d)
      BY <1>1, <1>3, <2>1 DEF WillInsert
    <3> QED BY <2>1, <3>1
  <2>2. CASE j # k
    BY <1>1, <1>3, <2>2 DEF WillInsert
  <2> QED BY <2>1, <2>2
<1> QED BY <1>2, <1>3, FlightQuiet

\* A tick starts: it overlaps, or it is the only one of its service.
LEMMA FlightStart ==
    ASSUME ScheduleInv, FlightInv, NEW k \in Ticks, NEW svc \in Services, StartTick(k, svc)
    PROVE  FlightInv'
<1>1. /\ tick[k].pc = "idle" /\ execs' = execs /\ kind' = kind
      /\ \/ Running(svc) = {} /\ overlaps' = overlaps
         \/ Running(svc) # {} /\ overlaps' = overlaps + 1
  BY DEF StartTick, schedVars
<1>2. PICK t : Become(k, t) /\ t.pc = "pick" /\ t.svc = svc
  <2> DEFINE t == [Idle EXCEPT !.pc = "pick", !.svc = svc, !.at = latest, !.snap = next,
                               !.list = {s \in Scheds : Service(s) = svc /\ Due(s)}]
  <2>1. Become(k, t)
    BY DEF StartTick
  <2>2. t.pc = "pick" /\ t.svc = svc
    BY IdleFacts DEF Tick
  <2> HIDE DEF t
  <2> QED BY <2>1, <2>2
<1>3. \A j \in Ticks : tick'[j] = IF j = k THEN t ELSE tick[j]
  BY <1>2, TypeFacts DEF Become
<1>4. overlaps \in Nat /\ overlaps' \in Nat /\ overlaps' >= overlaps /\ 1 + overlaps' >= 1
  BY <1>1, TypeFacts
<1>5. ASSUME NEW v \in Services PROVE Cardinality(Running(v)') <= 1 + overlaps'
  <2>1. Cardinality(Running(v)) <= 1 + overlaps /\ Cardinality(Running(v)) \in Nat /\ IsFiniteSet(Running(v))
    BY FlightFinite DEF FlightInv, RunningBounded
  <2>2. CASE v # svc
    <3>1. Running(v)' = Running(v)
      BY <1>1, <1>2, <1>3, <2>2 DEF Running
    <3> QED BY <1>4, <2>1, <3>1
  <2>3. CASE v = svc
    <3>1. Running(v)' = Running(v) \cup {k} /\ k \notin Running(v)
      BY <1>1, <1>2, <1>3, <2>3 DEF Running
    <3>2. Cardinality(Running(v) \cup {k}) = Cardinality(Running(v)) + 1
      BY <2>1, <3>1, FS_AddElement
    <3>3. CASE Running(svc) = {}
      <4>1. Cardinality(Running(v)) = 0
        BY <2>3, <3>3, FS_EmptySet
      <4>2. Cardinality(Running(v)') = 1
        BY <3>1, <3>2, <4>1
      <4> QED BY <1>4, <4>2
    <3>4. CASE overlaps' = overlaps + 1
      BY <1>4, <2>1, <3>1, <3>2, <3>4
    <3> QED BY <1>1, <3>3, <3>4
  <2> QED BY <2>2, <2>3
<1>6. ASSUME NEW s \in Scheds, NEW d \in Devices
      PROVE  Cardinality(InFlight(s, d)') + Cardinality(Inserters(s, d)') <= 1 + overlaps'
  <2>1. InFlight(s, d)' = InFlight(s, d)
    BY <1>1 DEF InFlight
  <2>2. Inserters(s, d)' = Inserters(s, d)
    BY <1>1, <1>2, <1>3 DEF Inserters, WillInsert
  <2>3. Cardinality(InFlight(s, d)) + Cardinality(Inserters(s, d)) <= 1 + overlaps
    BY DEF FlightInv
  <2> QED BY <1>4, <2>1, <2>2, <2>3, FlightFinite
<1> QED BY <1>5, <1>6 DEF FlightInv, RunningBounded

\* skip_if_in_flight: who passes found nothing in flight.
LEMMA FlightSkip ==
    ASSUME ScheduleInv, FlightInv, ScheduleInv', NEW k \in Ticks, SkipInFlight(k)
    PROVE  FlightInv'
<1>1. PICK u \in Tick : u = tick[k] /\ TickSound(u)
  BY TypeFacts DEF ScheduleInv, TicksAreSound
<1> DEFINE t == [u EXCEPT !.pc = "fire", !.todo = {x \in u.todo : InFlight(u.cur, x) = {}}]
<1>2. u.pc = "flight" /\ execs' = execs /\ kind' = kind /\ overlaps' = overlaps /\ Become(k, t)
  BY <1>1 DEF SkipInFlight, schedVars, Tick
<1>3. t.pc = "fire" /\ t.cur = u.cur /\ t.svc = u.svc /\ \A x \in t.todo : InFlight(u.cur, x) = {}
  BY <1>1 DEF Tick
<1> HIDE DEF t
<1>4. \A j \in Ticks : tick'[j] = IF j = k THEN t ELSE tick[j]
  BY <1>2, TypeFacts DEF Become
<1>5. \A s \in Scheds, d \in Devices : InFlight(s, d)' = InFlight(s, d)
  BY <1>2 DEF InFlight
<1>6. ASSUME NEW svc \in Services PROVE Cardinality(Running(svc)') <= 1 + overlaps'
  <2>1. Running(svc)' = Running(svc)
    BY <1>1, <1>2, <1>3, <1>4 DEF Running
  <2> QED BY <1>2, <2>1 DEF FlightInv, RunningBounded
<1>7. ASSUME NEW s \in Scheds, NEW d \in Devices
      PROVE  Cardinality(InFlight(s, d)') + Cardinality(Inserters(s, d)') <= 1 + overlaps'
  <2>1. CASE InFlight(s, d) = {}
    <3>1. Cardinality(InFlight(s, d)') = 0
      BY <1>5, <2>1, FS_EmptySet
    <3>2. Inserters(s, d)' \in SUBSET (Running("schedule")') /\ IsFiniteSet(Running("schedule")')
      <4>1. Inserters(s, d)' \subseteq Running("schedule")'
        <5>1. ASSUME NEW j \in Inserters(s, d)' PROVE j \in Running("schedule")'
          <6>1. j \in Ticks /\ WillInsert(tick[j], s, d)' /\ TickSound(tick[j])'
            BY <5>1 DEF Inserters, ScheduleInv, TicksAreSound
          <6>2. tick'[j].pc \in {"fire", "enqueue"} /\ s = tick'[j].cur /\ s \in tick'[j].list /\ kind'[s] # "cron"
            BY <6>1 DEF WillInsert, TickSound
          <6>3. tick'[j].svc = "schedule"
            BY <6>1, <6>2 DEF TickSound, Service
          <6> QED BY <6>1, <6>2, <6>3 DEF Running
        <5> QED BY <5>1
      <4>2. Running("schedule")' \in SUBSET Ticks
        BY DEF Running
      <4> QED BY <4>1, <4>2, FS_Subset, ScheduleAssumption
    <3>3. Cardinality(Inserters(s, d)') <= Cardinality(Running("schedule")')
          /\ Cardinality(Inserters(s, d)') \in Nat /\ Cardinality(Running("schedule")') \in Nat
      BY <3>2, FS_Subset, FS_CardinalityType
    <3>4. Cardinality(Running("schedule")') <= 1 + overlaps'
      BY <1>6 DEF Services
    <3> QED BY <1>2, <3>1, <3>3, <3>4, TypeFacts
  <2>2. CASE InFlight(s, d) # {}
    <3>1. Inserters(s, d)' \in SUBSET Inserters(s, d)
      BY <1>2, <1>3, <1>4, <2>2 DEF Inserters, WillInsert
    <3>2. Cardinality(Inserters(s, d)') <= Cardinality(Inserters(s, d)) /\ Cardinality(Inserters(s, d)') \in Nat
      BY <3>1, FlightFinite, FS_Subset, FS_CardinalityType
    <3>3. Cardinality(InFlight(s, d)) + Cardinality(Inserters(s, d)) <= 1 + overlaps
      BY DEF FlightInv
    <3> QED BY <1>2, <1>5, <3>2, <3>3, FlightFinite, TypeFacts
  <2> QED BY <2>1, <2>2
<1> QED BY <1>6, <1>7 DEF FlightInv, RunningBounded

\* The insert: a tick that would becomes an execution that is.
LEMMA FlightInsert ==
    ASSUME ScheduleInv, FlightInv, NEW k \in Ticks, NEW d \in Devices, Insert(k, d)
    PROVE  FlightInv'
<1>1. PICK u \in Tick : u = tick[k] /\ TickSound(u)
  BY TypeFacts DEF ScheduleInv, TicksAreSound
<1>2. PICK id \in Nat : id = FreshId
  BY FreshIdFacts
<1> DEFINE e == [id |-> id, sched |-> u.cur, dev |-> d, queued |-> FALSE, old |-> FALSE]
           t == [u EXCEPT !.pc = "enqueue", !.dev = d, !.exec = id]
<1>3. /\ u.pc = "fire" /\ kind[u.cur] # "cron" /\ d \in u.todo /\ execs' = execs \cup {e}
      /\ kind' = kind /\ overlaps' = overlaps /\ Become(k, t)
  BY <1>1, <1>2 DEF Insert, schedVars
<1>4. /\ t.pc = "enqueue" /\ t.cur = u.cur /\ t.svc = u.svc /\ t.dev = d /\ t.todo = u.todo
      /\ e.sched = u.cur /\ e.dev = d /\ u.cur \in Scheds
  BY <1>1 DEF Tick
<1> HIDE DEF t, e
<1>5. \A j \in Ticks : tick'[j] = IF j = k THEN t ELSE tick[j]
  BY <1>3, TypeFacts DEF Become
<1>6. ASSUME NEW svc \in Services PROVE Cardinality(Running(svc)') <= 1 + overlaps'
  <2>1. Running(svc)' = Running(svc)
    BY <1>1, <1>3, <1>4, <1>5 DEF Running
  <2> QED BY <1>3, <2>1 DEF FlightInv, RunningBounded
<1>7. ASSUME NEW s \in Scheds, NEW x \in Devices
      PROVE  Cardinality(InFlight(s, x)') + Cardinality(Inserters(s, x)') <= 1 + overlaps'
  <2> DEFINE I == InFlight(s, x)
             J == Inserters(s, x)
  <2>1. Cardinality(I) + Cardinality(J) <= 1 + overlaps
    BY DEF FlightInv
  <2>2. IsFiniteSet(I) /\ Cardinality(I) \in Nat /\ IsFiniteSet(J) /\ Cardinality(J) \in Nat
    BY FlightFinite
  <2>3. CASE s = u.cur /\ x = d
    <3>1. InFlight(s, x)' = I \cup {e}
      BY <1>3, <1>4, <2>3 DEF InFlight
    <3>2. Inserters(s, x)' = J \ {k} /\ k \in J
      BY <1>1, <1>3, <1>4, <1>5, <2>3 DEF Inserters, WillInsert
    <3> HIDE DEF I, J
    <3>3. \/ Cardinality(I \cup {e}) = Cardinality(I)
          \/ Cardinality(I \cup {e}) = Cardinality(I) + 1
      BY <2>2, FS_AddElement, Zenon
    <3>4. Cardinality(J \ {k}) = Cardinality(J) - 1
      BY <2>2, <3>2, FS_RemoveElement
    <3>5. Cardinality(I \cup {e}) + Cardinality(J \ {k}) <= 1 + overlaps
      BY <2>1, <2>2, <3>3, <3>4, TypeFacts
    <3> QED BY <1>3, <3>1, <3>2, <3>5
  <2>4. CASE ~(s = u.cur /\ x = d)
    <3>1. InFlight(s, x)' = I
      BY <1>3, <1>4, <2>4 DEF InFlight
    <3>2. Inserters(s, x)' = J
      BY <1>1, <1>3, <1>4, <1>5, <2>4 DEF Inserters, WillInsert
    <3> QED BY <1>3, <2>1, <3>1, <3>2
  <2> QED BY <2>3, <2>4
<1> QED BY <1>6, <1>7 DEF FlightInv, RunningBounded

\* Every step preserves it.
LEMMA FlightStep == ScheduleInv /\ FlightInv /\ [Next]_vars => FlightInv'
<1> SUFFICES ASSUME ScheduleInv, FlightInv, [Next]_vars PROVE FlightInv'
  OBVIOUS
<1>a. ScheduleInv'
  BY SoundStep
<1>b. ASSUME execs' \subseteq execs
      PROVE  \A s \in Scheds, d \in Devices :
                Cardinality(InFlight(s, d)') \in Nat /\ Cardinality(InFlight(s, d)') <= Cardinality(InFlight(s, d))
  BY <1>b, FlightSubset
<1>c. ASSUME tick' = tick, kind' = kind, overlaps' = overlaps,
             \A s \in Scheds, d \in Devices :
                Cardinality(InFlight(s, d)') \in Nat /\ Cardinality(InFlight(s, d)') <= Cardinality(InFlight(s, d))
      PROVE  FlightInv'
  <2>1. \A k \in Ticks, s \in Scheds, d \in Devices : WillInsert(tick[k], s, d)' => WillInsert(tick[k], s, d)
    BY <1>c DEF WillInsert
  <2> QED BY <1>c, <2>1, FlightQuiet
<1>d. ASSUME NEW k \in Ticks, NEW t, Become(k, t), overlaps' = overlaps, kind' = kind, execs' = execs,
             t.pc = "idle" \/ (t.pc \notin {"fire", "enqueue"} /\ tick[k].pc # "idle" /\ t.svc = tick[k].svc)
      PROVE  FlightInv'
  BY <1>b, <1>d, FlightTick DEF WillInsert
<1>e. ASSUME NEW k \in Ticks, Onward(k), tick[k].pc # "idle", overlaps' = overlaps, kind' = kind, execs' = execs
      PROVE  FlightInv'
  <2>1. PICK u \in Tick : u = tick[k]
    BY TypeFacts
  <2> DEFINE t == [u EXCEPT !.pc = "pick", !.list = u.list \ {u.cur}, !.todo = {}, !.given = {},
                         !.exec = 0]
  <2>2. Become(k, Idle) \/ Become(k, t)
    BY <1>e, <2>1 DEF Onward
  <2>3. t.pc = "pick" /\ t.svc = u.svc
    BY <2>1 DEF Tick
  <2> HIDE DEF t
  <2> QED BY <1>d, <1>e, <2>1, <2>2, <2>3, IdleFacts
<1>1. ASSUME NEW s \in Scheds, SlotComes(s) \/ Toggle(s) PROVE FlightInv'
  BY <1>1, <1>b, <1>c DEF SlotComes, Toggle
<1>2. ASSUME NEW k \in Ticks, NEW s \in Scheds, Targets(k, s) PROVE FlightInv'
  <2>1. PICK u \in Tick : u = tick[k]
    BY TypeFacts
  <2>2. PICK D \in SUBSET Devices, pc \in {"fire", "flight"} :
           /\ Become(k, [u EXCEPT !.cur = s, !.todo = D, !.pc = pc])
           /\ pc = "fire" => kind[s] = "cron"
    BY <1>2, <2>1 DEF Targets
  <2> DEFINE t == [u EXCEPT !.cur = s, !.todo = D, !.pc = pc]
  <2>3. t.pc = pc /\ t.cur = s /\ t.svc = u.svc
    BY <2>1, <2>2 DEF Tick
  <2>4. tick[k].pc # "idle" /\ kind' = kind /\ overlaps' = overlaps /\ execs' = execs
    BY <1>2 DEF Targets, schedVars
  <2>5. Become(k, t)
    BY <2>2
  <2> HIDE DEF t
  <2>6. \A r \in Scheds, d \in Devices : ~WillInsert(t, r, d)
    BY <2>2, <2>3 DEF WillInsert
  <2> QED BY <1>b, <2>1, <2>3, <2>4, <2>5, <2>6, FlightTick
<1>3. ASSUME NEW k \in Ticks, NEW s \in Scheds, Prime(k, s) PROVE FlightInv'
  <2>1. PICK u \in Tick : u = tick[k]
    BY TypeFacts
  <2> DEFINE t == [u EXCEPT !.list = u.list \ {s}]
  <2>2. Become(k, Idle) \/ Become(k, t)
    BY <1>3, <2>1 DEF Prime
  <2>3. tick[k].pc = "pick" /\ kind' = kind /\ overlaps' = overlaps /\ execs' = execs
    BY <1>3 DEF Prime
  <2>4. t.pc = "pick" /\ t.svc = u.svc
    BY <2>1, <2>3 DEF Tick
  <2> HIDE DEF t
  <2> QED BY <1>d, <2>1, <2>2, <2>3, <2>4, IdleFacts
<1>4. ASSUME NEW k \in Ticks, Enqueue(k) PROVE FlightInv'
  <2>1. PICK u \in Tick : u = tick[k]
    BY TypeFacts
  <2> DEFINE t == [u EXCEPT !.pc = "fire", !.todo = u.todo \ {u.dev}, !.given = u.given \cup {u.dev},
                         !.dev = AnyDevice, !.exec = 0]
             f == [e \in execs |-> IF e.id = u.exec THEN [e EXCEPT !.queued = TRUE] ELSE e]
  <2>2. u.pc = "enqueue" /\ kind' = kind /\ overlaps' = overlaps /\ Become(k, t)
    BY <1>4, <2>1 DEF Enqueue, schedVars
  <2>3. t.pc = "fire" /\ t.svc = u.svc /\ t.cur = u.cur /\ t.todo = u.todo \ {u.dev}
    BY <2>1 DEF Tick
  <2>4. execs' = {f[e] : e \in execs}
    BY <1>4, <2>1 DEF Enqueue
  <2>5. \A e \in execs : f[e].sched = e.sched /\ f[e].dev = e.dev
    BY TypeFacts DEF Execution
  <2> HIDE DEF t, f
  <2>6. \A s \in Scheds, d \in Devices : WillInsert(t, s, d) => WillInsert(u, s, d)
    BY <2>2, <2>3 DEF WillInsert
  <2>7. \A s \in Scheds, d \in Devices :
           Cardinality(InFlight(s, d)') \in Nat /\ Cardinality(InFlight(s, d)') <= Cardinality(InFlight(s, d))
    BY <2>4, <2>5, FlightImage
  <2> QED BY <2>1, <2>2, <2>3, <2>6, <2>7, FlightTick
<1>5. ASSUME NEW k \in Ticks, NEW d \in Devices, StartRun(k, d) PROVE FlightInv'
  <2>1. PICK u \in Tick : u = tick[k]
    BY TypeFacts
  <2>2. u.pc = "fire" /\ kind[u.cur] = "cron" /\ kind' = kind /\ overlaps' = overlaps /\ execs' = execs
    BY <1>5, <2>1 DEF StartRun, schedVars
  <2>3. PICK t \in Tick : Become(k, t) /\ t.svc = u.svc /\ t.cur = u.cur
    BY <1>5, <2>1, StartRunTick
  <2>4. \A s \in Scheds, x \in Devices : ~WillInsert(t, s, x)
    BY <2>2, <2>3 DEF WillInsert
  <2> QED BY <1>b, <2>1, <2>2, <2>3, <2>4, FlightTick
<1>6. ASSUME NEW k \in Ticks, SetNext(k) PROVE FlightInv'
  <2>1. PICK u \in Tick : u = tick[k]
    BY TypeFacts
  <2> DEFINE t == [u EXCEPT !.pc = "disable"]
  <2>2. tick[k].pc = "fire" /\ kind' = kind /\ overlaps' = overlaps /\ execs' = execs
    BY <1>6 DEF SetNext
  <2>3. Onward(k) \/ Become(k, t)
    BY <1>6, <2>1 DEF SetNext
  <2>4. t.pc = "disable" /\ t.svc = u.svc
    BY <2>1 DEF Tick
  <2> HIDE DEF t
  <2> QED BY <1>d, <1>e, <2>1, <2>2, <2>3, <2>4
<1>7. ASSUME NEW k \in Ticks, DisableOnce(k) \/ RunError(k) PROVE FlightInv'
  <2>1. Onward(k) /\ tick[k].pc # "idle" /\ kind' = kind /\ overlaps' = overlaps /\ execs' = execs
    BY <1>7 DEF DisableOnce, RunError, schedVars
  <2> QED BY <1>e, <2>1
<1>8. ASSUME NEW e \in execs, Ack(e) PROVE FlightInv'
  <2>1. execs' \subseteq execs /\ tick' = tick /\ kind' = kind /\ overlaps' = overlaps
    BY <1>8 DEF Ack, schedVars
  <2> QED BY <1>b, <1>c, <2>1
<1>9. ASSUME NEW e \in execs, Ages(e) PROVE FlightInv'
  <2> DEFINE f == [x \in execs |-> IF x = e THEN [e EXCEPT !.old = TRUE] ELSE x]
  <2>1. execs' = {f[x] : x \in execs}
    BY <1>9 DEF Ages
  <2>2. \A x \in execs : f[x].sched = x.sched /\ f[x].dev = x.dev
    BY TypeFacts DEF Execution
  <2> HIDE DEF f
  <2>3. \A s \in Scheds, d \in Devices :
           Cardinality(InFlight(s, d)') \in Nat /\ Cardinality(InFlight(s, d)') <= Cardinality(InFlight(s, d))
    BY <2>1, <2>2, FlightImage
  <2>4. tick' = tick /\ kind' = kind /\ overlaps' = overlaps
    BY <1>9 DEF Ages, schedVars
  <2> QED BY <1>c, <2>3, <2>4
<1>10. ASSUME StartSweep \/ (\E i \in sweep : SweepOne(i)) \/ UNCHANGED vars PROVE FlightInv'
  <2>1. execs' \subseteq execs /\ tick' = tick /\ kind' = kind /\ overlaps' = overlaps
    BY <1>10 DEF StartSweep, SweepOne, schedVars, vars
  <2> QED BY <1>b, <1>c, <2>1
<1>11. ASSUME ServerCrash PROVE FlightInv'
  <2>1. execs' = execs /\ kind' = kind /\ overlaps' = overlaps /\ \A k \in Ticks : tick'[k] = Idle
    BY <1>11 DEF ServerCrash, schedVars
  <2>2. \A k \in Ticks : tick'[k].pc = "idle"
    BY <2>1, IdleFacts
  <2>3. \A k \in Ticks, s \in Scheds, d \in Devices : ~WillInsert(tick[k], s, d)'
    BY <2>2 DEF WillInsert
  <2> QED BY <1>b, <2>1, <2>2, <2>3, FlightQuiet
<1>12. ASSUME NEW k \in Ticks, TickStep(k) PROVE FlightInv'
  BY <1>a, <1>2, <1>3, <1>4, <1>5, <1>6, <1>7, <1>12, FlightSkip, FlightInsert DEF TickStep
<1> QED BY <1>1, <1>7, <1>8, <1>9, <1>10, <1>11, <1>12, FlightStart DEF Next

\* skip_if_in_flight works: a device has two executions of a schedule in flight only if
\* ticks overlapped, and then no more than ticks did.
THEOREM AtMostOneInFlight == Spec => []OneInFlight
<1>1. Init => FlightInv
  <2> SUFFICES ASSUME Init PROVE FlightInv
    OBVIOUS
  <2>1. \A k \in Ticks : tick[k].pc = "idle"
    BY IdleFacts DEF Init
  <2>2. /\ \A svc \in Services : Running(svc) = {}
        /\ \A s \in Scheds, d \in Devices : InFlight(s, d) = {} /\ Inserters(s, d) = {}
    BY <2>1 DEF Init, Running, InFlight, Inserters, WillInsert
  <2>3. overlaps = 0 /\ Cardinality({}) = 0
    BY FS_EmptySet DEF Init
  <2>4. RunningBounded
    BY <2>2, <2>3 DEF RunningBounded
  <2> QED BY <2>2, <2>3, <2>4 DEF FlightInv
<1>2. ScheduleInv /\ FlightInv => OneInFlight
  <2> SUFFICES ASSUME ScheduleInv, FlightInv, NEW s \in Scheds, NEW d \in Devices
               PROVE  Cardinality(InFlight(s, d)) <= 1 + overlaps
    BY DEF OneInFlight
  <2>1. Cardinality(InFlight(s, d)) + Cardinality(Inserters(s, d)) <= 1 + overlaps
    BY DEF FlightInv
  <2> QED BY <2>1, FlightFinite, TypeFacts
<1> QED BY <1>1, <1>2, InitSound, SoundStep, FlightStep, PTL DEF Spec

-----------------------------------------------------------------------------
(* A slot is dispatched once *)

\* The bound on one slot of one device.
SlotBounded(s, n, d) ==
    /\ n > latest[s] => fired[<<s, n, d>>] = 0
    /\ fired[<<s, n, d>>] + Cardinality(Holders(s, n, d)) + (IF Asks(s, n) THEN 1 ELSE 0)
          <= 1 + overlaps + cut[<<s, n, d>>]

LEMMA FiredFacts ==
    ASSUME ScheduleInv, FiredInv, NEW s \in Scheds, NEW n \in 1..MaxSlots, NEW d \in Devices
    PROVE  /\ SlotBounded(s, n, d) /\ fired[<<s, n, d>>] \in Nat /\ n \in Nat /\ n # 0
           /\ cut[<<s, n, d>>] \in Nat
           /\ IsFiniteSet(Holders(s, n, d)) /\ Cardinality(Holders(s, n, d)) \in Nat
<1>1. Holders(s, n, d) \in SUBSET Ticks /\ IsFiniteSet(Ticks)
  BY ScheduleAssumption DEF Holders
<1>2. IsFiniteSet(Holders(s, n, d)) /\ Cardinality(Holders(s, n, d)) \in Nat
  BY <1>1, FS_Subset, FS_CardinalityType
<1>3. SlotBounded(s, n, d)
  BY DEF FiredInv, SlotBounded
<1>4. fired[<<s, n, d>>] \in Nat /\ cut[<<s, n, d>>] \in Nat
  BY DEF FiredInv
<1> QED BY <1>2, <1>3, <1>4

\* Nobody is added to the holders of the slot.
LEMMA SlotQuiet ==
    ASSUME ScheduleInv, FiredInv, NEW s \in Scheds, NEW n \in 1..MaxSlots, NEW d \in Devices,
           overlaps' \in Nat, overlaps' >= overlaps, cut'[<<s, n, d>>] \in {cut[<<s, n, d>>], cut[<<s, n, d>>] + 1},
           latest'[s] \in Nat, latest'[s] >= latest[s], fired'[<<s, n, d>>] = fired[<<s, n, d>>],
           Holders(s, n, d)' \in SUBSET Holders(s, n, d), Asks(s, n)' => Asks(s, n)
    PROVE  SlotBounded(s, n, d)'
<1>1. Cardinality(Holders(s, n, d)') <= Cardinality(Holders(s, n, d)) /\ Cardinality(Holders(s, n, d)') \in Nat
  BY FiredFacts, FS_Subset, FS_CardinalityType
<1>2. latest[s] \in Nat /\ overlaps \in Nat /\ cut[<<s, n, d>>] \in Nat
  BY TypeFacts, FiredFacts
<1>3. n > latest'[s] => fired'[<<s, n, d>>] = 0
  BY <1>2, FiredFacts DEF SlotBounded
<1>4. fired'[<<s, n, d>>] + Cardinality(Holders(s, n, d)') + (IF Asks(s, n)' THEN 1 ELSE 0)
         <= 1 + overlaps' + cut'[<<s, n, d>>]
  <2> DEFINE c == Cardinality(Holders(s, n, d))
             e == Cardinality(Holders(s, n, d)')
             f == fired[<<s, n, d>>]
             x == cut[<<s, n, d>>]
             y == cut'[<<s, n, d>>]
             a == IF Asks(s, n) THEN 1 ELSE 0
             b == IF Asks(s, n)' THEN 1 ELSE 0
  <2>1. c \in Nat /\ e \in Nat /\ f \in Nat /\ a \in Nat /\ b \in Nat /\ e <= c /\ b <= a
        /\ x \in Nat /\ y \in {x, x + 1}
    BY <1>1, <1>2, FiredFacts
  <2>2. f + c + a <= 1 + overlaps + x
    BY FiredFacts DEF SlotBounded
  <2> HIDE DEF c, e, f, a, b, x, y
  <2>3. f + e + b <= 1 + overlaps' + y
    BY <1>2, <2>1, <2>2
  <2> QED BY <2>3 DEF c, e, f, a, b, x, y
<1> QED BY <1>3, <1>4 DEF SlotBounded

LEMMA FiredFrom ==
    ASSUME fired' \in [Scheds \X (1..MaxSlots) \X Devices -> Nat],
           cut' \in [Scheds \X (1..MaxSlots) \X Devices -> Nat],
           \A s \in Scheds, n \in 1..MaxSlots, d \in Devices : SlotBounded(s, n, d)'
    PROVE  FiredInv'
BY DEF FiredInv, SlotBounded

\* The step of one tick, as far as one schedule is concerned.
LEMMA HoldersMove ==
    ASSUME ScheduleInv, NEW k \in Ticks, NEW t, Become(k, t), kind' = kind,
           NEW s, NEW n, NEW d, WillFire(t, s, n, d) => WillFire(tick[k], s, n, d) \/ WillSet(tick[k], s, n),
           WillSet(t, s, n) => WillFire(tick[k], s, n, d) \/ WillSet(tick[k], s, n)
    PROVE  /\ Holders(s, n, d)' \in SUBSET Holders(s, n, d)
           /\ ~WillFire(t, s, n, d) /\ ~WillSet(t, s, n) => k \notin Holders(s, n, d)'
<1>1. \A j \in Ticks : tick'[j] = IF j = k THEN t ELSE tick[j]
  BY TypeFacts DEF Become
<1>2. ASSUME NEW j \in Ticks
      PROVE  /\ WillFire(tick[j], s, n, d)' <=> WillFire(IF j = k THEN t ELSE tick[j], s, n, d)
             /\ WillSet(tick[j], s, n)' <=> WillSet(IF j = k THEN t ELSE tick[j], s, n)
  BY <1>1 DEF WillFire, WillSet, SlotAt
<1>3. ASSUME NEW j \in Holders(s, n, d)' PROVE j \in Holders(s, n, d)
  <2>1. j \in Ticks /\ (WillFire(tick[j], s, n, d)' \/ WillSet(tick[j], s, n)')
    BY DEF Holders
  <2>2. WillFire(tick[j], s, n, d) \/ WillSet(tick[j], s, n)
    BY <1>2, <2>1
  <2> QED BY <2>1, <2>2 DEF Holders
<1>4. ASSUME ~WillFire(t, s, n, d), ~WillSet(t, s, n) PROVE k \notin Holders(s, n, d)'
  BY <1>2, <1>4 DEF Holders
<1> QED BY <1>3, <1>4

\* Tick k drops nothing of s from its list.
LEMMA AsksMove ==
    ASSUME ScheduleInv, NEW k \in Ticks, NEW t, Become(k, t), kind' = kind,
           NEW s, NEW n, s \in tick[k].list => s \in t.list /\ t.snap[s] = tick[k].snap[s],
           IF kind[s] = "once" THEN enabled'[s] = enabled[s] ELSE next'[s] = next[s],
           Asks(s, n)'
    PROVE  Asks(s, n)
<1>1. \A j \in Ticks : tick'[j] = IF j = k THEN t ELSE tick[j]
  BY TypeFacts DEF Become
<1>2. ASSUME NEW j \in Ticks, s \in tick[j].list PROVE SlotAt(tick[j], s) # n
  BY <1>1, <1>2 DEF Asks, SlotAt
<1>3. IF kind[s] = "once" THEN n = 1 /\ enabled[s] ELSE next[s] = n
  BY DEF Asks
<1> QED BY <1>2, <1>3 DEF Asks

\* A tick goes on with the list it has, and fires nothing.
LEMMA FiredTick ==
    ASSUME ScheduleInv, FiredInv, NEW k \in Ticks, NEW t, Become(k, t), kind' = kind, latest' = latest,
           fired' = fired, overlaps' = overlaps, cut' = cut, enabled' = enabled,
           \A s \in Scheds : kind[s] # "once" => next'[s] = next[s],
           t.list = tick[k].list, t.snap = tick[k].snap, t.at = tick[k].at,
           \A s \in Scheds, d \in Devices :
              (t.pc # "pick" /\ t.cur = s => d \notin t.given) => (tick[k].pc # "pick" /\ tick[k].cur = s => d \notin tick[k].given)
    PROVE  FiredInv'
<1>1. ASSUME NEW s \in Scheds, NEW n \in 1..MaxSlots, NEW d \in Devices PROVE SlotBounded(s, n, d)'
  <2>1. WillFire(t, s, n, d) => WillFire(tick[k], s, n, d)
    BY DEF WillFire, SlotAt
  <2>2. WillSet(t, s, n) => WillSet(tick[k], s, n)
    BY DEF WillSet
  <2>3. Holders(s, n, d)' \in SUBSET Holders(s, n, d)
    BY <2>1, <2>2, HoldersMove
  <2>4. Asks(s, n)' => Asks(s, n)
    BY AsksMove
  <2>5. latest[s] \in Nat /\ overlaps \in Nat
    BY TypeFacts
  <2> QED BY <2>3, <2>4, <2>5, SlotQuiet
<1> QED BY <1>1, FiredFrom DEF FiredInv

\* A tick dispatches its slot to a device and crosses the device off.
LEMMA FiredFire ==
    ASSUME ScheduleInv, FiredInv, NEW k \in Ticks, NEW t, NEW u \in Tick, u = tick[k], NEW d \in u.todo,
           Become(k, t), kind' = kind, latest' = latest, overlaps' = overlaps, cut' = cut,
           enabled' = enabled, next' = next, Fired(k, d), u.pc \in {"fire", "enqueue"}, GivenOk(u),
           t.list = u.list, t.snap = u.snap, t.at = u.at, t.cur = u.cur, t.pc = "fire",
           t.given = u.given \cup {d}
    PROVE  FiredInv'
<1>1. TickSound(u) /\ u.cur \in u.list /\ u.cur \in Scheds
  BY DEF ScheduleInv, TicksAreSound, TickSound, Tick
<1>2. PICK m : m = SlotAt(u, u.cur)
  OBVIOUS
<1>3. fired' = [fired EXCEPT ![<<u.cur, m, d>>] = @ + 1]
  BY <1>2 DEF Fired, SlotOf, SlotAt
<1>4. fired' \in [Scheds \X (1..MaxSlots) \X Devices -> Nat]
  <2>1. PICK D, i : D = Scheds \X (1..MaxSlots) \X Devices /\ i = <<u.cur, m, d>>
    OBVIOUS
  <2>2. fired \in [D -> Nat] /\ fired' = [fired EXCEPT ![i] = @ + 1]
    BY <1>3, <2>1 DEF FiredInv
  <2>3. CASE i \in D
    BY <2>1, <2>2, <2>3
  <2>4. CASE i \notin D
    <3>1. fired' = fired
      BY <2>2, <2>4
    <3> QED BY <2>1, <2>2, <3>1
  <2> QED BY <2>3, <2>4
<1>5. ASSUME NEW s \in Scheds, NEW n \in 1..MaxSlots, NEW x \in Devices PROVE SlotBounded(s, n, x)'
  <2>1. WillFire(t, s, n, x) => WillFire(u, s, n, x)
    BY DEF WillFire, SlotAt
  <2>2. WillSet(t, s, n) => WillSet(u, s, n)
    BY DEF WillSet
  <2>3. Holders(s, n, x)' \in SUBSET Holders(s, n, x)
        /\ (~WillFire(t, s, n, x) /\ ~WillSet(t, s, n) => k \notin Holders(s, n, x)')
    BY <2>1, <2>2, HoldersMove
  <2>4. Asks(s, n)' => Asks(s, n)
    BY AsksMove
  <2>5. latest[s] \in Nat /\ overlaps \in Nat /\ cut[<<s, n, x>>] \in Nat
    BY TypeFacts, FiredFacts
  <2>6. CASE <<s, n, x>> # <<u.cur, m, d>>
    <3>1. fired'[<<s, n, x>>] = fired[<<s, n, x>>]
      BY <1>3, <2>6 DEF FiredInv
    <3> QED BY <2>3, <2>4, <2>5, <3>1, SlotQuiet
  <2>7. CASE s = u.cur /\ n = m /\ x = d
    <3>1. fired'[<<s, n, x>>] = fired[<<s, n, x>>] + 1
      BY <1>3, <2>7 DEF FiredInv
    <3>2. n <= u.at[s] /\ u.at[s] <= latest[s] /\ u.at[s] \in Nat /\ n \in Nat
      BY <1>1, <1>2, <2>7 DEF TickSound, Tick
    <3>3. ~WillSet(t, s, n) /\ ~WillFire(t, s, n, x) /\ WillFire(u, s, n, x)
      BY <1>1, <1>2, <2>7, <3>2 DEF WillSet, WillFire, GivenOk
    <3> DEFINE H == Holders(s, n, x)
    <3>4. k \in H /\ Holders(s, n, x)' \in SUBSET (H \ {k})
      BY <2>3, <3>3 DEF Holders
    <3>5. IsFiniteSet(H) /\ Cardinality(H) \in Nat /\ fired[<<s, n, x>>] \in Nat
      BY FiredFacts
    <3>6. fired[<<s, n, x>>] + Cardinality(H) + (IF Asks(s, n) THEN 1 ELSE 0) <= 1 + overlaps + cut[<<s, n, x>>]
      BY FiredFacts DEF SlotBounded
    <3> HIDE DEF H
    <3>7. IsFiniteSet(H \ {k}) /\ Cardinality(H \ {k}) = Cardinality(H) - 1
      BY <3>4, <3>5, FS_RemoveElement
    <3>8. Cardinality(Holders(s, n, x)') <= Cardinality(H) - 1 /\ Cardinality(Holders(s, n, x)') \in Nat
      BY <3>4, <3>7, FS_Subset, FS_CardinalityType
    <3>9. fired'[<<s, n, x>>] + Cardinality(Holders(s, n, x)') + (IF Asks(s, n)' THEN 1 ELSE 0)
             <= 1 + overlaps + cut[<<s, n, x>>]
      BY <2>4, <2>5, <3>1, <3>5, <3>6, <3>8
    <3>10. ~(n > latest'[s])
      BY <2>5, <3>2
    <3> QED BY <3>9, <3>10 DEF SlotBounded
  <2> QED BY <2>6, <2>7
<1> QED BY <1>4, <1>5, FiredFrom DEF FiredInv

\* A tick is done with schedule s: the row has moved on.
LEMMA FiredLeave ==
    ASSUME ScheduleInv, FiredInv, NEW k \in Ticks, NEW t, NEW u \in Tick, u = tick[k], NEW s \in u.list,
           Become(k, t), kind' = kind, latest' = latest, overlaps' = overlaps, fired' = fired,
           t.list = u.list \ {s}, \A r \in t.list : t.snap[r] = u.snap[r] /\ t.at[r] = u.at[r],
           \A r \in t.list : r # u.cur \/ u.pc = "pick",
           \A r \in Scheds \ {s} : next'[r] = next[r] /\ enabled'[r] = enabled[r],
           cut' = cut,
           IF kind[s] = "once" THEN ~enabled'[s] ELSE next'[s] = u.at[s] + 1
    PROVE  FiredInv'
<1>1. s \in Scheds /\ overlaps \in Nat
  BY TypeFacts DEF Tick
<1>2. ASSUME NEW r \in Scheds, NEW n \in 1..MaxSlots, NEW d \in Devices PROVE SlotBounded(r, n, d)'
  <2>1. WillFire(t, r, n, d) => WillFire(u, r, n, d)
    BY DEF WillFire, SlotAt
  <2>2. WillSet(t, r, n) => WillSet(u, r, n)
    BY DEF WillSet
  <2>3. Holders(r, n, d)' \in SUBSET Holders(r, n, d)
        /\ (~WillFire(t, r, n, d) /\ ~WillSet(t, r, n) => k \notin Holders(r, n, d)')
    BY <2>1, <2>2, HoldersMove
  <2>4. latest[r] \in Nat /\ cut[<<r, n, d>>] \in Nat
    BY TypeFacts, FiredFacts
  <2>5. CASE r # s
    <3>1. Asks(r, n)' => Asks(r, n)
      BY <2>5, AsksMove
    <3> QED BY <1>1, <2>3, <2>4, <3>1, SlotQuiet
  <2>6. CASE r = s /\ ~Asks(r, n)'
    BY <1>1, <2>3, <2>4, <2>6, SlotQuiet
  <2>7. CASE r = s /\ Asks(r, n)'
    <3>1. kind[s] # "once" /\ next'[s] = n
      BY <2>7, <1>1 DEF Asks
    <3>2. next'[s] = u.at[s] + 1 /\ WillSet(u, s, n)
      BY <1>1, <2>7, <3>1 DEF WillSet
    <3>3. ~WillFire(t, s, n, d) /\ ~WillSet(t, s, n)
      BY DEF WillFire, WillSet
    <3> DEFINE H == Holders(r, n, d)
               f == fired[<<r, n, d>>]
    <3>4. k \in H /\ Holders(r, n, d)' \in SUBSET (H \ {k})
      BY <2>3, <2>7, <3>2, <3>3 DEF Holders
    <3>5. IsFiniteSet(H) /\ Cardinality(H) \in Nat /\ f \in Nat /\ f + Cardinality(H) <= 1 + overlaps + cut[<<r, n, d>>]
          /\ (n > latest[r] => f = 0)
      <4>1. f \in Nat /\ Cardinality(H) \in Nat /\ (n > latest[r] => f = 0) /\ IsFiniteSet(H)
            /\ f + Cardinality(H) + (IF Asks(r, n) THEN 1 ELSE 0) <= 1 + overlaps + cut[<<r, n, d>>]
        BY FiredFacts DEF SlotBounded
      <4> QED BY <1>1, <2>4, <4>1
    <3> HIDE DEF H, f
    <3>6. IsFiniteSet(H \ {k}) /\ Cardinality(H \ {k}) = Cardinality(H) - 1
      BY <3>4, <3>5, FS_RemoveElement
    <3>7. Cardinality(Holders(r, n, d)') <= Cardinality(H) - 1 /\ Cardinality(Holders(r, n, d)') \in Nat
      BY <3>4, <3>6, FS_Subset, FS_CardinalityType
    <3>8. f + Cardinality(Holders(r, n, d)') + 1 <= 1 + overlaps + cut[<<r, n, d>>]
      BY <1>1, <2>4, <3>5, <3>7
    <3> QED BY <2>7, <3>5, <3>8 DEF SlotBounded, f
  <2> QED BY <2>5, <2>6, <2>7
<1> QED BY <1>2, FiredFrom DEF FiredInv

\* What the count of the ticks that were cut short becomes.
LEMMA CutFacts ==
    ASSUME FiredInv, NEW K, CutShort(K)
    PROVE  /\ cut' \in [Scheds \X (1..MaxSlots) \X Devices -> Nat]
           /\ \A s \in Scheds, n \in 1..MaxSlots, d \in Devices :
                 /\ cut'[<<s, n, d>>] \in {cut[<<s, n, d>>], cut[<<s, n, d>>] + 1}
                 /\ (\E k \in K : Gave(k, <<s, n, d>>)) => cut'[<<s, n, d>>] = cut[<<s, n, d>>] + 1
<1>1. PICK D : D = Scheds \X (1..MaxSlots) \X Devices
  OBVIOUS
<1>2. cut \in [D -> Nat]
  BY <1>1 DEF FiredInv
<1>3. cut' = [i \in D |-> cut[i] + IF \E k \in K : Gave(k, i) THEN 1 ELSE 0]
  BY <1>2 DEF CutShort
<1>4. \A i \in D : cut[i] \in Nat /\ (IF \E k \in K : Gave(k, i) THEN 1 ELSE 0) \in Nat
  BY <1>2
<1>5. cut' \in [D -> Nat]
  BY <1>3, <1>4
<1>6. \A i \in D : /\ cut'[i] \in {cut[i], cut[i] + 1}
                   /\ (\E k \in K : Gave(k, i)) => cut'[i] = cut[i] + 1
  BY <1>3, <1>4
<1> QED BY <1>1, <1>5, <1>6

\* Tick k is cut short at schedule s: the row asks for the slot again, which costs
\* nothing where the tick had not given it away.
LEMMA FiredCut ==
    ASSUME ScheduleInv, FiredInv, NEW k \in Ticks, NEW t, NEW u \in Tick, u = tick[k], NEW s \in u.list,
           u.cur = s, u.pc # "pick", Become(k, t), kind' = kind, latest' = latest, overlaps' = overlaps,
           fired' = fired, next' = next, enabled' = enabled, CutShort({k}),
           t.list = u.list \ {s}, \A r \in t.list : t.snap[r] = u.snap[r] /\ t.at[r] = u.at[r]
    PROVE  FiredInv'
<1>1. s \in Scheds /\ overlaps \in Nat
  BY TypeFacts DEF Tick
<1>2. \A j \in Ticks : tick'[j] = IF j = k THEN t ELSE tick[j]
  BY TypeFacts DEF Become
<1>3. ASSUME NEW r \in Scheds, NEW n \in 1..MaxSlots, NEW d \in Devices PROVE SlotBounded(r, n, d)'
  <2>1. WillFire(t, r, n, d) => WillFire(u, r, n, d)
    BY DEF WillFire, SlotAt
  <2>2. WillSet(t, r, n) => WillSet(u, r, n)
    BY DEF WillSet
  <2>3. Holders(r, n, d)' \in SUBSET Holders(r, n, d)
        /\ (~WillFire(t, r, n, d) /\ ~WillSet(t, r, n) => k \notin Holders(r, n, d)')
    BY <2>1, <2>2, HoldersMove
  <2>4. latest[r] \in Nat /\ cut'[<<r, n, d>>] \in {cut[<<r, n, d>>], cut[<<r, n, d>>] + 1}
    BY TypeFacts, CutFacts
  <2>5. CASE r # s \/ (Asks(r, n)' => Asks(r, n))
    <3>1. Asks(r, n)' => Asks(r, n)
      BY <2>5, AsksMove
    <3> QED BY <1>1, <2>3, <2>4, <3>1, SlotQuiet
  <2>6. CASE r = s /\ Asks(r, n)' /\ ~Asks(r, n)
    <3>1. SlotAt(u, s) = n
      <4>1. ASSUME SlotAt(u, s) # n PROVE Asks(s, n)
        <5>1. \A j \in Ticks : s \in tick[j].list => SlotAt(tick[j], s) # n
          BY <1>2, <2>6, <4>1 DEF Asks, SlotAt
        <5> QED BY <2>6, <5>1 DEF Asks
      <4> QED BY <2>6, <4>1
    <3> DEFINE H == Holders(r, n, d)
               f == fired[<<r, n, d>>]
               e == Cardinality(Holders(r, n, d)')
               x == cut[<<r, n, d>>]
               y == cut'[<<r, n, d>>]
    <3>2. /\ IsFiniteSet(H) /\ Cardinality(H) \in Nat /\ f \in Nat /\ x \in Nat /\ (n > latest[r] => f = 0)
          /\ f + Cardinality(H) <= 1 + overlaps + x
      <4>1. f + Cardinality(H) + 0 <= 1 + overlaps + x
        BY <2>6, FiredFacts DEF SlotBounded
      <4> QED BY <4>1, FiredFacts DEF SlotBounded
    <3>3. f + e + 1 <= 1 + overlaps + y /\ e \in Nat
      <4>1. CASE d \in u.given
        <5>1. Gave(k, <<r, n, d>>)
          BY <2>6, <3>1, <4>1 DEF Gave, SlotOf, SlotAt
        <5>2. y = x + 1
          BY <5>1, CutFacts
        <5>3. e <= Cardinality(H) /\ e \in Nat
          BY <2>3, <3>2, FS_Subset, FS_CardinalityType
        <5> HIDE DEF H, f, e, x, y
        <5> QED BY <1>1, <3>2, <5>2, <5>3
      <4>2. CASE d \notin u.given
        <5>1. k \in H /\ Holders(r, n, d)' \in SUBSET (H \ {k})
          BY <2>3, <2>6, <3>1, <4>2 DEF Holders, WillFire, WillSet
        <5> HIDE DEF H
        <5>2. IsFiniteSet(H \ {k}) /\ Cardinality(H \ {k}) = Cardinality(H) - 1
          BY <3>2, <5>1, FS_RemoveElement
        <5>3. e <= Cardinality(H) - 1 /\ e \in Nat
          BY <5>1, <5>2, FS_Subset, FS_CardinalityType
        <5>4. y \in {x, x + 1}
          BY <2>4
        <5> HIDE DEF f, e, x, y
        <5> QED BY <1>1, <3>2, <5>3, <5>4
      <4> QED BY <4>1, <4>2
    <3> QED BY <2>6, <3>2, <3>3 DEF SlotBounded
  <2> QED BY <2>5, <2>6
<1> QED BY <1>3, CutFacts, FiredFrom DEF FiredInv

\* A tick starts: it takes the slot the row asks for, which nobody else has unless it
\* overlaps; and the slot it will ask for next has not come.
LEMMA FiredStart ==
    ASSUME ScheduleInv, FiredInv, NEW k \in Ticks, NEW svc \in Services, StartTick(k, svc)
    PROVE  FiredInv'
<1> DEFINE due == {s \in Scheds : Service(s) = svc /\ Due(s)}
<1>1. /\ tick[k].pc = "idle" /\ kind' = kind /\ latest' = latest /\ next' = next /\ enabled' = enabled
      /\ fired' = fired /\ cut' = cut
      /\ \/ Running(svc) = {} /\ overlaps' = overlaps
         \/ Running(svc) # {} /\ overlaps' = overlaps + 1
  BY DEF StartTick, schedVars
<1>2. PICK t : Become(k, t) /\ t.pc = "pick" /\ t.at = latest /\ t.snap = next /\ t.list = due
  <2> DEFINE t == [Idle EXCEPT !.pc = "pick", !.svc = svc, !.at = latest, !.snap = next, !.list = due]
  <2>1. Become(k, t)
    BY DEF StartTick
  <2>2. t.pc = "pick" /\ t.at = latest /\ t.snap = next /\ t.list = due
    BY IdleFacts DEF Tick
  <2> HIDE DEF t, due
  <2> QED BY <2>1, <2>2
<1>3. \A j \in Ticks : tick'[j] = IF j = k THEN t ELSE tick[j]
  BY <1>2, TypeFacts DEF Become
<1>4. tick[k].list = {} /\ \A j \in Ticks : TickSound(tick[j])
  BY <1>1 DEF ScheduleInv, TicksAreSound, TickSound
<1>5. overlaps \in Nat /\ overlaps' \in Nat /\ overlaps' >= overlaps
  BY <1>1, TypeFacts
<1>6. ASSUME NEW s \in Scheds, NEW n \in 1..MaxSlots, NEW d \in Devices PROVE SlotBounded(s, n, d)'
  <2> DEFINE H == Holders(s, n, d)
             f == fired[<<s, n, d>>]
             x == cut[<<s, n, d>>]
  <2>1. Asks(s, n)' => Asks(s, n)
    BY <1>1, <1>2, <1>4, AsksMove
  <2>2. Holders(s, n, d)' \in SUBSET (H \cup {k}) /\ k \notin H
    <3>1. k \notin H
      BY <1>4 DEF Holders, WillFire, WillSet
    <3>2. ASSUME NEW j \in Holders(s, n, d)', j # k PROVE j \in H
      <4>1. j \in Ticks /\ tick'[j] = tick[j] /\ (WillFire(tick[j], s, n, d)' \/ WillSet(tick[j], s, n)')
        BY <1>3, <3>2 DEF Holders
      <4> QED BY <1>1, <4>1 DEF Holders, WillFire, WillSet, SlotAt
    <3> QED BY <3>1, <3>2
  <2>3. /\ latest[s] \in Nat /\ next[s] \in Nat /\ kind[s] \in Kinds /\ n \in Nat /\ n # 0
        /\ IsFiniteSet(H) /\ Cardinality(H) \in Nat /\ f \in Nat /\ (n > latest[s] => f = 0)
        /\ x \in Nat
        /\ f + Cardinality(H) + (IF Asks(s, n) THEN 1 ELSE 0) <= 1 + overlaps + x
    BY TypeFacts, FiredFacts DEF SlotBounded
  <2>4. CASE k \notin Holders(s, n, d)'
    <3>1. Holders(s, n, d)' \in SUBSET H
      BY <2>2, <2>4
    <3> QED BY <1>1, <1>5, <2>1, <2>3, <3>1, SlotQuiet
  <2>5. CASE k \in Holders(s, n, d)'
    <3>1. s \in t.list /\ (WillFire(t, s, n, d) \/ WillSet(t, s, n))
      BY <1>1, <1>3, <2>5 DEF Holders, WillFire, WillSet, SlotAt
    <3>2. Service(s) = svc /\ Due(s)
      BY <1>2, <3>1
    <3>3. CASE overlaps' = overlaps + 1
      <4>1. Cardinality(H \cup {k}) = Cardinality(H) + 1 /\ IsFiniteSet(H \cup {k})
        BY <2>2, <2>3, FS_AddElement
      <4> HIDE DEF H
      <4>2. Cardinality(Holders(s, n, d)') <= Cardinality(H) + 1 /\ Cardinality(Holders(s, n, d)') \in Nat
        BY <2>2, <4>1, FS_Subset, FS_CardinalityType
      <4> DEFINE a == IF Asks(s, n) THEN 1 ELSE 0
                 b == IF Asks(s, n)' THEN 1 ELSE 0
                 c == Cardinality(H)
                 e == Cardinality(Holders(s, n, d)')
      <4>3. a \in Nat /\ b \in Nat /\ b <= a /\ f + c + a <= 1 + overlaps + x /\ e <= c + 1
            /\ c \in Nat /\ e \in Nat /\ f \in Nat /\ x \in Nat
        BY <2>1, <2>3, <4>2
      <4> HIDE DEF a, b, c, e, f, x
      <4>4. f + e + b <= 1 + overlaps' + x
        BY <1>5, <3>3, <4>3
      <4> QED BY <1>1, <2>3, <4>4 DEF SlotBounded, b, e, f, x
    <3>4. CASE Running(svc) = {}
      <4>1. \A j \in Ticks : s \notin tick[j].list
        BY <1>4, <3>2, <3>4 DEF Running, TickSound
      <4>2. H = {} /\ Cardinality(H) = 0
        BY <4>1, FS_EmptySet DEF Holders, WillFire, WillSet
      <4>3. Cardinality(Holders(s, n, d)') = 1
        <5>1. Holders(s, n, d)' = {k}
          BY <2>2, <2>5, <4>2
        <5> QED BY <5>1, FS_Singleton
      <4>4. CASE WillFire(t, s, n, d)
        <5>1. ~Asks(s, n)'
          <6>1. s \in tick'[k].list /\ SlotAt(tick[k], s)' = n
            BY <1>1, <1>3, <3>1, <4>4 DEF WillFire, SlotAt
          <6> QED BY <6>1 DEF Asks
        <5>2. Asks(s, n)
          <6>1. SlotAt(t, s) = n /\ enabled[s]
            BY <3>2, <4>4 DEF WillFire, Due
          <6> QED BY <1>2, <4>1, <6>1 DEF Asks, SlotAt
        <5>3. f + 1 <= 1 + overlaps + x
          BY <1>5, <2>3, <4>2, <5>2
        <5>4. f + 1 + 0 <= 1 + overlaps' + x
          BY <1>5, <2>3, <5>3
        <5> QED BY <1>1, <2>3, <4>3, <5>1, <5>4 DEF SlotBounded
      <4>5. CASE WillSet(t, s, n)
        <5>1. kind[s] # "once" /\ n = latest[s] + 1
          BY <1>2, <4>5 DEF WillSet
        <5>2. next[s] # n
          <6>1. CASE kind[s] = "script"
            BY <2>3, <3>2, <5>1, <6>1 DEF Due
          <6>2. CASE kind[s] = "cron"
            BY <2>3, <3>2, <5>1, <6>2 DEF Due
          <6> QED BY <2>3, <5>1, <6>1, <6>2 DEF Kinds
        <5>3. ~Asks(s, n)'
          BY <1>1, <5>1, <5>2 DEF Asks
        <5>4. f = 0
          BY <2>3, <5>1
        <5>5. PICK y \in Nat, z \in Nat : y = overlaps' /\ z = x
          BY <1>5, <2>3
        <5>6. 0 + 1 + 0 <= 1 + y + z
          OBVIOUS
        <5> QED BY <1>1, <2>3, <4>3, <5>3, <5>4, <5>5, <5>6 DEF SlotBounded
      <4> QED BY <3>1, <4>4, <4>5
    <3> QED BY <1>1, <3>3, <3>4
  <2> QED BY <2>4, <2>5
<1> QED BY <1>1, <1>6, FiredFrom DEF FiredInv

\* Enabling a one-time schedule again asks for its moment once more.
LEMMA FiredToggle ==
    ASSUME ScheduleInv, FiredInv, NEW r \in Scheds, Toggle(r)
    PROVE  FiredInv'
<1>1. /\ kind' = kind /\ latest' = latest /\ next' = next /\ tick' = tick /\ overlaps' = overlaps /\ cut' = cut
      /\ enabled' = [enabled EXCEPT ![r] = ~@]
      /\ fired' = IF kind[r] = "once" /\ ~enabled[r]
                  THEN [i \in DOMAIN fired |-> IF i[1] = r THEN 0 ELSE fired[i]] ELSE fired
  BY DEF Toggle
<1>2. fired' \in [Scheds \X (1..MaxSlots) \X Devices -> Nat]
  <2>1. PICK D : D = Scheds \X (1..MaxSlots) \X Devices
    OBVIOUS
  <2>2. fired \in [D -> Nat]
    BY <2>1 DEF FiredInv
  <2>3. fired' \in [D -> Nat]
    BY <1>1, <2>2
  <2> QED BY <2>1, <2>3
<1>3. ASSUME NEW s \in Scheds, NEW n \in 1..MaxSlots, NEW d \in Devices PROVE SlotBounded(s, n, d)'
  <2>1. Holders(s, n, d)' = Holders(s, n, d)
    BY <1>1 DEF Holders, WillFire, WillSet, SlotAt
  <2>2. latest[s] \in Nat /\ overlaps \in Nat /\ cut[<<s, n, d>>] \in Nat
    BY TypeFacts, FiredFacts
  <2>3. \A k \in Ticks : (s \in tick'[k].list => SlotAt(tick[k], s)' # n) <=> (s \in tick[k].list => SlotAt(tick[k], s) # n)
    BY <1>1 DEF SlotAt
  <2>4. CASE s # r \/ kind[r] # "once" \/ enabled[r]
    <3>1. fired'[<<s, n, d>>] = fired[<<s, n, d>>]
      <4>1. fired \in [Scheds \X (1..MaxSlots) \X Devices -> Nat] /\ <<s, n, d>> \in Scheds \X (1..MaxSlots) \X Devices
            /\ <<s, n, d>>[1] = s
        BY DEF FiredInv
      <4> QED BY <1>1, <2>4, <4>1
    <3>2. Asks(s, n)' => Asks(s, n)
      BY <1>1, <2>3, <2>4, TypeFacts DEF Asks
    <3> QED BY <1>1, <2>1, <2>2, <3>1, <3>2, SlotQuiet
  <2>5. CASE s = r /\ kind[r] = "once" /\ ~enabled[r]
    <3>1. fired'[<<s, n, d>>] = 0
      <4>1. fired \in [Scheds \X (1..MaxSlots) \X Devices -> Nat] /\ <<s, n, d>> \in Scheds \X (1..MaxSlots) \X Devices
            /\ <<s, n, d>>[1] = s
        BY DEF FiredInv
      <4> QED BY <1>1, <2>5, <4>1
    <3>2. CASE Asks(s, n)'
      <4>1. n = 1 /\ \A k \in Ticks : s \notin tick[k].list
        BY <1>1, <2>3, <2>5, <3>2 DEF Asks, SlotAt
      <4>2. Holders(s, n, d) = {}
        BY <4>1 DEF Holders, WillFire, WillSet
      <4>3. Cardinality(Holders(s, n, d)') = 0 /\ 0 + 0 + 1 <= 1 + overlaps' + cut'[<<s, n, d>>]
        BY <1>1, <2>1, <2>2, <4>2, FS_EmptySet
      <4> QED BY <1>1, <3>1, <3>2, <4>3 DEF SlotBounded
    <3>3. CASE ~Asks(s, n)'
      <4> DEFINE c == Cardinality(Holders(s, n, d))
                 f == fired[<<s, n, d>>]
      <4>1. c \in Nat /\ f \in Nat /\ f + c + (IF Asks(s, n) THEN 1 ELSE 0) <= 1 + overlaps + cut[<<s, n, d>>]
        BY FiredFacts DEF SlotBounded
      <4> HIDE DEF c, f
      <4>2. 0 + c + 0 <= 1 + overlaps' + cut'[<<s, n, d>>]
        BY <1>1, <2>2, <4>1
      <4> QED BY <1>1, <2>1, <3>1, <3>3, <4>2 DEF SlotBounded, c
    <3> QED BY <3>2, <3>3
  <2> QED BY <2>4, <2>5
<1> QED BY <1>1, <1>2, <1>3, FiredFrom DEF FiredInv

\* A crash cuts every tick short.
LEMMA FiredCrash ==
    ASSUME ScheduleInv, FiredInv, ServerCrash
    PROVE  FiredInv'
<1>1. /\ kind' = kind /\ latest' = latest /\ fired' = fired /\ overlaps' = overlaps
      /\ next' = next /\ enabled' = enabled /\ CutShort(Ticks)
      /\ \A k \in Ticks : tick'[k] = Idle
  BY DEF ServerCrash, schedVars
<1>2. ASSUME NEW s \in Scheds, NEW n \in 1..MaxSlots, NEW d \in Devices PROVE SlotBounded(s, n, d)'
  <2>1. \A k \in Ticks : tick'[k].list = {}
    BY <1>1, IdleFacts
  <2>2. Holders(s, n, d)' = {}
    BY <2>1 DEF Holders, WillFire, WillSet
  <2>3. Cardinality(Holders(s, n, d)') = 0
    BY <2>2, FS_EmptySet
  <2>4. /\ latest[s] \in Nat /\ overlaps \in Nat
        /\ cut'[<<s, n, d>>] \in {cut[<<s, n, d>>], cut[<<s, n, d>>] + 1}
    BY <1>1, TypeFacts, CutFacts
  <2>5. CASE Asks(s, n)' => Asks(s, n)
    BY <1>1, <2>2, <2>4, <2>5, SlotQuiet
  <2>6. CASE Asks(s, n)' /\ ~Asks(s, n)
    <3>1. PICK j \in Ticks : s \in tick[j].list /\ SlotAt(tick[j], s) = n
      BY <1>1, <2>6 DEF Asks
    <3> DEFINE H == Holders(s, n, d)
               f == fired[<<s, n, d>>]
               x == cut[<<s, n, d>>]
               y == cut'[<<s, n, d>>]
    <3>2. /\ IsFiniteSet(H) /\ Cardinality(H) \in Nat /\ f \in Nat /\ x \in Nat /\ (n > latest[s] => f = 0)
          /\ f + Cardinality(H) <= 1 + overlaps + x
      <4>1. f + Cardinality(H) + 0 <= 1 + overlaps + x
        BY <2>6, FiredFacts DEF SlotBounded
      <4> QED BY <4>1, FiredFacts DEF SlotBounded
    <3>3. f + 0 + 1 <= 1 + overlaps + y
      <4>1. CASE WillFire(tick[j], s, n, d)
        <5>1. j \in H
          BY <4>1 DEF Holders
        <5> HIDE DEF H
        <5>2. Cardinality(H) # 0
          BY <3>2, <5>1, FS_EmptySet
        <5> HIDE DEF f, x, y
        <5>3. y \in {x, x + 1}
          BY <2>4 DEF x, y
        <5> QED BY <2>4, <3>2, <5>2, <5>3
      <4>2. CASE ~WillFire(tick[j], s, n, d)
        <5>1. Gave(j, <<s, n, d>>)
          BY <3>1, <4>2 DEF WillFire, Gave, SlotOf, SlotAt
        <5>2. y = x + 1
          BY <1>1, <5>1, CutFacts
        <5> HIDE DEF H, f, x, y
        <5> QED BY <2>4, <3>2, <5>2
      <4> QED BY <4>1, <4>2
    <3> QED BY <1>1, <2>3, <2>6, <3>2, <3>3 DEF SlotBounded
  <2> QED BY <2>5, <2>6
<1> QED BY <1>1, <1>2, CutFacts, FiredFrom DEF FiredInv

\* A tick gives a slot to a device once.
LEMMA GivenStep == ScheduleInv /\ GivenInv /\ [Next]_vars => GivenInv'
<1> SUFFICES ASSUME ScheduleInv, GivenInv, [Next]_vars PROVE GivenInv'
  OBVIOUS
<1>a. ASSUME NEW k \in Ticks, NEW t, Become(k, t), GivenOk(t) PROVE GivenInv'
  <2>1. \A j \in Ticks : tick'[j] = IF j = k THEN t ELSE tick[j]
    BY <1>a, TypeFacts DEF Become
  <2> QED BY <1>a, <2>1 DEF GivenInv
<1>b. GivenOk(Idle)
  BY IdleFacts DEF GivenOk
<1>c. ASSUME NEW k \in Ticks, Onward(k) PROVE GivenInv'
  <2>1. PICK u \in Tick : u = tick[k]
    BY TypeFacts
  <2> DEFINE t == [u EXCEPT !.pc = "pick", !.list = u.list \ {u.cur}, !.todo = {}, !.given = {},
                         !.exec = 0]
  <2>2. Become(k, Idle) \/ Become(k, t)
    BY <1>c, <2>1 DEF Onward
  <2>3. GivenOk(t)
    BY <2>1 DEF Tick, GivenOk
  <2> HIDE DEF t
  <2> QED BY <1>a, <1>b, <2>2, <2>3
<1>1. ASSUME NEW k \in Ticks, NEW svc \in Services, StartTick(k, svc) PROVE GivenInv'
  <2> DEFINE due == {s \in Scheds : Service(s) = svc /\ Due(s)}
             t == [Idle EXCEPT !.pc = "pick", !.svc = svc, !.at = latest, !.snap = next, !.list = due]
  <2>1. Become(k, t)
    BY <1>1 DEF StartTick
  <2>2. t.given = {}
    BY IdleFacts DEF Tick
  <2> HIDE DEF t
  <2> QED BY <1>a, <2>1, <2>2 DEF GivenOk
<1>2. ASSUME NEW k \in Ticks, NEW s \in Scheds, Targets(k, s) PROVE GivenInv'
  <2>1. PICK u \in Tick : u = tick[k] /\ u.given = {}
    BY <1>2, TypeFacts DEF Targets, GivenInv, GivenOk
  <2>2. PICK D \in SUBSET Devices, pc \in {"fire", "flight"} : Become(k, [u EXCEPT !.cur = s, !.todo = D, !.pc = pc])
    BY <1>2, <2>1 DEF Targets
  <2>3. [u EXCEPT !.cur = s, !.todo = D, !.pc = pc].given = {}
    BY <2>1 DEF Tick
  <2> QED BY <1>a, <2>2, <2>3 DEF GivenOk
<1>3. ASSUME NEW k \in Ticks, NEW s \in Scheds, Prime(k, s) PROVE GivenInv'
  <2>1. PICK u \in Tick : u = tick[k] /\ u.given = {}
    BY <1>3, TypeFacts DEF Prime, GivenInv, GivenOk
  <2> DEFINE t == [u EXCEPT !.list = u.list \ {s}]
  <2>2. Become(k, Idle) \/ Become(k, t)
    BY <1>3, <2>1 DEF Prime
  <2>3. t.given = {}
    BY <2>1 DEF Tick
  <2> HIDE DEF t
  <2> QED BY <1>a, <1>b, <2>2, <2>3 DEF GivenOk
<1>4. ASSUME NEW k \in Ticks, SkipInFlight(k) PROVE GivenInv'
  <2>1. PICK u \in Tick : u = tick[k] /\ u.given = {}
    BY <1>4, TypeFacts DEF SkipInFlight, GivenInv, GivenOk
  <2>2. PICK D : Become(k, [u EXCEPT !.pc = "fire", !.todo = D])
    BY <1>4, <2>1 DEF SkipInFlight
  <2>3. [u EXCEPT !.pc = "fire", !.todo = D].given = {}
    BY <2>1 DEF Tick
  <2> QED BY <1>a, <2>2, <2>3 DEF GivenOk
<1>5. ASSUME NEW k \in Ticks, NEW d \in Devices, Insert(k, d) PROVE GivenInv'
  <2>1. PICK u \in Tick : u = tick[k] /\ GivenOk(u)
    BY TypeFacts DEF GivenInv
  <2>2. PICK id : Become(k, [u EXCEPT !.pc = "enqueue", !.dev = d, !.exec = id])
    BY <1>5, <2>1 DEF Insert
  <2> DEFINE t == [u EXCEPT !.pc = "enqueue", !.dev = d, !.exec = id]
  <2>3. t.pc = "enqueue" /\ t.given = u.given /\ t.todo = u.todo
    BY <2>1 DEF Tick
  <2>4. Become(k, t)
    BY <2>2
  <2> HIDE DEF t
  <2> QED BY <1>a, <2>1, <2>3, <2>4 DEF GivenOk
<1>6. ASSUME NEW k \in Ticks, Enqueue(k) PROVE GivenInv'
  <2>1. PICK u \in Tick : u = tick[k] /\ GivenOk(u)
    BY TypeFacts DEF GivenInv
  <2> DEFINE t == [u EXCEPT !.pc = "fire", !.todo = u.todo \ {u.dev}, !.given = u.given \cup {u.dev},
                         !.dev = AnyDevice, !.exec = 0]
  <2>2. Become(k, t)
    BY <1>6, <2>1 DEF Enqueue
  <2>3. t.pc = "fire" /\ t.given = u.given \cup {u.dev} /\ t.todo = u.todo \ {u.dev}
    BY <2>1 DEF Tick
  <2> HIDE DEF t
  <2> QED BY <1>a, <2>1, <2>2, <2>3 DEF GivenOk
<1>7. ASSUME NEW k \in Ticks, NEW d \in Devices, StartRun(k, d) PROVE GivenInv'
  <2>1. PICK u \in Tick : u = tick[k] /\ GivenOk(u)
    BY TypeFacts DEF GivenInv
  <2>2. PICK t \in Tick : /\ Become(k, t) /\ t.pc = "fire" /\ t.todo = u.todo \ {d}
                          /\ t.given \in {u.given, u.given \cup {d}}
    BY <1>7, <2>1, StartRunTick
  <2>3. GivenOk(t)
    BY <2>1, <2>2 DEF GivenOk
  <2> QED BY <1>a, <2>2, <2>3
<1>8. ASSUME NEW k \in Ticks, SetNext(k) PROVE GivenInv'
  <2>1. PICK u \in Tick : u = tick[k] /\ GivenOk(u)
    BY TypeFacts DEF GivenInv
  <2> DEFINE t == [u EXCEPT !.pc = "disable"]
  <2>2. Onward(k) \/ Become(k, t)
    BY <1>8, <2>1 DEF SetNext
  <2>3. t.pc = "disable" /\ t.given = u.given /\ t.todo = u.todo
    BY <2>1 DEF Tick
  <2> HIDE DEF t
  <2>4. GivenOk(t)
    BY <2>1, <2>3 DEF GivenOk
  <2> QED BY <1>a, <1>c, <2>2, <2>4
<1>9. ASSUME NEW k \in Ticks, DisableOnce(k) \/ RunError(k) PROVE GivenInv'
  BY <1>9, <1>c DEF DisableOnce, RunError
<1>10. CASE ServerCrash
  <2>1. \A k \in Ticks : tick'[k] = Idle
    BY <1>10 DEF ServerCrash
  <2> QED BY <1>b, <2>1 DEF GivenInv
<1>11. CASE UNCHANGED tick
  BY <1>11 DEF GivenInv
<1>12. ASSUME \/ \E s \in Scheds : SlotComes(s) \/ Toggle(s)
              \/ \E e \in execs : Ack(e) \/ Ages(e)
              \/ StartSweep \/ (\E i \in sweep : SweepOne(i)) \/ UNCHANGED vars
       PROVE  UNCHANGED tick
  BY <1>12 DEF SlotComes, Toggle, Ack, Ages, StartSweep, SweepOne, vars
<1>13. ASSUME NEW k \in Ticks, TickStep(k) PROVE GivenInv'
  BY <1>2, <1>3, <1>4, <1>5, <1>6, <1>7, <1>8, <1>9, <1>13 DEF TickStep
<1> QED BY <1>1, <1>9, <1>10, <1>11, <1>12, <1>13 DEF Next

\* Every step preserves the count.
LEMMA FiredStep == ScheduleInv /\ GivenInv /\ FiredInv /\ [Next]_vars => FiredInv'
<1> SUFFICES ASSUME ScheduleInv, GivenInv, FiredInv, [Next]_vars PROVE FiredInv'
  OBVIOUS
<1>1. ASSUME NEW s \in Scheds, SlotComes(s) PROVE FiredInv'
  <2>1. /\ kind' = kind /\ next' = next /\ enabled' = enabled /\ tick' = tick /\ fired' = fired
        /\ overlaps' = overlaps /\ cut' = cut /\ latest' = [latest EXCEPT ![s] = @ + 1]
    BY <1>1 DEF SlotComes
  <2>2. ASSUME NEW r \in Scheds, NEW n \in 1..MaxSlots, NEW d \in Devices PROVE SlotBounded(r, n, d)'
    <3>1. Holders(r, n, d)' = Holders(r, n, d) /\ (Asks(r, n)' <=> Asks(r, n))
      BY <2>1 DEF Holders, WillFire, WillSet, SlotAt, Asks
    <3>2. latest'[r] \in Nat /\ latest'[r] >= latest[r] /\ overlaps \in Nat
      BY <2>1, TypeFacts
    <3> QED BY <2>1, <3>1, <3>2, SlotQuiet
  <2> QED BY <2>1, <2>2, FiredFrom DEF FiredInv
<1>2. ASSUME NEW k \in Ticks, NEW s \in Scheds, Targets(k, s) PROVE FiredInv'
  <2>1. PICK u \in Tick : u = tick[k]
    BY TypeFacts
  <2>2. PICK D \in SUBSET Devices, pc \in {"fire", "flight"} : Become(k, [u EXCEPT !.cur = s, !.todo = D, !.pc = pc])
    BY <1>2, <2>1 DEF Targets
  <2> DEFINE t == [u EXCEPT !.cur = s, !.todo = D, !.pc = pc]
  <2>3. t.list = u.list /\ t.snap = u.snap /\ t.at = u.at
    BY <2>1 DEF Tick
  <2>4. /\ u.pc = "pick" /\ kind' = kind /\ latest' = latest /\ next' = next /\ enabled' = enabled /\ fired' = fired
        /\ overlaps' = overlaps /\ cut' = cut
    BY <1>2, <2>1 DEF Targets, schedVars
  <2>5. Become(k, t)
    BY <2>2
  <2> HIDE DEF t
  <2> QED BY <2>1, <2>3, <2>4, <2>5, FiredTick
<1>3. ASSUME NEW k \in Ticks, NEW s \in Scheds, Prime(k, s) PROVE FiredInv'
  <2>1. PICK u \in Tick : u = tick[k]
    BY TypeFacts
  <2>2. /\ u.pc = "pick" /\ s \in u.list /\ kind[s] = "cron" /\ next' = [next EXCEPT ![s] = u.at[s] + 1]
        /\ kind' = kind /\ latest' = latest /\ enabled' = enabled /\ fired' = fired
        /\ overlaps' = overlaps /\ cut' = cut
    BY <1>3, <2>1 DEF Prime
  <2>3. next'[s] = u.at[s] + 1 /\ \A r \in Scheds \ {s} : next'[r] = next[r]
    BY <2>2, TypeFacts
  <2> DEFINE w == [u EXCEPT !.list = u.list \ {s}]
  <2>4. PICK t : Become(k, t) /\ t.list = u.list \ {s} /\ (t.list # {} => t.snap = u.snap /\ t.at = u.at)
    <3>1. w.list = u.list \ {s} /\ w.snap = u.snap /\ w.at = u.at
      BY <2>1 DEF Tick
    <3>2. CASE u.list \ {s} = {}
      BY <1>3, <2>1, <3>2, IdleFacts DEF Prime
    <3>3. CASE u.list \ {s} # {}
      <4>1. Become(k, w)
        BY <1>3, <2>1, <3>3 DEF Prime
      <4> HIDE DEF w
      <4> QED BY <3>1, <4>1
    <3> QED BY <3>2, <3>3
  <2> QED BY <2>1, <2>2, <2>3, <2>4, FiredLeave
<1>4. ASSUME NEW k \in Ticks, SkipInFlight(k) PROVE FiredInv'
  <2>1. PICK u \in Tick : u = tick[k]
    BY TypeFacts
  <2>2. PICK D \in SUBSET u.todo : Become(k, [u EXCEPT !.pc = "fire", !.todo = D])
    BY <1>4, <2>1 DEF SkipInFlight, Tick
  <2> DEFINE t == [u EXCEPT !.pc = "fire", !.todo = D]
  <2>3. t.list = u.list /\ t.snap = u.snap /\ t.at = u.at /\ t.cur = u.cur /\ t.pc = "fire" /\ t.given = u.given
    BY <2>1 DEF Tick
  <2>4. /\ u.pc = "flight" /\ kind' = kind /\ latest' = latest /\ next' = next /\ enabled' = enabled /\ fired' = fired
        /\ overlaps' = overlaps /\ cut' = cut
    BY <1>4, <2>1 DEF SkipInFlight, schedVars
  <2>5. Become(k, t)
    BY <2>2
  <2> HIDE DEF t
  <2> QED BY <2>1, <2>3, <2>4, <2>5, FiredTick
<1>5. ASSUME NEW k \in Ticks, NEW d \in Devices, Insert(k, d) PROVE FiredInv'
  <2>1. PICK u \in Tick : u = tick[k]
    BY TypeFacts
  <2>2. PICK id : Become(k, [u EXCEPT !.pc = "enqueue", !.dev = d, !.exec = id])
    BY <1>5, <2>1 DEF Insert
  <2> DEFINE t == [u EXCEPT !.pc = "enqueue", !.dev = d, !.exec = id]
  <2>3. t.list = u.list /\ t.snap = u.snap /\ t.at = u.at /\ t.cur = u.cur /\ t.pc = "enqueue" /\ t.given = u.given
    BY <2>1 DEF Tick
  <2>4. /\ u.pc = "fire" /\ kind' = kind /\ latest' = latest /\ next' = next /\ enabled' = enabled /\ fired' = fired
        /\ overlaps' = overlaps /\ cut' = cut
    BY <1>5, <2>1 DEF Insert, schedVars
  <2>5. Become(k, t)
    BY <2>2
  <2> HIDE DEF t
  <2> QED BY <2>1, <2>3, <2>4, <2>5, FiredTick
<1>6. ASSUME NEW k \in Ticks, Enqueue(k) PROVE FiredInv'
  <2>1. PICK u \in Tick : u = tick[k] /\ TickSound(u) /\ GivenOk(u)
    BY TypeFacts DEF ScheduleInv, TicksAreSound, GivenInv
  <2> DEFINE t == [u EXCEPT !.pc = "fire", !.todo = u.todo \ {u.dev}, !.given = u.given \cup {u.dev},
                         !.dev = AnyDevice, !.exec = 0]
  <2>2. /\ u.pc = "enqueue" /\ kind' = kind /\ latest' = latest /\ next' = next /\ enabled' = enabled
        /\ Fired(k, u.dev) /\ overlaps' = overlaps /\ cut' = cut /\ Become(k, t)
    BY <1>6, <2>1 DEF Enqueue, schedVars
  <2>3. /\ t.list = u.list /\ t.snap = u.snap /\ t.at = u.at /\ t.cur = u.cur /\ t.pc = "fire"
        /\ t.given = u.given \cup {u.dev}
    BY <2>1 DEF Tick
  <2>4. u.dev \in u.todo
    BY <2>1, <2>2 DEF TickSound
  <2> HIDE DEF t
  <2> QED BY <2>1, <2>2, <2>3, <2>4, FiredFire
<1>7. ASSUME NEW k \in Ticks, NEW d \in Devices, StartRun(k, d) PROVE FiredInv'
  <2>1. PICK u \in Tick : u = tick[k] /\ GivenOk(u)
    BY TypeFacts DEF GivenInv
  <2>2. /\ u.pc = "fire" /\ d \in u.todo /\ kind' = kind /\ latest' = latest /\ next' = next /\ enabled' = enabled
        /\ overlaps' = overlaps /\ cut' = cut
    BY <1>7, <2>1 DEF StartRun, schedVars
  <2>3. PICK t \in Tick :
           /\ Become(k, t) /\ t.pc = "fire" /\ t.cur = u.cur /\ t.list = u.list
           /\ t.at = u.at /\ t.snap = u.snap
           /\ \/ Fired(k, d) /\ t.given = u.given \cup {d}
              \/ fired' = fired /\ t.given = u.given
    BY <1>7, <2>1, StartRunTick
  <2>4. CASE Fired(k, d) /\ t.given = u.given \cup {d}
    BY <2>1, <2>2, <2>3, <2>4, FiredFire
  <2>5. CASE fired' = fired /\ t.given = u.given
    BY <2>1, <2>2, <2>3, <2>5, FiredTick
  <2> QED BY <2>3, <2>4, <2>5
<1>o. ASSUME NEW k \in Ticks, NEW u \in Tick, u = tick[k], Onward(k)
      PROVE  \E t : Become(k, t) /\ t.list = u.list \ {u.cur} /\ (t.list # {} => t.snap = u.snap /\ t.at = u.at)
  <2> DEFINE w == [u EXCEPT !.pc = "pick", !.list = u.list \ {u.cur}, !.todo = {}, !.given = {},
                         !.exec = 0]
  <2>1. w.list = u.list \ {u.cur} /\ w.snap = u.snap /\ w.at = u.at
    BY <1>o DEF Tick
  <2>2. CASE u.list \ {u.cur} = {}
    BY <1>o, <2>2, IdleFacts DEF Onward
  <2>3. CASE u.list \ {u.cur} # {}
    <3>1. Become(k, w)
      BY <1>o, <2>3 DEF Onward
    <3> HIDE DEF w
    <3> QED BY <2>1, <3>1
  <2> QED BY <2>2, <2>3
<1>8. ASSUME NEW k \in Ticks, NEW u \in Tick, u = tick[k], TickSound(u), Onward(k), u.pc # "pick", u.cur \in u.list,
             kind' = kind, latest' = latest, overlaps' = overlaps, fired' = fired, cut' = cut,
             \A r \in Scheds \ {u.cur} : next'[r] = next[r] /\ enabled'[r] = enabled[r],
             IF kind[u.cur] = "once" THEN ~enabled'[u.cur] ELSE next'[u.cur] = u.at[u.cur] + 1
      PROVE  FiredInv'
  <2>1. PICK t : Become(k, t) /\ t.list = u.list \ {u.cur} /\ (t.list # {} => t.snap = u.snap /\ t.at = u.at)
    BY <1>8, <1>o
  <2> QED BY <1>8, <2>1, FiredLeave
<1>9. ASSUME NEW k \in Ticks, SetNext(k) PROVE FiredInv'
  <2>1. PICK u \in Tick : u = tick[k] /\ TickSound(u)
    BY TypeFacts DEF ScheduleInv, TicksAreSound
  <2>2. /\ u.pc = "fire" /\ kind' = kind /\ latest' = latest /\ enabled' = enabled /\ fired' = fired
        /\ overlaps' = overlaps /\ cut' = cut /\ u.cur \in u.list /\ u.cur \in Scheds
        /\ next' = [next EXCEPT ![u.cur] = IF kind[u.cur] = "once" THEN Null ELSE u.at[u.cur] + 1]
    BY <1>9, <2>1 DEF SetNext, TickSound, Tick
  <2>3. CASE kind[u.cur] = "once"
    <3> DEFINE t == [u EXCEPT !.pc = "disable"]
    <3>1. Become(k, t)
      BY <1>9, <2>1, <2>3 DEF SetNext
    <3>2. t.list = u.list /\ t.snap = u.snap /\ t.at = u.at /\ t.cur = u.cur /\ t.pc = "disable" /\ t.given = u.given
      BY <2>1 DEF Tick
    <3>3. \A s \in Scheds : kind[s] # "once" => next'[s] = next[s]
      BY <2>2, <2>3, TypeFacts
    <3> HIDE DEF t
    <3> QED BY <2>1, <2>2, <3>1, <3>2, <3>3, FiredTick
  <2>4. CASE kind[u.cur] # "once"
    <3>1. Onward(k)
      BY <1>9, <2>1, <2>4 DEF SetNext
    <3>2. next'[u.cur] = u.at[u.cur] + 1 /\ \A r \in Scheds \ {u.cur} : next'[r] = next[r] /\ enabled'[r] = enabled[r]
      BY <2>2, <2>4, TypeFacts
    <3> QED BY <1>8, <2>1, <2>2, <2>4, <3>1, <3>2
  <2> QED BY <2>3, <2>4
<1>10. ASSUME NEW k \in Ticks, DisableOnce(k) PROVE FiredInv'
  <2>1. PICK u \in Tick : u = tick[k] /\ TickSound(u)
    BY TypeFacts DEF ScheduleInv, TicksAreSound
  <2>2. /\ u.pc = "disable" /\ kind' = kind /\ latest' = latest /\ next' = next /\ fired' = fired /\ Onward(k)
        /\ overlaps' = overlaps /\ cut' = cut /\ u.cur \in u.list /\ u.cur \in Scheds /\ kind[u.cur] = "once"
        /\ enabled' = [enabled EXCEPT ![u.cur] = FALSE]
    BY <1>10, <2>1 DEF DisableOnce, TickSound, Tick
  <2>3. ~enabled'[u.cur] /\ \A r \in Scheds \ {u.cur} : next'[r] = next[r] /\ enabled'[r] = enabled[r]
    BY <2>2, TypeFacts
  <2> QED BY <1>8, <2>1, <2>2, <2>3
<1>11. ASSUME NEW k \in Ticks, RunError(k) PROVE FiredInv'
  <2>1. PICK u \in Tick : u = tick[k] /\ TickSound(u)
    BY TypeFacts DEF ScheduleInv, TicksAreSound
  <2>2. /\ u.pc # "pick" /\ kind' = kind /\ latest' = latest /\ next' = next /\ enabled' = enabled /\ fired' = fired
        /\ Onward(k) /\ overlaps' = overlaps /\ CutShort({k}) /\ u.cur \in u.list
    BY <1>11, <2>1 DEF RunError, TickSound, schedVars
  <2>3. PICK t : Become(k, t) /\ t.list = u.list \ {u.cur} /\ (t.list # {} => t.snap = u.snap /\ t.at = u.at)
    BY <1>o, <2>1, <2>2
  <2> QED BY <2>1, <2>2, <2>3, FiredCut
<1>12. ASSUME (\E e \in execs : Ack(e) \/ Ages(e)) \/ StartSweep \/ (\E i \in sweep : SweepOne(i)) \/ UNCHANGED vars
       PROVE  FiredInv'
  <2>1. /\ kind' = kind /\ latest' = latest /\ next' = next /\ enabled' = enabled /\ tick' = tick /\ fired' = fired
        /\ overlaps' = overlaps /\ cut' = cut
    BY <1>12 DEF Ack, Ages, StartSweep, SweepOne, schedVars, vars
  <2>2. ASSUME NEW r \in Scheds, NEW n \in 1..MaxSlots, NEW d \in Devices PROVE SlotBounded(r, n, d)'
    <3>1. Holders(r, n, d)' = Holders(r, n, d) /\ (Asks(r, n)' <=> Asks(r, n))
      BY <2>1 DEF Holders, WillFire, WillSet, SlotAt, Asks
    <3>2. latest[r] \in Nat /\ overlaps \in Nat
      BY TypeFacts
    <3> QED BY <2>1, <3>1, <3>2, SlotQuiet
  <2> QED BY <2>1, <2>2, FiredFrom DEF FiredInv
<1>13. ASSUME NEW k \in Ticks, TickStep(k) PROVE FiredInv'
  BY <1>2, <1>3, <1>4, <1>5, <1>6, <1>7, <1>9, <1>10, <1>13 DEF TickStep
<1> QED BY <1>1, <1>11, <1>12, <1>13, FiredToggle, FiredStart, FiredCrash DEF Next

\* A moment of a schedule reaches a device once, and once more at most for each tick
\* that overlapped and each tick that was cut short between its dispatch of that moment
\* to that device and the write of the next one: no other fault fires a slot again.
THEOREM SlotsAreFiredOnce == Spec => []RefiredOnlyAfterACut
<1>1. Init => FiredInv /\ GivenInv
  <2> SUFFICES ASSUME Init PROVE FiredInv /\ GivenInv
    OBVIOUS
  <2>1. \A k \in Ticks : tick[k].list = {}
    BY IdleFacts DEF Init
  <2>2. \A s \in Scheds, n \in 1..MaxSlots, d \in Devices : Holders(s, n, d) = {}
    BY <2>1 DEF Holders, WillFire, WillSet
  <2>3. overlaps = 0 /\ Cardinality({}) = 0
    BY FS_EmptySet DEF Init
  <2>4. fired = [i \in Scheds \X (1..MaxSlots) \X Devices |-> 0] /\ cut = fired
    BY DEF Init
  <2>5. ASSUME NEW s \in Scheds, NEW n \in 1..MaxSlots, NEW d \in Devices
        PROVE  fired[<<s, n, d>>] = 0 /\ cut[<<s, n, d>>] = 0 /\ 0 + 0 + (IF Asks(s, n) THEN 1 ELSE 0) <= 1 + 0 + 0
    BY <2>4
  <2>6. GivenInv
    BY IdleFacts DEF Init, GivenInv, GivenOk
  <2> QED BY <2>2, <2>3, <2>4, <2>5, <2>6 DEF FiredInv
<1>2. ScheduleInv /\ FiredInv => RefiredOnlyAfterACut
  <2> SUFFICES ASSUME ScheduleInv, FiredInv, NEW s \in Scheds, NEW n \in 1..MaxSlots, NEW d \in Devices
               PROVE  fired[<<s, n, d>>] <= 1 + overlaps + cut[<<s, n, d>>]
    BY DEF RefiredOnlyAfterACut
  <2>1. fired[<<s, n, d>>] + Cardinality(Holders(s, n, d)) + (IF Asks(s, n) THEN 1 ELSE 0) <= 1 + overlaps + cut[<<s, n, d>>]
    BY FiredFacts DEF SlotBounded
  <2> QED BY <2>1, FiredFacts, TypeFacts
<1> QED BY <1>1, <1>2, InitSound, SoundStep, GivenStep, FiredStep, PTL DEF Spec

=============================================================================
