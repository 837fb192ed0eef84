------------------------------- MODULE Decision -------------------------------
(***************************************************************************)
(* What a two-step approval promises: a request is decided once, by        *)
(* granting or by refusing it; only somebody else than the requester       *)
(* grants it; and only a granted request has effects, each of them once.   *)
(***************************************************************************)
EXTENDS Naturals

CONSTANTS Users, Requester, Effects, Nobody

VARIABLES
    decision,   \* "none" (not requested yet), "open", "granted" or "refused"
    by,         \* who granted it
    count       \* [Effects -> Nat]: how often each effect happened

Init ==
    /\ decision = "none"
    /\ by = Nobody
    /\ count = [e \in Effects |-> 0]

Request ==
    /\ decision = "none"
    /\ decision' = "open"
    /\ UNCHANGED <<by, count>>

Grant(u) ==
    /\ decision = "open"
    /\ u # Requester
    /\ decision' = "granted"
    /\ by' = u
    /\ UNCHANGED count

Refuse ==
    /\ decision = "open"
    /\ decision' = "refused"
    /\ UNCHANGED <<by, count>>

Execute(e) ==
    /\ decision = "granted"
    /\ count[e] = 0
    /\ count' = [count EXCEPT ![e] = 1]
    /\ UNCHANGED <<decision, by>>

Next == Request \/ Refuse \/ (\E u \in Users : Grant(u)) \/ (\E e \in Effects : Execute(e))

Spec == Init /\ [][Next]_<<decision, by, count>>

=============================================================================
