---------------------------- MODULE MCAlertPhone ----------------------------
(* Instances of LiveAlert and AlertPhone for TLC: one device, two incidents. *)
EXTENDS AlertPhone, TLC

CONSTANTS metric1, offline1, d1

OneDevice == [i \in Incidents |-> d1]

\* The lock ids, in the reverse of the order of the names.
Distinct == metric1 :> 2 @@ offline1 :> 1

PhoneIsUsed == mark # NoMark \/ worker # IdleWorker \/ \E a \in Ids : rung[a] > 0

\* Bounds: once the phone polls, two rows, no fault, and a device that stays offline
\* until it is deleted, so that both incidents may be raised.
Bounded == PhoneIsUsed => nextId <= 3 /\ faults = 0 /\ (d1 \in exists => d1 \in offline)

BoundedSpec == PhoneInit /\ [][PhoneNext /\ Bounded']_allVars

TaskSymmetry == Permutations(Tasks)

=============================================================================
