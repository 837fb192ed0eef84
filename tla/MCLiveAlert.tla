----------------------------- MODULE MCLiveAlert -----------------------------
(* Instances of LiveAlert for TLC: two devices with an incident each.        *)
EXTENDS LiveAlert, TLC

CONSTANTS metric1, metric2, d1, d2

TwoDevices == metric1 :> d1 @@ metric2 :> d2

\* The lock ids of the incidents, in the reverse of the order of their names.
Distinct == metric1 :> 2 @@ metric2 :> 1

=============================================================================
