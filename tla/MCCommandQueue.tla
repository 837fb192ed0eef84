--------------------------- MODULE MCCommandQueue ---------------------------
(* Instances of CommandQueue for TLC: which row comes from which code, and  *)
(* with which priority.                                                      *)
EXTENDS CommandQueue, TLC

CONSTANTS c1, c2, c3

\* c1 waits for a dispatch, c2 is pushed at once and marked, c3 is pushed at
\* once and left pending.
OneOfEach == c1 :> "queue" @@ c2 :> "live" @@ c3 :> "unmarked"

SamePrio == [c \in Commands |-> 1]

TaskSymmetry == Permutations(Tasks)

=============================================================================
