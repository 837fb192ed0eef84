--------------------------- MODULE MCScenarioGraph ---------------------------
(* Instances of ScenarioGraph for TLC: one scenario with two trigger nodes,  *)
(* from which a run takes either of two paths.                              *)
EXTENDS ScenarioGraph, TLC

CONSTANTS T, A, B, W, Y, E, F,    \* the loop
          L, C, D, V, Z,          \* the line
          d1, d2, t1, t2

Case(kind, values, to) == [kind |-> kind, values |-> values, to |-> to]

Kinds == T :> "trigger" @@ A :> "action" @@ B :> "branch" @@ W :> "wait" @@ Y :> "sync"
         @@ E :> "end_success" @@ F :> "end_failure"
         @@ L :> "trigger" @@ C :> "cooldown" @@ D :> "action" @@ V :> "wait" @@ Z :> "end_success"

AllTypes == [n \in Nodes |-> Kinds[n]]

LoopToBoth == [n \in Nodes |-> IF n = A THEN {d1, d2} ELSE IF n = D THEN {d1} ELSE {}]

\* The loop: a fan-out, a branch on its exit code, and a wait that goes back to it.
\* The line: a cooldown, an action that only goes on after a success, and a wait.
BothEdges ==
    T :> <<Case("always", {}, A)>>
    @@ A :> <<Case("always", {}, B)>>
    @@ B :> <<Case("default", {}, W), Case("exit_code_eq", {0}, Y)>>
    @@ W :> <<Case("exit_code_in", {0}, A)>>
    @@ Y :> <<Case("exit_code_neq", {0}, F), Case("default", {}, E)>>
    @@ E :> <<>> @@ F :> <<>>
    @@ L :> <<Case("always", {}, C)>>
    @@ C :> <<Case("always", {}, D)>>
    @@ D :> <<Case("exit_code_eq", {0}, V)>>
    @@ V :> <<Case("always", {}, Z)>>
    @@ Z :> <<>>

On(S) == (\E i \in NodeRunIds : nodeRuns[i].node \in S) \/ (\E t \in Tasks : task[t].node \in S)

\* Bounds: on the loop statements fail, and nothing comes after a report; on the line
\* commands succeed or expire, commands report twice and the server restarts.
Bounded ==
    /\ On({T, A, B, W, Y, E, F}) =>
          Regular /\ \A c \in DOMAIN cmds : cmds[c].reports = 1 => cmds[c].status = "over"
    /\ On({L, C, D, V, Z}) => faults = 0 /\ \A c \in DOMAIN cmds : cmds[c].exit # 1

BoundedSpec == Init /\ [][Next /\ Bounded']_vars /\ Fairness

AnyTask == Permutations(Tasks)

=============================================================================
