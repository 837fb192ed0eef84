--------------------------- MODULE MCRemoteSession ---------------------------
(* Instances of RemoteSession for TLC: the sockets of a side are alike, and   *)
(* so are the ends in flight.                                                *)
EXTENDS RemoteSession, TLC

Symmetric == Permutations(Agents) \cup Permutations(Browsers) \cup Permutations(Jobs)

Used(S) == Cardinality({s \in S : sock[s] # "none"})

Busy == Cardinality({j \in Jobs : job[j].pc # "idle"})

Silent == \A a \in Agents : sent[a] = 0

\* Bounds: frames are sent by one agent, in a shell session that two browsers may
\* attach to; in the others no frames, one browser, and either two agents or, in a
\* bastion session, two ends that overlap.  The server crashes in a VM console.
Bounded ==
    /\ proto = "shell" => Used(Agents) <= 1
    /\ proto # "shell" => Used(Browsers) <= 1 /\ Silent
    /\ proto # "bastion" => Busy <= 1
    /\ proto = "bastion" => Used(Agents) <= 1 \/ Busy <= 1
    /\ proto # "vmconsole" => crashes = 0

BoundedSpec == Init /\ [][Next /\ Bounded']_vars

=============================================================================
