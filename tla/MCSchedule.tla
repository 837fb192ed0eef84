------------------------------ MODULE MCSchedule ------------------------------
(* Instances of Schedule for TLC.                                           *)
EXTENDS Schedule, TLC

\* The behaviours in which the only faults are reboots of the server.
RebootSpec == Init /\ [][Next /\ (faults' = faults \/ ServerCrash)]_vars

=============================================================================
