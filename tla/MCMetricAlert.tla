----------------------------- MODULE MCMetricAlert -----------------------------
(* Instances of MetricAlert for TLC: a cpu and one disk volume. *)
EXTENDS MetricAlert, TLC

CONSTANTS cpu, vol, disk

\* The volume alerts when the disk switch is on; nobody mutes the cpu.
TwoMetrics == cpu :> {} @@ vol :> {disk}

\* Nothing, the volume, or both; the volume's breach is the worse one, so muting
\* it ends the incident or lowers it.
SomeReadings ==
    {cpu :> "ok" @@ vol :> "ok", cpu :> "ok" @@ vol :> "critical",
     cpu :> "warning" @@ vol :> "critical"}

=============================================================================
