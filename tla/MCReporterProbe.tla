-------------------------- MODULE MCReporterProbe --------------------------
(* A column of each of two stages. *)
EXTENDS ReporterProbe

TwoStages == <<1, 2>>

=============================================================================
