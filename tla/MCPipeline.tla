----------------------------- MODULE MCPipeline -----------------------------
(***************************************************************************)
(* Instances of Pipeline for TLC: the threads of each stage, and the       *)
(* limits that the condition of each stage may have.                       *)
(***************************************************************************)
EXTENDS Pipeline

Replicas1211 == <<1, 2, 1, 1>>

AnyStops == <<{4, 9}, {Never}, {Never, 3}, {Never, 2}>>

=============================================================================
