-------------------------- MODULE MCSchedulerOTAC --------------------------
(***************************************************************************)
(* Chains of up to four tasks that take 1 to MaxDuration nanoseconds each. *)
(***************************************************************************)
EXTENDS SchedulerOTAC

CONSTANTS MaxTasks, MaxDuration

Upto(d, i, j) == IF j <= i THEN d[j] ELSE 0
Total(d, i) == Upto(d, i, 1) + Upto(d, i, 2) + Upto(d, i, 3) + Upto(d, i, 4)

SmallChains ==
    {[n |-> n, rep |-> rep, cum |-> [i \in 0 .. n |-> Scale * Total(d, i)]] :
        <<n, d, rep>> \in UNION {{n} \X [1 .. n -> 1 .. MaxDuration] \X [1 .. n -> BOOLEAN] : n \in 1 .. MaxTasks}}

=============================================================================
