------------------------------ MODULE ForkJoin ------------------------------
(***************************************************************************)
(* What a pool of threads promises to the thread that uses it: between a   *)
(* call to run and the return of wait every worker does the job of this    *)
(* round once, no worker does anything outside of a round, and a stopped   *)
(* pool does nothing any more.                                             *)
(***************************************************************************)
EXTENDS Naturals

CONSTANT Workers

VARIABLES
    round,      \* how many times the pool has been run
    phase,      \* "idle", "running" or "stopped"
    done        \* the workers that have done the job of the last round

vars == <<round, phase, done>>

TypeOK ==
    /\ round \in Nat
    /\ phase \in {"idle", "running", "stopped"}
    /\ done \subseteq Workers

Init == round = 0 /\ phase = "idle" /\ done = Workers

Fork ==
    /\ phase = "idle"
    /\ phase' = "running"
    /\ round' = round + 1
    /\ done' = {}

Work(t) ==
    /\ phase = "running"
    /\ t \notin done
    /\ done' = done \cup {t}
    /\ UNCHANGED <<round, phase>>

Join ==
    /\ phase = "running"
    /\ done = Workers
    /\ phase' = "idle"
    /\ UNCHANGED <<round, done>>

Stop ==
    /\ phase = "idle"
    /\ phase' = "stopped"
    /\ UNCHANGED <<round, done>>

Next == Fork \/ (\E t \in Workers : Work(t)) \/ Join \/ Stop

Spec == Init /\ [][Next]_vars

=============================================================================
