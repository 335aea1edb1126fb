---------------------------- MODULE SchedulerOTAC ----------------------------
(***************************************************************************)
(* sched::Scheduler and sched::Scheduler_OTAC: the profiled tasks of a     *)
(* sequence are cut into the stages of a pipeline, and R processing units  *)
(* (PUs) are shared between the stages.  SOLVE searches the period by      *)
(* bisection; for each candidate, PROBE packs the tasks greedily, one stage*)
(* after the other.                                                        *)
(*                                                                         *)
(* Durations are integers, in units of 1/Scale nanosecond.  The code uses  *)
(* floating-point numbers: here a comparison with a quotient is made with a*)
(* product, and what is stored is rounded down.                            *)
(***************************************************************************)
EXTENDS Integers, Sequences

CONSTANTS
    Chains,         \* what the profiling may have measured, see IsChain
    Resources,      \* the values of R
    Scale           \* units in a nanosecond

(***************************************************************************)
(* A chain has n tasks; cum[i] is the duration of the first i of them, and *)
(* rep[i] tells whether task i is replicable.                              *)
(***************************************************************************)
IsChain(c) ==
    /\ c.n \in Nat \ {0}
    /\ c.cum \in [0 .. c.n -> Nat]
    /\ \A i, j \in 0 .. c.n : i < j => c.cum[i] < c.cum[j]
    /\ c.rep \in [1 .. c.n -> BOOLEAN]

ASSUME ChainsAssumption == \A c \in Chains : IsChain(c)
ASSUME ResourcesAssumption == Resources \subseteq Nat \ {0}
\* The unit of durations is finer than the precision of the search.
ASSUME ScaleAssumption == Scale \in Nat /\ \A r \in Resources : r <= Scale

VARIABLES
    pc,             \* "profiled", "solve", "probe" or "done"
    chain,          \* tasks_desc
    R,
    maxTf,          \* the longest task that is not replicable
    P, Pmin, Pmax,  \* the period and its bounds
    solution,       \* of PROBE, then of SOLVE
    best,           \* solution_current
    e               \* PROBE: the first task of the next stage

problem == <<chain, R>>
search == <<maxTf, P, Pmin, Pmax>>
vars == <<pc, problem, search, solution, best, e>>

Tasks == 1 .. chain.n
End == chain.n + 1              \* past the last task

\* The tasks b to t - 1.
Weight(b, t) == chain.cum[t - 1] - chain.cum[b - 1]
Duration(i) == Weight(i, i + 1)
Replicable(b, t) == \A i \in b .. t - 1 : chain.rep[i]

\* max_stateful_weight and max_weight_t: the set has one element.
MaxDurations(S) == {d \in {0} \cup {Duration(i) : i \in S} : \A i \in S : Duration(i) <= d}

CeilDiv(a, b) == (a + b - 1) \div b

\* weight(s, r) <= P, which no stage without units is.
Fits(b, t, r) == r > 0 /\ Weight(b, t) <= P * r

(***************************************************************************)
(* A stage has the tasks b to t - 1 and the r units that begin with pu, as *)
(* get_threads_mapping numbers them.                                       *)
(***************************************************************************)
NextUnit(stages) ==
    IF stages = <<>> THEN 0 ELSE stages[Len(stages)].pu + stages[Len(stages)].r
Extended(stages, b, t, r) ==
    Append(stages, [b |-> b, t |-> t, r |-> r, pu |-> NextUnit(stages)])

\* The weight of the longest stage, as a set.
StageWeight(s) == Weight(s.b, s.t) \div s.r
Longest(stages) ==
    LET weights == {StageWeight(stages[i]) : i \in 1 .. Len(stages)} IN
    {w \in weights : \A v \in weights : v <= w}

Init ==
    /\ pc = "profiled"
    /\ chain \in Chains /\ R \in Resources
    /\ maxTf = 0 /\ P = 0 /\ Pmin = 0 /\ Pmax = 0
    /\ solution = <<>> /\ best = <<>>
    /\ e = 1

(***************************************************************************)
(* SOLVE                                                                   *)
(***************************************************************************)
Eps == Scale \div R

Schedule ==
    /\ pc \in {"profiled", "done"}
    /\ maxTf' \in MaxDurations({i \in Tasks : ~chain.rep[i]})
    /\ LET all == Weight(1, End) \div R IN Pmin' = IF all > maxTf' THEN all ELSE maxTf'
    /\ \E d \in MaxDurations(Tasks) : Pmax' = Pmin' + d
    /\ best' = <<>>
    /\ IF R = 1
       THEN /\ P' = Pmax'
            /\ solution' = Extended(<<>>, 1, End, R)
            /\ pc' = "done"
       ELSE /\ P' = (Pmax' + Pmin') \div 2
            /\ solution' = <<>>
            /\ pc' = "solve"
    /\ UNCHANGED <<problem, e>>

CoarseSearch == Pmax - Pmin > Scale /\ P > maxTf    \* mutant of Searching
SearchToTheEnd == Pmax > Pmin       \* mutant of Searching
Searching == Pmax - Pmin > Eps /\ P > maxTf

Probe ==
    /\ pc = "solve" /\ Searching
    /\ solution' = <<>>
    /\ e' = 1
    /\ pc' = "probe"
    /\ UNCHANGED <<problem, search, best>>

\* Enough units: the candidate becomes the longest stage of the packing.
PeriodAsked(stages) == {P}          \* mutant of PeriodFound
PeriodFound(stages) == Longest(stages)

Found ==
    /\ pc = "probe" /\ e = End /\ NextUnit(solution) <= R
    /\ Pmax' \in PeriodFound(solution)
    /\ best' = solution
    /\ P' = (Pmax' + Pmin) \div 2
    /\ pc' = "solve"
    /\ UNCHANGED <<problem, maxTf, Pmin, solution, e>>

NotFound ==
    /\ pc = "probe" /\ e = End /\ NextUnit(solution) > R
    /\ Pmin' = P
    /\ P' = (Pmax + Pmin') \div 2
    /\ pc' = "solve"
    /\ UNCHANGED <<problem, maxTf, Pmax, solution, best, e>>

Finish ==
    /\ pc = "solve" /\ ~Searching
    /\ solution' = best
    /\ pc' = "done"
    /\ UNCHANGED <<problem, search, best, e>>

(***************************************************************************)
(* PROBE.  Each predicate says where a loop that moves one bound of a stage*)
(* stops.                                                                  *)
(***************************************************************************)
\* main_loop_packing: the stage takes tasks while one unit is enough.
MainLoop(b, m) ==
    /\ m \in b + 1 .. End
    /\ m = b + 1 \/ Fits(b, m, 1)
    /\ m < End => ~Fits(b, m + 1, 1)

\* mutant of StatelessPacking: one task too many
StatelessTooFar(m, f) == f \in m .. End /\ Replicable(m, f - 1) /\ (f < End => ~chain.rep[f - 1])

\* stateless_packing: it takes all the replicable tasks that follow.
StatelessPacking(m, f) ==
    /\ f \in m .. End
    /\ Replicable(m, f)
    /\ f < End => ~chain.rep[f]

\* The stage gives its last task, e, to the stage of task f.  What that stage has
\* already got is the list s_temp: task f, and the tasks from f down to e + 2,
\* so that task f is counted twice and task e + 1 is not.
Gives(e_, f) ==
    LET got == IF e_ + 1 = f THEN Duration(f) ELSE Duration(f) + Weight(e_ + 2, f + 1) IN
    Duration(e_) + got <= P

\* extra_tasks_packing: it gives its last tasks to the stage of task f while
\* they fit in there.
ExtraTasks(b, f, x) ==
    /\ x \in b + 1 .. f
    /\ \A y \in x .. f - 1 : Gives(y, f)
    /\ x > b + 1 => ~Gives(x - 1, f)

\* improved_packing: with r units, it takes tasks again.
ImprovedPacking(b, x, r, y) ==
    /\ y \in x .. End
    /\ y = x \/ Fits(b, y, r)
    /\ y < End => ~Fits(b, y + 1, r)

Pack(t, r) ==
    /\ solution' = Extended(solution, e, t, r)
    /\ e' = t
    /\ UNCHANGED <<pc, problem, search, best>>

Units(b, t) == CeilDiv(Weight(b, t), P)

Packing == pc = "probe" /\ e < End

\* The stage ends with the main loop.
PackMain ==
    /\ Packing
    /\ \E m \in Tasks \cup {End} :
        /\ MainLoop(e, m)
        /\ m = End \/ ~Replicable(e, m)
        /\ Pack(m, Units(e, m))

\* Nothing has to be given back: no task is left, or none was added.
PackStateless ==
    /\ Packing
    /\ \E m, f \in Tasks \cup {End} :
        /\ MainLoop(e, m) /\ m < End /\ Replicable(e, m)
        /\ StatelessPacking(m, f) /\ (f = End \/ f = m)
        /\ Pack(f, Units(e, f))

\* The last tasks are given to the next stage if this saves a unit.
PackExtra ==
    /\ Packing
    /\ \E m, f, x \in Tasks \cup {End} :
        /\ MainLoop(e, m) /\ m < End /\ Replicable(e, m)
        /\ StatelessPacking(m, f) /\ f < End /\ f # m
        /\ ExtraTasks(e, f, x)
        /\ LET r == Units(e, f) IN
            IF Fits(e, x, r - 1)
            THEN \E y \in Tasks \cup {End} : ImprovedPacking(e, x, r - 1, y) /\ Pack(y, r - 1)
            ELSE Pack(f, r)

Next == Schedule \/ Probe \/ Found \/ NotFound \/ Finish \/ PackMain \/ PackStateless \/ PackExtra

Spec == Init /\ [][Next]_vars

\* schedule is called by the user; once called it runs.
FairSpec == Spec /\ WF_vars(Probe \/ Found \/ NotFound \/ Finish \/ PackMain \/ PackStateless \/ PackExtra)

(***************************************************************************)
(* Properties                                                              *)
(***************************************************************************)
TypeOK ==
    /\ pc \in {"profiled", "solve", "probe", "done"}
    /\ chain \in Chains /\ R \in Resources
    /\ maxTf \in Nat /\ P \in Nat /\ Pmin \in Nat /\ Pmax \in Nat
    /\ solution \in Seq([b : Nat, t : Nat, r : Nat, pu : Nat])
    /\ best \in Seq([b : Nat, t : Nat, r : Nat, pu : Nat])
    /\ e \in 1 .. End

\* The stages have each a task and a unit, and follow one another from the first
\* task to the task "last" and from unit 0.
Partition(stages, last) ==
    /\ \A i \in 1 .. Len(stages) :
        /\ stages[i].b \in Tasks /\ stages[i].t \in stages[i].b + 1 .. End
        /\ stages[i].r > 0
        /\ stages[i].b = IF i = 1 THEN 1 ELSE stages[i - 1].t
        /\ stages[i].pu = IF i = 1 THEN 0 ELSE stages[i - 1].pu + stages[i - 1].r
    /\ last = IF stages = <<>> THEN 1 ELSE stages[Len(stages)].t

\* Two stages with several threads never follow each other, which the pipeline
\* is documented not to support (docs/pipeline.md).
ReplicasApart ==
    \A i \in 1 .. Len(solution) - 1 : solution[i].r > 1 => solution[i + 1].r = 1

\* A pipeline can be made of the solution: its stages are the tasks in order,
\* they need no more than the R units, only replicable tasks have several, and
\* replicated stages are apart.
Schedulable ==
    /\ pc = "done" /\ solution # <<>> =>
        /\ Partition(solution, End)
        /\ NextUnit(solution) <= R
        /\ \A i \in 1 .. Len(solution) :
            solution[i].r > 1 => Replicable(solution[i].b, solution[i].t)
    /\ ReplicasApart

\* The shortest period that any cut of the chain can have, by dynamic programming:
\* best[b, k] is that of the tasks from b on, with k units.
ShortestPeriod ==
    LET never == chain.cum[chain.n] + 1
        best_[b \in 1 .. End, k \in 0 .. R] ==
            IF b = End THEN 0 ELSE
            LET Slower(t, r) ==
                    LET first == Weight(b, t) \div r IN
                    IF first > best_[t, k - r] THEN first ELSE best_[t, k - r]
                periods == {Slower(c[1], c[2]) :
                    c \in {d \in (b + 1 .. End) \X (1 .. k) : d[2] = 1 \/ Replicable(b, d[1])}} IN
            IF periods = {} THEN never
            ELSE CHOOSE w \in periods : \A v \in periods : w <= v IN
    best_[1, R]

\* No stage is slower than the pipeline is said to be: the period exceeds by a task
\* at most what the sum of the tasks or the longest stateful one impose, and, with
\* several units, what get_period tells by the precision of the search.
PeriodBounded ==
    pc = "done" =>
        \A period \in Longest(solution) :
            /\ \A d \in MaxDurations(Tasks), stateful \in MaxDurations({i \in Tasks : ~chain.rep[i]}) :
                \/ period <= stateful + d
                \/ period <= Weight(1, End) \div R + d
            /\ R > 1 => period <= P + Eps

\* Giving away the third replicable task before a stateful one, extra_tasks_packing
\* counts the stateful one twice, and may stop too early: a longer period may then
\* need more units.
CountedOnce == \A f \in Tasks : f > 3 /\ Replicable(f - 3, f) => chain.rep[f]

\* But for that a solution is found, its period is the shortest with the precision of
\* the search, and get_period does not tell a longer one.
NearlyOptimal ==
    pc = "done" /\ CountedOnce =>
        /\ solution # <<>>
        /\ \A period \in Longest(solution) :
            /\ period <= ShortestPeriod + Eps
            /\ R > 1 => P <= period

\* The search ends.
Termination == pc = "solve" ~> pc = "done"

=============================================================================
