-------------------------- MODULE Scheduling_proofs --------------------------
(***************************************************************************)
(* From the profile of a sequence to threads that are free.  First, what   *)
(* SchedulerOTAC guarantees for every chain and every number of units: a   *)
(* solution can be made into a pipeline, and its replicated stages are     *)
(* apart.  The second is why the first holds after improved_packing, which *)
(* takes tasks without looking whether they are replicable: it saves a unit*)
(* only if it does not get back to the task that ended the stage.          *)
(*                                                                         *)
(* Then, what Pinning guarantees for every pipeline: whoever is pinned     *)
(* while it is built or executed is freed before threads are created or    *)
(* started, for they inherit the place of their creator.                   *)
(***************************************************************************)
EXTENDS SchedulerOTAC, Pinning, WellFoundedInduction, SequenceTheorems, TLAPS

\* What the proofs use of the integer division.
LEMMA DivFacts ==
  ASSUME NEW a \in Nat, NEW p \in Nat \ {0}
  PROVE  a \div p \in Nat /\ p * (a \div p) <= a /\ a < p * (a \div p) + p
  OBVIOUS

\* The number of units is enough, and with one less it would not be.
LEMMA CeilDivFacts ==
  ASSUME NEW a \in Nat \ {0}, NEW p \in Nat \ {0}
  PROVE  /\ CeilDiv(a, p) \in Nat \ {0}
         /\ a <= p * CeilDiv(a, p)
         /\ p * (CeilDiv(a, p) - 1) < a
         /\ a <= p => CeilDiv(a, p) = 1
<1> DEFINE q == (a + p - 1) \div p
<1>1. q \in Nat /\ p * q <= a + p - 1 /\ a + p - 1 < p * q + p
  BY DivFacts
<1>2. q # 0
  BY <1>1
<1> HIDE DEF q
<1>3. p * (q - 1) = p * q - p
  BY <1>1
<1>4. ASSUME a <= p PROVE q = 1
  <2>1. SUFFICES ASSUME q >= 2 PROVE FALSE
    BY <1>1, <1>2
  <2>2. p * q >= p * 2
    BY <2>1, <1>1
  <2> QED BY <2>2, <1>1, <1>4
<1> QED BY <1>1, <1>2, <1>3, <1>4 DEF CeilDiv, q

StageType == [b : Nat, t : Nat, r : Nat, pu : Nat]
StageSeqs == Seq(StageType)

\* The part of the type invariant that the packing leaves alone.
Problem ==
  /\ chain \in Chains /\ R \in Resources
  /\ maxTf \in Nat /\ P \in Nat

\* A chain has a first and a last task, and its cumulated durations are numbers.
LEMMA ChainFacts ==
  ASSUME chain \in Chains
  PROVE  /\ chain.n \in Nat \ {0} /\ End \in Nat
         /\ \A i, j \in 0 .. chain.n : i < j => chain.cum[i] < chain.cum[j]
         /\ \A i \in 0 .. chain.n : chain.cum[i] \in Nat
  BY ChainsAssumption DEF IsChain, End

\* Weights and durations are numbers, and a stage is as heavy as its parts.
LEMMA WeightFacts ==
  ASSUME chain \in Chains, NEW b \in 1 .. End, NEW t \in 1 .. End, b <= t
  PROVE  /\ Weight(b, t) \in Nat
         /\ b < t => Weight(b, t) > 0
         /\ \A u \in 1 .. End : t <= u => Weight(b, u) = Weight(b, t) + Weight(t, u)
<1>1. chain.n \in Nat \ {0} /\ b - 1 \in 0 .. chain.n /\ t - 1 \in 0 .. chain.n
  BY ChainFacts DEF End
<1>2. chain.cum[b - 1] \in Nat /\ chain.cum[t - 1] \in Nat
  BY <1>1, ChainFacts
<1>3. b < t => chain.cum[b - 1] < chain.cum[t - 1]
  BY <1>1, ChainFacts
<1>4. b = t => Weight(b, t) = 0
  BY <1>2 DEF Weight
<1>5. ASSUME NEW u \in 1 .. End, t <= u
      PROVE  Weight(b, u) = Weight(b, t) + Weight(t, u)
  <2>1. u - 1 \in 0 .. chain.n
    BY <1>1 DEF End
  <2>2. chain.cum[u - 1] \in Nat
    BY <2>1, ChainFacts
  <2> QED BY <1>2, <2>2 DEF Weight
<1> QED BY <1>2, <1>3, <1>4, <1>5 DEF Weight

(***************************************************************************)
(* The inductive invariant.                                                *)
(***************************************************************************)
Lone(s) == \A i \in 1 .. Len(s) : s[i].r > 1 => Replicable(s[i].b, s[i].t)
Apart(s) == \A i \in 1 .. Len(s) - 1 : s[i].r > 1 => s[i + 1].r = 1
Good(s, last) == Partition(s, last) /\ Lone(s) /\ Apart(s)
LastUnits(s) == IF s = <<>> THEN 1 ELSE s[Len(s)].r

\* After a replicated stage come tasks that it gave to the stage of task f, which is
\* not replicable.
Given(b) ==
  \E f \in Tasks :
    b <= f /\ ~chain.rep[f] /\ Replicable(b, f) /\ \A y \in b .. f - 1 : Gives(y, f)

LongestStateful == \A i \in Tasks : ~chain.rep[i] => Duration(i) <= maxTf

IInv ==
  /\ TypeOK
  /\ pc # "profiled" => LongestStateful
  /\ pc = "probe" =>
        /\ P > maxTf /\ Good(solution, e)
        /\ LastUnits(solution) > 1 /\ e < End => Given(e)
  /\ Apart(solution)
  /\ best # <<>> => Good(best, End) /\ NextUnit(best) <= R
  /\ pc = "done" /\ solution # <<>> => Good(solution, End) /\ NextUnit(solution) <= R

\* The invariant says what a caller of schedule expects of its solution.
LEMMA ImpliesSchedulable == IInv => Schedulable
  BY DEF IInv, Schedulable, ReplicasApart, Good, Lone, Apart

\* A sequence that is not empty has a last element.
LEMMA NonEmptyLen ==
  ASSUME NEW s \in StageSeqs, s # <<>>
  PROVE  Len(s) \in 1 .. Len(s)
<1>1. Len(s) \in Nat /\ Len(s) # 0
  BY DEF StageSeqs
<1> QED BY <1>1

\* A partition ends with the units it has numbered.
LEMMA NextUnitType ==
  ASSUME NEW s \in StageSeqs
  PROVE  NextUnit(s) \in Nat
<1>1. CASE s = <<>>
  BY <1>1 DEF NextUnit
<1>2. CASE s # <<>>
  <2>1. Len(s) \in 1 .. Len(s)
    BY <1>2, NonEmptyLen
  <2>2. \A i \in 1 .. Len(s) : s[i] \in StageType
    BY DEF StageSeqs
  <2>3. s[Len(s)].pu \in Nat /\ s[Len(s)].r \in Nat
    BY <2>1, <2>2 DEF StageType
  <2> QED BY <1>2, <2>3 DEF NextUnit
<1> QED BY <1>1, <1>2

\* A stage is added where the others end.
LEMMA Extension ==
  ASSUME chain \in Chains, NEW s \in StageSeqs, NEW b \in Tasks, NEW t \in b + 1 .. End,
         NEW r \in Nat \ {0}, Good(s, b),
         r > 1 => Replicable(b, t) /\ LastUnits(s) = 1
  PROVE  Extended(s, b, t, r) \in StageSeqs /\ Good(Extended(s, b, t, r), t)
<1> DEFINE new == [b |-> b, t |-> t, r |-> r, pu |-> NextUnit(s)]
           x == Append(s, new)
<1>0. chain.n \in Nat \ {0} /\ End = chain.n + 1
  BY ChainFacts DEF End
<1>1. new \in StageType
  BY <1>0, NextUnitType DEF Tasks, StageType
<1> HIDE DEF new
<1>2. x \in StageSeqs /\ Len(x) = Len(s) + 1 /\ Len(s) \in Nat
  BY <1>1 DEF StageSeqs
<1>3. \A i \in 1 .. Len(s) : x[i] = s[i]
  BY <1>1 DEF StageSeqs
<1>4. x[Len(s) + 1] = new /\ x # <<>>
  BY <1>1, <1>2 DEF StageSeqs
<1> HIDE DEF x
<1>5. new.b = b /\ new.t = t /\ new.r = r /\ new.pu = NextUnit(s)
  BY DEF new
<1>6. Partition(x, t)
  <2>1. ASSUME NEW i \in 1 .. Len(x)
        PROVE  /\ x[i].b \in Tasks /\ x[i].t \in x[i].b + 1 .. End
               /\ x[i].r > 0
               /\ x[i].b = IF i = 1 THEN 1 ELSE x[i - 1].t
               /\ x[i].pu = IF i = 1 THEN 0 ELSE x[i - 1].pu + x[i - 1].r
    <3>1. CASE i <= Len(s)
      <4>1. i \in 1 .. Len(s) /\ (i # 1 => i - 1 \in 1 .. Len(s))
        BY <1>2, <3>1
      <4> QED BY <1>3, <4>1 DEF Good, Partition
    <3>2. CASE i = Len(s) + 1
      <4>1. x[i] = new
        BY <1>4, <3>2
      <4>2. CASE s = <<>>
        <5>1. i = 1 /\ b = 1
          BY <4>2, <3>2 DEF Good, Partition
        <5> QED BY <4>1, <5>1, <1>5, <4>2 DEF NextUnit
      <4>3. CASE s # <<>>
        <5>1. Len(s) \in 1 .. Len(s) /\ i # 1 /\ i - 1 = Len(s)
          BY <4>3, <3>2, <1>2, NonEmptyLen
        <5>2. x[i - 1] = s[Len(s)]
          BY <5>1, <1>3
        <5>3. b = s[Len(s)].t
          BY <4>3 DEF Good, Partition
        <5> QED BY <4>1, <5>1, <5>2, <5>3, <1>5, <4>3 DEF NextUnit
      <4> QED BY <4>2, <4>3
    <3> QED BY <1>2, <3>1, <3>2
  <2>2. t = x[Len(x)].t
    BY <1>2, <1>4, <1>5
  <2> QED BY <2>1, <2>2, <1>4 DEF Partition
<1>7. Lone(x)
  <2> SUFFICES ASSUME NEW i \in 1 .. Len(x), x[i].r > 1 PROVE Replicable(x[i].b, x[i].t)
    BY DEF Lone
  <2>1. CASE i <= Len(s)
    BY <2>1, <1>2, <1>3 DEF Good, Lone
  <2>2. CASE i = Len(s) + 1
    BY <2>2, <1>4, <1>5
  <2> QED BY <2>1, <2>2, <1>2
<1>8. Apart(x)
  <2> SUFFICES ASSUME NEW i \in 1 .. Len(x) - 1, x[i].r > 1 PROVE x[i + 1].r = 1
    BY DEF Apart
  <2>1. CASE i < Len(s)
    <3>1. i \in 1 .. Len(s) /\ i + 1 \in 1 .. Len(s) /\ i \in 1 .. Len(s) - 1
      BY <2>1, <1>2
    <3> QED BY <3>1, <1>3 DEF Good, Apart
  <2>2. CASE i = Len(s)
    <3>1. s # <<>> /\ i \in 1 .. Len(s)
      BY <2>2, <1>2
    <3>2. LastUnits(s) = x[i].r
      BY <3>1, <2>2, <1>3 DEF LastUnits
    <3>3. r = 1
      BY <3>2
    <3> QED BY <2>2, <3>3, <1>4, <1>5
  <2> QED BY <2>1, <2>2, <1>2
<1> QED BY <1>2, <1>6, <1>7, <1>8 DEF Good, Extended, x, new

(***************************************************************************)
(* One stage of PROBE.  PackStep is what the three actions have in common: *)
(* the premises say what the way the stage was found must ensure.          *)
(***************************************************************************)
LEMMA PackStep ==
  ASSUME IInv, Packing, NEW t \in e + 1 .. End, NEW r \in Nat \ {0}, Pack(t, r),
         r > 1 => Replicable(e, t) /\ LastUnits(solution) = 1,
         r > 1 /\ t < End => Given(t)
  PROVE  IInv'
<1>1. chain \in Chains /\ e \in Tasks /\ t \in e + 1 .. End /\ solution \in StageSeqs
  BY ChainFacts DEF IInv, TypeOK, Packing, Tasks, End, StageSeqs, StageType
<1>2. Good(solution, e)
  BY DEF IInv, Packing
<1>3. Extended(solution, e, t, r) \in StageSeqs /\ Good(Extended(solution, e, t, r), t)
  BY <1>1, <1>2, Extension
<1>4. solution' = Extended(solution, e, t, r) /\ e' = t /\ pc' = "probe"
      /\ UNCHANGED <<chain, R, maxTf, P, Pmin, Pmax, best>>
  BY DEF Pack, Packing, problem, search
<1>5. LastUnits(solution') = r
  <2>1. solution' # <<>> /\ Len(solution') = Len(solution) + 1 /\ solution'[Len(solution')].r = r
    BY <1>1, <1>4 DEF Extended, StageSeqs
  <2> QED BY <2>1 DEF LastUnits
<1>6. TypeOK'
  BY <1>3, <1>4 DEF IInv, TypeOK, StageSeqs, StageType, End
<1>7. LongestStateful'
  BY <1>4 DEF IInv, Packing, LongestStateful, Duration, Weight, Tasks
<1>8. P' > maxTf' /\ Good(solution, e)' /\ Apart(solution)'
  <2>1. P' > maxTf'
    BY <1>4 DEF IInv, Packing
  <2>2. Good(solution, e)'
    BY <1>3, <1>4 DEF Good, Partition, Lone, Apart, Replicable, Tasks, End
  <2> QED BY <2>1, <2>2 DEF Good
<1>9. LastUnits(solution') > 1 /\ e' < End' => Given(e)'
  BY <1>4, <1>5 DEF Given, Gives, Replicable, Duration, End, Tasks, Weight
<1>10. best' # <<>> => Good(best, End)' /\ NextUnit(best)' <= R'
  BY <1>4 DEF IInv, Good, Partition, Lone, Apart, Replicable, NextUnit, Tasks, End
<1> QED BY <1>4, <1>6, <1>7, <1>8, <1>9, <1>10 DEF IInv

\* What each way of packing knows of the first task and of the period.
LEMMA PackingFacts ==
  ASSUME IInv, Packing
  PROVE  /\ chain \in Chains /\ e \in Tasks /\ e < End /\ Tasks \subseteq Nat
         /\ End \in Nat \ {0} /\ P \in Nat \ {0}
         /\ \A i \in Tasks : ~chain.rep[i] => Weight(i, i + 1) <= P
         /\ LastUnits(solution) > 1 => Given(e)
         /\ LastUnits(solution) \in Nat \ {0}
<1>1. /\ chain \in Chains /\ chain.n \in Nat \ {0} /\ End = chain.n + 1 /\ e \in Tasks /\ e < End
      /\ Tasks \subseteq Nat /\ P \in Nat \ {0}
  BY ChainFacts DEF IInv, TypeOK, Packing, End, Tasks
<1>2. ASSUME NEW i \in Tasks, ~chain.rep[i] PROVE Weight(i, i + 1) <= P
  <2>1. Weight(i, i + 1) \in Nat
    <3>1. i \in 1 .. End /\ i + 1 \in 1 .. End /\ i <= i + 1
      BY <1>1 DEF Tasks
    <3> QED BY <1>1, <3>1, WeightFacts
  <2>2. Weight(i, i + 1) <= maxTf /\ maxTf \in Nat /\ P \in Nat /\ P > maxTf
    BY <1>2 DEF IInv, TypeOK, Packing, LongestStateful, Duration
  <2> QED BY <2>1, <2>2
<1>3. LastUnits(solution) > 1 => Given(e)
  BY DEF IInv, Packing
<1>4. LastUnits(solution) \in Nat \ {0}
  <2>1. CASE solution = <<>>
    BY <2>1 DEF LastUnits
  <2>2. CASE solution # <<>>
    <3>1. solution \in StageSeqs
      BY DEF IInv, TypeOK, StageSeqs, StageType
    <3>2. Len(solution) \in 1 .. Len(solution)
      BY <2>2, <3>1, NonEmptyLen
    <3>3. solution[Len(solution)] \in StageType
      BY <3>1, <3>2 DEF StageSeqs
    <3>4. solution[Len(solution)].r \in Nat /\ solution[Len(solution)].r > 0
      BY <3>2, <3>3 DEF IInv, Packing, Good, Partition, StageType
    <3> QED BY <2>2, <3>4 DEF LastUnits
  <2> QED BY <2>1, <2>2
<1> QED BY <1>1, <1>2, <1>3, <1>4

\* A task that is not replicable ends up in a stage with one unit ...
LEMMA OneUnit ==
  ASSUME IInv, Packing, NEW m \in e + 1 .. End, MainLoop(e, m), ~Replicable(e, m)
  PROVE  Weight(e, m) <= P
<1>1. CASE m = e + 1
  <2>1. ~chain.rep[e]
    BY <1>1, PackingFacts DEF Replicable
  <2> QED BY <1>1, <2>1, PackingFacts
<1>2. CASE m # e + 1
  <2>1. Weight(e, m) <= P * 1
    BY <1>2 DEF MainLoop, Fits
  <2> QED BY <2>1, PackingFacts
<1> QED BY <1>1, <1>2

\* ... and what was given to its stage fits on two units, the first task on one.
LEMMA GivenFits ==
  ASSUME IInv, Packing, NEW f \in Tasks, e < f, \A y \in e .. f - 1 : Gives(y, f)
  PROVE  Weight(e, e + 1) <= P /\ Weight(e, f) <= 2 * P
<1>1. /\ e \in 1 .. End /\ f \in 1 .. End /\ e + 1 \in 1 .. End /\ f + 1 \in 1 .. End
      /\ e \in Nat /\ f \in Nat /\ P \in Nat /\ End \in Nat /\ chain \in Chains
  BY PackingFacts, ChainFacts DEF Tasks, End
<1>2. Weight(e, e + 1) \in Nat /\ Weight(f, f + 1) \in Nat
  BY <1>1, WeightFacts
<1>3. Gives(e, f)
  BY <1>1
<1>4. CASE f = e + 1
  BY <1>2, <1>3, <1>4, <1>1 DEF Gives, Duration
<1>5. CASE f # e + 1
  <2>1. /\ e + 2 \in 1 .. End /\ e + 1 <= e + 2 /\ e + 2 <= f /\ e + 2 <= f + 1 /\ f <= f + 1
        /\ e + 1 \in e .. f - 1 /\ (e + 1) + 1 = e + 2
    <3>1. e + 2 <= f
      BY <1>1, <1>5
    <3> QED BY <1>1, <3>1
  <2>2. Weight(e + 1, e + 2) \in Nat /\ Weight(e + 2, f) \in Nat /\ Weight(e + 2, f + 1) \in Nat
    BY <1>1, <2>1, WeightFacts
  <2>3. Weight(e, f) = Weight(e, e + 1) + Weight(e + 1, f)
    BY <1>1, <2>1, WeightFacts
  <2>4. Weight(e + 1, f) = Weight(e + 1, e + 2) + Weight(e + 2, f)
    BY <1>1, <2>1, WeightFacts
  <2>5. Weight(e + 2, f + 1) = Weight(e + 2, f) + Weight(f, f + 1)
    BY <1>1, <2>1, WeightFacts
  <2>6. Weight(e, e + 1) + (Weight(f, f + 1) + Weight(e + 2, f + 1)) <= P
    BY <1>3, <1>5 DEF Gives, Duration
  <2>7. Weight(e + 1, e + 2) <= P
    <3>1. Gives(e + 1, f)
      BY <2>1
    <3>2. CASE f = e + 2
      BY <3>1, <3>2, <2>1, <1>1, <1>2, <2>2 DEF Gives, Duration
    <3>3. CASE f # e + 2
      <4>1. e + 3 \in 1 .. End /\ e + 3 <= f + 1 /\ (e + 1) + 2 = e + 3
        BY <3>3, <1>1, <2>1
      <4>2. Weight(e + 3, f + 1) \in Nat
        BY <1>1, <4>1, WeightFacts
      <4>3. Weight(e + 1, e + 2) + (Weight(f, f + 1) + Weight(e + 3, f + 1)) <= P
        BY <3>1, <3>3, <2>1, <4>1 DEF Gives, Duration
      <4> QED BY <4>2, <4>3, <1>1, <1>2, <2>2
    <3> QED BY <3>2, <3>3
  <2> QED BY <1>1, <1>2, <2>2, <2>3, <2>4, <2>5, <2>6, <2>7
<1> QED BY <1>4, <1>5

\* After a replicated stage the main loop passes the task that is not replicable, or
\* stateless_packing stops at it.
LEMMA StopsAtStateful ==
  ASSUME IInv, Packing, LastUnits(solution) # 1, NEW m \in e + 1 .. End, MainLoop(e, m), Replicable(e, m)
  PROVE  /\ m < End
         /\ \A f \in m .. End : StatelessPacking(m, f) =>
              f \in Tasks /\ e < f /\ \A y \in e .. f - 1 : Gives(y, f)
<1>1. PICK g \in Tasks :
        e <= g /\ ~chain.rep[g] /\ Replicable(e, g) /\ \A y \in e .. g - 1 : Gives(y, g)
  BY PackingFacts DEF Given
<1>2. e \in Nat /\ g \in Nat /\ End \in Nat /\ g < End
  BY PackingFacts, ChainFacts DEF Tasks, End
<1>3. m <= g
  BY <1>1, <1>2 DEF Replicable
<1>4. ASSUME NEW f \in m .. End, StatelessPacking(m, f) PROVE f = g
  <2>1. ~(g < f)
    BY <1>1, <1>2, <1>3, <1>4 DEF StatelessPacking, Replicable
  <2>2. ~(f < g)
    BY <1>1, <1>2, <1>3, <1>4 DEF StatelessPacking, Replicable
  <2> QED BY <2>1, <2>2, <1>2
<1> QED BY <1>1, <1>2, <1>3, <1>4

\* A stage that ends where the period does.
LEMMA PackMainStep == ASSUME IInv, PackMain PROVE IInv'
<1>0. Packing
  BY DEF PackMain
<1>1. PICK m \in Tasks \cup {End} :
        MainLoop(e, m) /\ (m = End \/ ~Replicable(e, m)) /\ Pack(m, Units(e, m))
  BY DEF PackMain
<1>2. m \in e + 1 .. End /\ e \in 1 .. End /\ m \in 1 .. End /\ e <= m /\ e < m
  BY <1>0, <1>1, PackingFacts DEF MainLoop, Tasks
<1>3. Weight(e, m) \in Nat \ {0} /\ P \in Nat \ {0}
  BY <1>0, <1>2, PackingFacts, WeightFacts
<1> DEFINE r == Units(e, m)
<1>4. r \in Nat \ {0} /\ (Weight(e, m) <= P => r = 1)
  BY <1>3, CeilDivFacts DEF Units
<1>5. ~Replicable(e, m) => r = 1
  BY <1>0, <1>1, <1>2, <1>4, OneUnit
<1>6. LastUnits(solution) # 1 => r = 1
  BY <1>0, <1>1, <1>2, <1>5, StopsAtStateful
<1> HIDE DEF r
<1>7. r > 1 => Replicable(e, m) /\ LastUnits(solution) = 1 /\ m = End
  BY <1>1, <1>4, <1>5, <1>6
<1>8. Pack(m, r)
  BY <1>1 DEF r
<1> QED BY <1>0, <1>2, <1>4, <1>7, <1>8, PackStep

\* A stage extended up to the next task that is not replicable.
LEMMA PackStatelessStep == ASSUME IInv, PackStateless PROVE IInv'
<1>0. Packing
  BY DEF PackStateless
<1>1. PICK m \in Tasks \cup {End}, f \in Tasks \cup {End} :
        /\ MainLoop(e, m) /\ m < End /\ Replicable(e, m)
        /\ StatelessPacking(m, f) /\ (f = End \/ f = m)
        /\ Pack(f, Units(e, f))
  BY DEF PackStateless
<1>2. /\ m \in e + 1 .. End /\ f \in m .. End /\ e \in 1 .. End /\ f \in 1 .. End
      /\ f \in e + 1 .. End /\ e <= f /\ e < f
  BY <1>0, <1>1, PackingFacts DEF MainLoop, StatelessPacking, Tasks
<1>3. Weight(e, f) \in Nat \ {0} /\ P \in Nat \ {0}
  BY <1>0, <1>2, PackingFacts, WeightFacts
<1> DEFINE r == Units(e, f)
<1>4. r \in Nat \ {0}
  BY <1>3, CeilDivFacts DEF Units
<1>5. Replicable(e, f)
  BY <1>1, <1>2 DEF StatelessPacking, Replicable
<1>6. LastUnits(solution) # 1 => r = 1
  <2> SUFFICES ASSUME LastUnits(solution) # 1 PROVE Weight(e, f) <= P
    BY <1>3, CeilDivFacts DEF Units
  <2>1. f \in Tasks /\ \A y \in e .. f - 1 : Gives(y, f)
    BY <1>0, <1>1, <1>2, StopsAtStateful
  <2>2. f = m
    BY <1>1, <2>1, PackingFacts, ChainFacts, <1>0 DEF Tasks, End
  <2>3. CASE m = e + 1
    BY <2>1, <2>2, <2>3, <1>0, <1>2, GivenFits
  <2>4. CASE m # e + 1
    BY <2>2, <2>4, <1>1, <1>3 DEF MainLoop, Fits
  <2> QED BY <2>3, <2>4
<1>7. f < End => Given(f)
  <2> SUFFICES ASSUME f < End PROVE Given(f)
    OBVIOUS
  <2>1. f \in Tasks /\ ~chain.rep[f] /\ f <= f /\ f .. f - 1 = {} /\ Replicable(f, f)
    BY <1>0, <1>1, <1>2, PackingFacts DEF StatelessPacking, Tasks, End, Replicable
  <2> QED BY <2>1 DEF Given
<1> HIDE DEF r
<1>8. Pack(f, r)
  BY <1>1 DEF r
<1> QED BY <1>0, <1>2, <1>4, <1>5, <1>6, <1>7, <1>8, PackStep

\* The step that could put a task that is not replicable on several units.
LEMMA PackExtraStep == ASSUME IInv, PackExtra PROVE IInv'
<1>0. Packing
  BY DEF PackExtra
<1>1. PICK m \in Tasks \cup {End}, f \in Tasks \cup {End}, x \in Tasks \cup {End} :
        /\ MainLoop(e, m) /\ m < End /\ Replicable(e, m)
        /\ StatelessPacking(m, f) /\ f < End /\ f # m
        /\ ExtraTasks(e, f, x)
        /\ LET r == Units(e, f) IN
            IF Fits(e, x, r - 1)
            THEN \E y \in Tasks \cup {End} : ImprovedPacking(e, x, r - 1, y) /\ Pack(y, r - 1)
            ELSE Pack(f, r)
  BY DEF PackExtra
<1>2. /\ m \in e + 1 .. End /\ f \in m .. End /\ e \in 1 .. End /\ f \in 1 .. End /\ e \in Nat
      /\ f \in e + 1 .. End /\ e <= f /\ e < f /\ f + 1 \in 1 .. End /\ f <= f + 1 /\ f \in Tasks
      /\ x \in e + 1 .. f /\ x \in 1 .. End
  BY <1>0, <1>1, PackingFacts DEF MainLoop, StatelessPacking, ExtraTasks, Tasks, End
<1>3. Weight(e, f) \in Nat \ {0} /\ P \in Nat \ {0}
  BY <1>0, <1>2, PackingFacts, WeightFacts
<1> DEFINE r == Units(e, f)
<1>4. r \in Nat \ {0} /\ P * (r - 1) < Weight(e, f)
  BY <1>3, CeilDivFacts DEF Units
<1>5. Replicable(e, f)
  BY <1>1, <1>2 DEF StatelessPacking, Replicable
<1>6. ASSUME NEW y \in x .. f PROVE Given(y)
  <2>1. f \in Tasks /\ ~chain.rep[f] /\ y <= f
    BY <1>1, <1>2 DEF StatelessPacking
  <2>2. Replicable(y, f)
    BY <1>2, <1>5 DEF Replicable
  <2>3. \A z \in y .. f - 1 : Gives(z, f)
    BY <1>1, <1>2 DEF ExtraTasks
  <2> QED BY <2>1, <2>2, <2>3 DEF Given
\* After a replicated stage, all the tasks but the first go away with f.
<1>7. ASSUME LastUnits(solution) # 1
      PROVE  r = 1 \/ (r = 2 /\ Fits(e, x, 1))
  <2>1. \A y \in e .. f - 1 : Gives(y, f)
    BY <1>0, <1>1, <1>2, <1>7, StopsAtStateful
  <2>2. x = e + 1
    BY <1>1, <1>2, <2>1 DEF ExtraTasks
  <2>3. Weight(e, e + 1) <= P /\ Weight(e, f) <= 2 * P
    BY <1>0, <1>2, <2>1, GivenFits
  <2> HIDE DEF r
  <2>4. r <= 2
    <3>1. SUFFICES ASSUME r >= 3 PROVE FALSE
      BY <1>4
    <3>2. P * (r - 1) >= P * 2
      BY <3>1, <1>3, <1>4
    <3> QED BY <3>2, <2>3, <1>3, <1>4
  <2> QED BY <1>3, <1>4, <2>2, <2>3, <2>4 DEF Fits
<1> HIDE DEF r
<1>8. CASE Fits(e, x, r - 1)
  <2>1. PICK y \in Tasks \cup {End} : ImprovedPacking(e, x, r - 1, y) /\ Pack(y, r - 1)
    BY <1>1, <1>8 DEF r
  <2>2. y \in x .. End /\ y \in 1 .. End /\ y \in e + 1 .. End /\ r - 1 \in Nat \ {0}
    BY <1>2, <1>4, <1>8, <2>1 DEF ImprovedPacking, Fits
  <2>3. y <= f
    <3>1. SUFFICES ASSUME y > f PROVE FALSE
      BY <1>2, <2>2
    <3>2. Weight(e, y) <= P * (r - 1)
      BY <2>1, <1>2, <3>1 DEF ImprovedPacking, Fits
    <3>3. Weight(e, y) = Weight(e, f) + Weight(f, y) /\ Weight(f, y) \in Nat
      BY <1>0, <1>2, <2>2, <3>1, WeightFacts, PackingFacts
    <3>4. P * (r - 1) \in Nat
      BY <1>3, <2>2
    <3> QED BY <1>3, <1>4, <3>2, <3>3, <3>4
  <2>4. Replicable(e, y)
    BY <1>2, <1>5, <2>2, <2>3 DEF Replicable
  <2>5. Given(y)
    BY <1>2, <1>6, <2>2, <2>3
  <2>6. r - 1 > 1 => LastUnits(solution) = 1
    BY <1>4, <1>7
  <2> QED BY <1>0, <2>1, <2>2, <2>4, <2>5, <2>6, PackStep
<1>9. CASE ~Fits(e, x, r - 1)
  <2>1. Pack(f, r)
    BY <1>1, <1>9 DEF r
  <2>2. Given(f)
    BY <1>2, <1>6
  <2>3. r > 1 => LastUnits(solution) = 1
    BY <1>4, <1>7, <1>9
  <2> QED BY <1>0, <1>2, <1>4, <1>5, <2>1, <2>2, <2>3, PackStep
<1> QED BY <1>8, <1>9

(***************************************************************************)
(* SOLVE.                                                                  *)
(***************************************************************************)
LEMMA DurationType ==
  ASSUME chain \in Chains, NEW S \in SUBSET Tasks, NEW d \in MaxDurations(S)
  PROVE  d \in Nat
<1>1. CASE d = 0
  BY <1>1
<1>2. CASE d # 0
  <2>1. PICK i \in S : d = Weight(i, i + 1)
    BY <1>2 DEF MaxDurations, Duration
  <2>2. i \in 1 .. End /\ i + 1 \in 1 .. End /\ i <= i + 1
    <3>1. chain.n \in Nat \ {0} /\ i \in 1 .. chain.n
      BY ChainFacts DEF Tasks
    <3>2. i \in 1 .. chain.n + 1 /\ i + 1 \in 1 .. chain.n + 1 /\ i <= i + 1
      BY <3>1
    <3> QED BY <3>2 DEF End
  <2> QED BY <2>1, <2>2, WeightFacts
<1> QED BY <1>1, <1>2

\* What is said of sequences of stages depends on the chain only.
LEMMA SameChain ==
  ASSUME UNCHANGED chain
  PROVE  /\ End' = End /\ Tasks' = Tasks
         /\ \A i \in Tasks : Duration(i)' = Duration(i)
  BY DEF End, Tasks, Duration, Weight

\* The middle of the bisection is a number.
LEMMA HalfType ==
  ASSUME NEW a \in Nat
  PROVE  a \div 2 \in Nat
  BY DivFacts

\* At first there is no solution.
LEMMA InitStep == ASSUME Init PROVE IInv
<1>1. chain \in Chains /\ End \in Nat /\ End > 1
  BY ChainFacts DEF Init, End
<1> QED BY <1>1 DEF Init, IInv, TypeOK, Apart

\* The start of SOLVE finds the longest stateful task and the bounds.
LEMMA ScheduleStep == ASSUME IInv, Schedule PROVE IInv'
<1>1. /\ chain \in Chains /\ R \in Resources /\ R \in Nat \ {0} /\ UNCHANGED <<chain, R, e>>
      /\ End \in Nat /\ End > 1 /\ Tasks \subseteq Nat /\ best' = <<>>
  <2>1. chain \in Chains /\ R \in Resources
    BY DEF IInv, TypeOK
  <2>2. R \in Nat \ {0}
    BY <2>1, ResourcesAssumption
  <2>3. UNCHANGED <<chain, R, e>> /\ best' = <<>>
    BY DEF Schedule, problem
  <2>4. End \in Nat /\ End > 1 /\ Tasks \subseteq Nat
    BY <2>1, ChainFacts DEF End, Tasks
  <2> QED BY <2>1, <2>2, <2>3, <2>4
<1>2. maxTf' \in Nat /\ LongestStateful'
  <2>1. maxTf' \in MaxDurations({i \in Tasks : ~chain.rep[i]})
    BY DEF Schedule
  <2>2. \A i \in Tasks : ~chain.rep[i] => Duration(i) <= maxTf'
    BY <2>1 DEF MaxDurations
  <2> QED BY <1>1, <2>1, <2>2, DurationType, SameChain DEF LongestStateful
<1>3. Pmin' \in Nat
  <2>1. Weight(1, End) \in Nat
    BY <1>1, WeightFacts
  <2>2. Weight(1, End) \div R \in Nat
    BY <1>1, <2>1, DivFacts
  <2> QED BY <1>2, <2>2 DEF Schedule
<1>4. Pmax' \in Nat
  BY <1>1, <1>3, DurationType DEF Schedule
<1>5. P' \in Nat
  BY <1>3, <1>4, HalfType DEF Schedule
<1>6. CASE R = 1
  <2>1. solution' = Extended(<<>>, 1, End, 1) /\ pc' = "done"
    BY <1>6 DEF Schedule
  <2>2. <<>> \in StageSeqs /\ Good(<<>>, 1) /\ 1 \in Tasks /\ End \in 1 + 1 .. End
    BY <1>1, ChainFacts DEF StageSeqs, Good, Partition, Lone, Apart, Tasks, End
  <2>3. Extended(<<>>, 1, End, 1) \in StageSeqs /\ Good(Extended(<<>>, 1, End, 1), End)
    BY <1>1, <2>2, Extension
  <2>4. NextUnit(solution') <= R
    <3>1. solution' = <<[b |-> 1, t |-> End, r |-> 1, pu |-> 0]>>
      BY <2>1 DEF Extended, NextUnit
    <3>2. NextUnit(solution') = 1
      BY <3>1 DEF NextUnit
    <3> QED BY <3>2, <1>6
  <2>5. TypeOK'
    BY <1>1, <1>2, <1>3, <1>4, <1>5, <2>1, <2>3 DEF IInv, TypeOK, StageSeqs, StageType, End
  <2>6. Good(solution, End)' /\ NextUnit(solution)' <= R'
    BY <1>1, <2>1, <2>3, <2>4 DEF Good, Partition, Lone, Apart, Replicable, Tasks, End, NextUnit
  <2> QED BY <1>1, <1>2, <2>1, <2>5, <2>6 DEF IInv, Good
<1>7. CASE R # 1
  <2>1. solution' = <<>> /\ pc' = "solve"
    BY <1>7 DEF Schedule
  <2>2. TypeOK'
    BY <1>1, <1>2, <1>3, <1>4, <1>5, <2>1 DEF IInv, TypeOK, End
  <2>3. Apart(solution)'
    BY <2>1 DEF Apart
  <2> QED BY <1>1, <1>2, <2>1, <2>2, <2>3 DEF IInv
<1> QED BY <1>6, <1>7

\* The start of PROBE: no stage yet.
LEMMA ProbeStep == ASSUME IInv, Probe PROVE IInv'
<1>1. /\ chain \in Chains /\ End \in Nat /\ End > 1 /\ pc = "solve" /\ pc' = "probe" /\ P > maxTf
      /\ solution' = <<>> /\ e' = 1 /\ UNCHANGED <<chain, R, maxTf, P, Pmin, Pmax, best>>
  BY ChainFacts DEF IInv, TypeOK, Probe, Searching, problem, search, End
<1>2. TypeOK'
  BY <1>1 DEF IInv, TypeOK, End
<1>3. Good(solution, e)' /\ LastUnits(solution)' = 1
  BY <1>1 DEF Good, Partition, Lone, Apart, LastUnits
<1>4. LongestStateful'
  BY <1>1, SameChain DEF IInv, LongestStateful
<1>5. best' # <<>> => Good(best, End)' /\ NextUnit(best)' <= R'
  BY <1>1 DEF IInv, Good, Partition, Lone, Apart, Replicable, NextUnit, Tasks, End
<1> QED BY <1>1, <1>2, <1>3, <1>4, <1>5 DEF IInv, Good

\* The longest weight of a stage is a number.
LEMMA LongestType ==
  ASSUME chain \in Chains, NEW s \in StageSeqs, NEW last, Partition(s, last), NEW w \in Longest(s)
  PROVE  w \in Nat
<1>1. PICK i \in 1 .. Len(s) : w = StageWeight(s[i])
  BY DEF Longest
<1>2. s[i].b \in Tasks /\ s[i].t \in s[i].b + 1 .. End /\ s[i].r \in Nat \ {0}
  <2>1. s[i] \in StageType
    BY DEF StageSeqs
  <2> QED BY <2>1 DEF Partition, StageType
<1>3. s[i].b \in 1 .. End /\ s[i].t \in 1 .. End /\ s[i].b <= s[i].t
  BY <1>2, ChainFacts DEF Tasks, End
<1>4. Weight(s[i].b, s[i].t) \in Nat
  BY <1>3, WeightFacts
<1> QED BY <1>1, <1>2, <1>4, DivFacts DEF StageWeight

\* A solution found for a period is kept, and shorter periods are tried.
LEMMA FoundStep == ASSUME IInv, Found PROVE IInv'
<1>1. /\ pc = "probe" /\ pc' = "solve" /\ e = End /\ NextUnit(solution) <= R /\ best' = solution
      /\ UNCHANGED <<chain, R, maxTf, Pmin, solution, e>>
  BY DEF Found, problem
<1>2. Pmax' \in Nat
  <2>1. chain \in Chains /\ solution \in StageSeqs /\ Partition(solution, e)
    BY <1>1 DEF IInv, TypeOK, StageSeqs, StageType, Good
  <2>2. Pmax' \in Longest(solution)
    BY DEF Found, PeriodFound
  <2> QED BY <2>1, <2>2, LongestType
<1>3. P' \in Nat
  <2> DEFINE m == Pmax'
  <2>1. m \in Nat /\ Pmin \in Nat
    BY <1>2 DEF IInv, TypeOK
  <2>2. P' = (m + Pmin) \div 2
    BY DEF Found
  <2> HIDE DEF m
  <2>3. m + Pmin \in Nat
    BY <2>1
  <2> QED BY <2>2, <2>3, HalfType
<1>4. TypeOK'
  BY <1>1, <1>2, <1>3 DEF IInv, TypeOK, End
<1>5. Good(best, End)' /\ NextUnit(best)' <= R'
  BY <1>1 DEF IInv, Good, Partition, Lone, Apart, Replicable, NextUnit, Tasks, End
<1>6. LongestStateful' /\ Apart(solution)'
  BY <1>1, SameChain DEF IInv, LongestStateful, Apart
<1> QED BY <1>1, <1>4, <1>5, <1>6 DEF IInv

\* A period for which PROBE has found nothing changes the bounds only.
LEMMA NotFoundStep == ASSUME IInv, NotFound PROVE IInv'
<1>1. /\ pc = "probe" /\ pc' = "solve" /\ Pmin' = P
      /\ UNCHANGED <<chain, R, maxTf, Pmax, solution, best, e>>
  BY DEF NotFound, problem
<1>2. P' \in Nat
  BY HalfType DEF NotFound, IInv, TypeOK
<1>3. TypeOK'
  BY <1>1, <1>2 DEF IInv, TypeOK, End
<1>4. best' # <<>> => Good(best, End)' /\ NextUnit(best)' <= R'
  BY <1>1 DEF IInv, Good, Partition, Lone, Apart, Replicable, NextUnit, Tasks, End
<1>5. LongestStateful' /\ Apart(solution)'
  BY <1>1, SameChain DEF IInv, LongestStateful, Apart
<1> QED BY <1>1, <1>3, <1>4, <1>5 DEF IInv

\* SOLVE returns the best solution it has found.
LEMMA FinishStep == ASSUME IInv, Finish PROVE IInv'
<1>1. /\ pc = "solve" /\ pc' = "done" /\ solution' = best
      /\ UNCHANGED <<chain, R, maxTf, P, Pmin, Pmax, best, e>>
  BY DEF Finish, problem, search
<1>2. TypeOK'
  BY <1>1 DEF IInv, TypeOK, End
<1>3. best' # <<>> => /\ Good(best, End)' /\ NextUnit(best)' <= R'
                      /\ Good(solution, End)' /\ NextUnit(solution)' <= R'
  BY <1>1 DEF IInv, Good, Partition, Lone, Apart, Replicable, NextUnit, Tasks, End
<1>4. LongestStateful'
  BY <1>1, SameChain DEF IInv, LongestStateful
<1>5. Apart(solution)'
  <2>1. CASE best = <<>>
    BY <1>1, <2>1 DEF Apart
  <2>2. CASE best # <<>>
    BY <1>1, <2>2 DEF IInv, Good, Apart
  <2> QED BY <2>1, <2>2
<1> QED BY <1>1, <1>2, <1>3, <1>4, <1>5 DEF IInv

\* The invariant is about the variables of the search only.
LEMMA StutterStep == ASSUME IInv, UNCHANGED vars PROVE IInv'
  BY DEF IInv, TypeOK, LongestStateful, Given, Gives, Good, Partition, Lone, Apart, Replicable, NextUnit,
         LastUnits, Duration, Weight, Tasks, End, vars, problem, search

\* Whatever the chain and the units, the stages of the greedy search are a partition
\* of the tasks, stateful tasks run on one unit, and what was taken from a stage fits
\* into the next one.
THEOREM Invariance == Spec => []IInv
<1>1. Init => IInv
  BY InitStep
<1>2. IInv /\ [Next]_vars => IInv'
  <2> SUFFICES ASSUME IInv, [Next]_vars PROVE IInv'
    OBVIOUS
  <2>1. CASE Schedule
    BY <2>1, ScheduleStep
  <2>2. CASE Probe
    BY <2>2, ProbeStep
  <2>3. CASE Found
    BY <2>3, FoundStep
  <2>4. CASE NotFound
    BY <2>4, NotFoundStep
  <2>5. CASE Finish
    BY <2>5, FinishStep
  <2>6. CASE PackMain
    BY <2>6, PackMainStep
  <2>7. CASE PackStateless
    BY <2>7, PackStatelessStep
  <2>8. CASE PackExtra
    BY <2>8, PackExtraStep
  <2>9. CASE UNCHANGED vars
    BY <2>9, StutterStep
  <2> QED BY <2>1, <2>2, <2>3, <2>4, <2>5, <2>6, <2>7, <2>8, <2>9 DEF Next
<1> QED BY <1>1, <1>2, PTL DEF Spec

\* What SOLVE returns can be built: the stages are the tasks in their order, on at
\* most the given units, a stage with a task that keeps state has one thread, and
\* no two consecutive stages have several.
THEOREM SolutionsSchedulable == Spec => []Schedulable
  BY Invariance, ImpliesSchedulable, PTL

(***************************************************************************)
(* The period.  The bounds of the search only come closer: the upper one is*)
(* the longest stage of the best solution, and no stage is longer than the *)
(* candidate it was packed for.                                            *)
(***************************************************************************)
Bounded(p) ==
  \A d \in MaxDurations(Tasks), stateful \in MaxDurations({i \in Tasks : ~chain.rep[i]}) :
    p <= stateful + d \/ p <= Weight(1, End) \div R + d
Light(s, p) == \A i \in 1 .. Len(s) : StageWeight(s[i]) <= p
Half == P = (Pmax + Pmin) \div 2

SearchInv ==
  /\ pc # "profiled" => maxTf <= Pmin /\ Bounded(Pmax)
  /\ pc = "solve" \/ pc = "probe" => R > 1 /\ Half
  /\ pc = "probe" => Pmin < Pmax /\ Light(solution, P)
  /\ best # <<>> => Pmax \in Longest(best)
  /\ pc = "done" => IF R = 1 THEN \A w \in Longest(solution) : Bounded(w)
                    ELSE solution = best /\ Half /\ ~Searching

\* Shared between enough units, a stage takes no longer than the period.
LEMMA Divided ==
  ASSUME NEW a \in Nat, NEW p \in Nat, NEW r \in Nat \ {0}, a <= p * r
  PROVE  a \div r \in Nat /\ a \div r <= p
<1> DEFINE q == a \div r
<1>1. q \in Nat /\ r * q <= a
  BY DivFacts
<1> HIDE DEF q
<1>2. SUFFICES ASSUME q >= p + 1 PROVE FALSE
  BY <1>1 DEF q
<1>3. r * q >= r * (p + 1) /\ r * (p + 1) = p * r + r
  BY <1>1, <1>2
<1> QED BY <1>1, <1>3

\* The middle of two numbers.
LEMMA Middle ==
  ASSUME NEW a \in Nat, NEW b \in Nat, NEW h, h = (b + a) \div 2
  PROVE  /\ h \in Nat /\ 2 * h <= a + b /\ a + b < 2 * h + 2
         /\ a <= b => a <= h /\ h <= b
<1>1. b + a \in Nat /\ 2 \in Nat \ {0}
  OBVIOUS
<1>2. h \in Nat /\ 2 * h <= b + a /\ b + a < 2 * h + 2
  BY ONLY <1>1, h = (b + a) \div 2, DivFacts
<1> QED BY <1>2

\* There is one longest task of a set ...
LEMMA OneMaximum ==
  ASSUME chain \in Chains, NEW S \in SUBSET Tasks, NEW a \in MaxDurations(S), NEW b \in MaxDurations(S)
  PROVE  a = b
<1>1. a \in Nat /\ b \in Nat
  BY DurationType
<1>2. a <= b /\ b <= a
  BY <1>1 DEF MaxDurations
<1> QED BY <1>1, <1>2

\* ... and one period of a solution.
LEMMA OneLongest ==
  ASSUME chain \in Chains, NEW s \in StageSeqs, NEW last, Partition(s, last),
         NEW v \in Longest(s), NEW w \in Longest(s)
  PROVE  v = w
<1>1. v \in Nat /\ w \in Nat
  BY LongestType
<1>2. v <= w /\ w <= v
  BY DEF Longest
<1> QED BY <1>1, <1>2

\* The bounds of the period are numbers, and hold for a shorter one.
LEMMA BoundedBelow ==
  ASSUME chain \in Chains, R \in Nat \ {0}, NEW p \in Nat, Bounded(p), NEW q \in Nat, q <= p
  PROVE  Bounded(q)
<1> SUFFICES ASSUME NEW d \in MaxDurations(Tasks),
                    NEW stateful \in MaxDurations({i \in Tasks : ~chain.rep[i]})
             PROVE  q <= stateful + d \/ q <= Weight(1, End) \div R + d
  BY DEF Bounded
<1> DEFINE all == Weight(1, End) \div R
<1>1. d \in Nat /\ stateful \in Nat
  BY DurationType
<1>2. all \in Nat
  <2>1. End \in Nat /\ End > 1
    BY ChainFacts DEF End
  <2>2. Weight(1, End) \in Nat
    BY <2>1, WeightFacts
  <2> QED BY <2>2, DivFacts
<1>3. p <= stateful + d \/ p <= all + d
  BY DEF Bounded
<1> HIDE DEF all
<1>4. q <= stateful + d \/ q <= all + d
  BY <1>1, <1>2, <1>3
<1> QED BY <1>4 DEF all

\* What is said of the period depends on the chain and the units only.
LEMMA SameProblem ==
  ASSUME UNCHANGED <<chain, R>>
  PROVE  /\ Bounded(Pmax)' <=> Bounded(Pmax')
         /\ Light(solution, P)' <=> Light(solution', P')
         /\ Longest(best)' = Longest(best') /\ Longest(solution)' = Longest(solution')
         /\ \A p : Bounded(p)' <=> Bounded(p)
  BY DEF Bounded, Light, Longest, StageWeight, MaxDurations, Duration, Weight, Tasks, End

LEMMA SearchSchedule == ASSUME IInv, SearchInv, Schedule PROVE SearchInv'
<1>1. /\ chain \in Chains /\ R \in Resources /\ R \in Nat \ {0} /\ UNCHANGED <<chain, R>>
      /\ End \in Nat /\ End > 1 /\ Tasks \subseteq Nat /\ best' = <<>>
      /\ (pc' = "done" \/ pc' = "solve")
  <2>1. chain \in Chains /\ R \in Resources /\ R \in Nat \ {0}
    BY ResourcesAssumption DEF IInv, TypeOK
  <2>2. End \in Nat /\ End > 1 /\ Tasks \subseteq Nat
    BY <2>1, ChainFacts DEF End, Tasks
  <2>3. UNCHANGED <<chain, R>> /\ best' = <<>> /\ (pc' = "done" \/ pc' = "solve")
    BY DEF Schedule, problem
  <2> QED BY <2>1, <2>2, <2>3
<1> DEFINE all == Weight(1, End) \div R
<1>2. all \in Nat
  <2>1. Weight(1, End) \in Nat
    BY <1>1, WeightFacts
  <2> QED BY <1>1, <2>1, DivFacts
<1>3. PICK most, low, high, heavy :
        /\ low = Pmin' /\ high = Pmax' /\ heavy = maxTf'
        /\ most \in MaxDurations(Tasks) /\ heavy \in MaxDurations({i \in Tasks : ~chain.rep[i]})
        /\ low = IF all > heavy THEN all ELSE heavy
        /\ high = low + most
  BY DEF Schedule
<1>4. most \in Nat /\ heavy \in Nat
  BY <1>1, <1>3, DurationType
<1>5. low \in Nat /\ high \in Nat /\ heavy <= low /\ all <= low /\ (low = all \/ low = heavy)
  <2>1. /\ low = IF all > heavy THEN all ELSE heavy
        /\ high = low + most
    BY <1>3
  <2> HIDE DEF all
  <2> QED BY ONLY <1>2, <1>4, <2>1
<1>6. ASSUME NEW p \in Nat, p <= high PROVE Bounded(p)
  <2> SUFFICES ASSUME NEW d \in MaxDurations(Tasks),
                      NEW stateful \in MaxDurations({i \in Tasks : ~chain.rep[i]})
               PROVE  p <= stateful + d \/ p <= all + d
    BY DEF Bounded
  <2>1. d = most /\ stateful = heavy
    BY <1>1, <1>3, OneMaximum
  <2>2. high = low + most
    BY <1>3
  <2> HIDE DEF all
  <2> QED BY ONLY <1>2, <1>4, <1>5, <1>6, <2>1, <2>2
<1>7. maxTf' <= Pmin'
  BY <1>3, <1>5
<1>8. Bounded(Pmax)'
  <2>1. Bounded(high)
    BY <1>5, <1>6
  <2> QED BY <1>1, <1>3, <2>1, SameProblem
<1>9. CASE R = 1
  <2>1. solution' = Extended(<<>>, 1, End, R) /\ pc' = "done"
    BY <1>9 DEF Schedule
  <2>2. solution' = <<[b |-> 1, t |-> End, r |-> R, pu |-> 0]>>
    BY <2>1 DEF Extended, NextUnit
  <2>3. ASSUME NEW w \in Longest(solution') PROVE Bounded(w)'
    <3>1. w = all
      BY <2>2, <2>3 DEF Longest, StageWeight
    <3>2. all <= high
      <4>1. high = low + most
        BY <1>3
      <4> HIDE DEF all
      <4> QED BY ONLY <1>2, <1>4, <1>5, <4>1
    <3>3. Bounded(w)
      BY <1>2, <1>6, <3>1, <3>2
    <3> QED BY <1>1, <3>3, SameProblem
  <2>4. Longest(solution)' = Longest(solution')
    BY <1>1, SameProblem
  <2> QED BY <1>1, <1>7, <1>8, <1>9, <2>1, <2>3, <2>4 DEF SearchInv
<1>10. CASE R # 1
  <2>1. pc' = "solve" /\ P' = (Pmax' + Pmin') \div 2
    BY <1>10 DEF Schedule
  <2> QED BY <1>1, <1>7, <1>8, <1>10, <2>1 DEF SearchInv, Half
<1> QED BY <1>9, <1>10

\* Only an interval that is not empty is searched.
LEMMA SearchProbe == ASSUME IInv, SearchInv, Probe PROVE SearchInv'
<1>1. /\ pc = "solve" /\ pc' = "probe" /\ solution' = <<>>
      /\ UNCHANGED <<chain, R, maxTf, P, Pmin, Pmax, best>>
  BY DEF Probe, problem, search
<1>2. Pmin < Pmax
  <2>1. R \in Nat \ {0} /\ Scale \in Nat /\ Pmin \in Nat /\ Pmax \in Nat
    BY ResourcesAssumption, ScaleAssumption DEF IInv, TypeOK
  <2>2. Eps \in Nat
    BY <2>1, DivFacts DEF Eps
  <2>3. Pmax - Pmin > Eps
    BY DEF Probe, Searching
  <2> QED BY <2>1, <2>2, <2>3
<1>3. Light(solution', P')
  BY <1>1 DEF Light
<1>4. Bounded(Pmax)' /\ Longest(best)' = Longest(best) /\ Light(solution, P)'
  <2>1. Bounded(Pmax)
    BY <1>1 DEF SearchInv
  <2> QED BY <1>1, <1>3, <2>1, SameProblem
<1> QED BY <1>1, <1>2, <1>4 DEF SearchInv, Half

\* A stage that PROBE adds is no longer than the candidate.
LEMMA SearchPack ==
  ASSUME IInv, SearchInv, Packing, NEW t \in e + 1 .. End, NEW r \in Nat \ {0}, Pack(t, r),
         Weight(e, t) <= P * r
  PROVE  SearchInv'
<1>1. /\ pc = "probe" /\ pc' = pc /\ solution' = Extended(solution, e, t, r)
      /\ UNCHANGED <<chain, R, maxTf, P, Pmin, Pmax, best>>
  BY DEF Pack, Packing, problem, search
<1>2. chain \in Chains /\ solution \in StageSeqs /\ P \in Nat /\ e \in 1 .. End /\ t \in 1 .. End /\ e <= t
      /\ End \in Nat /\ e \in Nat /\ t \in Nat
  <2>1. chain \in Chains /\ solution \in StageSeqs /\ P \in Nat /\ e \in 1 .. End
    BY DEF IInv, TypeOK, StageSeqs, StageType
  <2>2. End \in Nat
    BY <2>1, ChainFacts
  <2> QED BY <2>1, <2>2
<1>3. Weight(e, t) \div r <= P
  BY <1>2, WeightFacts, Divided
<1> DEFINE new == [b |-> e, t |-> t, r |-> r, pu |-> NextUnit(solution)]
<1>4. StageWeight(new) <= P
  BY <1>3 DEF StageWeight
<1>5. new \in StageType
  BY <1>2, NextUnitType DEF StageType
<1> HIDE DEF new
<1>6. /\ Len(Append(solution, new)) = Len(solution) + 1 /\ Len(solution) \in Nat
      /\ \A i \in 1 .. Len(solution) : Append(solution, new)[i] = solution[i]
      /\ Append(solution, new)[Len(solution) + 1] = new
  BY <1>2, <1>5 DEF StageSeqs
<1>7. Light(solution', P')
  <2>1. solution' = Append(solution, new) /\ P' = P
    BY <1>1 DEF Extended, new
  <2>2. Light(solution, P)
    BY <1>1 DEF SearchInv
  <2>3. ASSUME NEW i \in 1 .. Len(solution) + 1 PROVE StageWeight(Append(solution, new)[i]) <= P
    <3>1. i \in 1 .. Len(solution) \/ i = Len(solution) + 1
      BY <1>6
    <3> QED BY <1>4, <1>6, <2>2, <3>1 DEF Light
  <2> QED BY <1>6, <2>1, <2>3 DEF Light
<1>8. Bounded(Pmax)' /\ Longest(best)' = Longest(best) /\ Light(solution, P)'
  <2>1. Bounded(Pmax)
    BY <1>1 DEF SearchInv
  <2> QED BY <1>1, <1>7, <2>1, SameProblem
<1> QED BY <1>1, <1>8 DEF SearchInv, Half

\* A stage with the units that its weight asks for.
LEMMA SearchUnits ==
  ASSUME IInv, SearchInv, Packing, NEW t \in e + 1 .. End, Pack(t, Units(e, t))
  PROVE  SearchInv'
<1>1. chain \in Chains /\ e \in 1 .. End /\ t \in 1 .. End /\ e < t /\ e <= t /\ P \in Nat \ {0}
  <2>1. chain \in Chains /\ e \in Tasks /\ End \in Nat /\ P \in Nat \ {0} /\ e \in 1 .. End
    BY PackingFacts DEF IInv, TypeOK
  <2> QED BY <2>1
<1>2. Weight(e, t) \in Nat \ {0}
  BY <1>1, WeightFacts
<1>3. Units(e, t) \in Nat \ {0} /\ Weight(e, t) <= P * Units(e, t)
  BY <1>1, <1>2, CeilDivFacts DEF Units
<1> QED BY <1>3, SearchPack

LEMMA SearchPacking == ASSUME IInv, SearchInv, PackMain \/ PackStateless \/ PackExtra PROVE SearchInv'
<1>1. Packing
  BY DEF PackMain, PackStateless, PackExtra
<1>2. e \in Nat /\ e < End /\ End \in Nat /\ \A t \in Tasks \cup {End} : t \in Nat
  BY <1>1, PackingFacts DEF Tasks
<1>3. CASE PackMain
  <2>1. PICK m \in Tasks \cup {End} : MainLoop(e, m) /\ Pack(m, Units(e, m))
    BY <1>3 DEF PackMain
  <2> QED BY <1>1, <2>1, SearchUnits DEF MainLoop
<1>4. CASE PackStateless
  <2>1. PICK m \in Tasks \cup {End}, f \in Tasks \cup {End} :
          MainLoop(e, m) /\ StatelessPacking(m, f) /\ Pack(f, Units(e, f))
    BY <1>4 DEF PackStateless
  <2>2. f \in e + 1 .. End
    BY <1>2, <2>1 DEF MainLoop, StatelessPacking
  <2> QED BY <1>1, <2>1, <2>2, SearchUnits
<1>5. CASE PackExtra
  <2>1. PICK m \in Tasks \cup {End}, f \in Tasks \cup {End}, x \in Tasks \cup {End} :
          /\ MainLoop(e, m) /\ StatelessPacking(m, f) /\ ExtraTasks(e, f, x)
          /\ LET r == Units(e, f) IN
              IF Fits(e, x, r - 1)
              THEN \E y \in Tasks \cup {End} : ImprovedPacking(e, x, r - 1, y) /\ Pack(y, r - 1)
              ELSE Pack(f, r)
    BY <1>5 DEF PackExtra
  <2>2. f \in e + 1 .. End /\ x \in e + 1 .. f
    BY <1>2, <2>1 DEF MainLoop, StatelessPacking, ExtraTasks
  <2> DEFINE r == Units(e, f)
  <2>3. CASE Fits(e, x, r - 1)
    <3>1. PICK y \in Tasks \cup {End} : ImprovedPacking(e, x, r - 1, y) /\ Pack(y, r - 1)
      BY <2>1, <2>3
    <3>2. r \in Nat
      <4>1. chain \in Chains /\ e \in 1 .. End /\ f \in 1 .. End /\ e < f /\ e <= f /\ P \in Nat \ {0}
        <5>1. chain \in Chains /\ P \in Nat \ {0} /\ e \in 1 .. End
          BY <1>1, PackingFacts DEF IInv, TypeOK
        <5> QED BY <1>2, <2>2, <5>1
      <4>2. Weight(e, f) \in Nat \ {0}
        BY <4>1, WeightFacts
      <4> QED BY <4>1, <4>2, CeilDivFacts DEF Units
    <3> HIDE DEF r
    <3>3. y \in e + 1 .. End
      BY <1>2, <2>2, <3>1 DEF ImprovedPacking
    <3>4. r - 1 \in Nat \ {0} /\ Weight(e, y) <= P * (r - 1)
      BY <2>3, <3>1, <3>2 DEF ImprovedPacking, Fits
    <3> QED BY <1>1, <3>1, <3>3, <3>4, SearchPack
  <2>4. CASE ~ Fits(e, x, r - 1)
    <3>1. Pack(f, r)
      BY <2>1, <2>4
    <3> QED BY <1>1, <2>2, <3>1, SearchUnits
  <2> QED BY <2>3, <2>4
<1> QED BY <1>3, <1>4, <1>5

\* The candidate is between the bounds.
LEMMA SearchTypes ==
  ASSUME IInv
  PROVE  /\ chain \in Chains /\ R \in Nat \ {0} /\ solution \in StageSeqs /\ best \in StageSeqs
         /\ P \in Nat /\ Pmin \in Nat /\ Pmax \in Nat /\ maxTf \in Nat
         /\ Eps \in Nat \ {0}
<1>1. /\ chain \in Chains /\ R \in Nat \ {0} /\ solution \in StageSeqs /\ best \in StageSeqs
      /\ P \in Nat /\ Pmin \in Nat /\ Pmax \in Nat /\ maxTf \in Nat
  BY ResourcesAssumption DEF IInv, TypeOK, StageSeqs, StageType
<1>2. Scale \in Nat /\ R <= Scale
  BY ScaleAssumption DEF IInv, TypeOK
<1>3. Eps \in Nat /\ Scale < R * Eps + R
  BY <1>1, <1>2, DivFacts DEF Eps
<1>4. Eps # 0
  BY <1>1, <1>2, <1>3
<1> QED BY <1>1, <1>3, <1>4

LEMMA SearchFound == ASSUME IInv, SearchInv, Found PROVE SearchInv'
<1>1. /\ pc = "probe" /\ pc' = "solve" /\ e = End /\ best' = solution
      /\ UNCHANGED <<chain, R, maxTf, Pmin>>
  BY DEF Found, problem
<1>2. PICK high : high = Pmax' /\ high \in Longest(solution)
  BY DEF Found, PeriodFound
<1>3. high <= Pmax /\ high \in Nat
  <2>1. PICK i \in 1 .. Len(solution) : high = StageWeight(solution[i])
    BY <1>2 DEF Longest
  <2>2. high <= P
    BY <1>1, <2>1 DEF SearchInv, Light
  <2>3. P <= Pmax
    <3>1. P = (Pmax + Pmin) \div 2 /\ Pmin < Pmax
      BY <1>1 DEF SearchInv, Half
    <3>2. Pmin \in Nat /\ Pmax \in Nat /\ Pmin <= Pmax
      BY <3>1, SearchTypes
    <3> QED BY ONLY <3>1, <3>2, Middle
  <2>4. high \in Nat
    BY <1>1, <1>2, SearchTypes, LongestType DEF IInv, Good
  <2> QED BY <2>2, <2>3, <2>4, SearchTypes
<1>4. Bounded(Pmax)'
  <2>1. Bounded(high)
    BY <1>1, <1>3, SearchTypes, BoundedBelow DEF SearchInv
  <2> QED BY <1>1, <1>2, <2>1, SameProblem
<1>5. Pmax' \in Longest(best)'
  <2>1. Longest(best)' = Longest(solution)
    BY <1>1, SameProblem
  <2> QED BY <1>2, <2>1
<1>6. P' = (Pmax' + Pmin') \div 2
  BY <1>1 DEF Found
<1>7. maxTf' <= Pmin' /\ R' > 1
  BY <1>1 DEF SearchInv
<1> QED BY <1>1, <1>4, <1>5, <1>6, <1>7 DEF SearchInv, Half

LEMMA SearchNotFound == ASSUME IInv, SearchInv, NotFound PROVE SearchInv'
<1>1. /\ pc = "probe" /\ pc' = "solve" /\ Pmin' = P
      /\ UNCHANGED <<chain, R, maxTf, Pmax, best>>
  BY DEF NotFound, problem
<1>2. maxTf <= P
  <2>1. Pmin <= P
    <3>1. P = (Pmax + Pmin) \div 2 /\ Pmin < Pmax
      BY <1>1 DEF SearchInv, Half
    <3>2. Pmin \in Nat /\ Pmax \in Nat /\ Pmin <= Pmax
      BY <3>1, SearchTypes
    <3> QED BY ONLY <3>1, <3>2, Middle
  <2> QED BY <1>1, <2>1, SearchTypes DEF SearchInv
<1>3. Bounded(Pmax)' /\ Longest(best)' = Longest(best)
  <2>1. Bounded(Pmax)
    BY <1>1 DEF SearchInv
  <2> QED BY <1>1, <2>1, SameProblem
<1>4. P' = (Pmax' + Pmin') \div 2
  BY <1>1 DEF NotFound
<1> QED BY <1>1, <1>2, <1>3, <1>4 DEF SearchInv, Half

LEMMA SearchFinish == ASSUME IInv, SearchInv, Finish PROVE SearchInv'
<1>1. /\ pc = "solve" /\ pc' = "done" /\ solution' = best /\ ~Searching
      /\ UNCHANGED <<chain, R, maxTf, P, Pmin, Pmax, best>>
  BY DEF Finish, problem, search
<1>2. Bounded(Pmax)' /\ Longest(best)' = Longest(best)
  <2>1. Bounded(Pmax)
    BY <1>1 DEF SearchInv
  <2> QED BY <1>1, <2>1, SameProblem
<1>3. ~Searching'
  BY <1>1 DEF Searching, Eps
<1>4. R > 1
  BY <1>1 DEF SearchInv
<1> QED BY <1>1, <1>2, <1>3, <1>4, SearchTypes DEF SearchInv, Half

LEMMA SearchStutter == ASSUME IInv, SearchInv, UNCHANGED vars PROVE SearchInv'
<1>1. UNCHANGED <<pc, chain, R, maxTf, P, Pmin, Pmax, solution, best, e>>
  BY DEF vars, problem, search
<1>2. /\ Bounded(Pmax)' <=> Bounded(Pmax)
      /\ Light(solution, P)' <=> Light(solution, P)
      /\ Longest(best)' = Longest(best) /\ Longest(solution)' = Longest(solution)
      /\ \A p : Bounded(p)' <=> Bounded(p)
  BY <1>1, SameProblem
<1>3. Searching' <=> Searching
  BY <1>1 DEF Searching, Eps
<1> QED BY <1>1, <1>2, <1>3 DEF SearchInv, Half

\* Neither the bounds nor the candidate are ever less than what was found.
THEOREM SearchInvariance == Spec => []SearchInv
<1>1. Init => SearchInv
  BY DEF Init, SearchInv
<1>2. IInv /\ SearchInv /\ [Next]_vars => SearchInv'
  BY SearchSchedule, SearchProbe, SearchFound, SearchNotFound, SearchFinish, SearchPacking,
     SearchStutter DEF Next
<1> QED BY <1>1, <1>2, Invariance, PTL DEF Spec

\* For any chain and any number of units: the period of what SOLVE returns exceeds by
\* the longest task at most what the sum of the tasks or the longest stateful one impose,
\* and get_period tells a shorter one by the precision of the search at most.
THEOREM PeriodBoundedCorrect == Spec => []PeriodBounded
<1>1. IInv /\ SearchInv => PeriodBounded
  <2> SUFFICES ASSUME IInv, SearchInv, pc = "done", NEW period \in Longest(solution)
               PROVE  Bounded(period) /\ (R > 1 => period <= P + Eps)
    BY DEF PeriodBounded, Bounded
  <2>1. CASE R = 1
    BY <2>1, SearchTypes DEF SearchInv
  <2>2. CASE R # 1
    <3>1. solution = best /\ Half /\ ~Searching /\ maxTf <= Pmin /\ Bounded(Pmax)
      BY <2>2 DEF SearchInv
    <3>2. best # <<>>
      BY <3>1 DEF Longest
    <3>3. period = Pmax
      <4>1. Pmax \in Longest(solution) /\ Partition(solution, End)
        BY <3>1, <3>2 DEF SearchInv, IInv, Good
      <4> QED BY <4>1, SearchTypes, OneLongest
    <3>4. /\ Pmin \in Nat /\ Pmax \in Nat /\ P \in Nat /\ Eps \in Nat \ {0} /\ maxTf \in Nat
          /\ P = (Pmax + Pmin) \div 2
      BY <3>1, SearchTypes DEF Half
    <3>5. Pmax + Pmin < 2 * P + 2
      BY ONLY <3>4, Middle
    <3>6. Pmax - Pmin <= Eps \/ P <= maxTf
      BY <3>1, <3>4 DEF Searching
    <3>7. Pmin <= Pmax => Pmin <= P
      BY ONLY <3>4, Middle
    <3>8. maxTf <= Pmin
      BY <3>1
    <3>9. Pmax <= P + Eps
      BY ONLY <3>4, <3>5, <3>6, <3>7, <3>8
    <3> QED BY <3>1, <3>3, <3>9
  <2> QED BY <2>1, <2>2
<1> QED BY <1>1, Invariance, SearchInvariance, PTL

(***************************************************************************)
(*                                Pinning                                  *)
(***************************************************************************)

(***************************************************************************)
(* The least element of a set of numbers, and recursive functions.         *)
(***************************************************************************)
\* A set of naturals has a least element: what holds of 0, and of n if it holds of
\* n - 1, has no least exception.
LEMMA LeastNat ==
  ASSUME NEW T \in SUBSET Nat, T # {}
  PROVE \E x \in T : \A y \in T : x <= y
<1> DEFINE less == {ss \in Nat \X Nat : ss[1] < ss[2]}
<1>1. IsWellFoundedOn(less, Nat)
  BY NatLessThanWellFounded DEF OpToRel
<1>2. \A x, y \in Nat : <<x, y>> \in less <=> x < y
  OBVIOUS
<1> HIDE DEF less
<1>3. PICK x \in T : \A y \in T : ~ (<<y, x>> \in less)
  BY <1>1, WFMin
<1>4. \A y \in T : y \in Nat /\ x \in Nat /\ ~ (y < x)
  BY <1>2, <1>3
<1> QED BY <1>4

\* What a recursive definition on 0 .. top asks for exists.
Follows(g, top, base, step) == g[0] = base /\ \A i \in 1 .. top : g[i] = step[i][g[i - 1]]

\* It exists for every base and every steps on a set that contains them.
LEMMA Recursion ==
  ASSUME NEW S, NEW top \in Nat, NEW base \in S, NEW step \in [1 .. top -> [S -> S]]
  PROVE \E g \in [0 .. top -> S] : Follows(g, top, base, step)
<1> USE DEF Follows
<1> DEFINE Solves(g, m) == Follows(g, m, base, step)
           T == {m \in 0 .. top : ~ \E g \in [0 .. m -> S] : Solves(g, m)}
<1>1. SUFFICES ASSUME T # {} PROVE FALSE
  <2>1. top \in 0 .. top /\ top \notin T
    <3>1. top \in 0 .. top
      OBVIOUS
    <3> HIDE DEF T
    <3> QED BY <1>1, <3>1
  <2>2. \E g \in [0 .. top -> S] : Solves(g, top)
    BY <2>1
  <2> QED BY <2>2
<1>2. PICK m \in T : \A i \in T : m <= i
  <2>1. T \in SUBSET Nat
    OBVIOUS
  <2> HIDE DEF T
  <2> QED BY <1>1, <2>1, LeastNat
<1>3. CASE m = 0
  <2> DEFINE g == [i \in 0 .. m |-> base]
  <2>1. g \in [0 .. m -> S] /\ Solves(g, m)
    BY <1>3
  <2> QED BY <2>1
<1>4. CASE m # 0
  <2>1. m - 1 \in 0 .. top /\ m - 1 \notin T
    BY <1>2, <1>4
  <2>2. PICK g \in [0 .. m - 1 -> S] : Solves(g, m - 1)
    BY <2>1
  <2> DEFINE h == [i \in 0 .. m |-> IF i = m THEN step[m][g[m - 1]] ELSE g[i]]
  <2>3. m - 1 \in 0 .. m - 1 /\ m \in 1 .. top /\ g[m - 1] \in S
    BY <1>4
  <2>4. step[m][g[m - 1]] \in S
    BY <2>3
  <2>5. h \in [0 .. m -> S]
    BY <2>4
  <2>6. \A i \in 1 .. m : h[i] = step[i][h[i - 1]]
    <3> TAKE i \in 1 .. m
    <3>1. h[i - 1] = g[i - 1]
      OBVIOUS
    <3>2. h[i] = IF i = m THEN step[m][g[m - 1]] ELSE g[i]
      OBVIOUS
    <3>3. i # m => i \in 1 .. m - 1
      OBVIOUS
    <3> HIDE DEF h
    <3> QED BY <2>2, <3>1, <3>2, <3>3
  <2>7. h[0] = base
    BY <2>2, <1>4
  <2>8. Solves(h, m)
    BY <2>6, <2>7
  <2> QED BY <2>5, <2>8
<1> QED BY <1>3, <1>4

\* What each step of it keeps holds all along.
LEMMA Stays ==
    ASSUME NEW top \in Nat, NEW Keeps, NEW g, g[0] \in Keeps[0],
           \A k \in 1 .. top : g[k - 1] \in Keeps[k - 1] => g[k] \in Keeps[k]
    PROVE  \A k \in 0 .. top : g[k] \in Keeps[k]
<1> DEFINE T == {k \in 0 .. top : g[k] \notin Keeps[k]}
<1> SUFFICES ASSUME T # {} PROVE FALSE
  OBVIOUS
<1>1. PICK k \in T : \A i \in T : k <= i
  <2>1. T \in SUBSET Nat
    OBVIOUS
  <2> HIDE DEF T
  <2> QED BY <2>1, LeastNat
<1>2. k # 0 /\ k \in 1 .. top /\ k - 1 \in 0 .. top
  BY <1>1
<1>3. k - 1 \notin T
  BY <1>1, <1>2
<1>4. g[k - 1] \in Keeps[k - 1]
  BY <1>2, <1>3
<1> QED BY <1>1, <1>2, <1>4

(***************************************************************************)
(* Sequences of calls.                                                     *)
(***************************************************************************)
JoinOf(a, b, c) ==
    /\ Len(a) \in Nat /\ Len(b) \in Nat /\ Len(c) = Len(a) + Len(b)
    /\ \A i \in 1 .. Len(a) : c[i] = a[i] /\ i \in 1 .. Len(c)
    /\ \A i \in 1 .. Len(b) : c[Len(a) + i] = b[i] /\ Len(a) + i \in 1 .. Len(c)
    /\ \A i \in 1 .. Len(c) : i \in 1 .. Len(a) \/ \E j \in 1 .. Len(b) : i = Len(a) + j

LEMMA Joined ==
  ASSUME NEW S, NEW a \in Seq(S), NEW b \in Seq(S)
  PROVE  a \o b \in Seq(S) /\ JoinOf(a, b, a \o b)
<1>1. a \o b \in Seq(S) /\ Len(a \o b) = Len(a) + Len(b) /\ Len(a) \in Nat /\ Len(b) \in Nat
  BY ConcatProperties
<1>2. \A i \in 1 .. Len(a) + Len(b) : (a \o b)[i] = IF i <= Len(a) THEN a[i] ELSE b[i - Len(a)]
  BY ConcatProperties
<1>3. ASSUME NEW i \in 1 .. Len(b)
      PROVE  (a \o b)[Len(a) + i] = b[i] /\ Len(a) + i \in 1 .. Len(a \o b)
  <2>1. Len(a) + i \in 1 .. Len(a) + Len(b) /\ ~ (Len(a) + i <= Len(a)) /\ (Len(a) + i) - Len(a) = i
    BY <1>1
  <2> QED BY <2>1, <1>1, <1>2
<1>4. ASSUME NEW i \in 1 .. Len(a)
      PROVE  (a \o b)[i] = a[i] /\ i \in 1 .. Len(a \o b)
  <2>1. i \in 1 .. Len(a) + Len(b) /\ i <= Len(a)
    BY <1>1
  <2> QED BY <2>1, <1>1, <1>2
<1>5. ASSUME NEW i \in 1 .. Len(a \o b), i \notin 1 .. Len(a)
      PROVE  \E j \in 1 .. Len(b) : i = Len(a) + j
  <2>1. i - Len(a) \in 1 .. Len(b) /\ i = Len(a) + (i - Len(a))
    BY <1>1, <1>5
  <2> QED BY <2>1
<1> QED BY <1>1, <1>3, <1>4, <1>5 DEF JoinOf

LEMMA Shortened ==
  ASSUME NEW S, NEW c \in Seq(S), c # <<>>
  PROVE  /\ Head(c) = c[1] /\ Tail(c) \in Seq(S) /\ Len(Tail(c)) = Len(c) - 1
         /\ Len(c) \in Nat \ {0} /\ 1 \in 1 .. Len(c)
         /\ \A i \in 1 .. Len(Tail(c)) : Tail(c)[i] = c[i + 1] /\ i + 1 \in 1 .. Len(c)
         /\ \A i \in 1 .. Len(c) : i = 1 \/ (i - 1 \in 1 .. Len(Tail(c)) /\ Tail(c)[i - 1] = c[i])
<1>1. Len(c) \in Nat \ {0}
  BY EmptySeq, LenProperties
<1>2. Head(c) = c[1] /\ Tail(c) \in Seq(S) /\ Len(Tail(c)) = Len(c) - 1 /\ \A i \in 1 .. Len(Tail(c)) : Tail(c)[i] = c[i + 1]
  BY HeadTailProperties
<1>3. \A i \in 1 .. Len(Tail(c)) : i + 1 \in 1 .. Len(c)
  BY <1>1, <1>2
<1>4. ASSUME NEW i \in 1 .. Len(c), i # 1 PROVE i - 1 \in 1 .. Len(Tail(c)) /\ Tail(c)[i - 1] = c[i]
  <2>1. i - 1 \in 1 .. Len(Tail(c)) /\ (i - 1) + 1 = i
    BY <1>1, <1>2, <1>4
  <2> QED BY <2>1, <1>2
<1> QED BY <1>1, <1>2, <1>3, <1>4

\* At these calls the masks of other threads matter.
Critical == {"stage", "pool", "spawn", "start"}

\* The thread frees itself before the next of them.
Released(c) ==
    \E j \in 1 .. Len(c) : c[j].call = "unpin" /\ \A k \in 1 .. j : c[k].call \notin Critical

\* Whoever is pinned is freed before the next of them.
Balanced(c) ==
    \A i \in 1 .. Len(c) : c[i].call = "pin" =>
        \E j \in 1 .. Len(c) : i < j /\ c[j].call = "unpin" /\ \A k \in i .. j : c[k].call \notin Critical

LEMMA BalancedJoin ==
  ASSUME NEW S, NEW a \in Seq(S), NEW b \in Seq(S), Balanced(a), Balanced(b)
  PROVE  Balanced(a \o b)
<1>0. PICK c : c = a \o b
  OBVIOUS
<1>1. JoinOf(a, b, c)
  BY <1>0, Joined
<1> USE <1>1 DEF JoinOf
<1>3. SUFFICES ASSUME NEW i \in 1 .. Len(c), c[i].call = "pin"
               PROVE  \E j \in 1 .. Len(c) : i < j /\ c[j].call = "unpin" /\ \A k \in i .. j : c[k].call \notin Critical
  BY <1>0 DEF Balanced
<1>4. CASE i \in 1 .. Len(a)
  <2>1. PICK j \in 1 .. Len(a) : i < j /\ a[j].call = "unpin" /\ \A k \in i .. j : a[k].call \notin Critical
    BY <1>3, <1>4 DEF Balanced
  <2>2. \A k \in i .. j : k \in 1 .. Len(a)
    BY <1>4
  <2> QED BY <2>1, <2>2
<1>5. ASSUME NEW p \in 1 .. Len(b), i = Len(a) + p
      PROVE  \E j \in 1 .. Len(c) : i < j /\ c[j].call = "unpin" /\ \A k \in i .. j : c[k].call \notin Critical
  <2>1. PICK j \in 1 .. Len(b) : p < j /\ b[j].call = "unpin" /\ \A k \in p .. j : b[k].call \notin Critical
    BY <1>3, <1>5 DEF Balanced
  <2>2. ASSUME NEW k \in i .. Len(a) + j PROVE c[k].call \notin Critical
    <3>1. k - Len(a) \in p .. j /\ k - Len(a) \in 1 .. Len(b) /\ k = Len(a) + (k - Len(a))
      BY <1>5
    <3>2. c[k] = b[k - Len(a)]
      BY <3>1
    <3> QED BY <3>1, <3>2, <2>1
  <2>3. i < Len(a) + j
    BY <1>5, <2>1
  <2> QED BY <2>1, <2>2, <2>3
<1> QED BY <1>3, <1>4, <1>5

LEMMA ReleasedJoin ==
  ASSUME NEW S, NEW a \in Seq(S), NEW b \in Seq(S)
  PROVE  /\ Released(a) => Released(a \o b)
         /\ Released(b) /\ (\A i \in 1 .. Len(a) : a[i].call \notin Critical) => Released(a \o b)
<1>0. PICK c : c = a \o b
  OBVIOUS
<1>1. JoinOf(a, b, c)
  BY <1>0, Joined
<1> USE <1>1 DEF JoinOf
<1>3. ASSUME Released(a) PROVE Released(c)
  <2>1. PICK j \in 1 .. Len(a) : a[j].call = "unpin" /\ \A k \in 1 .. j : a[k].call \notin Critical
    BY <1>3 DEF Released
  <2>2. \A k \in 1 .. j : k \in 1 .. Len(a)
    OBVIOUS
  <2> QED BY <2>1, <2>2 DEF Released
<1>4. ASSUME Released(b), \A i \in 1 .. Len(a) : a[i].call \notin Critical PROVE Released(c)
  <2>1. PICK j \in 1 .. Len(b) : b[j].call = "unpin" /\ \A k \in 1 .. j : b[k].call \notin Critical
    BY <1>4 DEF Released
  <2>2. ASSUME NEW k \in 1 .. Len(a) + j PROVE c[k].call \notin Critical
    <3>1. CASE k \in 1 .. Len(a)
      BY <3>1, <1>4
    <3>2. CASE k \notin 1 .. Len(a)
      <4>1. k - Len(a) \in 1 .. j /\ k - Len(a) \in 1 .. Len(b) /\ k = Len(a) + (k - Len(a))
        BY <3>2
      <4>2. c[k] = b[k - Len(a)]
        BY <4>1
      <4> QED BY <4>1, <4>2, <2>1
    <3> QED BY <3>1, <3>2
  <2> QED BY <2>1, <2>2 DEF Released
<1> QED BY <1>0, <1>3, <1>4 

\* A pin in front of calls that free the thread.
LEMMA PinFirst ==
  ASSUME NEW S, NEW h \in S, NEW c \in Seq(S), h.call \notin Critical, Balanced(c), h.call = "pin" => Released(c)
  PROVE  Balanced(<<h>> \o c)
<1> DEFINE d == <<h>> \o c
<1>1. <<h>> \in Seq(S) /\ Len(<<h>>) = 1 /\ <<h>>[1] = h /\ Len(c) \in Nat
  BY LenProperties
<1>2. JoinOf(<<h>>, c, d)
  BY <1>1, Joined
<1> USE DEF JoinOf
<1> HIDE DEF d
<1>3. SUFFICES ASSUME NEW i \in 1 .. Len(d), d[i].call = "pin"
               PROVE  \E j \in 1 .. Len(d) : i < j /\ d[j].call = "unpin" /\ \A k \in i .. j : d[k].call \notin Critical
  BY DEF Balanced, d
<1>4. CASE i = 1
  <2>1. PICK j \in 1 .. Len(c) : c[j].call = "unpin" /\ \A k \in 1 .. j : c[k].call \notin Critical
    BY <1>1, <1>2, <1>3, <1>4 DEF Released
  <2>2. ASSUME NEW k \in 1 .. 1 + j PROVE d[k].call \notin Critical
    <3>1. CASE k = 1
      BY <3>1, <1>1, <1>2
    <3>2. CASE k # 1
      <4>1. k - 1 \in 1 .. j /\ k - 1 \in 1 .. Len(c) /\ k = 1 + (k - 1)
        BY <1>1, <3>2
      <4>2. d[k] = c[k - 1]
        BY <4>1, <1>2
      <4> QED BY <4>1, <4>2, <2>1
    <3> QED BY <3>1, <3>2
  <2>3. 1 < 1 + j
    BY <1>1
  <2> QED BY <1>2, <1>4, <2>1, <2>2, <2>3
<1>5. CASE i # 1
  <2>1. PICK p \in 1 .. Len(c) : i = 1 + p
    BY <1>2, <1>5
  <2>2. PICK j \in 1 .. Len(c) : p < j /\ c[j].call = "unpin" /\ \A k \in p .. j : c[k].call \notin Critical
    BY <1>2, <1>3, <2>1 DEF Balanced
  <2>3. ASSUME NEW k \in i .. 1 + j PROVE d[k].call \notin Critical
    <3>1. k - 1 \in p .. j /\ k - 1 \in 1 .. Len(c) /\ k = 1 + (k - 1)
      BY <1>1, <2>1
    <3>2. d[k] = c[k - 1]
      BY <3>1, <1>2
    <3> QED BY <3>1, <3>2, <2>2
  <2>4. i < 1 + j
    BY <1>1, <2>1, <2>2
  <2> QED BY <1>2, <2>2, <2>3, <2>4
<1> QED BY <1>4, <1>5

\* What is left of such calls after the first one.
LEMMA BalancedTail ==
  ASSUME NEW S, NEW c \in Seq(S), c # <<>>, Balanced(c)
  PROVE  /\ Balanced(Tail(c))
         /\ Head(c).call = "pin" => Released(Tail(c))
         /\ Released(c) => Head(c).call \notin Critical
         /\ Released(c) /\ Head(c).call # "unpin" => Released(Tail(c))
<1> DEFINE rest == Tail(c)
<1>1. /\ Head(c) = c[1] /\ Len(rest) = Len(c) - 1 /\ Len(c) \in Nat \ {0} /\ 1 \in 1 .. Len(c)
      /\ \A i \in 1 .. Len(rest) : rest[i] = c[i + 1] /\ i + 1 \in 1 .. Len(c)
      /\ \A i \in 1 .. Len(c) : i = 1 \/ (i - 1 \in 1 .. Len(rest) /\ rest[i - 1] = c[i])
  BY Shortened
<1> HIDE DEF rest
<1>2. ASSUME NEW i \in 1 .. Len(rest), rest[i].call = "pin"
      PROVE  \E j \in 1 .. Len(rest) : i < j /\ rest[j].call = "unpin" /\ \A k \in i .. j : rest[k].call \notin Critical
  <2>1. PICK j \in 1 .. Len(c) : i + 1 < j /\ c[j].call = "unpin" /\ \A k \in i + 1 .. j : c[k].call \notin Critical
    BY <1>1, <1>2 DEF Balanced
  <2>2. j - 1 \in 1 .. Len(rest) /\ i < j - 1 /\ rest[j - 1].call = "unpin"
    BY <1>1, <2>1
  <2>3. ASSUME NEW k \in i .. j - 1 PROVE rest[k].call \notin Critical
    <3>1. k \in 1 .. Len(rest) /\ k + 1 \in i + 1 .. j
      BY <1>1, <2>2
    <3> QED BY <3>1, <1>1, <2>1
  <2> QED BY <2>2, <2>3
<1>3. ASSUME NEW j \in 1 .. Len(c), 1 < j, c[j].call = "unpin", \A k \in 1 .. j : c[k].call \notin Critical
      PROVE  Released(rest)
  <2>1. j - 1 \in 1 .. Len(rest) /\ rest[j - 1].call = "unpin"
    BY <1>1, <1>3
  <2>2. ASSUME NEW k \in 1 .. j - 1 PROVE rest[k].call \notin Critical
    <3>1. k \in 1 .. Len(rest) /\ k + 1 \in 1 .. j
      BY <1>1, <2>1
    <3> QED BY <3>1, <1>1, <1>3
  <2> QED BY <2>1, <2>2 DEF Released
<1>4. Head(c).call = "pin" => Released(rest)
  BY <1>1, <1>3 DEF Balanced
<1>5. ASSUME Released(c) PROVE Head(c).call \notin Critical /\ (Head(c).call # "unpin" => Released(rest))
  <2>1. PICK j \in 1 .. Len(c) : c[j].call = "unpin" /\ \A k \in 1 .. j : c[k].call \notin Critical
    BY <1>5 DEF Released
  <2>2. 1 \in 1 .. j /\ (j # 1 => 1 < j)
    BY <1>1
  <2> QED BY <1>1, <1>3, <2>1, <2>2
<1> QED BY <1>2, <1>4, <1>5 DEF Balanced, rest

\* FlattenSeq of sequences of a set that is closed under concatenation.
LEMMA Flattened ==
  ASSUME NEW G, \A a, b \in G : a \o b \in G, NEW m \in Nat \ {0}, NEW seqs \in [1 .. m -> G]
  PROVE  FlattenSeq(seqs) \in G
<1>1. seqs \in Seq(G) /\ Len(seqs) = m
  OBVIOUS
<1> DEFINE Q(g) == g = [i \in 1 .. Len(seqs) |-> IF i = 1 THEN seqs[i] ELSE g[i - 1] \o seqs[i]]
           flatten[i \in 1 .. Len(seqs)] == IF i = 1 THEN seqs[i] ELSE flatten[i - 1] \o seqs[i]
           step == [i \in 1 .. m - 1 |-> [x \in G |-> x \o seqs[i + 1]]]
<1>2. \A i \in 1 .. m - 1 : i + 1 \in 1 .. m /\ seqs[i + 1] \in G
  OBVIOUS
<1>3. step \in [1 .. m - 1 -> [G -> G]] /\ \A i \in 1 .. m - 1 : \A x \in G : step[i][x] = x \o seqs[i + 1]
  BY <1>2
<1>4. seqs[1] \in G /\ m - 1 \in Nat
  OBVIOUS
<1> HIDE DEF step
<1>5. PICK g \in [0 .. m - 1 -> G] : Follows(g, m - 1, seqs[1], step)
  BY <1>3, <1>4, Recursion
<1> DEFINE f == [i \in 1 .. m |-> g[i - 1]]
<1>6. ASSUME NEW i \in 1 .. m PROVE f[i] \in G /\ f[i] = IF i = 1 THEN seqs[i] ELSE f[i - 1] \o seqs[i]
  <2>1. f[i] = g[i - 1] /\ i - 1 \in 0 .. m - 1 /\ g[i - 1] \in G
    OBVIOUS
  <2>2. CASE i = 1
    BY <2>1, <2>2, <1>5 DEF Follows
  <2>3. CASE i # 1
    <3>1. i - 1 \in 1 .. m - 1 /\ i - 1 \in 1 .. m /\ (i - 1) - 1 \in 0 .. m - 1 /\ (i - 1) + 1 = i
      BY <2>3
    <3>2. f[i - 1] = g[(i - 1) - 1] /\ g[(i - 1) - 1] \in G
      BY <3>1
    <3>3. g[i - 1] = step[i - 1][g[(i - 1) - 1]]
      BY <3>1, <1>5 DEF Follows
    <3>4. step[i - 1][g[(i - 1) - 1]] = g[(i - 1) - 1] \o seqs[i]
      BY <3>1, <3>2, <1>3
    <3> HIDE DEF f
    <3> QED BY <2>1, <2>3, <3>2, <3>3, <3>4
  <2> QED BY <2>2, <2>3, <2>1
<1>7. f = [i \in 1 .. m |-> f[i]]
  OBVIOUS
<1> HIDE DEF f
<1>8. Q(f)
  <2> DEFINE h == [i \in 1 .. Len(seqs) |-> IF i = 1 THEN seqs[i] ELSE f[i - 1] \o seqs[i]]
  <2>1. \A i \in 1 .. m : f[i] = h[i]
    BY <1>1, <1>6
  <2>2. f = h
    BY <1>1, <1>7, <2>1
  <2> QED BY <2>2
<1>9. Q(flatten)
  <2> HIDE DEF Q
  <2> QED BY <1>8 DEF flatten
<1> HIDE DEF flatten
<1>10. \A i \in 1 .. m : flatten[i] = IF i = 1 THEN seqs[i] ELSE flatten[i - 1] \o seqs[i]
  <2>1. PICK h : h = [i \in 1 .. Len(seqs) |-> IF i = 1 THEN seqs[i] ELSE flatten[i - 1] \o seqs[i]]
    OBVIOUS
  <2>2. h = flatten
    BY <2>1, <1>9
  <2>3. \A i \in 1 .. m : h[i] = IF i = 1 THEN seqs[i] ELSE flatten[i - 1] \o seqs[i]
    BY <2>1, <1>1
  <2> QED BY <2>2, <2>3
<1>11. \A i \in 0 .. m - 1 : flatten[i + 1] \in G
  <2> DEFINE shifted == [i \in 0 .. m - 1 |-> flatten[i + 1]]
             Keeps == [i \in 0 .. m - 1 |-> G]
  <2>1. shifted[0] \in Keeps[0]
    BY <1>4, <1>10
  <2>2. ASSUME NEW i \in 1 .. m - 1, shifted[i - 1] \in Keeps[i - 1] PROVE shifted[i] \in Keeps[i]
    <3>1. i + 1 \in 1 .. m /\ i + 1 # 1 /\ (i + 1) - 1 = i /\ i - 1 \in 0 .. m - 1 /\ i \in 0 .. m - 1 /\ (i - 1) + 1 = i
      OBVIOUS
    <3>2. flatten[i] \in G
      BY <2>2, <3>1
    <3>3. flatten[i + 1] = flatten[i] \o seqs[i + 1]
      BY <3>1, <1>10
    <3>4. shifted[i] = flatten[i + 1] /\ Keeps[i] = G
      BY <3>1
    <3> HIDE DEF shifted, Keeps
    <3> QED BY <3>2, <3>3, <3>4, <1>2
  <2>3. \A i \in 0 .. m - 1 : shifted[i] \in Keeps[i]
    <3> HIDE DEF shifted, Keeps
    <3> QED BY <2>1, <2>2, <1>4, Stays
  <2> QED BY <2>3
<1>12. flatten[m] \in G
  <2>1. m - 1 \in 0 .. m - 1 /\ (m - 1) + 1 = m
    OBVIOUS
  <2> QED BY <2>1, <1>11
<1>13. FlattenSeq(seqs) = flatten[m]
  BY <1>1 DEF FlattenSeq, flatten
<1> QED BY <1>12, <1>13

(***************************************************************************)
(* The calls of the threads.                                               *)
(***************************************************************************)
ThreadTexts ==
    {ThreadText(st, k) : st \in {stages[s] : s \in DOMAIN stages} \cup {OneThread(<<>>), OneThread(<<PU(0)>>)}, k \in Nat}
Calls ==
    {Pin(text) : text \in ThreadTexts} \cup {Unpin, Work}
        \cup {Call(name, s) : name \in {"stage", "spawn", "fork", "join"}, s \in DOMAIN stages}
        \cup {Call(name, 0) : name \in {"pool", "start", "wait"}}

LEMMA CallFacts ==
  /\ Unpin \in Calls /\ Unpin.call = "unpin" /\ Work \in Calls /\ Work.call = "work"
  /\ \A text \in ThreadTexts : Pin(text) \in Calls /\ Pin(text).call = "pin"
  /\ \A s \in DOMAIN stages, name \in {"stage", "spawn", "fork", "join"} :
        Call(name, s) \in Calls /\ Call(name, s).call = name /\ Call(name, s).text[1] = s
  /\ \A name \in {"pool", "start", "wait"} : Call(name, 0) \in Calls /\ Call(name, 0).call = name
  /\ \A h \in Calls :
        /\ h.call \in {"pin", "unpin", "work", "stage", "spawn", "fork", "join", "pool", "start", "wait"}
        /\ h.call \in {"stage", "spawn", "fork", "join"} =>
                h.text[1] \in DOMAIN stages /\ h = Call(h.call, h.text[1])
        /\ h.call \in {"pool", "start", "wait"} => h = Call(h.call, 0)
<1>1. ASSUME NEW s, NEW name PROVE Call(name, s).call = name /\ Call(name, s).text[1] = s
  BY DEF Call
<1>2. \A text : Pin(text).call = "pin"
  BY DEF Pin
<1>3. Unpin.call = "unpin" /\ Work.call = "work"
  BY DEF Unpin, Work
<1>4. ASSUME NEW h \in Calls
      PROVE  /\ h.call \in {"pin", "unpin", "work", "stage", "spawn", "fork", "join", "pool", "start", "wait"}
             /\ h.call \in {"stage", "spawn", "fork", "join"} =>
                    h.text[1] \in DOMAIN stages /\ h = Call(h.call, h.text[1])
             /\ h.call \in {"pool", "start", "wait"} => h = Call(h.call, 0)
  <2>1. CASE h \in {Pin(text) : text \in ThreadTexts} \cup {Unpin, Work}
    BY <2>1, <1>2, <1>3
  <2>2. ASSUME NEW name \in {"stage", "spawn", "fork", "join"}, NEW s \in DOMAIN stages, h = Call(name, s)
        PROVE  h.call = name /\ h.text[1] = s
    BY <1>1, <2>2
  <2>3. ASSUME NEW name \in {"pool", "start", "wait"}, h = Call(name, 0)
        PROVE  h.call = name
    BY <1>1, <2>3
  <2> QED BY <2>1, <2>2, <2>3 DEF Calls
<1> QED BY <1>1, <1>2, <1>3, <1>4 DEF Calls

\* What is known of the stages.
Sized ==
    /\ Len(stages) \in Nat /\ DOMAIN stages = 1 .. Len(stages)
    /\ \A s \in DOMAIN stages : stages[s].threads \in Nat \ {0}
Sequenced == {stages[s] : s \in DOMAIN stages} \cup {OneThread(<<>>), OneThread(<<PU(0)>>)}

Plain(c) == \A i \in 1 .. Len(c) : c[i].call \in {"pin", "unpin"}
Quiet(c) == \A i \in 1 .. Len(c) : c[i].call \in {"pin", "unpin", "work"}

LEMMA QuietJoin ==
  ASSUME NEW a \in Seq(Calls), NEW b \in Seq(Calls)
  PROVE  /\ Quiet(a) /\ Quiet(b) => Quiet(a \o b)
         /\ Plain(a) /\ Plain(b) => Plain(a \o b)
<1>1. JoinOf(a, b, a \o b)
  BY Joined
<1> QED BY <1>1 DEF JoinOf, Quiet, Plain

LEMMA PinPair ==
  ASSUME NEW text \in ThreadTexts
  PROVE  LET pair == <<Pin(text), Unpin>> IN pair \in Seq(Calls) /\ Balanced(pair) /\ Plain(pair) /\ Released(pair)
<1> DEFINE pair == <<Pin(text), Unpin>>
<1>1. Pin(text) \in Calls /\ Unpin \in Calls /\ Pin(text).call = "pin" /\ Unpin.call = "unpin"
  BY CallFacts
<1>2. pair \in Seq(Calls) /\ Len(pair) = 2 /\ pair[1].call = "pin" /\ pair[2].call = "unpin"
  BY <1>1
<1> HIDE DEF pair
<1>3. \A i \in 1 .. Len(pair) : i = 1 \/ i = 2
  BY <1>2
<1>4. \A k \in 1 .. 2 : pair[k].call \notin Critical
  BY <1>2, <1>3 DEF Critical
<1>5. Plain(pair)
  BY <1>2, <1>3 DEF Plain
<1>6. Balanced(pair) /\ Released(pair)
  <2>1. 2 \in 1 .. Len(pair) /\ 1 < 2
    BY <1>2
  <2> QED BY <1>2, <1>3, <1>4, <2>1 DEF Balanced, Released
<1> QED BY <1>2, <1>5, <1>6 DEF pair

LEMMA TextFacts ==
  ASSUME NEW st \in Sequenced, NEW k \in Nat
  PROVE  ThreadText(st, k) \in ThreadTexts
  BY DEF ThreadTexts, Sequenced

\* A loop of pins frees the thread after each of them.
LEMMA VisitFacts ==
  ASSUME NEW st \in Sequenced, st.threads \in Nat \ {0}, NEW from \in {1, 2}
  PROVE  /\ Visit(st, from) \in Seq(Calls) /\ Balanced(Visit(st, from)) /\ Plain(Visit(st, from))
         /\ from = 1 => Released(Visit(st, from))
<1> DEFINE m == st.threads - from + 1
           seqs == [i \in 1 .. m |-> <<Pin(ThreadText(st, from + i - 1)), Unpin>>]
           G == {c \in Seq(Calls) : Balanced(c) /\ Plain(c) /\ Released(c)}
<1>1. ASSUME NEW i \in 1 .. m PROVE <<Pin(ThreadText(st, from + i - 1)), Unpin>> \in G
  <2>1. PICK k \in Nat : k = from + i - 1
    OBVIOUS
  <2>2. ThreadText(st, k) \in ThreadTexts
    BY TextFacts
  <2> QED BY <2>1, <2>2, PinPair
<1>2. \A a, b \in G : a \o b \in G
  <2> TAKE a, b \in G
  <2>1. a \o b \in Seq(Calls)
    BY Joined
  <2>2. Balanced(a \o b) /\ Plain(a \o b) /\ Released(a \o b)
    BY BalancedJoin, QuietJoin, ReleasedJoin
  <2> QED BY <2>1, <2>2
<1>3. Visit(st, from) = FlattenSeq(seqs)
  BY DEF Visit
<1> HIDE DEF G
<1>4. seqs \in [1 .. m -> G]
  BY <1>1
<1>5. CASE m \in Nat \ {0}
  <2>1. FlattenSeq(seqs) \in G
    <3> HIDE DEF m, seqs
    <3> QED BY <1>2, <1>4, <1>5, Flattened
  <2> QED BY <1>3, <2>1 DEF G
<1>6. CASE m = 0
  <2>1. seqs = <<>> /\ Len(seqs) = 0
    BY <1>6
  <2>2. FlattenSeq(seqs) = <<>>
    BY <2>1 DEF FlattenSeq
  <2>3. Visit(st, from) = <<>> /\ from # 1
    BY <1>3, <1>6, <2>2
  <2> QED BY <2>3 DEF Balanced, Plain
<1>7. m \in Nat
  OBVIOUS
<1> QED BY <1>5, <1>6, <1>7

LEMMA GenFacts ==
  ASSUME NEW st \in Sequenced, st.threads \in Nat \ {0}
  PROVE  /\ GenProcesses(st) \in Seq(Calls) /\ Balanced(GenProcesses(st)) /\ Quiet(GenProcesses(st))
         /\ st.pin => GenProcesses(st) = Visit(st, 1)
<1>1. CASE st.pin
  <2>1. GenProcesses(st) = Visit(st, 1)
    BY <1>1 DEF GenProcesses, OnlyIf
  <2> QED BY <2>1, VisitFacts DEF Plain, Quiet
<1>2. CASE ~ st.pin
  <2>1. GenProcesses(st) = <<>>
    BY <1>2 DEF GenProcesses, OnlyIf
  <2> QED BY <2>1, <1>2 DEF Balanced, Quiet
<1> QED BY <1>1, <1>2

LEMMA OneCall ==
  ASSUME NEW h \in Calls
  PROVE  \E c \in Seq(Calls) : c = <<h>> /\ Len(c) = 1 /\ c[1] = h /\ \A i \in 1 .. Len(c) : i = 1
<1>1. <<h>> \in Seq(Calls) /\ Len(<<h>>) = 1 /\ <<h>>[1] = h
  OBVIOUS
<1>2. PICK c : c = <<h>>
  OBVIOUS
<1>3. \A i \in 1 .. Len(c) : i = 1
  BY <1>1, <1>2
<1> QED BY <1>1, <1>2, <1>3

Concatenates(a, b, c, d) == d = (a \o b) \o c

LEMMA Triple ==
  ASSUME NEW a \in Seq(Calls), NEW b \in Seq(Calls), NEW c \in Seq(Calls), Len(a) = 1, Len(b) = 1, Len(c) = 1
  PROVE  \E d \in Seq(Calls) : Concatenates(a, b, c, d) /\ Len(d) = 3 /\ d[1] = a[1] /\ d[2] = b[1] /\ d[3] = c[1]
<1>1. PICK x \in Seq(Calls) : x = a \o b /\ JoinOf(a, b, x)
  BY Joined
<1>2. x[1] = a[1] /\ x[2] = b[1] /\ Len(x) = 2
  <2>1. 1 \in 1 .. 1 /\ 1 + 1 = 2
    OBVIOUS
  <2> QED BY <1>1, <2>1 DEF JoinOf
<1>3. PICK d \in Seq(Calls) : d = x \o c /\ JoinOf(x, c, d)
  BY Joined
<1>4. d[1] = a[1] /\ d[2] = b[1] /\ d[3] = c[1] /\ Len(d) = 3
  <2>1. 1 \in 1 .. 2 /\ 2 \in 1 .. 2 /\ 1 \in 1 .. 1 /\ 2 + 1 = 3
    OBVIOUS
  <2> QED BY <1>2, <1>3, <2>1 DEF JoinOf
<1>5. Concatenates(a, b, c, d)
  BY <1>1, <1>3, Zenon DEF Concatenates
<1> QED BY <1>4, <1>5

Regroups(a, b, c) == (a \o b) \o c = a \o (b \o c)

LEMMA Associative == \A a, b, c \in Seq(Calls) : Regroups(a, b, c)
  BY ConcatAssociative DEF Regroups

LEMMA ThreadFacts ==
  ASSUME NEW st \in Sequenced, NEW k \in Nat
  PROVE  ExecThread(st, k) \in Seq(Calls) /\ Balanced(ExecThread(st, k)) /\ Quiet(ExecThread(st, k))
<1> DEFINE text == ThreadText(st, k)
<1>1. text \in ThreadTexts
  BY TextFacts
<1> HIDE DEF text
<1>2. Pin(text) \in Calls /\ Pin(text).call = "pin" /\ Unpin \in Calls /\ Unpin.call = "unpin" /\ Work \in Calls /\ Work.call = "work"
  BY <1>1, CallFacts
<1>3. CASE st.pin
  <2>1. PICK c : c = ExecThread(st, k)
    OBVIOUS
  <2>2. c \in Seq(Calls) /\ Len(c) = 3 /\ c[1].call = "pin" /\ c[2].call = "work" /\ c[3].call = "unpin"
    <3>1. PICK x \in Seq(Calls), y \in Seq(Calls), z \in Seq(Calls) :
             /\ x = <<Pin(text)>> /\ y = <<Work>> /\ z = <<Unpin>> /\ Len(x) = 1 /\ Len(y) = 1 /\ Len(z) = 1
             /\ x[1].call = "pin" /\ y[1].call = "work" /\ z[1].call = "unpin"
      <4>1. \E x \in Seq(Calls) : x = <<Pin(text)>> /\ Len(x) = 1 /\ x[1].call = "pin"
        BY <1>2, OneCall
      <4>2. \E y \in Seq(Calls) : y = <<Work>> /\ Len(y) = 1 /\ y[1].call = "work"
        BY <1>2, OneCall
      <4>3. \E z \in Seq(Calls) : z = <<Unpin>> /\ Len(z) = 1 /\ z[1].call = "unpin"
        BY <1>2, OneCall
      <4> QED BY <4>1, <4>2, <4>3, Zenon
    <3>2. c = (x \o y) \o z
      BY <1>3, <2>1, <3>1 DEF ExecThread, OnlyIf, text
    <3>3. PICK d \in Seq(Calls) : Concatenates(x, y, z, d) /\ Len(d) = 3 /\ d[1] = x[1] /\ d[2] = y[1] /\ d[3] = z[1]
      <4>1. Len(x) = 1 /\ Len(y) = 1 /\ Len(z) = 1
        BY <3>1, Zenon
      <4> QED BY <4>1, Triple
    <3>4. Len(d) = 3 /\ d[1].call = "pin" /\ d[2].call = "work" /\ d[3].call = "unpin"
      BY <3>1, <3>3, Zenon
    <3>5. c = d
      BY <3>2, <3>3, Zenon DEF Concatenates
    <3> QED BY <3>4, <3>5, Zenon
  <2>3. (\A i \in 1 .. Len(c) : i = 1 \/ i = 2 \/ i = 3) /\ 3 \in 1 .. Len(c) /\ 1 < 3
    BY <2>2
  <2>4. \A i \in 1 .. 3 : c[i].call \notin Critical
    BY <2>2, <2>3 DEF Critical
  <2> QED BY <2>1, <2>2, <2>3, <2>4 DEF Balanced, Quiet
<1>4. CASE ~ st.pin
  <2>1. ExecThread(st, k) = <<Work>>
    <3>1. ExecThread(st, k) = <<>> \o <<Work>> \o <<>>
      BY <1>4 DEF ExecThread, OnlyIf
    <3>2. <<Work>> \in Seq(Calls)
      BY <1>2
    <3> QED BY ONLY <3>1, <3>2, ConcatEmptySeq
  <2>2. <<Work>> \in Seq(Calls) /\ Len(<<Work>>) = 1 /\ <<Work>>[1].call = "work"
    BY <1>2
  <2> QED BY <2>1, <2>2 DEF Balanced, Quiet
<1> QED BY <1>3, <1>4

\* The construction of a sequence: whoever the caller is pinned to meanwhile, it is
\* free when the threads are created.
Setup(c) == \A i \in 1 .. Len(c) : c[i].call \in {"pin", "unpin", "work", "spawn"}

LEMMA InitFacts ==
  ASSUME NEW s \in DOMAIN stages, NEW st \in Sequenced, st.threads \in Nat \ {0}
  PROVE  InitSequence(s, st) \in Seq(Calls) /\ Balanced(InitSequence(s, st)) /\ Setup(InitSequence(s, st))
<1> DEFINE spawn == Call("spawn", s)
<1>1. spawn \in Calls /\ spawn.call = "spawn"
  BY CallFacts
<1> HIDE DEF spawn
<1>2. <<spawn>> \in Seq(Calls) /\ Balanced(<<spawn>>) /\ Setup(<<spawn>>)
  <2>1. <<spawn>> \in Seq(Calls) /\ Len(<<spawn>>) = 1 /\ <<spawn>>[1] = spawn
    BY <1>1
  <2>2. \A i \in 1 .. Len(<<spawn>>) : i = 1
    BY <2>1
  <2> QED BY <1>1, <2>1, <2>2 DEF Balanced, Setup
<1>3. PICK gen : gen = GenProcesses(st) /\ gen \in Seq(Calls) /\ Balanced(gen) /\ Quiet(gen)
  BY GenFacts
<1>4. ASSUME NEW y \in Seq(Calls), Balanced(y), Quiet(y), InitSequence(s, st) = y \o <<spawn>>
      PROVE  InitSequence(s, st) \in Seq(Calls) /\ Balanced(InitSequence(s, st)) /\ Setup(InitSequence(s, st))
  <2>1. y \o <<spawn>> \in Seq(Calls) /\ Balanced(y \o <<spawn>>)
    BY <1>2, <1>4, Joined, BalancedJoin
  <2>2. JoinOf(y, <<spawn>>, y \o <<spawn>>)
    BY <1>2, Joined
  <2>3. Setup(y \o <<spawn>>)
    BY <1>2, <1>4, <2>2 DEF JoinOf, Setup, Quiet
  <2> QED BY <1>4, <2>1, <2>3
<1>5. CASE st.pin
  <2> DEFINE text == ThreadText(st, 1)
  <2>1. PICK v : v = Visit(st, 2) /\ v \in Seq(Calls) /\ Balanced(v) /\ Plain(v) /\ Quiet(v)
    BY VisitFacts DEF Plain, Quiet
  <2>2. Released(gen)
    BY <1>3, <1>5, GenFacts, VisitFacts
  <2>3. PICK h \in Calls : h = Pin(text) /\ h.call = "pin"
    BY TextFacts, CallFacts
  <2> HIDE DEF text
  <2>4. <<h>> \in Seq(Calls) /\ Quiet(<<h>>)
    <3>1. <<h>> \in Seq(Calls) /\ Len(<<h>>) = 1 /\ <<h>>[1] = h
      OBVIOUS
    <3>2. \A i \in 1 .. Len(<<h>>) : i = 1
      BY <3>1
    <3> QED BY <2>3, <3>1, <3>2 DEF Quiet
  <2>5. InitSequence(s, st) = (((<<h>> \o v) \o v) \o gen) \o <<spawn>>
    BY <1>3, <1>5, <2>1, <2>3 DEF InitSequence, OnlyIf, spawn, text
  <2>6. PICK x \in Seq(Calls) : x = v \o gen /\ Balanced(x) /\ Quiet(x) /\ Released(x)
    <3>1. v \o gen \in Seq(Calls) /\ Balanced(v \o gen)
      BY <1>3, <2>1, Joined, BalancedJoin
    <3>2. Quiet(v \o gen)
      BY <1>3, <2>1, QuietJoin
    <3>3. Released(v \o gen)
      BY <1>3, <2>1, <2>2, ReleasedJoin DEF Plain, Critical
    <3> QED BY <3>1, <3>2, <3>3
  <2>7. PICK z \in Seq(Calls) : z = v \o x /\ Balanced(z) /\ Quiet(z) /\ Released(z)
    <3>1. v \o x \in Seq(Calls) /\ Balanced(v \o x)
      BY <2>1, <2>6, Joined, BalancedJoin
    <3>2. Quiet(v \o x)
      BY <2>1, <2>6, QuietJoin
    <3>3. Released(v \o x)
      BY <2>1, <2>6, ReleasedJoin DEF Plain, Critical
    <3> QED BY <3>1, <3>2, <3>3
  <2>8. PICK y \in Seq(Calls) : y = <<h>> \o z /\ Balanced(y) /\ Quiet(y)
    <3>1. <<h>> \o z \in Seq(Calls) /\ Quiet(<<h>> \o z)
      BY <2>4, <2>7, Joined, QuietJoin
    <3>2. Balanced(<<h>> \o z)
      BY <2>3, <2>7, PinFirst DEF Critical
    <3> QED BY <3>1, <3>2
  <2>9. ((<<h>> \o v) \o v) \o gen = y
    <3>1. PICK hv \in Seq(Calls) : hv = <<h>> \o v
      BY <2>1, <2>4, Joined
    <3>2. Regroups(hv, v, gen) /\ Regroups(<<h>>, v, x)
      BY <1>3, <2>1, <2>4, Associative
    <3> QED BY <3>1, <3>2, <2>6, <2>7, <2>8, Zenon DEF Regroups
  <2> QED BY <1>4, <2>5, <2>8, <2>9
<1>6. CASE ~ st.pin
  <2>1. InitSequence(s, st) = (<<>> \o gen) \o <<spawn>>
    BY <1>3, <1>6 DEF InitSequence, OnlyIf, spawn
  <2>2. <<>> \o gen = gen
    BY <1>3, ConcatEmptySeq
  <2> QED BY <1>3, <1>4, <2>1, <2>2
<1> QED BY <1>5, <1>6

(***************************************************************************)
(* Where forks, joins and the start of a pipeline stand in what is called. *)
(***************************************************************************)
Occurs(h, c) == \E i \in 1 .. Len(c) : c[i] = h

\* A fork is called once, by the leader of the stage, who joins the threads later.
Forks(th, c) ==
    \A i \in 1 .. Len(c) : c[i].call = "fork" =>
        /\ th = Leader(c[i].text[1])
        /\ \E j \in 1 .. Len(c) : i < j /\ c[j] = Call("join", c[i].text[1])
        /\ \A k \in 1 .. Len(c) : c[k].call = "fork" => k = i

\* The pool of a pipeline is started first, and waited for later.
Starts(c) ==
    \A i \in 1 .. Len(c) : c[i].call = "start" =>
        i = 1 /\ \E j \in 1 .. Len(c) : j # 1 /\ c[j] = Call("wait", 0)

Forkless(c) == \A i \in 1 .. Len(c) : c[i].call # "fork"
Startless(c) == \A i \in 1 .. Len(c) : c[i].call # "start"

LEMMA ForksJoin ==
  ASSUME NEW th, NEW a \in Seq(Calls), NEW b \in Seq(Calls)
  PROVE  /\ Forkless(a) /\ Forks(th, b) => Forks(th, a \o b)
         /\ Forks(th, a) /\ Forkless(b) => Forks(th, a \o b)
<1>0. PICK c : c = a \o b
  OBVIOUS
<1>1. JoinOf(a, b, c)
  BY <1>0, Joined
<1> USE <1>1 DEF JoinOf
<1>2. ASSUME Forkless(a), Forks(th, b) PROVE Forks(th, c)
  <2>1. SUFFICES ASSUME NEW i \in 1 .. Len(c), c[i].call = "fork"
                 PROVE  /\ th = Leader(c[i].text[1])
                        /\ \E j \in 1 .. Len(c) : i < j /\ c[j] = Call("join", c[i].text[1])
                        /\ \A k \in 1 .. Len(c) : c[k].call = "fork" => k = i
    BY DEF Forks
  <2>2. PICK p \in 1 .. Len(b) : i = Len(a) + p /\ c[i] = b[p]
    BY <1>2, <2>1 DEF Forkless
  <2>3. th = Leader(b[p].text[1]) /\ \A k \in 1 .. Len(b) : b[k].call = "fork" => k = p
    BY <1>2, <2>1, <2>2 DEF Forks
  <2>4. PICK j \in 1 .. Len(b) : p < j /\ b[j] = Call("join", b[p].text[1])
    BY <1>2, <2>1, <2>2 DEF Forks
  <2>5. Len(a) + j \in 1 .. Len(c) /\ i < Len(a) + j /\ c[Len(a) + j] = Call("join", c[i].text[1])
    BY <2>2, <2>4
  <2>6. ASSUME NEW k \in 1 .. Len(c), c[k].call = "fork" PROVE k = i
    <3>1. PICK q \in 1 .. Len(b) : k = Len(a) + q /\ c[k] = b[q]
      BY <1>2, <2>6 DEF Forkless
    <3> QED BY <2>2, <2>3, <2>6, <3>1
  <2> QED BY <2>2, <2>3, <2>5, <2>6
<1>3. ASSUME Forks(th, a), Forkless(b) PROVE Forks(th, c)
  <2>1. SUFFICES ASSUME NEW i \in 1 .. Len(c), c[i].call = "fork"
                 PROVE  /\ th = Leader(c[i].text[1])
                        /\ \E j \in 1 .. Len(c) : i < j /\ c[j] = Call("join", c[i].text[1])
                        /\ \A k \in 1 .. Len(c) : c[k].call = "fork" => k = i
    BY DEF Forks
  <2>2. ASSUME NEW k \in 1 .. Len(c), c[k].call = "fork" PROVE k \in 1 .. Len(a) /\ c[k] = a[k]
    <3>1. \A q \in 1 .. Len(b) : c[Len(a) + q].call # "fork"
      BY <1>3 DEF Forkless
    <3> QED BY <2>2, <3>1
  <2>3. i \in 1 .. Len(a) /\ a[i].call = "fork" /\ c[i] = a[i]
    BY <2>1, <2>2
  <2>4. PICK j \in 1 .. Len(a) : i < j /\ a[j] = Call("join", a[i].text[1])
    BY <1>3, <2>3 DEF Forks
  <2>5. th = Leader(a[i].text[1]) /\ \A k \in 1 .. Len(a) : a[k].call = "fork" => k = i
    BY <1>3, <2>3 DEF Forks
  <2>6. \A k \in 1 .. Len(c) : c[k].call = "fork" => k = i
    BY <2>2, <2>5
  <2> QED BY <2>3, <2>4, <2>5, <2>6
<1> QED BY <1>0, <1>2, <1>3

LEMMA LessJoin ==
  ASSUME NEW a \in Seq(Calls), NEW b \in Seq(Calls)
  PROVE  /\ Forkless(a) /\ Forkless(b) => Forkless(a \o b)
         /\ Startless(a) /\ Startless(b) => Startless(a \o b)
<1>1. JoinOf(a, b, a \o b)
  BY Joined
<1>2. ASSUME NEW name, \A i \in 1 .. Len(a) : a[i].call # name, \A i \in 1 .. Len(b) : b[i].call # name
      PROVE  \A i \in 1 .. Len(a \o b) : (a \o b)[i].call # name
  BY <1>1, <1>2 DEF JoinOf
<1> QED BY <1>2 DEF Forkless, Startless

LEMMA QuietFacts == \A th, c : Quiet(c) => Forkless(c) /\ Startless(c) /\ Forks(th, c) /\ Starts(c)
  BY DEF Quiet, Forkless, Startless, Forks, Starts

LEMMA OccursJoin ==
  ASSUME NEW h, NEW a \in Seq(Calls), NEW b \in Seq(Calls), Occurs(h, a) \/ Occurs(h, b)
  PROVE  Occurs(h, a \o b)
<1>1. JoinOf(a, b, a \o b)
  BY Joined
<1> QED BY <1>1 DEF JoinOf, Occurs

\* A single call that pins nobody.
LEMMA OneFacts ==
  ASSUME NEW h \in Calls, h.call # "pin"
  PROVE  \E c \in Seq(Calls) :
            /\ c = <<h>> /\ Len(c) = 1 /\ c[1] = h /\ Balanced(c) /\ Occurs(h, c)
            /\ h.call # "fork" => Forkless(c)
            /\ h.call # "start" => Startless(c)
<1>1. PICK c \in Seq(Calls) : c = <<h>> /\ Len(c) = 1 /\ c[1] = h /\ \A i \in 1 .. Len(c) : i = 1
  BY OneCall
<1>2. 1 \in 1 .. Len(c)
  BY <1>1
<1> QED BY <1>1, <1>2 DEF Balanced, Occurs, Forkless, Startless

LEMMA ForkFirst ==
  ASSUME NEW s \in DOMAIN stages, NEW f \in Seq(Calls), Len(f) = 1, f[1] = Call("fork", s),
         NEW c \in Seq(Calls), Forkless(c), Occurs(Call("join", s), c)
  PROVE  Forks(Leader(s), f \o c)
<1>1. PICK d : d = f \o c /\ JoinOf(f, c, d)
  BY Joined
<1> USE <1>1 DEF JoinOf
<1>2. f[1].call = "fork" /\ f[1].text[1] = s
  BY CallFacts
<1>3. ASSUME NEW k \in 1 .. Len(d), d[k].call = "fork" PROVE k = 1
  BY <1>3 DEF Forkless
<1>4. d[1] = f[1] /\ 1 \in 1 .. Len(d)
  OBVIOUS
<1>5. PICK j \in 1 .. Len(c) : c[j] = Call("join", s)
  BY DEF Occurs
<1>6. 1 + j \in 1 .. Len(d) /\ 1 < 1 + j /\ d[1 + j] = Call("join", s)
  BY <1>5
<1> HIDE DEF JoinOf
<1>7. ASSUME NEW i \in 1 .. Len(d), d[i].call = "fork"
      PROVE  /\ Leader(s) = Leader(d[i].text[1])
             /\ \E m \in 1 .. Len(d) : i < m /\ d[m] = Call("join", d[i].text[1])
             /\ \A k \in 1 .. Len(d) : d[k].call = "fork" => k = i
  <2>1. i = 1 /\ d[i].text[1] = s
    BY <1>2, <1>3, <1>4, <1>7
  <2> QED BY <2>1, <1>3, <1>6
<1>8. Forks(Leader(s), d)
  BY <1>7 DEF Forks
<1> QED BY <1>1, <1>8

LEMMA StartFirst ==
  ASSUME NEW f \in Seq(Calls), Len(f) = 1, NEW c \in Seq(Calls), Startless(c), Occurs(Call("wait", 0), c)
  PROVE  Starts(f \o c)
<1>1. PICK d : d = f \o c /\ JoinOf(f, c, d)
  BY Joined
<1> USE <1>1 DEF JoinOf
<1>2. PICK j \in 1 .. Len(c) : c[j] = Call("wait", 0)
  BY DEF Occurs
<1>3. 1 + j \in 1 .. Len(d) /\ 1 + j # 1 /\ d[1 + j] = Call("wait", 0)
  BY <1>2
<1>4. ASSUME NEW i \in 1 .. Len(d), d[i].call = "start" PROVE i = 1
  BY <1>4 DEF Startless
<1>5. Starts(d)
  BY <1>3, <1>4 DEF Starts
<1> QED BY <1>1, <1>5

\* The execution of a sequence.
LEMMA ExecSequenceFacts ==
  ASSUME NEW s \in DOMAIN stages, NEW st \in Sequenced, st.threads \in Nat \ {0}
  PROVE  /\ ExecSequence(s, st) \in Seq(Calls) /\ Balanced(ExecSequence(s, st))
         /\ Forks(Leader(s), ExecSequence(s, st)) /\ Startless(ExecSequence(s, st))
<1>1. PICK gen \in Seq(Calls) : gen = GenProcesses(st) /\ Balanced(gen) /\ Forkless(gen) /\ Startless(gen)
  BY GenFacts, QuietFacts
<1>2. PICK own \in Seq(Calls) : own = ExecThread(st, 1) /\ Balanced(own) /\ Forkless(own) /\ Startless(own)
  BY ThreadFacts, QuietFacts
<1>3. /\ Call("fork", s) \in Calls /\ Call("fork", s).call = "fork"
      /\ Call("join", s) \in Calls /\ Call("join", s).call = "join"
  BY CallFacts
<1>4. PICK fk \in Seq(Calls) : fk = <<Call("fork", s)>> /\ Len(fk) = 1 /\ fk[1] = Call("fork", s) /\ Balanced(fk) /\ Startless(fk)
  BY <1>3, OneFacts
<1>5. PICK jn \in Seq(Calls) : jn = <<Call("join", s)>> /\ Balanced(jn) /\ Occurs(Call("join", s), jn) /\ Forkless(jn) /\ Startless(jn)
  BY <1>3, OneFacts
<1>6. PICK x \in Seq(Calls) : x = own \o jn /\ Balanced(x) /\ Forkless(x) /\ Startless(x) /\ Occurs(Call("join", s), x)
  BY <1>2, <1>5, Joined, BalancedJoin, LessJoin, OccursJoin
<1>7. PICK y \in Seq(Calls) : y = fk \o x /\ Balanced(y) /\ Startless(y) /\ Forks(Leader(s), y)
  BY <1>4, <1>6, Joined, BalancedJoin, LessJoin, ForkFirst
<1>8. PICK z \in Seq(Calls) : z = gen \o y /\ Balanced(z) /\ Startless(z) /\ Forks(Leader(s), z)
  <2>1. gen \o y \in Seq(Calls) /\ Balanced(gen \o y) /\ Startless(gen \o y)
    BY <1>1, <1>7, Joined, BalancedJoin, LessJoin
  <2>2. Forks(Leader(s), gen \o y)
    BY <1>1, <1>7, ForksJoin
  <2> QED BY <2>1, <2>2
<1>9. ExecSequence(s, st) = z
  <2>1. PICK gf \in Seq(Calls) : gf = gen \o fk
    BY Joined
  <2>2. ExecSequence(s, st) = (gf \o own) \o jn
    BY <1>1, <1>2, <1>4, <1>5, <2>1 DEF ExecSequence
  <2>3. Regroups(gf, own, jn) /\ Regroups(gen, fk, x)
    BY Associative
  <2> QED BY <1>6, <1>7, <1>8, <2>1, <2>2, <2>3, Zenon DEF Regroups
<1> QED BY <1>8, <1>9

\* The execution of a pipeline, by the thread that calls it.
LEMMA ExecPipelineFacts ==
  ASSUME Sized, Len(stages) # 0
  PROVE  /\ ExecPipeline \in Seq(Calls) /\ Balanced(ExecPipeline)
         /\ Forks(Main, ExecPipeline) /\ Starts(ExecPipeline)
<1> DEFINE last == Len(stages)
           seqs == [s \in DOMAIN stages |-> GenProcesses(stages[s])]
           G == {c \in Seq(Calls) : Balanced(c) /\ Quiet(c)}
<1>1. last \in Nat \ {0} /\ last \in DOMAIN stages /\ stages[last] \in Sequenced /\ Leader(last) = Main
  BY DEF Sized, Sequenced, Leader
<1>2. seqs \in [1 .. last -> G]
  <2>1. \A s \in DOMAIN stages : GenProcesses(stages[s]) \in G
    BY GenFacts DEF Sized, Sequenced
  <2> HIDE DEF G
  <2> QED BY <2>1 DEF Sized
<1>3. \A a, b \in G : a \o b \in G
  BY Joined, BalancedJoin, QuietJoin
<1>4. FlattenSeq(seqs) \in G
  <2> HIDE DEF G, seqs
  <2> QED BY <1>1, <1>2, <1>3, Flattened
<1>5. PICK v \in Seq(Calls) : v = FlattenSeq(seqs) /\ Balanced(v) /\ Forkless(v) /\ Startless(v)
  BY <1>4, QuietFacts
<1>6. PICK x \in Seq(Calls) : x = ExecSequence(last, stages[last]) /\ Balanced(x) /\ Forks(Main, x) /\ Startless(x)
  BY <1>1, ExecSequenceFacts DEF Sized
<1>7. /\ Call("start", 0) \in Calls /\ Call("start", 0).call = "start"
      /\ Call("wait", 0) \in Calls /\ Call("wait", 0).call = "wait"
  BY CallFacts
<1>8. PICK f \in Seq(Calls) : f = <<Call("start", 0)>> /\ Len(f) = 1 /\ Balanced(f) /\ Forkless(f)
  BY <1>7, OneFacts
<1>9. PICK w \in Seq(Calls) : w = <<Call("wait", 0)>> /\ Balanced(w) /\ Occurs(Call("wait", 0), w) /\ Forkless(w) /\ Startless(w)
  BY <1>7, OneFacts
<1>10. PICK y \in Seq(Calls) : y = w \o v /\ Balanced(y) /\ Forkless(y) /\ Startless(y) /\ Occurs(Call("wait", 0), y)
  BY <1>5, <1>9, Joined, BalancedJoin, LessJoin, OccursJoin
<1>11. PICK z \in Seq(Calls) : z = x \o y /\ Balanced(z) /\ Forks(Main, z) /\ Startless(z) /\ Occurs(Call("wait", 0), z)
  BY <1>6, <1>10, Joined, BalancedJoin, ForksJoin, LessJoin, OccursJoin
<1>12. PICK p \in Seq(Calls) : p = f \o z /\ Balanced(p) /\ Forks(Main, p) /\ Starts(p)
  <2>1. f \o z \in Seq(Calls) /\ Balanced(f \o z)
    BY <1>8, <1>11, Joined, BalancedJoin
  <2>2. Forks(Main, f \o z)
    BY <1>8, <1>11, ForksJoin
  <2>3. Starts(f \o z)
    BY <1>8, <1>11, StartFirst
  <2> QED BY <2>1, <2>2, <2>3
<1>13. ExecPipeline = p
  <2>1. PICK fx \in Seq(Calls) : fx = f \o x
    BY Joined
  <2>2. ExecPipeline = (fx \o w) \o v
    BY <1>5, <1>6, <1>8, <1>9, <2>1 DEF ExecPipeline
  <2>3. Regroups(fx, w, v) /\ Regroups(f, x, y)
    BY Associative
  <2> QED BY <1>10, <1>11, <1>12, <2>1, <2>2, <2>3, Zenon DEF Regroups
<1> QED BY <1>12, <1>13

\* What a step leaves of the calls of its thread.
LEMMA TailFacts ==
  ASSUME NEW th, NEW c \in Seq(Calls), c # <<>>
  PROVE  /\ Forks(th, c) => Forks(th, Tail(c)) /\ (Head(c).call = "fork" => Forkless(Tail(c)))
         /\ Starts(c) => Startless(Tail(c)) /\ Starts(Tail(c))
         /\ Starts(c) /\ Head(c).call # "start" => Startless(c)
         /\ \A h : Occurs(h, Tail(c)) => Occurs(h, c)
         /\ \A h : Occurs(h, c) /\ h # Head(c) => Occurs(h, Tail(c))
<1> DEFINE rest == Tail(c)
<1>1. /\ Head(c) = c[1] /\ Len(rest) = Len(c) - 1 /\ Len(c) \in Nat \ {0} /\ 1 \in 1 .. Len(c)
      /\ \A i \in 1 .. Len(rest) : rest[i] = c[i + 1] /\ i + 1 \in 1 .. Len(c)
      /\ \A i \in 1 .. Len(c) : i = 1 \/ (i - 1 \in 1 .. Len(rest) /\ rest[i - 1] = c[i])
  BY Shortened
<1> HIDE DEF rest
<1>2. ASSUME Forks(th, c) PROVE Forks(th, rest) /\ (Head(c).call = "fork" => Forkless(rest))
  <2>1. ASSUME NEW i \in 1 .. Len(rest), rest[i].call = "fork"
        PROVE  /\ th = Leader(rest[i].text[1])
               /\ \E j \in 1 .. Len(rest) : i < j /\ rest[j] = Call("join", rest[i].text[1])
               /\ \A k \in 1 .. Len(rest) : rest[k].call = "fork" => k = i
    <3>1. i + 1 \in 1 .. Len(c) /\ c[i + 1] = rest[i]
      BY <1>1
    <3>2. th = Leader(rest[i].text[1]) /\ \A k \in 1 .. Len(c) : c[k].call = "fork" => k = i + 1
      BY <1>2, <2>1, <3>1 DEF Forks
    <3>3. PICK j \in 1 .. Len(c) : i + 1 < j /\ c[j] = Call("join", rest[i].text[1])
      BY <1>2, <2>1, <3>1 DEF Forks
    <3>4. j - 1 \in 1 .. Len(rest) /\ i < j - 1 /\ rest[j - 1] = Call("join", rest[i].text[1])
      BY <1>1, <3>3
    <3>5. ASSUME NEW k \in 1 .. Len(rest), rest[k].call = "fork" PROVE k = i
      <4>1. k + 1 = i + 1
        BY <1>1, <3>2, <3>5
      <4> QED BY <4>1
    <3> QED BY <3>2, <3>4, <3>5
  <2>2. ASSUME Head(c).call = "fork", NEW i \in 1 .. Len(rest), rest[i].call = "fork" PROVE FALSE
    <3>1. i + 1 \in 1 .. Len(c) /\ c[i + 1].call = "fork" /\ c[1].call = "fork" /\ i + 1 # 1
      BY <1>1, <2>2
    <3>2. i + 1 = 1
      BY <1>1, <1>2, <3>1 DEF Forks
    <3> QED BY <3>1, <3>2
  <2> QED BY <2>1, <2>2 DEF Forks, Forkless
<1>3. ASSUME Starts(c) PROVE Startless(rest) /\ Starts(rest) /\ (Head(c).call # "start" => Startless(c))
  <2>1. ASSUME NEW i \in 1 .. Len(rest) PROVE rest[i].call # "start"
    <3>1. i + 1 \in 1 .. Len(c) /\ c[i + 1] = rest[i] /\ i + 1 # 1
      BY <1>1
    <3> QED BY <1>3, <3>1 DEF Starts
  <2>2. Head(c).call # "start" => Startless(c)
    BY <1>1, <1>3 DEF Starts, Startless
  <2> QED BY <2>1, <2>2 DEF Starts, Startless
<1>4. ASSUME NEW h, Occurs(h, rest) PROVE Occurs(h, c)
  BY <1>1, <1>4 DEF Occurs
<1>5. ASSUME NEW h, Occurs(h, c), h # Head(c) PROVE Occurs(h, rest)
  BY <1>1, <1>5 DEF Occurs
<1> QED BY <1>2, <1>3, <1>4, <1>5 DEF rest

(***************************************************************************)
(* The invariant.                                                          *)
(***************************************************************************)
Entries == FileStages \cup OldStages \cup UserStages \cup {[threads |-> n] : n \in Nat \ {0}}

\* Somebody will join a thread that has calls to make: the leader of its stage or,
\* for a leader, the caller of exec.
Awaited(w, calls) ==
    /\ w[1] \in DOMAIN stages
    /\ w[2] = 1 => w[1] # Len(stages) /\ Occurs(Call("wait", 0), calls[Main])
    /\ w[2] # 1 => w \in Team(w[1]) /\ Occurs(Call("join", w[1]), calls[Leader(w[1])])

Scripted(calls, masks) ==
    /\ calls \in [Everyone -> Seq(Calls)] /\ DOMAIN masks = Everyone
    /\ \A th \in Everyone : Balanced(calls[th]) /\ Forks(th, calls[th])
    /\ \A th \in Everyone : masks[th] # PUs => ready /\ Released(calls[th])
    /\ \A th \in Everyone, s \in DOMAIN stages :
        Occurs(Call("fork", s), calls[th]) => \A w \in Workers : w \in Team(s) => calls[w] = <<>>
    /\ \A w \in Workers : calls[w] = <<>> \/ Awaited(w, calls)
    /\ Starts(calls[Main]) /\ (Startless(calls[Main]) \/ \A w \in Workers : calls[w] = <<>>)

Sound ==
    /\ asked \in Seq(Entries) /\ Sized
    /\ Scripted(script, mask)
    /\ phase \in {"read", "profile", "over"} => script[Main] = <<>>
    /\ phase = "build" => Len(stages) # 0

PinningIInv ==
    /\ mutex \in {"free", "held"} /\ (mutex = "held" => phase = "refused")
    /\ phase # "refused" => Sound

\* A thread that makes no more calls, and one that is about to create threads or to
\* start them, is free.
LEMMA FreeFacts ==
  ASSUME NEW calls, NEW masks, Scripted(calls, masks), NEW th \in Everyone
  PROVE  calls[th] = <<>> \/ Head(calls[th]).call \in Critical => masks[th] = PUs
<1>1. CASE calls[th] = <<>>
  BY <1>1 DEF Scripted, Released
<1>2. CASE calls[th] # <<>> /\ Head(calls[th]).call \in Critical
  BY <1>2, BalancedTail DEF Scripted
<1> QED BY <1>1, <1>2

\* Nobody has calls to make when the caller of exec has none.
LEMMA AllIdle ==
  ASSUME NEW calls, NEW masks, Scripted(calls, masks), calls[Main] = <<>>
  PROVE  \A th \in Everyone : calls[th] = <<>> /\ masks[th] = PUs
<1>1. ASSUME NEW h, NEW th, calls[th] = <<>> PROVE ~ Occurs(h, calls[th])
  BY <1>1 DEF Occurs
<1>2. ASSUME NEW w \in Workers, w[2] = 1 PROVE calls[w] = <<>>
  BY <1>1, <1>2 DEF Scripted, Awaited
<1>3. ASSUME NEW w \in Workers PROVE calls[w] = <<>>
  <2> SUFFICES ASSUME calls[w] # <<>> PROVE FALSE
    OBVIOUS
  <2>1. w[2] # 1 /\ Occurs(Call("join", w[1]), calls[Leader(w[1])])
    BY <1>2 DEF Scripted, Awaited
  <2>2. calls[Leader(w[1])] = <<>>
    <3>1. CASE w[1] = Len(stages)
      BY <3>1 DEF Leader
    <3>2. CASE w[1] # Len(stages)
      <4>1. Leader(w[1]) = <<w[1], 1>> /\ <<w[1], 1>> \in Workers /\ <<w[1], 1>>[2] = 1
        BY <3>2, ThreadsAssumption DEF Leader, Workers
      <4> QED BY <1>2, <4>1
    <3> QED BY <3>1, <3>2
  <2> QED BY <1>1, <2>1, <2>2
<1>4. \A th \in Everyone : calls[th] = <<>>
  BY <1>3 DEF Everyone
<1> QED BY <1>4, FreeFacts

\* Calls for the caller of exec, when nobody has any.
LEMMA OnlyMain ==
  ASSUME NEW masks, Scripted(script, masks), script[Main] = <<>>,
         NEW c \in Seq(Calls), Balanced(c), Forks(Main, c), Starts(c)
  PROVE  Scripted([script EXCEPT ![Main] = c], masks)
<1> DEFINE calls == [script EXCEPT ![Main] = c]
<1>1. Main \in Everyone /\ Main \notin Workers /\ Workers \subseteq Everyone
  BY ThreadsAssumption DEF Everyone, Main, Workers
<1>2. script \in [Everyone -> Seq(Calls)] /\ DOMAIN masks = Everyone
  BY DEF Scripted
<1>3. \A th \in Everyone : script[th] = <<>> /\ masks[th] = PUs
  BY AllIdle
<1>4. calls \in [Everyone -> Seq(Calls)] /\ calls[Main] = c /\ \A w \in Workers : calls[w] = <<>>
  BY <1>1, <1>2, <1>3
<1>5. \A th \in Everyone : th = Main \/ calls[th] = <<>>
  BY <1>4 DEF Everyone
<1> HIDE DEF calls
<1>6. Balanced(<<>>) /\ \A th : Forks(th, <<>>)
  BY DEF Balanced, Forks
<1>7. \A th \in Everyone : Balanced(calls[th]) /\ Forks(th, calls[th])
  BY <1>4, <1>5, <1>6
<1>8. Scripted(calls, masks)
  BY <1>2, <1>3, <1>4, <1>7 DEF Scripted
<1> QED BY <1>8 DEF calls

LEMMA EveryoneFacts == Main \in Everyone /\ Main \notin Workers /\ Workers \subseteq Everyone
  BY ThreadsAssumption DEF Everyone, Main, Workers

\* A thread makes a call that is no obstacle to the others.
LEMMA Advanced ==
  ASSUME NEW calls, NEW masks, Scripted(calls, masks),
         NEW th \in Everyone, calls[th] # <<>>,
         Head(calls[th]).call = "join" => \A w \in Workers : w \in Team(Head(calls[th]).text[1]) => calls[w] = <<>>,
         Head(calls[th]).call = "wait" => \A s \in 1 .. Len(stages) - 1 : calls[Leader(s)] = <<>>,
         NEW masks2, DOMAIN masks2 = Everyone, Sized,
         \A o \in Everyone : masks2[o] # PUs =>
            IF o = th THEN ready /\ Released(Tail(calls[th])) ELSE masks[o] # PUs
  PROVE  Scripted([calls EXCEPT ![th] = Tail(@)], masks2)
<1> DEFINE rest == Tail(calls[th])
           after == [calls EXCEPT ![th] = Tail(@)]
<1>1. calls \in [Everyone -> Seq(Calls)] /\ calls[th] \in Seq(Calls)
  BY DEF Scripted
<1>2. rest \in Seq(Calls)
  BY <1>1, Shortened
<1>3. after \in [Everyone -> Seq(Calls)] /\ after[th] = rest /\ \A o \in Everyone : o # th => after[o] = calls[o]
  BY <1>1, <1>2
<1> HIDE DEF after, rest
<1>4. /\ Balanced(rest) /\ Forks(th, rest)
      /\ \A h : Occurs(h, rest) => Occurs(h, calls[th])
      /\ \A h : Occurs(h, calls[th]) /\ h # Head(calls[th]) => Occurs(h, rest)
  BY <1>1, BalancedTail, TailFacts DEF Scripted, rest
<1>5. \A w \in Workers : calls[w] = <<>> => after[w] = <<>>
  BY <1>3, EveryoneFacts
<1>6. \A o \in Everyone : Balanced(after[o]) /\ Forks(o, after[o])
  BY <1>3, <1>4 DEF Scripted
<1>7. \A o \in Everyone : masks2[o] # PUs => ready /\ Released(after[o])
  BY <1>3 DEF Scripted, rest
<1>8. \A o \in Everyone, s \in DOMAIN stages :
        Occurs(Call("fork", s), after[o]) => \A w \in Workers : w \in Team(s) => after[w] = <<>>
  <2>1. \A h : \A o \in Everyone : Occurs(h, after[o]) => Occurs(h, calls[o])
    BY <1>3, <1>4
  <2> QED BY <1>5, <2>1 DEF Scripted
<1>9. ASSUME NEW w \in Workers, after[w] # <<>> PROVE Awaited(w, after)
  <2>1. calls[w] # <<>> /\ Awaited(w, calls)
    BY <1>5, <1>9 DEF Scripted
  <2>2. CASE w[2] = 1
    <3>1. w[1] \in DOMAIN stages /\ w[1] # Len(stages) /\ Occurs(Call("wait", 0), calls[Main])
      BY <2>1, <2>2 DEF Awaited
    <3>2. Leader(w[1]) = w /\ w[1] \in 1 .. Len(stages) - 1
      <4>1. w = <<w[1], w[2]>>
        BY DEF Workers
      <4> QED BY <2>2, <3>1, <4>1 DEF Leader, Sized
    <3>3. Main = th => Call("wait", 0) # Head(calls[th])
      BY <2>1, <3>2, CallFacts
    <3>4. Occurs(Call("wait", 0), after[Main])
      BY <1>3, <1>4, <3>1, <3>3, EveryoneFacts
    <3> QED BY <2>2, <3>1, <3>4 DEF Awaited
  <2>3. CASE w[2] # 1
    <3>1. w[1] \in DOMAIN stages /\ w \in Team(w[1]) /\ Occurs(Call("join", w[1]), calls[Leader(w[1])])
      BY <2>1, <2>3 DEF Awaited
    <3>2. Leader(w[1]) \in Everyone
      BY EveryoneFacts, ThreadsAssumption DEF Leader, Workers
    <3>3. Leader(w[1]) = th => Call("join", w[1]) # Head(calls[th])
      <4>1. Call("join", w[1]).call = "join" /\ Call("join", w[1]).text[1] = w[1]
        BY <3>1, CallFacts
      <4> QED BY <2>1, <3>1, <4>1
    <3>4. Occurs(Call("join", w[1]), after[Leader(w[1])])
      BY <1>3, <1>4, <3>1, <3>2, <3>3
    <3> QED BY <2>3, <3>1, <3>4 DEF Awaited
  <2> QED BY <2>2, <2>3
<1>10. Starts(after[Main]) /\ (Startless(after[Main]) \/ \A w \in Workers : after[w] = <<>>)
  <2>1. CASE Main = th
    BY <1>1, <1>3, <2>1, TailFacts DEF Scripted, rest
  <2>2. CASE Main # th
    BY <1>3, <1>5, <2>2, EveryoneFacts DEF Scripted
  <2> QED BY <2>1, <2>2
<1>11. Scripted(after, masks2)
  BY <1>3, <1>6, <1>7, <1>8, <1>9, <1>10 DEF Scripted
<1> QED BY <1>11 DEF after

(***************************************************************************)
(* The actions.                                                            *)
(***************************************************************************)
LEMMA Rebuilt ==
  ASSUME Sound, UNCHANGED <<stages, ready>>, asked' \in Seq(Entries), Scripted(script', mask'),
         phase' \in {"read", "profile", "over"} => script'[Main] = <<>>,
         phase' = "build" => Len(stages) # 0
  PROVE  Sound'
<1>1. Sized'
  BY DEF Sound, Sized
<1>2. Calls' = Calls
  BY DEF Calls, ThreadTexts
<1>3. ASSUME NEW th, NEW c, Forks(th, c) PROVE Forks(th, c)'
  BY <1>3 DEF Forks, Leader
<1>4. ASSUME NEW w, Awaited(w, script') PROVE Awaited(w, script)'
  BY <1>4 DEF Awaited, Leader, Team
<1>5. Scripted(script, mask)'
  <2>1. (script \in [Everyone -> Seq(Calls)] /\ DOMAIN mask = Everyone)'
    BY <1>2 DEF Scripted
  <2>2. (\A th \in Everyone : Balanced(script[th]) /\ Forks(th, script[th]))'
    BY DEF Scripted, Forks, Leader
  <2>3. (\A th \in Everyone : mask[th] # PUs => ready /\ Released(script[th]))'
    BY DEF Scripted
  <2>4. (\A th \in Everyone, s \in DOMAIN stages :
            Occurs(Call("fork", s), script[th]) => \A w \in Workers : w \in Team(s) => script[w] = <<>>)'
    BY DEF Scripted, Team
  <2>5. (\A w \in Workers : script[w] = <<>> \/ Awaited(w, script))'
    BY <1>4 DEF Scripted
  <2>6. (Starts(script[Main]) /\ (Startless(script[Main]) \/ \A w \in Workers : script[w] = <<>>))'
    BY DEF Scripted
  <2> QED BY <2>1, <2>2, <2>3, <2>4, <2>5, <2>6 DEF Scripted
<1> QED BY <1>1, <1>5 DEF Sound

\* What changes no call and no mask.
LEMMA ReadFacts ==
  ASSUME PinningIInv, UNCHANGED <<stages, ready, script, mask, mutex>>, asked' \in Seq(Entries),
         \/ phase' \in {phase, "refused"}
         \/ phase = "read" /\ phase' = "profile"
         \/ phase = "exec" /\ phase' = "over" /\ script[Main] = <<>>,
         phase # "refused"
  PROVE  PinningIInv'
<1>1. Sound /\ mutex = "free"
  BY DEF PinningIInv
<1>2. phase' # "refused" => Sound'
  BY <1>1, Rebuilt DEF Sound
<1> QED BY <1>1, <1>2 DEF PinningIInv

LEMMA ReadStep ==
  ASSUME PinningIInv,
         \/ \E entry \in FileStages : ReadStage(entry)
         \/ \E entry \in OldStages : ReadOldStage(entry)
         \/ \E entry \in UserStages : AddStage(entry)
         \/ EndOfFile \/ ExecReturns
  PROVE  PinningIInv'
<1>1. ASSUME phase # "refused" PROVE asked \in Seq(Entries)
  BY <1>1 DEF PinningIInv, Sound
<1>2. ASSUME NEW entry \in Entries, asked' = Append(asked, entry), phase # "refused" PROVE asked' \in Seq(Entries)
  BY <1>1, <1>2
<1>3. ASSUME NEW entry \in FileStages, ReadStage(entry) PROVE PinningIInv'
  BY <1>2, <1>3, ReadFacts DEF ReadStage, Unread, Entries
<1>4. ASSUME NEW entry \in OldStages, ReadOldStage(entry) PROVE PinningIInv'
  BY <1>2, <1>4, ReadFacts DEF ReadOldStage, Unread, Entries
<1>5. ASSUME NEW entry \in UserStages, AddStage(entry) PROVE PinningIInv'
  BY <1>2, <1>5, ReadFacts DEF AddStage, Unread, Entries
<1>6. ASSUME EndOfFile PROVE PinningIInv'
  BY <1>1, <1>6, ReadFacts DEF EndOfFile, Unread
<1>7. ASSUME ExecReturns PROVE PinningIInv'
  BY <1>1, <1>7, ReadFacts DEF ExecReturns, reading
<1> QED BY <1>3, <1>4, <1>5, <1>6, <1>7

LEMMA ScheduleGRStep ==
  ASSUME PinningIInv, NEW n \in 1 .. MaxThreads, ScheduleGR(n)
  PROVE  PinningIInv'
<1>1. \A t \in 1 .. NTasks : [threads |-> IF ReplicableTasks[t] THEN n ELSE 1] \in Entries
  BY DEF Entries
<1>2. NTasks \in Nat
  BY ThreadsAssumption DEF NTasks
<1>3. [t \in 1 .. NTasks |-> [threads |-> IF ReplicableTasks[t] THEN n ELSE 1]] \in Seq(Entries)
  BY <1>1, <1>2
<1> QED BY <1>3, ReadFacts DEF ScheduleGR, Unread

LEMMA ProfileStep ==
  ASSUME PinningIInv, NEW place \in {<<>>, <<PU(0)>>}, Profile(place)
  PROVE  PinningIInv'
<1> DEFINE st == OneThread(place)
<1>1. st \in Sequenced /\ st.threads \in Nat \ {0}
  BY DEF Sequenced, OneThread
<1>2. Sound /\ script[Main] = <<>> /\ phase # "build" /\ mutex = "free"
  BY DEF PinningIInv, Profile, Sound
<1> HIDE DEF st
<1>3. PICK gen \in Seq(Calls) : gen = GenProcesses(st) /\ Balanced(gen) /\ Quiet(gen)
  BY <1>1, GenFacts
<1>4. PICK own \in Seq(Calls) : own = ExecThread(st, 1) /\ Balanced(own) /\ Quiet(own)
  BY <1>1, ThreadFacts
<1>5. PICK x \in Seq(Calls) : x = gen \o own /\ Balanced(x) /\ Quiet(x)
  BY <1>3, <1>4, Joined, BalancedJoin, QuietJoin
<1>6. PICK c \in Seq(Calls) : c = x \o gen /\ Balanced(c) /\ Quiet(c)
  BY <1>3, <1>5, Joined, BalancedJoin, QuietJoin
<1>7. script' = [script EXCEPT ![Main] = c] /\ phase' = "profiling" /\ UNCHANGED <<ready, asked, stages, mask, mutex>>
  BY <1>3, <1>4, <1>5, <1>6 DEF Profile, reading, st
<1>8. Scripted(script', mask')
  BY <1>2, <1>6, <1>7, QuietFacts, OnlyMain DEF Sound
<1>9. Sound'
  BY <1>2, <1>7, <1>8, Rebuilt DEF Sound
<1> QED BY <1>2, <1>7, <1>9 DEF PinningIInv

LEMMA ExecStep ==
  ASSUME PinningIInv, Exec
  PROVE  PinningIInv'
<1>1. Sound /\ script[Main] = <<>> /\ Len(stages) # 0 /\ mutex = "free"
  BY DEF PinningIInv, Exec, Sound
<1>2. PICK c \in Seq(Calls) : c = ExecPipeline /\ Balanced(c) /\ Forks(Main, c) /\ Starts(c)
  BY <1>1, ExecPipelineFacts DEF Sound
<1>3. script' = [script EXCEPT ![Main] = c] /\ phase' = "exec" /\ UNCHANGED <<ready, asked, stages, mask, mutex>>
  BY <1>2 DEF Exec, reading
<1>4. Scripted(script', mask')
  BY <1>1, <1>2, <1>3, OnlyMain DEF Sound
<1>5. Sound'
  BY <1>1, <1>3, <1>4, Rebuilt DEF Sound
<1> QED BY <1>1, <1>3, <1>5 DEF PinningIInv

\* A step of a thread that makes one of its calls, and changes its own mask at most.
LEMMA CallStep ==
  ASSUME PinningIInv, NEW th \in Everyone, script[th] # <<>>, phase # "refused",
         Head(script[th]).call = "join" => \A w \in Team(Arg(th)[1]) : script[w] = <<>>,
         Head(script[th]).call = "wait" => \A s \in 1 .. Len(stages) - 1 : script[Leader(s)] = <<>>,
         Advance(th), UNCHANGED <<ready, asked, stages, phase, mutex>>, DOMAIN mask' = Everyone,
         \A o \in Everyone : mask'[o] # PUs =>
            IF o = th THEN ready /\ Released(Tail(script[th])) ELSE mask[o] # PUs
  PROVE  PinningIInv'
<1>1. Sound /\ mutex = "free"
  BY DEF PinningIInv
<1>2. Scripted(script', mask')
  <2>1. Scripted(script, mask) /\ Sized
    BY <1>1 DEF Sound
  <2>2. Head(script[th]).call = "join" =>
            \A w \in Workers : w \in Team(Head(script[th]).text[1]) => script[w] = <<>>
    BY DEF Arg
  <2>3. PICK masks2 : masks2 = mask'
    OBVIOUS
  <2>4. Scripted([script EXCEPT ![th] = Tail(@)], masks2)
    BY <2>1, <2>2, <2>3, Advanced
  <2> QED BY <2>3, <2>4 DEF Advance
<1>3. ~ (phase \in {"read", "profile", "over"} /\ th = Main)
  BY <1>1 DEF Sound
<1>4. phase \in {"read", "profile", "over"} => script'[Main] = <<>>
  BY <1>1, <1>3, EveryoneFacts DEF Sound, Scripted, Advance
<1>5. Sound'
  BY <1>1, <1>2, <1>4, Rebuilt DEF Sound
<1> QED BY <1>1, <1>5 DEF PinningIInv

\* What is left to do after a call that pins, frees, or changes no mask.
LEMMA LeftToDo ==
  ASSUME Sound, NEW th \in Everyone, script[th] # <<>>
  PROVE  /\ Head(script[th]).call = "pin" => Released(Tail(script[th]))
         /\ mask[th] # PUs => ready /\ (Head(script[th]).call # "unpin" => Released(Tail(script[th])))
         /\ DOMAIN mask = Everyone
  BY BalancedTail DEF Sound, Scripted

LEMMA PinStep ==
  ASSUME PinningIInv, NEW th \in Everyone, PinCall(th)
  PROVE  PinningIInv'
<1>1. CASE phase' = "refused"
  BY <1>1 DEF PinCall, PinningIInv
<1>2. CASE phase' # "refused"
  <2>1. /\ phase' = phase /\ Advance(th) /\ UNCHANGED <<ready, asked, stages, mutex>>
        /\ script[th] # <<>> /\ Head(script[th]).call = "pin"
        /\ mask' = [mask EXCEPT ![th] = IF ready THEN Union(Arg(th)) ELSE @]
    BY <1>2 DEF PinCall, IsNext, Unplanned, reading
  <2>2. Sound
    BY <1>2, <2>1 DEF PinningIInv
  <2>3. DOMAIN mask' = Everyone /\ \A o \in Everyone : mask'[o] # PUs =>
            IF o = th THEN ready /\ Released(Tail(script[th])) ELSE mask[o] # PUs
    BY <2>1, <2>2, LeftToDo
  <2> QED BY <1>2, <2>1, <2>3, CallStep
<1> QED BY <1>1, <1>2

LEMMA UnpinStep ==
  ASSUME PinningIInv, NEW th \in Everyone, UnpinCall(th), phase # "refused"
  PROVE  PinningIInv'
<1>1. /\ phase' = phase /\ Advance(th) /\ UNCHANGED <<ready, asked, stages, mutex>>
      /\ script[th] # <<>> /\ Head(script[th]).call = "unpin"
      /\ mask' = [mask EXCEPT ![th] = IF ready THEN PUs ELSE @]
  BY DEF UnpinCall, IsNext, Unplanned, reading
<1>2. Sound
  BY DEF PinningIInv
<1>3. DOMAIN mask' = Everyone /\ \A o \in Everyone : mask'[o] # PUs =>
          IF o = th THEN ready /\ Released(Tail(script[th])) ELSE mask[o] # PUs
  BY <1>1, <1>2, LeftToDo
<1> QED BY <1>1, <1>3, CallStep

LEMMA WorkStep ==
  ASSUME PinningIInv, NEW th \in Everyone, Execute(th) \/ JoinTeam(th), phase # "refused"
  PROVE  PinningIInv'
<1>1. /\ phase' = phase /\ Advance(th) /\ UNCHANGED <<ready, asked, stages, mutex, mask>>
      /\ script[th] # <<>> /\ Head(script[th]).call \in {"work", "join", "wait"}
      /\ Head(script[th]).call = "join" => \A w \in Team(Arg(th)[1]) : script[w] = <<>>
      /\ Head(script[th]).call = "wait" => \A s \in 1 .. Len(stages) - 1 : script[Leader(s)] = <<>>
  BY DEF Execute, JoinTeam, IsNext, Unplanned, reading
<1>2. Sound
  BY DEF PinningIInv
<1>3. DOMAIN mask' = Everyone /\ \A o \in Everyone : mask'[o] # PUs =>
          IF o = th THEN ready /\ Released(Tail(script[th])) ELSE mask[o] # PUs
  BY <1>1, <1>2, LeftToDo
<1> QED BY <1>1, <1>3, CallStep

\* New threads inherit a mask that is free.
LEMMA SpawnStep ==
  ASSUME PinningIInv, Spawn, phase # "refused"
  PROVE  PinningIInv'
<1>1. /\ phase' = phase /\ Advance(Main) /\ UNCHANGED <<ready, asked, stages, mutex>>
      /\ script[Main] # <<>> /\ Head(script[Main]).call \in {"spawn", "pool"}
      /\ \E new : mask' = [th \in Everyone |-> IF th \in new THEN mask[Main] ELSE mask[th]]
  BY DEF Spawn, IsNext, Unplanned, reading
<1>2. Sound
  BY DEF PinningIInv
<1>3. mask[Main] = PUs
  BY <1>1, <1>2, EveryoneFacts, FreeFacts DEF Sound, Critical
<1>4. DOMAIN mask' = Everyone /\ \A o \in Everyone : mask'[o] # PUs => mask[o] # PUs /\ o # Main
  BY <1>1, <1>3
<1> QED BY <1>1, <1>4, EveryoneFacts, CallStep

\* A stage is built: its calls come before the ones of the next stages.
LEMMA BuildStep ==
  ASSUME PinningIInv, BuildStage, phase # "refused"
  PROVE  PinningIInv'
<1>1. Sound /\ mutex = "free" /\ script[Main] # <<>> /\ Head(script[Main]).call = "stage"
  BY DEF PinningIInv, BuildStage, IsNext
<1>2. CASE phase' = "refused"
  BY <1>1, <1>2 DEF BuildStage, PinningIInv
<1>3. CASE phase' # "refused"
  <2> DEFINE rest == Tail(script[Main])
             s == Arg(Main)[1]
  <2>1. /\ script' = [script EXCEPT ![Main] = InitSequence(s, stages[s]) \o Tail(@)]
        /\ phase' = phase /\ UNCHANGED <<ready, asked, stages, mask, mutex>>
    BY <1>3 DEF BuildStage, Unplanned, reading
  <2>2. script[Main] \in Seq(Calls) /\ Head(script[Main]) \in Calls
    BY <1>1, EveryoneFacts, Shortened DEF Sound, Scripted
  <2>3. s \in DOMAIN stages /\ stages[s] \in Sequenced /\ stages[s].threads \in Nat \ {0}
    BY <1>1, <2>2, CallFacts DEF Arg, Sound, Sized, Sequenced
  <2> HIDE DEF s
  <2>4. PICK i \in Seq(Calls) : i = InitSequence(s, stages[s]) /\ Balanced(i) /\ Setup(i)
    BY <2>3, InitFacts
  <2>5. Forkless(i) /\ Startless(i)
    BY <2>4 DEF Setup, Forkless, Startless
  <2>6. rest \in Seq(Calls) /\ Balanced(rest) /\ Forks(Main, rest) /\ Startless(rest)
        /\ (\A h : Occurs(h, rest) => Occurs(h, script[Main])) /\ Startless(script[Main])
        /\ (\A h : Occurs(h, script[Main]) /\ h.call # "stage" => Occurs(h, rest))
    BY <1>1, <2>2, EveryoneFacts, Shortened, BalancedTail, TailFacts DEF Sound, Scripted
  <2> HIDE DEF rest
  <2>7. PICK c : c = i \o rest /\ JoinOf(i, rest, c) /\ c \in Seq(Calls) /\ Balanced(c) /\ Startless(c)
    BY <2>4, <2>5, <2>6, Joined, BalancedJoin, LessJoin
  <2>8. Forks(Main, c)
    BY <2>4, <2>5, <2>6, <2>7, ForksJoin
  <2>9. ASSUME NEW h PROVE /\ h.call = "fork" /\ Occurs(h, c) => Occurs(h, script[Main])
                           /\ h.call # "stage" /\ Occurs(h, script[Main]) => Occurs(h, c)
    <3>1. h.call = "fork" /\ Occurs(h, c) => Occurs(h, rest)
      BY <2>5, <2>7 DEF JoinOf, Occurs, Forkless
    <3>2. Occurs(h, rest) => Occurs(h, c)
      BY <2>7 DEF JoinOf, Occurs
    <3> QED BY <2>6, <3>1, <3>2
  <2>10. script' = [script EXCEPT ![Main] = c]
    BY <2>1, <2>4, <2>7 DEF rest
  <2>11. mask[Main] = PUs
    BY <1>1, EveryoneFacts, FreeFacts DEF Sound, Critical
  <2>12. Scripted(script', mask')
    <3>1. /\ script' \in [Everyone -> Seq(Calls)] /\ script'[Main] = c
          /\ \A th \in Everyone : th # Main => script'[th] = script[th]
      BY <1>1, <2>7, <2>10, EveryoneFacts DEF Sound, Scripted
    <3>2. \A w \in Workers : script'[w] = script[w]
      BY <3>1, EveryoneFacts
    <3>3. \A th \in Everyone : Balanced(script'[th]) /\ Forks(th, script'[th])
      BY <1>1, <2>7, <2>8, <3>1 DEF Sound, Scripted
    <3>4. \A th \in Everyone : mask'[th] # PUs => ready /\ Released(script'[th])
      BY <1>1, <2>1, <2>11, <3>1 DEF Sound, Scripted
    <3>5. \A th \in Everyone, t \in DOMAIN stages :
            Occurs(Call("fork", t), script'[th]) => \A w \in Workers : w \in Team(t) => script'[w] = <<>>
      <4>1. \A th \in Everyone, t \in DOMAIN stages :
                Occurs(Call("fork", t), script'[th]) => Occurs(Call("fork", t), script[th])
        BY <2>9, <3>1, CallFacts
      <4> QED BY <1>1, <3>2, <4>1 DEF Sound, Scripted
    <3>6. ASSUME NEW w \in Workers, script'[w] # <<>> PROVE Awaited(w, script')
      <4>1. Awaited(w, script) /\ w[1] \in DOMAIN stages
        BY <1>1, <3>2, <3>6 DEF Sound, Scripted, Awaited
      <4>2. Call("join", w[1]).call = "join" /\ Call("wait", 0).call = "wait"
        BY <4>1, CallFacts
      <4>3. \A th \in Everyone : Occurs(Call("join", w[1]), script[th]) => Occurs(Call("join", w[1]), script'[th])
        BY <2>9, <3>1, <4>2
      <4>4. Occurs(Call("wait", 0), script[Main]) => Occurs(Call("wait", 0), script'[Main])
        BY <2>9, <3>1, <4>2
      <4>5. Leader(w[1]) \in Everyone
        BY EveryoneFacts, ThreadsAssumption DEF Leader, Workers
      <4> QED BY <4>1, <4>3, <4>4, <4>5 DEF Awaited
    <3>7. Starts(script'[Main]) /\ Startless(script'[Main])
      BY <2>7, <3>1 DEF Starts, Startless
    <3> QED BY <1>1, <2>1, <3>1, <3>3, <3>4, <3>5, <3>6, <3>7 DEF Sound, Scripted
  <2>13. phase \notin {"read", "profile", "over"}
    BY <1>1 DEF Sound
  <2>14. Sound'
    BY <1>1, <2>1, <2>12, <2>13, Rebuilt DEF Sound
  <2> QED BY <1>1, <2>1, <2>14 DEF PinningIInv
<1> QED BY <1>2, <1>3

\* A schedule becomes a pipeline, before any thread has been created.
LEMMA GenerateStep ==
  ASSUME PinningIInv, Generate
  PROVE  PinningIInv'
<1>1. CASE phase' = "refused"
  BY <1>1 DEF Generate, PinningIInv, MayBuild
<1>2. CASE phase' # "refused"
  <2>1. /\ phase' = "build" /\ UNCHANGED <<ready, asked, mask, mutex>>
        /\ phase # "refused" /\ script[Main] = <<>> /\ asked # <<>>
        /\ script' = [script EXCEPT ![Main] = [s \in DOMAIN asked |-> Call("stage", s)] \o <<Call("pool", 0)>>]
    BY <1>2 DEF Generate, MayBuild, reading
  <2>2. DOMAIN stages' = DOMAIN asked /\ stages' = [s \in DOMAIN asked |-> stages'[s]]
        /\ \A s \in DOMAIN asked : stages'[s].threads = asked[s].threads
    BY <1>2 DEF Generate
  <2>3. Sound /\ mutex = "free"
    BY <2>1 DEF PinningIInv
  <2>4. Len(asked) \in Nat \ {0} /\ DOMAIN asked = 1 .. Len(asked)
        /\ \A s \in DOMAIN asked : asked[s].threads \in Nat \ {0}
    <3>1. asked \in Seq(Entries) /\ Len(asked) \in Nat /\ DOMAIN asked = 1 .. Len(asked)
      BY <2>3 DEF Sound
    <3>2. \A s \in DOMAIN asked : asked[s] \in Entries
      BY <3>1
    <3>3. \A entry \in Entries : entry.threads \in Nat \ {0}
      BY ThreadsAssumption DEF Entries
    <3> QED BY <2>1, <3>1, <3>2, <3>3, EmptySeq
  <2>5. Sized' /\ Len(stages') # 0
    <3>1. stages' \in Seq({stages'[s] : s \in DOMAIN asked}) /\ Len(stages') = Len(asked)
      BY <2>2, <2>4
    <3> QED BY <2>2, <2>4, <3>1 DEF Sized
  <2> DEFINE Firsts == {Call("stage", s) : s \in DOMAIN asked} \cup {Call("pool", 0)}
  <2>6. \A h \in Firsts : h \in Calls' /\ h.call \notin {"pin", "fork", "start"}
    <3>1. Firsts \subseteq Calls'
      BY <2>2 DEF Calls
    <3>2. \A name, s : Call(name, s).call = name
      BY DEF Call
    <3> QED BY <3>1, <3>2
  <2>7. PICK c : /\ script' = [script EXCEPT ![Main] = c] /\ c \in Seq(Firsts)
    <3>1. [s \in DOMAIN asked |-> Call("stage", s)] \in Seq(Firsts) /\ <<Call("pool", 0)>> \in Seq(Firsts)
      BY <2>4
    <3> HIDE DEF Firsts
    <3>2. [s \in DOMAIN asked |-> Call("stage", s)] \o <<Call("pool", 0)>> \in Seq(Firsts)
      BY <3>1, Joined
    <3> QED BY <2>1, <3>2
  <2> HIDE DEF Firsts
  <2>8. Len(c) \in Nat /\ \A i \in 1 .. Len(c) : c[i].call \notin {"pin", "fork", "start"} /\ c[i] \in Calls'
    BY <2>6, <2>7
  <2>9. c \in Seq(Calls')
    BY <2>6, <2>7, <2>8
  <2>10. \A th \in Everyone : script[th] = <<>> /\ mask[th] = PUs
    BY <2>1, <2>3, AllIdle DEF Sound
  <2>11. /\ script' \in [Everyone -> Seq(Calls')] /\ script'[Main] = c
         /\ \A w \in Workers : script'[w] = <<>>
         /\ \A th \in Everyone : th = Main \/ script'[th] = <<>>
         /\ \A th \in Everyone : mask'[th] = PUs
    <3>1. script \in [Everyone -> Seq(Calls)] /\ <<>> \in Seq(Calls')
      BY <2>3 DEF Sound, Scripted
    <3>2. DOMAIN script' = Everyone /\ script'[Main] = c /\ script' = [th \in Everyone |-> script'[th]]
      BY <2>7, <3>1, EveryoneFacts
    <3>3. \A th \in Everyone : th = Main \/ script'[th] = <<>>
      BY <2>7, <2>10, <3>1
    <3>4. script' \in [Everyone -> Seq(Calls')]
      BY <2>9, <3>1, <3>2, <3>3
    <3>5. \A w \in Workers : script'[w] = <<>>
      BY <3>3, EveryoneFacts
    <3>6. \A th \in Everyone : mask'[th] = PUs
      BY <2>1, <2>10
    <3> QED BY <3>2, <3>3, <3>4, <3>5, <3>6
  <2>12. \A th \in Everyone : \A i \in 1 .. Len(script'[th]) : script'[th][i].call \notin {"pin", "fork", "start"}
    BY <2>8, <2>11
  <2>13. Scripted(script, mask)'
    <3>1. (script \in [Everyone -> Seq(Calls)] /\ DOMAIN mask = Everyone)'
      BY <2>1, <2>3, <2>11 DEF Sound, Scripted
    <3>2. (\A th \in Everyone : Balanced(script[th]) /\ Forks(th, script[th]))'
      BY <2>12 DEF Balanced, Forks
    <3>3. (\A th \in Everyone : mask[th] # PUs => ready /\ Released(script[th]))'
      BY <2>11
    <3>4. (\A th \in Everyone, s \in DOMAIN stages :
              Occurs(Call("fork", s), script[th]) => \A w \in Workers : w \in Team(s) => script[w] = <<>>)'
      BY <2>11
    <3>5. (\A w \in Workers : script[w] = <<>> \/ Awaited(w, script))'
      BY <2>11
    <3>6. (Starts(script[Main]) /\ (Startless(script[Main]) \/ \A w \in Workers : script[w] = <<>>))'
      BY <2>11, <2>12, EveryoneFacts DEF Starts
    <3> QED BY <3>1, <3>2, <3>3, <3>4, <3>5, <3>6 DEF Scripted
  <2>14. Sound'
    BY <2>1, <2>3, <2>5, <2>13 DEF Sound
  <2> QED BY <2>1, <2>3, <2>14 DEF PinningIInv
<1> QED BY <1>1, <1>2

\* The leader of a stage gives its threads their calls, and waits for them later.
LEMMA ForkStep ==
  ASSUME PinningIInv, NEW th \in Everyone, Fork(th), phase # "refused"
  PROVE  PinningIInv'
<1> DEFINE rest == Tail(script[th])
           s == Arg(th)[1]
<1>1. Sound /\ mutex = "free" /\ script[th] # <<>> /\ Head(script[th]).call = "fork"
      /\ UNCHANGED <<ready, asked, stages, mask, phase, mutex>>
  BY DEF PinningIInv, Fork, IsNext, Unplanned, reading
<1>2. Scripted(script, mask) /\ script[th] \in Seq(Calls) /\ Head(script[th]) = script[th][1] /\ 1 \in 1 .. Len(script[th])
      /\ Head(script[th]) \in Calls /\ rest \in Seq(Calls)
  BY <1>1, Shortened DEF Sound, Scripted
<1>3. s \in DOMAIN stages /\ Head(script[th]) = Call("fork", s) /\ stages[s] \in Sequenced
  BY <1>1, <1>2, CallFacts DEF Arg, Sequenced
<1>4. /\ \A w \in Team(s) : w[1] = s /\ w[2] # 1 /\ w # Main
      /\ \A t : Leader(t) \notin Team(s)
      /\ \A t, w : w \in Team(t) /\ w \in Team(s) => t = s
  <2>1. \A t, w : w \in Team(t) => w[1] = t /\ w[2] # 1 /\ w[2] # 0
    BY DEF Team
  <2>2. \A t : Leader(t) = Main \/ Leader(t) = <<t, 1>>
    BY DEF Leader
  <2> QED BY <2>1, <2>2 DEF Main
<1>5. script' = [w \in Everyone |-> IF w = th THEN rest
                                    ELSE IF w \in Team(s) THEN ExecThread(stages[s], w[2]) ELSE script[w]]
  BY DEF Fork
<1> HIDE DEF s, rest
<1>6. /\ Balanced(rest) /\ Forks(th, rest) /\ Forkless(rest)
      /\ \A h : Occurs(h, rest) => Occurs(h, script[th])
      /\ \A h : Occurs(h, script[th]) /\ h # Head(script[th]) => Occurs(h, rest)
  BY <1>1, <1>2, BalancedTail, TailFacts DEF Scripted, rest
<1>7. th = Leader(s) /\ Occurs(Call("fork", s), script[th]) /\ Occurs(Call("join", s), rest) /\ th \notin Team(s)
  <2>1. Call("fork", s).call = "fork" /\ Call("fork", s).text[1] = s /\ Call("join", s).call = "join"
    BY <1>3, CallFacts
  <2>2. Forks(th, script[th]) /\ script[th][1].call = "fork" /\ script[th][1].text[1] = s
    BY <1>2, <1>3, <2>1 DEF Scripted
  <2>3. th = Leader(s) /\ Occurs(Call("join", s), script[th])
    BY <1>2, <2>2 DEF Forks, Occurs
  <2> QED BY <1>2, <1>3, <1>4, <1>6, <2>1, <2>3 DEF Occurs
<1>8. /\ script' \in [Everyone -> Seq(Calls)] /\ script'[th] = rest
      /\ \A w \in Everyone : w # th /\ w \notin Team(s) => script'[w] = script[w]
      /\ \A w \in Everyone : w \in Team(s) => Balanced(script'[w]) /\ Forkless(script'[w]) /\ Startless(script'[w])
                                              /\ Forks(w, script'[w])
  <2>1. \A w \in Everyone : w[2] \in Nat
    BY ThreadsAssumption DEF Everyone, Workers, Main
  <2>2. ASSUME NEW w \in Everyone
        PROVE  LET own == ExecThread(stages[s], w[2]) IN
               own \in Seq(Calls) /\ Balanced(own) /\ Forkless(own) /\ Startless(own) /\ Forks(w, own)
    BY <1>3, <2>1, ThreadFacts, QuietFacts
  <2>3. script \in [Everyone -> Seq(Calls)]
    BY <1>2 DEF Scripted
  <2> QED BY <1>2, <1>5, <1>7, <2>2, <2>3 DEF rest
<1>9. \A w \in Workers : w \in Team(s) => script[w] = <<>>
  BY <1>2, <1>3, <1>7 DEF Scripted
<1>10. \A h, o : h.call # "fork" /\ o \in Everyone /\ o \notin Team(s) /\ Occurs(h, script[o]) => Occurs(h, script'[o])
  BY <1>1, <1>6, <1>8
<1>11. \A o \in Everyone : Balanced(script'[o]) /\ Forks(o, script'[o])
  BY <1>2, <1>6, <1>8 DEF Scripted
<1>12. \A o \in Everyone : mask'[o] # PUs => ready /\ Released(script'[o])
  <2>1. mask[th] # PUs => ready /\ Released(rest)
    BY <1>1, LeftToDo DEF rest
  <2>2. ASSUME NEW o \in Everyone, o \in Team(s) PROVE mask[o] = PUs
    <3>1. o \in Workers
      BY <1>4, <2>2 DEF Everyone
    <3> QED BY <1>2, <1>9, <2>2, <3>1, FreeFacts
  <2> QED BY <1>1, <1>2, <1>8, <2>1, <2>2 DEF Scripted
<1>13. ASSUME NEW o \in Everyone, NEW t \in DOMAIN stages, Occurs(Call("fork", t), script'[o]),
              NEW w \in Workers, w \in Team(t)
       PROVE  script'[w] = <<>>
  <2>1. Call("fork", t).call = "fork" /\ Call("fork", t).text[1] = t
    BY CallFacts
  <2>2. o # th /\ o \notin Team(s)
    BY <1>6, <1>8, <1>13, <2>1 DEF Occurs, Forkless
  <2>3. Occurs(Call("fork", t), script[o]) /\ Forks(o, script[o])
    BY <1>2, <1>8, <1>13, <2>2 DEF Scripted
  <2>4. o = Leader(t)
    BY <2>1, <2>3 DEF Forks, Occurs
  <2>5. w \notin Team(s)
    BY <1>4, <1>7, <1>13, <2>2, <2>4
  <2>6. script[w] = <<>>
    BY <1>2, <1>13, <2>3 DEF Scripted
  <2> QED BY <1>1, <1>8, <2>5, <2>6, EveryoneFacts
<1>14. ASSUME NEW w \in Workers, script'[w] # <<>> PROVE Awaited(w, script')
  <2>1. CASE w \in Team(s)
    <3>1. w[1] = s /\ w[2] # 1 /\ Occurs(Call("join", s), script'[Leader(s)])
      BY <1>4, <1>7, <1>8, <2>1
    <3> QED BY <1>3, <2>1, <3>1 DEF Awaited
  <2>2. CASE w \notin Team(s)
    <3>1. Awaited(w, script) /\ w[1] \in DOMAIN stages
      BY <1>1, <1>2, <1>8, <1>14, <2>2, EveryoneFacts DEF Scripted, Awaited
    <3>2. Call("join", w[1]).call = "join" /\ Call("wait", 0).call = "wait"
      BY <3>1, CallFacts
    <3>3. Leader(w[1]) \in Everyone /\ Main \in Everyone /\ Main \notin Team(s)
      BY <1>4, EveryoneFacts, ThreadsAssumption DEF Leader, Workers
    <3>4. Occurs(Call("join", w[1]), script[Leader(w[1])]) => Occurs(Call("join", w[1]), script'[Leader(w[1])])
      BY <1>4, <1>10, <3>2, <3>3
    <3>5. Occurs(Call("wait", 0), script[Main]) => Occurs(Call("wait", 0), script'[Main])
      BY <1>10, <3>2, <3>3
    <3> QED BY <3>1, <3>4, <3>5 DEF Awaited
  <2> QED BY <2>1, <2>2
<1>15. Starts(script'[Main]) /\ Startless(script'[Main])
  <2>1. CASE Main = th
    BY <1>1, <1>2, <1>8, <2>1, TailFacts DEF Scripted, rest
  <2>2. CASE Main # th
    <3>1. th \in Workers
      BY <2>2 DEF Everyone
    <3>2. Startless(script[Main]) /\ Starts(script[Main])
      BY <1>1, <1>2, <3>1 DEF Scripted
    <3> QED BY <1>4, <1>8, <2>2, <3>2, EveryoneFacts
  <2> QED BY <2>1, <2>2
<1>16. Scripted(script', mask')
  BY <1>1, <1>2, <1>8, <1>11, <1>12, <1>13, <1>14, <1>15 DEF Scripted
<1>17. phase \in {"read", "profile", "over"} => script'[Main] = <<>>
  <2>1. phase \in {"read", "profile", "over"} => \A o \in Everyone : script[o] = <<>>
    BY <1>1, <1>2, AllIdle DEF Sound
  <2> QED BY <1>1, <2>1
<1>18. Sound'
  BY <1>1, <1>16, <1>17, Rebuilt DEF Sound
<1> QED BY <1>1, <1>18 DEF PinningIInv

\* The pool of the pipeline is started, by a thread that waits for it later.
LEMMA StartStep ==
  ASSUME PinningIInv, Start, phase # "refused"
  PROVE  PinningIInv'
<1> DEFINE rest == Tail(script[Main])
           Leaders == {Leader(s) : s \in 1 .. Len(stages) - 1}
<1>1. Sound /\ mutex = "free" /\ script[Main] # <<>> /\ Head(script[Main]).call = "start"
      /\ UNCHANGED <<ready, asked, stages, mask, phase, mutex>>
  BY DEF PinningIInv, Start, IsNext, Unplanned, reading
<1>2. Scripted(script, mask) /\ script[Main] \in Seq(Calls) /\ Head(script[Main]) = script[Main][1]
      /\ 1 \in 1 .. Len(script[Main]) /\ rest \in Seq(Calls) /\ Sized
  BY <1>1, EveryoneFacts, Shortened DEF Sound, Scripted
<1>3. script' = [w \in Everyone |-> IF w = Main THEN rest
                                    ELSE IF w \in Leaders THEN ExecSequence(w[1], stages[w[1]]) ELSE script[w]]
  BY DEF Start
<1>4. \A w \in Leaders : w = <<w[1], 1>> /\ w[1] \in DOMAIN stages /\ w[1] # Len(stages) /\ w = Leader(w[1])
                         /\ stages[w[1]] \in Sequenced /\ stages[w[1]].threads \in Nat \ {0} /\ w # Main
  <2>1. ASSUME NEW s \in 1 .. Len(stages) - 1
        PROVE  Leader(s) = <<s, 1>> /\ s \in DOMAIN stages /\ s # Len(stages)
    <3>1. Len(stages) \in Nat /\ DOMAIN stages = 1 .. Len(stages)
      BY <1>2 DEF Sized
    <3>2. \A n \in Nat : \A k \in 1 .. n - 1 : k \in 1 .. n /\ k # n
      OBVIOUS
    <3>3. s \in 1 .. Len(stages) /\ s # Len(stages)
      BY <3>1, <3>2
    <3> QED BY <3>1, <3>3 DEF Leader
  <2> QED BY <1>2, <2>1 DEF Sized, Sequenced, Main
<1> HIDE DEF rest, Leaders
<1>5. ~ Startless(script[Main]) /\ \A w \in Workers : script[w] = <<>>
  BY <1>1, <1>2 DEF Scripted, Startless
<1>6. \A o \in Everyone : mask'[o] = PUs
  <2>1. mask[Main] = PUs
    BY <1>1, <1>2, EveryoneFacts, FreeFacts DEF Critical
  <2>2. \A w \in Workers : mask[w] = PUs
    BY <1>2, <1>5, EveryoneFacts, FreeFacts
  <2> QED BY <1>1, <2>1, <2>2 DEF Everyone
<1>7. /\ Balanced(rest) /\ Forks(Main, rest) /\ Starts(rest) /\ Startless(rest)
      /\ \A h : Occurs(h, script[Main]) /\ h # Head(script[Main]) => Occurs(h, rest)
  BY <1>1, <1>2, EveryoneFacts, BalancedTail, TailFacts DEF Scripted, rest
<1>8. Occurs(Call("wait", 0), rest)
  <2>1. PICK j \in 1 .. Len(script[Main]) : script[Main][j] = Call("wait", 0)
    BY <1>1, <1>2 DEF Scripted, Starts
  <2>2. Call("wait", 0).call = "wait" /\ Occurs(Call("wait", 0), script[Main])
    BY <2>1, CallFacts DEF Occurs
  <2> QED BY <1>1, <1>7, <2>2
<1>9. /\ script' \in [Everyone -> Seq(Calls)] /\ script'[Main] = rest
      /\ \A w \in Workers : w \notin Leaders => script'[w] = <<>>
      /\ \A w \in Workers : w \in Leaders => Balanced(script'[w]) /\ Forks(w, script'[w])
  <2>1. ASSUME NEW w \in Leaders
        PROVE  LET own == ExecSequence(w[1], stages[w[1]]) IN own \in Seq(Calls) /\ Balanced(own) /\ Forks(w, own)
    BY <1>4, ExecSequenceFacts
  <2>2. script \in [Everyone -> Seq(Calls)]
    BY <1>2 DEF Scripted
  <2> QED BY <1>2, <1>3, <1>5, <2>1, <2>2, EveryoneFacts
<1>10. \A o \in Everyone : Balanced(script'[o]) /\ Forks(o, script'[o])
  <2>1. Balanced(<<>>) /\ \A o : Forks(o, <<>>)
    BY DEF Balanced, Forks
  <2> QED BY <1>7, <1>9, <2>1 DEF Everyone
<1>11. \A w \in Workers, t \in DOMAIN stages : w \in Team(t) => script'[w] = <<>>
  <2>1. \A w, t : w \in Team(t) => w[2] # 1
    BY DEF Team
  <2>2. \A w \in Leaders : w[2] = 1
    BY <1>4
  <2> QED BY <1>9, <2>1, <2>2
<1>12. ASSUME NEW w \in Workers, script'[w] # <<>> PROVE Awaited(w, script')
  <2>1. w \in Leaders
    BY <1>9, <1>12
  <2>2. w[2] = 1 /\ w[1] \in DOMAIN stages /\ w[1] # Len(stages)
    BY <1>4, <2>1
  <2> QED BY <1>8, <1>9, <2>2 DEF Awaited
<1>13. Scripted(script', mask')
  BY <1>1, <1>2, <1>6, <1>7, <1>9, <1>10, <1>11, <1>12 DEF Scripted
<1>14. phase \notin {"read", "profile", "over"}
  BY <1>1 DEF Sound
<1>15. Sound'
  BY <1>1, <1>13, <1>14, Rebuilt DEF Sound
<1> QED BY <1>1, <1>15 DEF PinningIInv

\* Nobody has calls at first, and everyone is free.
LEMMA PinningStarts == PinningInit => PinningIInv
<1> SUFFICES ASSUME PinningInit PROVE PinningIInv
  OBVIOUS
<1>1. /\ phase = "read" /\ mutex = "free" /\ asked = <<>> /\ stages = <<>>
      /\ script = [th \in Everyone |-> <<>>] /\ mask = [th \in Everyone |-> PUs]
  BY DEF PinningInit
<1>2. Sized /\ asked \in Seq(Entries)
  BY <1>1 DEF Sized
<1>3. \A th \in Everyone : script[th] = <<>> /\ mask[th] = PUs
  BY <1>1
<1>4. Balanced(<<>>) /\ (\A th : Forks(th, <<>>)) /\ Starts(<<>>) /\ Startless(<<>>)
  BY DEF Balanced, Forks, Starts, Startless
<1>5. Scripted(script, mask)
  <2>1. script \in [Everyone -> Seq(Calls)]
    BY <1>1
  <2>2. \A th \in Everyone : Balanced(script[th]) /\ Forks(th, script[th])
    BY <1>3, <1>4
  <2> QED BY <1>1, <1>3, <1>4, <2>1, <2>2, EveryoneFacts DEF Scripted
<1> QED BY <1>1, <1>2, <1>3, <1>5, EveryoneFacts DEF PinningIInv, Sound

LEMMA PinningKept == PinningIInv /\ [PinningNext]_pinningVars => PinningIInv'
<1> SUFFICES ASSUME PinningIInv, [PinningNext]_pinningVars PROVE PinningIInv'
  OBVIOUS
<1>1. CASE UNCHANGED pinningVars
  <2>1. /\ UNCHANGED <<phase, ready, asked, stages, script, mask, mutex>>
    BY <1>1 DEF pinningVars, reading
  <2>2. CASE phase # "refused"
    BY <2>1, <2>2, ReadFacts DEF PinningIInv, Sound
  <2>3. CASE phase = "refused"
    BY <2>1, <2>3 DEF PinningIInv
  <2> QED BY <2>2, <2>3
<1>2. CASE phase = "refused" /\ (BuildStage \/ Spawn \/ Start \/ \E th \in Everyone : Step(th))
  <2>1. phase' = "refused" /\ (mutex' = mutex \/ mutex' = "held")
    BY <1>2 DEF BuildStage, Spawn, Start, Step, PinCall, UnpinCall, Execute, Fork, JoinTeam
  <2> QED BY <2>1 DEF PinningIInv
<1>3. CASE phase # "refused" /\ (BuildStage \/ Spawn \/ Start \/ \E th \in Everyone : Step(th))
  BY <1>3, BuildStep, SpawnStep, StartStep, PinStep, UnpinStep, WorkStep, ForkStep DEF Step
<1>4. CASE \/ \E entry \in FileStages : ReadStage(entry)
           \/ \E entry \in OldStages : ReadOldStage(entry)
           \/ \E entry \in UserStages : AddStage(entry)
           \/ EndOfFile \/ ExecReturns
  BY <1>4, ReadStep
<1>5. CASE \/ \E n \in 1 .. MaxThreads : ScheduleGR(n)
           \/ \E place \in {<<>>, <<PU(0)>>} : Profile(place)
           \/ Generate \/ Exec
  BY <1>5, ScheduleGRStep, ProfileStep, GenerateStep, ExecStep
<1> QED BY <1>1, <1>2, <1>3, <1>4, <1>5 DEF PinningNext, Program

LEMMA FreeThen == PinningIInv => LeftFree
<1> SUFFICES ASSUME PinningIInv, phase \in {"over", "exec"},
                    phase = "over" \/ (script[Main] # <<>> /\ Head(script[Main]).call = "start")
             PROVE  (\A th \in Everyone : mask[th] = PUs) /\ mutex = "free"
  BY DEF LeftFree
<1>1. Sound /\ mutex = "free"
  BY DEF PinningIInv
<1>2. CASE phase = "over"
  BY <1>1, <1>2, AllIdle DEF Sound
<1>3. CASE script[Main] # <<>> /\ Head(script[Main]).call = "start"
  <2>1. script[Main] \in Seq(Calls)
    BY <1>1, EveryoneFacts DEF Sound, Scripted
  <2>2. ~ Startless(script[Main])
    BY <1>3, <2>1, Shortened DEF Startless
  <2>3. \A w \in Workers : script[w] = <<>>
    BY <1>1, <2>2 DEF Sound, Scripted
  <2> QED BY <1>1, <1>3, <2>3, FreeFacts DEF Sound, Everyone, Critical
<1> QED BY <1>1, <1>2, <1>3

\* Whoever is pinned will be freed before it creates or starts threads, and whoever
\* has calls to make will be joined, in every state that has refused nothing: what
\* gen_processes, init, _exec and exec of the sequences and of the pipeline keep.
THEOREM PinningInvariance == PinningSpec => []PinningIInv
<1>1. PinningInit => PinningIInv
  BY PinningStarts
<1>2. PinningIInv /\ [PinningNext]_pinningVars => PinningIInv'
  BY PinningKept
<1> QED BY <1>1, <1>2, PTL DEF PinningSpec

\* Whatever the stages, the numbers of their threads and the order of the steps: when
\* the pool of a pipeline is started, and when its execution is over, no thread is
\* left on the processing units of another one, and the mutex of the pins is free.
THEOREM LeftFreeCorrect == PinningSpec => []LeftFree
<1>1. PinningIInv => LeftFree
  BY FreeThen
<1> QED BY <1>1, PinningInvariance, PTL

=============================================================================
