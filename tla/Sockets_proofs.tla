--------------------------- MODULE Sockets_proofs ---------------------------
(***************************************************************************)
(* The bindings of module Sockets agree at both ends, for any tasks, any   *)
(* sizes and any number of calls in any order, and the number of inputs a  *)
(* sequence waits for is the number that are bound.                        *)
(***************************************************************************)
EXTENDS Sockets, WellFoundedInduction, SequenceTheorems, FiniteSetTheorems, TLAPS

(***************************************************************************)
(* The least element of a set of numbers, and recursive functions.         *)
(***************************************************************************)
\* A set of naturals has a least element: what holds of 0, and of n if it holds of
\* n - 1, has no least exception.
LEMMA LeastNat ==
  ASSUME NEW T \in SUBSET Nat, T # {}
  PROVE \E x \in T : \A y \in T : x <= y
<1> DEFINE R == {ss \in Nat \X Nat : ss[1] < ss[2]}
<1>1. IsWellFoundedOn(R, Nat)
  BY NatLessThanWellFounded DEF OpToRel
<1>2. \A x, y \in Nat : <<x, y>> \in R <=> x < y
  OBVIOUS
<1> HIDE DEF R
<1>3. PICK x \in T : \A y \in T : ~ (<<y, x>> \in R)
  BY <1>1, WFMin
<1>4. \A y \in T : y \in Nat /\ x \in Nat /\ ~ (y < x)
  BY <1>2, <1>3
<1> QED BY <1>4

\* What a recursive definition on 0 .. top asks for exists.
Follows(g, top, base, step) == g[0] = base /\ \A i \in 1 .. top : g[i] = step[i][g[i - 1]]

\* It exists for every base and every steps on a set that contains them.
LEMMA Recursion ==
  ASSUME NEW S, NEW top \in Nat, NEW base \in S, NEW step \in [1 .. top -> [S -> S]]
  PROVE \E g \in [0 .. top -> S] : Follows(g, top, base, step)
<1> USE DEF Follows
<1> DEFINE Solves(g, m) == Follows(g, m, base, step)
           T == {m \in 0 .. top : ~ \E g \in [0 .. m -> S] : Solves(g, m)}
<1>1. SUFFICES ASSUME T # {} PROVE FALSE
  <2>1. top \in 0 .. top /\ top \notin T
    <3>1. top \in 0 .. top
      OBVIOUS
    <3> HIDE DEF T
    <3> QED BY <1>1, <3>1
  <2>2. \E g \in [0 .. top -> S] : Solves(g, top)
    BY <2>1
  <2> QED BY <2>2
<1>2. PICK m \in T : \A i \in T : m <= i
  <2>1. T \in SUBSET Nat
    OBVIOUS
  <2> HIDE DEF T
  <2> QED BY <1>1, <2>1, LeastNat
<1>3. CASE m = 0
  <2> DEFINE g == [i \in 0 .. m |-> base]
  <2>1. g \in [0 .. m -> S] /\ Solves(g, m)
    BY <1>3
  <2> QED BY <2>1
<1>4. CASE m # 0
  <2>1. m - 1 \in 0 .. top /\ m - 1 \notin T
    BY <1>2, <1>4
  <2>2. PICK g \in [0 .. m - 1 -> S] : Solves(g, m - 1)
    BY <2>1
  <2> DEFINE h == [i \in 0 .. m |-> IF i = m THEN step[m][g[m - 1]] ELSE g[i]]
  <2>3. m - 1 \in 0 .. m - 1 /\ m \in 1 .. top /\ g[m - 1] \in S
    BY <1>4
  <2>4. step[m][g[m - 1]] \in S
    BY <2>3
  <2>5. h \in [0 .. m -> S]
    BY <2>4
  <2>6. \A i \in 1 .. m : h[i] = step[i][h[i - 1]]
    <3> TAKE i \in 1 .. m
    <3>1. h[i - 1] = g[i - 1]
      OBVIOUS
    <3>2. h[i] = IF i = m THEN step[m][g[m - 1]] ELSE g[i]
      OBVIOUS
    <3>3. i # m => i \in 1 .. m - 1
      OBVIOUS
    <3> HIDE DEF h
    <3> QED BY <2>2, <3>1, <3>2, <3>3
  <2>7. h[0] = base
    BY <2>2, <1>4
  <2>8. Solves(h, m)
    BY <2>6, <2>7
  <2> QED BY <2>5, <2>8
<1> QED BY <1>3, <1>4

Places(seq) == 1 .. Len(seq)
Once(seq) == \A i, j \in Places(seq) : seq[i] = seq[j] => i = j
Members(seq) == {seq[i] : i \in Places(seq)}

(***************************************************************************)
(* The sockets of a program.                                               *)
(***************************************************************************)
LEMMA LayoutFacts ==
    ASSUME NEW t \in Tasks
    PROVE  /\ Len(Layout[t]) \in Nat /\ DOMAIN Layout[t] = 1 .. Len(Layout[t])
           /\ \A i \in 1 .. Len(Layout[t]) :
                /\ Layout[t][i][1] = "in" \/ Layout[t][i][1] = "fwd" \/ Layout[t][i][1] = "out"
                /\ Layout[t][i][2] # "status"
                /\ \A j \in 1 .. Len(Layout[t]) : Layout[t][i][2] = Layout[t][j][2] => i = j
<1> DEFINE L == Layout[t]
           P == {"in", "fwd", "out"} \X (Range(NamesOf(t)) \ {"status"})
<1>1. L \in Seq(P) /\ IsInjective(NamesOf(t))
  BY LayoutAssumption
<1>2. Len(L) \in Nat /\ DOMAIN L = 1 .. Len(L) /\ \A i \in 1 .. Len(L) : L[i] \in P
  <2> HIDE DEF L, P
  <2> QED BY <1>1
<1>3. \A i \in 1 .. Len(L) : L[i][1] \in {"in", "fwd", "out"} /\ L[i][2] # "status"
  <2> TAKE i \in 1 .. Len(L)
  <2>1. L[i] \in P
    BY <1>2
  <2> HIDE DEF L
  <2> QED BY <2>1
<1>4. \A i, j \in 1 .. Len(L) : L[i][2] = L[j][2] => i = j
  BY <1>1, <1>2 DEF NamesOf, IsInjective
<1> QED BY <1>2, <1>3, <1>4

\* A socket in a program's layout knows its task.
LEMMA AllFacts ==
    ASSUME NEW t \in Tasks
    PROVE  /\ Len(All(t)) \in Nat /\ Len(All(t)) = Len(Layout[t]) + 1
           /\ DOMAIN All(t) = 1 .. Len(All(t)) /\ All(t) \in Seq(Real)
           /\ \A i \in 1 .. Len(Layout[t]) : All(t)[i] = <<t, Layout[t][i][1], Layout[t][i][2]>>
           /\ All(t)[Len(All(t))] = Status(t)
           /\ \A i \in 1 .. Len(All(t)) : All(t)[i] \in Real /\ All(t)[i][1] = t
<1> DEFINE L == Len(Layout[t])
<1>1. L \in Nat /\ DOMAIN Layout[t] = 1 .. L
  BY LayoutFacts
<1> HIDE DEF L
<1> DEFINE U == {<<t, Layout[t][i][1], Layout[t][i][2]>> : i \in 1 .. L} \cup {Status(t)}
<1>2. Named(t) = [i \in 1 .. L |-> <<t, Layout[t][i][1], Layout[t][i][2]>>]
  BY <1>1 DEF Named
<1>3. Named(t) \in Seq(U) /\ Len(Named(t)) = L
  <2>1. \A i \in 1 .. L : <<t, Layout[t][i][1], Layout[t][i][2]>> \in U
    OBVIOUS
  <2>2. Named(t) \in [1 .. L -> U]
    <3> HIDE DEF U
    <3> QED BY <2>1, <1>2
  <2> HIDE DEF U
  <2> QED BY <2>2, <1>1
<1>4. /\ Len(All(t)) = L + 1 /\ DOMAIN All(t) = 1 .. L + 1
      /\ \A i \in 1 .. L : All(t)[i] = Named(t)[i]
      /\ All(t)[L + 1] = Status(t)
  <2>1. Status(t) \in U
    OBVIOUS
  <2> HIDE DEF U
  <2> QED BY <1>1, <1>3, <2>1 DEF All
<1>5. \A i \in 1 .. L : All(t)[i] = <<t, Layout[t][i][1], Layout[t][i][2]>>
  BY <1>2, <1>4
<1>6. \A i \in 1 .. L + 1 : All(t)[i][1] = t
  <2> TAKE i \in 1 .. L + 1
  <2>1. CASE i \in 1 .. L
    BY <2>1, <1>5
  <2>2. CASE i = L + 1
    BY <2>2, <1>4 DEF Status
  <2> QED BY <1>1, <2>1, <2>2
<1>7. \A i \in 1 .. L + 1 : All(t)[i] \in Real
  BY <1>4 DEF Real, Range
<1>8. All(t) \in Seq(Real)
  <2>1. All(t) \in Seq(U)
    <3>1. Status(t) \in U
      OBVIOUS
    <3> HIDE DEF U
    <3> QED BY <1>3, <3>1 DEF All
  <2> HIDE DEF U
  <2>2. All(t) \in [1 .. L + 1 -> Real]
    BY <2>1, <1>1, <1>4, <1>7
  <2> QED BY <2>2, <1>1
<1> QED BY <1>1, <1>4, <1>5, <1>6, <1>7, <1>8 DEF L

LEMMA RealFacts ==
    ASSUME NEW s \in Real
    PROVE  /\ s[1] \in Tasks
           /\ \E i \in 1 .. Len(All(s[1])) : s = All(s[1])[i]
           /\ Kind(s) = s[2] /\ (s[2] = "in" \/ s[2] = "fwd" \/ s[2] = "out")
           /\ s = <<s[1], s[2], s[3]>>
           /\ s # None
<1>1. PICK t \in Tasks : s \in Range(All(t))
  BY DEF Real
<1>2. PICK i \in 1 .. Len(All(t)) : s = All(t)[i]
  BY <1>1, AllFacts DEF Range
<1>3. s[1] = t
  BY <1>2, AllFacts
<1>4. CASE i \in 1 .. Len(Layout[t])
  <2>1. s = <<t, Layout[t][i][1], Layout[t][i][2]>>
    BY <1>2, <1>4, AllFacts
  <2>2. Layout[t][i][1] = "in" \/ Layout[t][i][1] = "fwd" \/ Layout[t][i][1] = "out"
    BY <1>4, LayoutFacts
  <2> QED BY <2>1, <2>2, <1>2, <1>3 DEF Kind, None
<1>5. CASE i = Len(All(t))
  <2>1. s = <<t, "out", "status">>
    BY <1>2, <1>5, AllFacts DEF Status
  <2> QED BY <2>1, <1>2, <1>3 DEF Kind, None
<1>6. i \in 1 .. Len(Layout[t]) \/ i = Len(All(t))
  BY AllFacts, LayoutFacts
<1> QED BY <1>4, <1>5, <1>6

LEMMA FakeFacts ==
    ASSUME NEW t \in Tasks, NEW out \in Outputs, out[1] # t
    PROVE  /\ Fake(t, out) \in Fakes /\ Fake(t, out) \in Inputs /\ Fake(t, out) \in Existing
           /\ Fake(t, out)[1] = t /\ Kind(Fake(t, out)) = "in"
           /\ Fake(t, out) \notin Real
           /\ \A u \in Tasks, o \in Outputs : Fake(u, o) = Fake(t, out) => u = t /\ o = out
<1>1. Fake(t, out) \in Fakes
  BY DEF Fakes
<1>2. Fake(t, out)[1] = t /\ Fake(t, out)[2] = "fake" /\ Fake(t, out)[3] = out
  BY DEF Fake
<1>3. Fake(t, out) \notin Real
  BY <1>2, RealFacts
<1>4. \A u \in Tasks, o \in Outputs : Fake(u, o)[1] = u /\ Fake(u, o)[3] = o
  BY DEF Fake
<1> QED BY <1>1, <1>2, <1>3, <1>4 DEF Inputs, Existing, Kind

LEMMA FakesFacts ==
    ASSUME NEW s \in Fakes
    PROVE  /\ \E t \in Tasks, out \in Outputs : out[1] # t /\ s = Fake(t, out)
           /\ s \notin Real /\ s[1] \in Tasks /\ Kind(s) = "in"
<1>1. PICK t \in Tasks, out \in Outputs : out[1] # t /\ s = Fake(t, out)
  BY DEF Fakes
<1> QED BY <1>1, FakeFacts

LEMMA OutputFacts ==
    /\ \A s : s \in Outputs <=> s \in Real /\ (s[2] = "out" \/ s[2] = "fwd")
    /\ \A s \in Outputs : s \in Real /\ s \in Existing /\ s[1] \in Tasks /\ s # None
    /\ None \notin Outputs
    /\ \A s : s \in Inputs <=> (s \in Real /\ (s[2] = "in" \/ s[2] = "fwd")) \/ s \in Fakes
    /\ \A s \in Inputs : s \in Existing /\ s[1] \in Tasks /\ Kind(s) # "out"
    /\ \A s \in Real : Kind(s) = "out" => s \notin Inputs /\ s \in Outputs
    /\ \A s \in Inputs : s \notin Real => s \in Fakes
<1>1. \A s : s \in Outputs <=> s \in Real /\ (s[2] = "out" \/ s[2] = "fwd")
  BY RealFacts DEF Outputs
<1>2. \A s \in Outputs : s \in Real /\ s \in Existing /\ s[1] \in Tasks /\ s # None
  BY RealFacts DEF Outputs, Existing
<1>3. \A s : s \in Inputs <=> (s \in Real /\ (s[2] = "in" \/ s[2] = "fwd")) \/ s \in Fakes
  BY RealFacts DEF Inputs
<1>4. \A s \in Inputs : s \in Existing /\ s[1] \in Tasks /\ Kind(s) # "out"
  BY <1>3, RealFacts, FakesFacts DEF Existing
<1>5. \A s \in Real : Kind(s) = "out" => s \notin Inputs /\ s \in Outputs
  BY <1>1, <1>4, RealFacts
<1>6. \A s \in Inputs : s \notin Real => s \in Fakes
  BY <1>3
<1> QED BY <1>1, <1>2, <1>3, <1>4, <1>5, <1>6

\* There are finitely many sockets that something can be bound to.
LEMMA OutputsFinite == IsFiniteSet(Outputs) /\ Cardinality(Outputs) \in Nat
<1> DEFINE U == {Range(All(t)) : t \in Tasks}
<1>1. \A t \in Tasks : IsFiniteSet(Range(All(t)))
  <2> TAKE t \in Tasks
  <2>1. IsFiniteSet(1 .. Len(All(t)))
    BY AllFacts, FS_Interval
  <2> DEFINE f == [i \in 1 .. Len(All(t)) |-> All(t)[i]]
             R == Range(All(t))
  <2>2. R = {All(t)[i] : i \in 1 .. Len(All(t))}
    BY AllFacts DEF Range
  <2>3. f \in Surjection(1 .. Len(All(t)), R)
    BY <2>2 DEF Surjection
  <2> HIDE DEF f, R
  <2>4. IsFiniteSet(R)
    BY <2>1, <2>3, FS_Surjection
  <2> QED BY <2>4 DEF R
<1>2. IsFiniteSet(U)
  <2>1. IsFiniteSet(Tasks)
    BY LayoutAssumption
  <2> DEFINE f == [t \in Tasks |-> Range(All(t))]
  <2>2. f \in Surjection(Tasks, U)
    BY DEF Surjection
  <2> HIDE DEF f, U
  <2> QED BY <2>1, <2>2, FS_Surjection
<1>3. \A S \in U : IsFiniteSet(S)
  BY <1>1
<1>4. IsFiniteSet(UNION U)
  <2> HIDE DEF U
  <2> QED BY <1>2, <1>3, FS_UNION
<1>5. Outputs \subseteq UNION U
  BY DEF Outputs, Real
<1> HIDE DEF U
<1> QED BY <1>4, <1>5, FS_Subset, FS_CardinalityType

(***************************************************************************)
(* Lists without repetition: erase and insert.                             *)
(***************************************************************************)
LEMMA RemoveFacts ==
    ASSUME NEW S, NEW seq \in Seq(S), NEW e, NEW p \in Places(seq), seq[p] = e, Once(seq)
    PROVE  /\ RemoveFirst(seq, e) \in Seq(S)
           /\ Len(RemoveFirst(seq, e)) = Len(seq) - 1
           /\ \A i \in Places(RemoveFirst(seq, e)) :
                RemoveFirst(seq, e)[i] = IF i < p THEN seq[i] ELSE seq[i + 1]
<1> DEFINE I == {i \in 1 .. Len(seq) : seq[i] = e}
<1>1. I = {p}
  BY DEF Once, Places
<1>2. SelectInSeq(seq, LAMBDA v : v = e) = p
  <2>1. I # {} /\ Min(I) = p
    <3>1. p \in Int
      BY DEF Places
    <3> HIDE DEF I
    <3>2. Min(I) = p
      BY <1>1, <3>1 DEF Min
    <3> QED BY <1>1, <3>2
  <2> QED BY <2>1 DEF SelectInSeq
<1>3. RemoveFirst(seq, e) = RemoveAt(seq, p)
  BY <1>2 DEF RemoveFirst, Places
<1>4. p \in 1 .. Len(seq) /\ Len(seq) \in Nat
  BY DEF Places
<1> DEFINE a == SubSeq(seq, 1, p - 1)
           b == SubSeq(seq, p + 1, Len(seq))
<1>5. a \in Seq(S) /\ Len(a) = p - 1 /\ \A i \in 1 .. p - 1 : a[i] = seq[i]
  BY <1>4, SubSeqProperties
<1>6. b \in Seq(S) /\ Len(b) = Len(seq) - p /\ \A i \in 1 .. Len(seq) - p : b[i] = seq[p + i]
  BY <1>4, SubSeqProperties
<1>7. RemoveAt(seq, p) = a \o b
  BY DEF RemoveAt
<1> DEFINE r == a \o b
<1> HIDE DEF a, b
<1>8. r \in Seq(S) /\ Len(r) = Len(seq) - 1
  BY <1>4, <1>5, <1>6
<1>9. \A i \in 1 .. Len(seq) - 1 : r[i] = IF i < p THEN seq[i] ELSE seq[i + 1]
  <2> TAKE i \in 1 .. Len(seq) - 1
  <2>1. r[i] = IF i <= Len(a) THEN a[i] ELSE b[i - Len(a)]
    BY <1>4, <1>5, <1>6, <1>8
  <2>2. CASE i < p
    BY <2>1, <2>2, <1>4, <1>5
  <2>3. CASE ~ (i < p)
    <3>1. i - (p - 1) \in 1 .. Len(seq) - p /\ p + (i - (p - 1)) = i + 1
      BY <2>3, <1>4
    <3>2. r[i] = b[i - (p - 1)]
      BY <2>1, <2>3, <1>4, <1>5
    <3> QED BY <3>1, <3>2, <2>3, <1>6
  <2> QED BY <2>2, <2>3
<1> QED BY <1>3, <1>7, <1>8, <1>9 DEF Places

Widened(r, seq, e) ==
    /\ Len(r) = Len(seq) + 1
    /\ \E p \in 1 .. Len(seq) + 1 : \A i \in Places(r) :
            r[i] = IF i = p THEN e ELSE IF i < p THEN seq[i] ELSE seq[i - 1]

LEMMA InsertFacts ==
    ASSUME NEW S, NEW seq \in Seq(S), NEW e \in S, NEW priority \in Nat \cup {AtEnd}
    PROVE  /\ Insert(seq, e, priority) \in Seq(S)
           /\ Widened(Insert(seq, e, priority), seq, e)
<1>1. CASE priority > Len(seq) \/ priority = AtEnd
  <2>1. Insert(seq, e, priority) = Append(seq, e)
    BY <1>1 DEF Insert
  <2> DEFINE r == Append(seq, e)
  <2>2. r \in Seq(S) /\ Len(r) = Len(seq) + 1 /\ r[Len(seq) + 1] = e /\ \A i \in 1 .. Len(seq) : r[i] = seq[i]
    OBVIOUS
  <2>3. \A i \in 1 .. Len(seq) + 1 : i # Len(seq) + 1 => i \in 1 .. Len(seq) /\ i < Len(seq) + 1
    OBVIOUS
  <2> HIDE DEF r
  <2>4. \A i \in Places(r) : r[i] = IF i = Len(seq) + 1 THEN e ELSE IF i < Len(seq) + 1 THEN seq[i] ELSE seq[i - 1]
    BY <2>2, <2>3 DEF Places
  <2>5. Len(seq) + 1 \in 1 .. Len(seq) + 1
    OBVIOUS
  <2> QED BY <2>1, <2>2, <2>4, <2>5 DEF r, Widened
<1>2. CASE ~ (priority > Len(seq) \/ priority = AtEnd)
  <2>1. priority \in 0 .. Len(seq) /\ Len(seq) \in Nat
    BY <1>2
  <2> DEFINE p == priority + 1
             a == SubSeq(seq, 1, p - 1)
             b == SubSeq(seq, p, Len(seq))
             r == a \o <<e>> \o b
  <2>2. Insert(seq, e, priority) = r
    BY <1>2 DEF Insert, InsertAt
  <2>3. p \in 1 .. Len(seq) + 1
    BY <2>1
  <2> HIDE DEF p
  <2>4. a \in Seq(S) /\ Len(a) = p - 1 /\ \A i \in 1 .. p - 1 : a[i] = seq[i]
    BY <2>1, <2>3, SubSeqProperties
  <2>5. b \in Seq(S) /\ Len(b) = Len(seq) - p + 1 /\ \A i \in 1 .. Len(seq) - p + 1 : b[i] = seq[p + i - 1]
    BY <2>1, <2>3, SubSeqProperties
  <2> HIDE DEF a, b
  <2> DEFINE c == a \o <<e>>
  <2>6. c \in Seq(S) /\ Len(c) = p /\ c[p] = e /\ \A i \in 1 .. p - 1 : c[i] = seq[i]
    BY <2>3, <2>4
  <2>7. r = c \o b
    OBVIOUS
  <2> HIDE DEF c, r
  <2>8. r \in Seq(S) /\ Len(r) = Len(seq) + 1
    <3>1. c \o b \in Seq(S) /\ Len(c \o b) = Len(c) + Len(b)
      BY <2>5, <2>6, ConcatProperties
    <3>2. Len(c) + Len(b) = Len(seq) + 1
      BY <2>1, <2>3, <2>5, <2>6
    <3> QED BY ONLY <3>1, <3>2, <2>7
  <2>9. \A i \in 1 .. Len(seq) + 1 : r[i] = IF i = p THEN e ELSE IF i < p THEN seq[i] ELSE seq[i - 1]
    <3> TAKE i \in 1 .. Len(seq) + 1
    <3>1. r[i] = IF i <= Len(c) THEN c[i] ELSE b[i - Len(c)]
      <4>1. Len(seq) + 1 = Len(c) + Len(b)
        BY <2>1, <2>3, <2>5, <2>6
      <4>2. i \in 1 .. Len(c) + Len(b)
        BY ONLY <4>1, i \in 1 .. Len(seq) + 1
      <4> QED BY ONLY <4>2, <2>5, <2>6, <2>7, ConcatProperties
    <3>2. CASE i <= p
      <4>1. i = p \/ (i \in 1 .. p - 1 /\ i < p)
        BY <3>2, <2>3
      <4> QED BY <4>1, <3>1, <3>2, <2>6, <2>3
    <3>3. CASE i > p
      <4>1. i - p \in 1 .. Len(seq) - p + 1 /\ p + (i - p) - 1 = i - 1 /\ ~ (i <= p) /\ i # p /\ ~ (i < p)
        BY <3>3, <2>3, <2>1
      <4>2. r[i] = b[i - p]
        BY <3>1, <4>1, <2>6
      <4> QED BY <4>1, <4>2, <2>5
    <3>4. i <= p \/ i > p
      BY <2>3, <2>1
    <3> QED BY <3>2, <3>3, <3>4
  <2>10. \A i \in Places(r) : r[i] = IF i = p THEN e ELSE IF i < p THEN seq[i] ELSE seq[i - 1]
    BY <2>8, <2>9 DEF Places
  <2> QED BY <2>2, <2>3, <2>8, <2>10 DEF Widened
<1> QED BY <1>1, <1>2

(***************************************************************************)
(* Both ends of every binding agree: what one call does to that.           *)
(***************************************************************************)
Pointers == Existing \cup {Null, User}
Nets == [link : [Inputs -> Outputs \cup {None}], list : [Outputs -> Seq(Inputs)], ptr : [Existing -> Pointers]]

ListAgrees(m, out) == Once(m.list[out]) /\ \A i \in Places(m.list[out]) : m.link[m.list[out][i]] = out
LinkAgrees(m, in) == m.link[in] # None => \E i \in Places(m.list[m.link[in]]) : m.list[m.link[in]][i] = in
Agree(m) == (\A out \in Outputs : ListAgrees(m, out)) /\ (\A in \in Inputs : LinkAgrees(m, in))

LEMMA NetFacts ==
    ASSUME NEW m \in Nets
    PROVE  /\ m = [link |-> m.link, list |-> m.list, ptr |-> m.ptr]
           /\ m.link \in [Inputs -> Outputs \cup {None}]
           /\ m.list \in [Outputs -> Seq(Inputs)]
           /\ m.ptr \in [Existing -> Pointers]
BY DEF Nets

\* An unbound input leaves the list of its output, which keeps its order.
Unbinds(u, m, in) ==
    /\ u \in Nets /\ Agree(u)
    /\ u.ptr = m.ptr
    /\ u.link = [m.link EXCEPT ![in] = None]
    /\ u.list = [m.list EXCEPT ![m.link[in]] = RemoveFirst(@, in)]

LEMMA UnbindAgrees ==
    ASSUME NEW m \in Nets, Agree(m), NEW in \in Inputs, m.link[in] # None
    PROVE  Unbinds(UnbindSocket(m, in), m, in)
<1> DEFINE u == UnbindSocket(m, in)
<1>1. PICK l, L : l = m.link /\ L = m.list
  OBVIOUS
<1>2. l \in [Inputs -> Outputs \cup {None}] /\ L \in [Outputs -> Seq(Inputs)] /\ l[in] # None
  BY <1>1, NetFacts
<1>3. PICK o : o = l[in] /\ o \in Outputs
  BY <1>2
<1>4. L[o] \in Seq(Inputs) /\ Len(L[o]) \in Nat
  BY <1>2, <1>3
<1>5. PICK p \in Places(L[o]) : L[o][p] = in
  BY <1>1, <1>2, <1>3 DEF Agree, LinkAgrees
<1>6. Once(L[o]) /\ \A i \in Places(L[o]) : l[L[o][i]] = o
  BY <1>1, <1>3 DEF Agree, ListAgrees
<1>7. PICK r : r = RemoveFirst(L[o], in)
  OBVIOUS
<1>8. /\ r \in Seq(Inputs) /\ Len(r) = Len(L[o]) - 1
      /\ \A i \in Places(r) : r[i] = IF i < p THEN L[o][i] ELSE L[o][i + 1]
  BY <1>4, <1>5, <1>6, <1>7, RemoveFacts
<1>9. u = [m EXCEPT !.link = [l EXCEPT ![in] = None], !.list = [L EXCEPT ![o] = r]]
  BY <1>1, <1>3, <1>7 DEF UnbindSocket
<1>10. /\ u.link = [l EXCEPT ![in] = None] /\ u.list = [L EXCEPT ![o] = r] /\ u.ptr = m.ptr
       /\ u = [link |-> u.link, list |-> u.list, ptr |-> u.ptr]
  BY <1>9, NetFacts
<1> HIDE DEF u
<1>11. u \in Nets
  <2>1. u.link \in [Inputs -> Outputs \cup {None}]
    BY <1>2, <1>10
  <2>2. u.list \in [Outputs -> Seq(Inputs)]
    BY <1>2, <1>3, <1>8, <1>10
  <2>3. u.ptr \in [Existing -> Pointers]
    BY <1>10, NetFacts
  <2> QED BY ONLY <2>1, <2>2, <2>3, <1>10 DEF Nets
<1>12. \A i \in Places(r) : LET j == IF i < p THEN i ELSE i + 1 IN j \in Places(L[o]) /\ j # p /\ r[i] = L[o][j]
  BY <1>4, <1>5, <1>8 DEF Places
<1>13. \A i \in Places(r) : r[i] # in /\ l[r[i]] = o
  BY <1>5, <1>6, <1>12 DEF Once
<1>14. Once(r)
  <2> SUFFICES ASSUME NEW i \in Places(r), NEW j \in Places(r), r[i] = r[j] PROVE i = j
    BY DEF Once
  <2>1. (IF i < p THEN i ELSE i + 1) = (IF j < p THEN j ELSE j + 1)
    BY <1>6, <1>12 DEF Once
  <2> QED BY <2>1, <1>4, <1>5, <1>8 DEF Places
<1>15. ASSUME NEW out \in Outputs PROVE ListAgrees(u, out)
  <2>1. CASE out = o
    <3>1. u.list[out] = r
      BY <2>1, <1>2, <1>3, <1>10
    <3>2. \A i \in Places(r) : r[i] \in Inputs
      BY <1>8 DEF Places
    <3>3. \A i \in Places(r) : u.link[r[i]] = out
      BY <2>1, <3>2, <1>2, <1>10, <1>13
    <3> QED BY <3>1, <3>3, <1>14 DEF ListAgrees
  <2>2. CASE out # o
    <3>1. u.list[out] = L[out] /\ L[out] \in Seq(Inputs)
      BY <2>2, <1>2, <1>10
    <3>2. ListAgrees(m, out)
      BY DEF Agree
    <3>3. \A i \in Places(L[out]) : L[out][i] \in Inputs /\ l[L[out][i]] = out
      BY <3>1, <3>2, <1>1 DEF ListAgrees, Places
    <3>4. \A i \in Places(L[out]) : u.link[L[out][i]] = out
      BY <3>3, <2>2, <1>2, <1>3, <1>10
    <3> QED BY <3>1, <3>2, <3>4, <1>1 DEF ListAgrees
  <2> QED BY <2>1, <2>2
<1>16. ASSUME NEW x \in Inputs PROVE LinkAgrees(u, x)
  <2> SUFFICES ASSUME u.link[x] # None PROVE \E i \in Places(u.list[u.link[x]]) : u.list[u.link[x]][i] = x
    BY DEF LinkAgrees
  <2>1. x # in /\ u.link[x] = l[x] /\ l[x] \in Outputs
    BY <1>2, <1>10
  <2>2. PICK j \in Places(L[l[x]]) : L[l[x]][j] = x
    BY <2>1, <1>1 DEF Agree, LinkAgrees
  <2>3. CASE l[x] = o
    <3>1. j # p
      BY <2>1, <2>2, <2>3, <1>5
    <3> DEFINE i == IF j < p THEN j ELSE j - 1
    <3>2. i \in Places(r) /\ j = (IF i < p THEN i ELSE i + 1)
      BY <3>1, <2>2, <2>3, <1>4, <1>5, <1>8 DEF Places
    <3>3. r[i] = x
      BY <3>2, <2>2, <2>3, <1>8
    <3>4. u.list[u.link[x]] = r
      BY <2>1, <2>3, <1>2, <1>3, <1>10
    <3> HIDE DEF i
    <3> QED BY <3>2, <3>3, <3>4
  <2>4. CASE l[x] # o
    <3>1. u.list[u.link[x]] = L[l[x]]
      BY <2>1, <2>4, <1>2, <1>10
    <3> QED BY <3>1, <2>2
  <2> QED BY <2>3, <2>4
<1> QED BY <1>1, <1>3, <1>7, <1>10, <1>11, <1>15, <1>16 DEF Unbinds, Agree, u

\* A bound input is once in the list of its output, and takes its pointer.
Binds(b, m, in, out) ==
    /\ b \in Nets /\ Agree(b)
    /\ b.link = [m.link EXCEPT ![in] = out]
    /\ b.ptr = [m.ptr EXCEPT ![in] = m.ptr[out]]

LEMMA BindAgrees ==
    ASSUME NEW m \in Nets, Agree(m), NEW in \in Inputs, NEW out \in Outputs,
           m.link[in] = None \/ m.link[in] = out, NEW priority \in Nat \cup {AtEnd}
    PROVE  Binds(BindSocket(m, in, out, priority), m, in, out)
<1>1. PICK c : c = Unbound(m, in, out)
  OBVIOUS
<1>2. c \in Nets /\ Agree(c) /\ c.ptr = m.ptr /\ c.link = [m.link EXCEPT ![in] = None]
  <2>0. m.link \in [Inputs -> Outputs \cup {None}] /\ out # None
    BY NetFacts, OutputFacts
  <2>1. CASE m.link[in] = out
    <3>1. Unbinds(c, m, in)
      BY <2>0, <2>1, <1>1, UnbindAgrees DEF Unbound
    <3> QED BY <3>1 DEF Unbinds
  <2>2. CASE m.link[in] = None
    <3>1. c = m
      BY <2>0, <2>2, <1>1 DEF Unbound
    <3> QED BY <3>1, <2>0, <2>2
  <2> QED BY <2>1, <2>2
<1>3. PICK l, L, P : l = c.link /\ L = c.list /\ P = c.ptr
  OBVIOUS
<1>4. /\ l \in [Inputs -> Outputs \cup {None}] /\ L \in [Outputs -> Seq(Inputs)] /\ P \in [Existing -> Pointers]
      /\ c = [link |-> l, list |-> L, ptr |-> P] /\ l[in] = None
      /\ in \in Existing /\ out \in Existing /\ out # None
  BY <1>2, <1>3, NetFacts, OutputFacts
<1>5. PICK r : r = Insert(L[out], in, priority)
  OBVIOUS
<1>6. L[out] \in Seq(Inputs) /\ Len(L[out]) \in Nat
  BY <1>4
<1>7. /\ r \in Seq(Inputs) /\ Len(r) = Len(L[out]) + 1
      /\ \E p \in 1 .. Len(L[out]) + 1 : \A i \in Places(r) :
            r[i] = IF i = p THEN in ELSE IF i < p THEN L[out][i] ELSE L[out][i - 1]
  <2>1. PICK q : q = L[out]
    OBVIOUS
  <2>2. q \in Seq(Inputs) /\ in \in Inputs /\ priority \in Nat \cup {AtEnd} /\ r = Insert(q, in, priority)
    BY <2>1, <1>5, <1>6
  <2>3. r \in Seq(Inputs) /\ Widened(r, q, in)
    BY ONLY <2>2, InsertFacts
  <2> QED BY <2>1, <2>3 DEF Widened
<1>8. PICK p \in 1 .. Len(L[out]) + 1 : \A i \in Places(r) :
            r[i] = IF i = p THEN in ELSE IF i < p THEN L[out][i] ELSE L[out][i - 1]
  BY <1>7
<1> DEFINE b == BindSocket(m, in, out, priority)
<1>9. b = [c EXCEPT !.link = [l EXCEPT ![in] = out], !.list = [L EXCEPT ![out] = r], !.ptr = [P EXCEPT ![in] = P[out]]]
  BY <1>1, <1>3, <1>5 DEF BindSocket
<1>10. /\ b.link = [l EXCEPT ![in] = out] /\ b.list = [L EXCEPT ![out] = r] /\ b.ptr = [P EXCEPT ![in] = P[out]]
       /\ b = [link |-> b.link, list |-> b.list, ptr |-> b.ptr]
  BY <1>4, <1>9
<1> HIDE DEF b
<1>11. b \in Nets
  <2>1. b.link \in [Inputs -> Outputs \cup {None}]
    BY <1>4, <1>10
  <2>2. b.list \in [Outputs -> Seq(Inputs)]
    BY <1>4, <1>7, <1>10
  <2>3. b.ptr \in [Existing -> Pointers]
    BY <1>4, <1>10
  <2> QED BY ONLY <2>1, <2>2, <2>3, <1>10 DEF Nets
<1>12. ListAgrees(c, out)
  BY <1>2 DEF Agree
<1>13. Once(L[out]) /\ \A i \in Places(L[out]) : L[out][i] \in Inputs /\ l[L[out][i]] = out /\ L[out][i] # in
  BY <1>3, <1>4, <1>6, <1>12 DEF ListAgrees, Places
<1>14. \A i \in Places(r) : i # p => LET j == IF i < p THEN i ELSE i - 1 IN j \in Places(L[out]) /\ r[i] = L[out][j]
  BY <1>6, <1>7, <1>8 DEF Places
<1>15. p \in Places(r) /\ r[p] = in
  BY <1>7, <1>8 DEF Places
<1>16. Once(r)
  <2> SUFFICES ASSUME NEW i \in Places(r), NEW j \in Places(r), r[i] = r[j] PROVE i = j
    BY DEF Once
  <2>1. i = p <=> j = p
    BY <1>13, <1>14, <1>15
  <2>2. ASSUME i # p, j # p PROVE i = j
    <3>1. (IF i < p THEN i ELSE i - 1) = (IF j < p THEN j ELSE j - 1)
      BY <2>2, <1>13, <1>14 DEF Once
    <3> QED BY <3>1, <2>2, <1>6, <1>7 DEF Places
  <2> QED BY <2>1, <2>2
<1>17. ASSUME NEW o \in Outputs PROVE ListAgrees(b, o)
  <2>1. CASE o = out
    <3>1. b.list[o] = r
      BY <2>1, <1>4, <1>10
    <3>2. \A i \in Places(r) : r[i] \in Inputs /\ (r[i] = in \/ l[r[i]] = out)
      BY <1>7, <1>13, <1>14, <1>15 DEF Places
    <3>3. \A i \in Places(r) : b.link[r[i]] = o
      BY <2>1, <3>2, <1>4, <1>10
    <3> QED BY <3>1, <3>3, <1>16 DEF ListAgrees
  <2>2. CASE o # out
    <3>1. b.list[o] = L[o] /\ L[o] \in Seq(Inputs)
      BY <2>2, <1>4, <1>10
    <3>2. ListAgrees(c, o)
      BY <1>2 DEF Agree
    <3>3. \A i \in Places(L[o]) : L[o][i] \in Inputs /\ l[L[o][i]] = o /\ L[o][i] # in
      BY <3>1, <3>2, <1>3, <1>4, OutputFacts DEF ListAgrees, Places
    <3>4. \A i \in Places(L[o]) : b.link[L[o][i]] = o
      BY <3>3, <1>4, <1>10
    <3> QED BY <3>1, <3>2, <3>4, <1>3 DEF ListAgrees
  <2> QED BY <2>1, <2>2
<1>18. ASSUME NEW x \in Inputs PROVE LinkAgrees(b, x)
  <2> SUFFICES ASSUME b.link[x] # None PROVE \E i \in Places(b.list[b.link[x]]) : b.list[b.link[x]][i] = x
    BY DEF LinkAgrees
  <2>1. CASE x = in
    <3>1. b.list[b.link[x]] = r
      BY <2>1, <1>4, <1>10
    <3> QED BY <3>1, <2>1, <1>15
  <2>2. CASE x # in
    <3>1. b.link[x] = l[x] /\ l[x] # None /\ l[x] \in Outputs
      BY <2>2, <1>4, <1>10
    <3>2. PICK j \in Places(L[l[x]]) : L[l[x]][j] = x
      BY <3>1, <1>2, <1>3 DEF Agree, LinkAgrees
    <3>3. CASE l[x] = out
      <4> DEFINE i == IF j < p THEN j ELSE j + 1
      <4>1. i \in Places(r) /\ i # p /\ j = (IF i < p THEN i ELSE i - 1)
        BY <3>2, <3>3, <1>6, <1>7 DEF Places
      <4>2. r[i] = x
        BY <4>1, <3>2, <3>3, <1>14
      <4>3. b.list[b.link[x]] = r
        BY <3>1, <3>3, <1>4, <1>10
      <4> HIDE DEF i
      <4> QED BY <4>1, <4>2, <4>3
    <3>4. CASE l[x] # out
      <4>1. b.list[b.link[x]] = L[l[x]]
        BY <3>1, <3>4, <1>4, <1>10
      <4> QED BY <4>1, <3>2
    <3> QED BY <3>3, <3>4
  <2> QED BY <2>1, <2>2
<1>19. b.link = [m.link EXCEPT ![in] = out] /\ b.ptr = [m.ptr EXCEPT ![in] = m.ptr[out]]
  <2>1. m.link \in [Inputs -> Outputs \cup {None}]
    BY NetFacts
  <2> QED BY <2>1, <1>2, <1>3, <1>10
<1> QED BY <1>11, <1>17, <1>18, <1>19 DEF Binds, Agree, b

(***************************************************************************)
(* The destructors: a recursive function that goes through the sockets.    *)
(***************************************************************************)

\* A recursive function exists when each of its steps leads from one set into the
\* next one, and stays in these sets.
LEMMA Stays ==
    ASSUME NEW top \in Nat, NEW Good, NEW g, g[0] \in Good[0],
           \A k \in 1 .. top : g[k - 1] \in Good[k - 1] => g[k] \in Good[k]
    PROVE  \A k \in 0 .. top : g[k] \in Good[k]
<1> DEFINE T == {k \in 0 .. top : g[k] \notin Good[k]}
<1> SUFFICES ASSUME T # {} PROVE FALSE
  OBVIOUS
<1>1. PICK k \in T : \A i \in T : k <= i
  <2>1. T \in SUBSET Nat
    OBVIOUS
  <2> HIDE DEF T
  <2> QED BY <2>1, LeastNat
<1>2. k # 0 /\ k \in 1 .. top /\ k - 1 \in 0 .. top
  BY <1>1
<1>3. k - 1 \notin T
  BY <1>1, <1>2
<1>4. g[k - 1] \in Good[k - 1]
  BY <1>2, <1>3
<1> QED BY <1>1, <1>2, <1>4

LEMMA Guided ==
    ASSUME NEW S, NEW top \in Nat, NEW Good \in [0 .. top -> SUBSET S], NEW base \in Good[0],
           NEW step, \A k \in 1 .. top : \A x \in Good[k - 1] : step[k][x] \in Good[k]
    PROVE  \E g : (\A k \in 0 .. top : g[k] \in Good[k]) /\ g = [k \in 0 .. top |-> g[k]] /\ Follows(g, top, base, step)
<1> DEFINE whole == [k \in 1 .. top |-> [x \in S |-> IF x \in Good[k - 1] THEN step[k][x] ELSE x]]
<1>1. \A k \in 1 .. top : \A x \in S : whole[k][x] = IF x \in Good[k - 1] THEN step[k][x] ELSE x
  OBVIOUS
<1>2. \A k \in 1 .. top : \A x \in Good[k - 1] : x \in S /\ step[k][x] \in S
  <2> TAKE k \in 1 .. top
  <2>1. k - 1 \in 0 .. top /\ k \in 0 .. top
    OBVIOUS
  <2>2. Good[k - 1] \subseteq S /\ Good[k] \subseteq S
    BY <2>1
  <2> QED BY <2>2
<1>3. whole \in [1 .. top -> [S -> S]]
  BY <1>2
<1>4. base \in S /\ 0 \in 0 .. top
  <2>1. 0 \in 0 .. top
    OBVIOUS
  <2> QED BY <2>1
<1> HIDE DEF whole
<1>5. PICK g \in [0 .. top -> S] : Follows(g, top, base, whole)
  BY <1>3, <1>4, Recursion
<1>6. g[0] = base /\ \A k \in 1 .. top : g[k] = whole[k][g[k - 1]]
  BY <1>5 DEF Follows
<1>7. ASSUME NEW k \in 1 .. top, g[k - 1] \in Good[k - 1] PROVE g[k] = step[k][g[k - 1]] /\ g[k] \in Good[k]
  <2>1. PICK x : x = g[k - 1] /\ x \in Good[k - 1]
    BY <1>7
  <2>2. x \in S /\ step[k][x] \in Good[k]
    BY <1>2, <2>1
  <2>3. g[k] = whole[k][x]
    BY <1>6, <2>1
  <2> QED BY <1>1, <2>1, <2>2, <2>3
<1>8. \A k \in 0 .. top : g[k] \in Good[k]
  BY <1>6, <1>7, Stays
<1>9. \A k \in 1 .. top : k - 1 \in 0 .. top
  OBVIOUS
<1>10. Follows(g, top, base, step)
  BY <1>6, <1>7, <1>8, <1>9 DEF Follows
<1> QED BY <1>5, <1>8, <1>10

\* The inputs of an output are unbound from the last one on.
Emptied(x, own, s, left) ==
    /\ x \in Nets /\ Agree(x) /\ x.ptr = own.ptr
    /\ Len(x.list[s]) = left
    /\ \A in \in Inputs : x.link[in] = own.link[in] \/ (x.link[in] = None /\ own.link[in] = s)

LEMMA UnbindLast ==
    ASSUME NEW own, NEW s \in Outputs, NEW left \in Nat \ {0}, NEW x, Emptied(x, own, s, left)
    PROVE  Emptied(UnbindAt(x, s, left), own, s, left - 1)
<1>1. x \in Nets /\ Agree(x) /\ x.ptr = own.ptr /\ Len(x.list[s]) = left
  BY DEF Emptied
<1>2. PICK L, l : L = x.list /\ l = x.link
  OBVIOUS
<1>3. L[s] \in Seq(Inputs) /\ l \in [Inputs -> Outputs \cup {None}] /\ L \in [Outputs -> Seq(Inputs)] /\ Len(L[s]) = left
  BY <1>1, <1>2, NetFacts
<1>4. PICK in : in = L[s][left]
  OBVIOUS
<1>5. in \in Inputs /\ left \in Places(L[s])
  BY <1>3, <1>4 DEF Places
<1>6. ListAgrees(x, s)
  BY <1>1 DEF Agree
<1>7. Once(L[s]) /\ l[in] = s /\ s # None
  BY <1>2, <1>4, <1>5, <1>6, OutputFacts DEF ListAgrees
<1> DEFINE u == UnbindSocket(x, in)
<1>8. Unbinds(u, x, in)
  BY <1>1, <1>2, <1>5, <1>7, UnbindAgrees
<1>9. UnbindAt(x, s, left) = u
  BY <1>2, <1>4 DEF UnbindAt
<1> HIDE DEF u
<1>10. /\ u \in Nets /\ Agree(u) /\ u.ptr = own.ptr
       /\ u.link = [l EXCEPT ![in] = None] /\ u.list = [L EXCEPT ![s] = RemoveFirst(@, in)]
  BY <1>1, <1>2, <1>7, <1>8 DEF Unbinds
<1>11. Len(u.list[s]) = left - 1
  <2>1. u.list[s] = RemoveFirst(L[s], in)
    BY <1>3, <1>10
  <2>2. PICK q : q = L[s]
    OBVIOUS
  <2>3. q \in Seq(Inputs) /\ left \in Places(q) /\ q[left] = in /\ Once(q) /\ Len(q) = left
    BY <1>3, <1>4, <1>5, <1>7, <2>2
  <2>4. Len(RemoveFirst(q, in)) = Len(q) - 1
    BY ONLY <2>3, RemoveFacts
  <2> QED BY <2>1, <2>2, <2>3, <2>4
<1>12. ASSUME NEW y \in Inputs PROVE u.link[y] = own.link[y] \/ (u.link[y] = None /\ own.link[y] = s)
  <2>1. l[y] = own.link[y] \/ (l[y] = None /\ own.link[y] = s)
    BY <1>2 DEF Emptied
  <2> QED BY <2>1, <1>3, <1>5, <1>7, <1>10
<1> QED BY <1>9, <1>10, <1>11, <1>12 DEF Emptied

\* A socket that is reset is bound to nothing, and nothing to it.
Resets(r, m, s) ==
    /\ r \in Nets /\ Agree(r) /\ r.ptr = m.ptr
    /\ \A in \in Inputs : r.link[in] = IF in = s \/ m.link[in] = s THEN None ELSE m.link[in]

LEMMA ResetAgrees ==
    ASSUME NEW m \in Nets, Agree(m), NEW s \in Existing
    PROVE  Resets(ResetSocket(m, s), m, s)
<1>1. PICK own : own = IF s \in Inputs /\ m.link[s] # None THEN UnbindSocket(m, s) ELSE m
  OBVIOUS
<1>2. m.link \in [Inputs -> Outputs \cup {None}]
  BY NetFacts
<1>3. /\ own \in Nets /\ Agree(own) /\ own.ptr = m.ptr
      /\ \A in \in Inputs : own.link[in] = IF in = s THEN None ELSE m.link[in]
  <2>1. CASE s \in Inputs /\ m.link[s] # None
    <3>1. Unbinds(own, m, s)
      BY <2>1, <1>1, UnbindAgrees
    <3> QED BY <3>1, <1>2, <2>1 DEF Unbinds
  <2>2. CASE ~ (s \in Inputs /\ m.link[s] # None)
    <3>1. own = m
      BY <2>2, <1>1
    <3> QED BY <3>1, <2>2
  <2> QED BY <2>1, <2>2
<1>4. s # None
  BY RealFacts, FakesFacts, OutputFacts DEF Existing, Fake, None
<1> DEFINE count == Len(own.list[s])
           Q(f) == f = [k \in 0 .. count |-> IF k = 0 THEN own ELSE UnbindAt(f[k - 1], s, count - k + 1)]
           walk == CHOOSE f : Q(f)
<1>5. ResetSocket(m, s) = IF s \in Outputs THEN walk[count] ELSE own
  BY <1>1 DEF ResetSocket
<1>6. CASE s \notin Outputs
  <2>1. \A in \in Inputs : m.link[in] # s
    BY <1>2, <1>4, <1>6
  <2> HIDE DEF walk
  <2> QED BY <1>3, <1>5, <1>6, <2>1 DEF Resets
<1>7. CASE s \in Outputs
  <2>1. count \in Nat
    <3>1. own.list \in [Outputs -> Seq(Inputs)]
      BY <1>3, NetFacts
    <3> QED BY <3>1, <1>7
  <2> HIDE DEF count
  <2> DEFINE Good == [k \in 0 .. count |-> {x \in Nets : Emptied(x, own, s, count - k)}]
             step == [k \in 1 .. count |-> [x \in Nets |-> UnbindAt(x, s, count - k + 1)]]
  <2>2. Good \in [0 .. count -> SUBSET Nets]
    OBVIOUS
  <2>3. own \in Good[0]
    <3>1. Emptied(own, own, s, count - 0)
      BY <1>3, <2>1 DEF Emptied, count
    <3> QED BY <3>1, <1>3, <2>1
  <2>4. ASSUME NEW k \in 1 .. count, NEW x \in Good[k - 1]
        PROVE  /\ step[k][x] = UnbindAt(x, s, count - k + 1)
               /\ UnbindAt(x, s, count - k + 1) \in Good[k]
    <3>1. k - 1 \in 0 .. count /\ k \in 0 .. count
      BY <2>1
    <3>2. PICK left \in Nat \ {0} : left = count - (k - 1) /\ left = count - k + 1 /\ left - 1 = count - k
      BY <2>1
    <3>3. x \in Nets /\ Emptied(x, own, s, left)
      BY <3>1, <3>2
    <3>4. Emptied(UnbindAt(x, s, left), own, s, left - 1)
      BY <3>3, <1>7, UnbindLast
    <3>5. UnbindAt(x, s, left) \in Nets
      BY <3>4 DEF Emptied
    <3> QED BY <3>1, <3>2, <3>3, <3>4, <3>5
  <2> HIDE DEF step
  <2>5. \E g : (\A k \in 0 .. count : g[k] \in Good[k]) /\ g = [k \in 0 .. count |-> g[k]] /\ Follows(g, count, own, step)
    <3> HIDE DEF Good
    <3>1. \A k \in 1 .. count : \A x \in Good[k - 1] : step[k][x] \in Good[k]
      BY <2>4
    <3> QED BY ONLY <2>1, <2>2, <2>3, <3>1, Guided
  <2>6. PICK g : (\A k \in 0 .. count : g[k] \in Good[k]) /\ g = [k \in 0 .. count |-> g[k]] /\ Follows(g, count, own, step)
    BY <2>5
  <2>7. Q(g)
    <3> DEFINE h == [k \in 0 .. count |-> IF k = 0 THEN own ELSE UnbindAt(g[k - 1], s, count - k + 1)]
    <3>1. ASSUME NEW k \in 0 .. count PROVE g[k] = h[k]
      <4>1. CASE k = 0
        BY <4>1, <2>6 DEF Follows
      <4>2. CASE k # 0
        <5>1. k \in 1 .. count /\ k - 1 \in 0 .. count
          BY <4>2, <2>1
        <5>2. g[k] = step[k][g[k - 1]] /\ g[k - 1] \in Good[k - 1]
          BY <5>1, <2>6 DEF Follows
        <5> HIDE DEF Good
        <5> QED BY <4>2, <5>1, <5>2, <2>4
      <4> QED BY <4>1, <4>2
    <3>2. g = h
      <4> HIDE DEF Good
      <4> QED BY <3>1, <2>6
    <3> QED BY <3>2
  <2>8. Q(walk)
    <3> HIDE DEF Q
    <3> QED BY <2>7 DEF walk
  <2> HIDE DEF walk
  <2>9. walk[0] = own /\ \A k \in 1 .. count : walk[k] = UnbindAt(walk[k - 1], s, count - k + 1)
    <3>1. PICK h : h = [k \in 0 .. count |-> IF k = 0 THEN own ELSE UnbindAt(walk[k - 1], s, count - k + 1)]
      OBVIOUS
    <3>2. h = walk
      BY <3>1, <2>8
    <3>3. h[0] = own /\ \A k \in 1 .. count : h[k] = UnbindAt(walk[k - 1], s, count - k + 1)
      BY <3>1, <2>1
    <3> QED BY <3>2, <3>3
  <2>10. \A k \in 0 .. count : walk[k] \in Good[k]
    <3>1. walk[0] \in Good[0]
      BY <2>3, <2>9
    <3>2. \A k \in 1 .. count : walk[k - 1] \in Good[k - 1] => walk[k] \in Good[k]
      <4> HIDE DEF Good
      <4> QED BY <2>4, <2>9
    <3> HIDE DEF Good
    <3> QED BY <3>1, <3>2, <2>1, Stays
  <2>11. PICK r : r = walk[count] /\ Emptied(r, own, s, 0)
    <3>1. count \in 0 .. count /\ count - count = 0
      BY <2>1
    <3> QED BY <3>1, <2>10
  <2>12. r \in Nets /\ Agree(r) /\ r.ptr = m.ptr /\ r.link \in [Inputs -> Outputs \cup {None}] /\ r.list[s] \in Seq(Inputs)
    BY <2>11, <1>3, <1>7, NetFacts DEF Emptied
  <2>13. ASSUME NEW in \in Inputs PROVE r.link[in] # s
    <3> SUFFICES ASSUME r.link[in] = s PROVE FALSE
      OBVIOUS
    <3>1. \E i \in Places(r.list[s]) : r.list[s][i] = in
      BY <1>4, <2>12 DEF Agree, LinkAgrees
    <3> QED BY <3>1, <2>11, <2>12 DEF Emptied, Places
  <2>14. ASSUME NEW in \in Inputs
         PROVE  r.link[in] = IF in = s \/ m.link[in] = s THEN None ELSE m.link[in]
    <3>1. r.link[in] = own.link[in] \/ (r.link[in] = None /\ own.link[in] = s)
      BY <2>11 DEF Emptied
    <3> QED BY <3>1, <2>13, <1>3
  <2> QED BY <1>5, <1>7, <2>11, <2>12, <2>14 DEF Resets
<1> QED BY <1>6, <1>7

\* The sockets of a task that is destroyed are reset one after the other.
Destroyed(m, mine) ==
    LET after[k \in 0 .. Len(mine)] == IF k = 0 THEN m ELSE ResetSocket(after[k - 1], mine[k]) IN
    after[Len(mine)]

\* What is bound after the sockets in the first places are reset.
Cut(r, m, mine, places) ==
    /\ r \in Nets /\ Agree(r) /\ r.ptr = m.ptr
    /\ \A in \in Inputs :
        r.link[in] = IF \E i \in 1 .. places : mine[i] = in \/ mine[i] = m.link[in] THEN None ELSE m.link[in]

LEMMA CutNext ==
    ASSUME NEW m \in Nets, NEW mine \in Seq(Existing), NEW k \in Places(mine), NEW x, Cut(x, m, mine, k - 1)
    PROVE  Cut(ResetSocket(x, mine[k]), m, mine, k)
<1>1. x \in Nets /\ Agree(x) /\ x.ptr = m.ptr
  BY DEF Cut
<1>2. PICK s : s = mine[k] /\ s \in Existing
  BY DEF Places
<1>3. PICK r : r = ResetSocket(x, s)
  OBVIOUS
<1>4. Resets(r, x, s)
  BY <1>1, <1>2, <1>3, ResetAgrees
<1>5. s # None
  BY <1>2, RealFacts, FakesFacts, OutputFacts DEF Existing, Fake, None
<1>6. ASSUME NEW in \in Inputs
      PROVE  r.link[in] = IF \E i \in 1 .. k : mine[i] = in \/ mine[i] = m.link[in] THEN None ELSE m.link[in]
  <2> DEFINE E(j) == \E i \in 1 .. j : mine[i] = in \/ mine[i] = m.link[in]
  <2>1. x.link[in] = IF E(k - 1) THEN None ELSE m.link[in]
    BY DEF Cut
  <2>2. r.link[in] = IF in = s \/ x.link[in] = s THEN None ELSE x.link[in]
    BY <1>4 DEF Resets
  <2>3. E(k) <=> E(k - 1) \/ s = in \/ s = m.link[in]
    <3>1. \A i : i \in 1 .. k <=> i \in 1 .. k - 1 \/ i = k
      BY DEF Places
    <3> QED BY <3>1, <1>2
  <2> HIDE DEF E
  <2>4. r.link[in] = IF E(k) THEN None ELSE m.link[in]
    BY <2>1, <2>2, <2>3, <1>5
  <2> QED BY <2>4 DEF E
<1> QED BY <1>1, <1>2, <1>3, <1>4, <1>6 DEF Resets, Cut

LEMMA DestroyAgrees ==
    ASSUME NEW m \in Nets, Agree(m), NEW mine \in Seq(Existing)
    PROVE  Cut(Destroyed(m, mine), m, mine, Len(mine))
<1> DEFINE count == Len(mine)
           Q(f) == f = [k \in 0 .. count |-> IF k = 0 THEN m ELSE ResetSocket(f[k - 1], mine[k])]
           after == CHOOSE f : Q(f)
<1>1. Destroyed(m, mine) = after[count]
  BY DEF Destroyed
<1>2. count \in Nat /\ 1 .. count = Places(mine)
  BY DEF Places
<1> HIDE DEF count
<1> DEFINE Good == [k \in 0 .. count |-> {x \in Nets : Cut(x, m, mine, k)}]
           step == [k \in 1 .. count |-> [x \in Nets |-> ResetSocket(x, mine[k])]]
<1>3. Good \in [0 .. count -> SUBSET Nets]
  OBVIOUS
<1>4. m \in Good[0]
  <2>1. Cut(m, m, mine, 0)
    BY DEF Cut
  <2> QED BY <2>1, <1>2
<1>5. ASSUME NEW k \in 1 .. count, NEW x \in Good[k - 1]
      PROVE  step[k][x] = ResetSocket(x, mine[k]) /\ ResetSocket(x, mine[k]) \in Good[k]
  <2>1. k - 1 \in 0 .. count /\ k \in 0 .. count
    BY <1>2
  <2>2. x \in Nets /\ Cut(x, m, mine, k - 1)
    BY <2>1
  <2>3. Cut(ResetSocket(x, mine[k]), m, mine, k)
    BY <2>2, <1>2, CutNext
  <2>4. ResetSocket(x, mine[k]) \in Nets
    BY <2>3 DEF Cut
  <2> QED BY <2>1, <2>2, <2>3, <2>4
<1> HIDE DEF step
<1>6. PICK g : (\A k \in 0 .. count : g[k] \in Good[k]) /\ g = [k \in 0 .. count |-> g[k]] /\ Follows(g, count, m, step)
  <2> HIDE DEF Good
  <2>1. \A k \in 1 .. count : \A x \in Good[k - 1] : step[k][x] \in Good[k]
    BY <1>5
  <2>2. \E g : (\A k \in 0 .. count : g[k] \in Good[k]) /\ g = [k \in 0 .. count |-> g[k]] /\ Follows(g, count, m, step)
    BY ONLY <1>2, <1>3, <1>4, <2>1, Guided
  <2> QED BY <2>2
<1>7. Q(g)
  <2> DEFINE h == [k \in 0 .. count |-> IF k = 0 THEN m ELSE ResetSocket(g[k - 1], mine[k])]
  <2>1. ASSUME NEW k \in 0 .. count PROVE g[k] = h[k]
    <3>1. CASE k = 0
      BY <3>1, <1>6 DEF Follows
    <3>2. CASE k # 0
      <4>1. k \in 1 .. count /\ k - 1 \in 0 .. count
        BY <3>2, <1>2
      <4>2. g[k] = step[k][g[k - 1]] /\ g[k - 1] \in Good[k - 1]
        BY <4>1, <1>6 DEF Follows
      <4> HIDE DEF Good
      <4> QED BY <3>2, <4>1, <4>2, <1>5
    <3> QED BY <3>1, <3>2
  <2>2. g = h
    <3> HIDE DEF Good
    <3> QED BY <2>1, <1>6
  <2> QED BY <2>2
<1>8. Q(after)
  <2> HIDE DEF Q
  <2> QED BY <1>7 DEF after
<1> HIDE DEF after
<1>9. after[0] = m /\ \A k \in 1 .. count : after[k] = ResetSocket(after[k - 1], mine[k])
  <2>1. PICK h : h = [k \in 0 .. count |-> IF k = 0 THEN m ELSE ResetSocket(after[k - 1], mine[k])]
    OBVIOUS
  <2>2. h = after
    BY <2>1, <1>8
  <2>3. h[0] = m /\ \A k \in 1 .. count : h[k] = ResetSocket(after[k - 1], mine[k])
    BY <2>1, <1>2
  <2> QED BY <2>2, <2>3
<1>10. \A k \in 0 .. count : after[k] \in Good[k]
  <2>1. after[0] \in Good[0]
    BY <1>4, <1>9
  <2>2. \A k \in 1 .. count : after[k - 1] \in Good[k - 1] => after[k] \in Good[k]
    <3> HIDE DEF Good
    <3> QED BY <1>5, <1>9
  <2> HIDE DEF Good
  <2> QED BY <2>1, <2>2, <1>2, Stays
<1>11. count \in 0 .. count
  BY <1>2
<1>12. Cut(after[count], m, mine, count)
  BY <1>10, <1>11
<1> QED BY <1>1, <1>12 DEF count

(***************************************************************************)
(* The sockets that a pointer is spread to.                                *)
(***************************************************************************)

\* They are inputs in the list of the output, or of a forward socket.
LEMMA BehindFacts ==
    ASSUME list \in [Outputs -> Seq(Inputs)], NEW out \in Outputs
    PROVE  /\ Range(list[out]) \subseteq Behind(out)
           /\ \A s \in Behind(out) : s \in Inputs /\ \E x \in Outputs : s \in Range(list[x]) /\ (x = out \/ Kind(x) = "fwd")
<1> DEFINE N == Cardinality(Outputs)
           G == {s \in Inputs : \E x \in Outputs : s \in Range(list[x]) /\ (x = out \/ Kind(x) = "fwd")}
           R == SUBSET Inputs
           Step(r) == Range(list[out]) \cup UNION {Range(list[f]) : f \in {s \in r : Kind(s) = "fwd"}}
           Q(f) == f = [k \in 0 .. N |-> Range(list[out]) \cup
                       IF k = 0 THEN {} ELSE UNION {Range(list[g]) : g \in {s \in f[k - 1] : Kind(s) = "fwd"}}]
           reach == CHOOSE f : Q(f)
<1>1. Behind(out) = reach[N]
  BY DEF Behind
<1>2. N \in Nat
  BY OutputsFinite
<1>3. \A x \in Outputs : Range(list[x]) \subseteq Inputs
  BY DEF Range
<1>4. \A s \in Inputs : Kind(s) = "fwd" => s \in Outputs
  BY OutputFacts, FakesFacts, RealFacts
<1>5. Range(list[out]) \subseteq G
  BY <1>3
<1>6. ASSUME NEW r \in SUBSET G PROVE Step(r) \in SUBSET G
  <2>1. ASSUME NEW f \in r, Kind(f) = "fwd" PROVE Range(list[f]) \subseteq G
    <3>1. f \in Outputs
      BY <1>4, <2>1
    <3> QED BY <3>1, <2>1, <1>3
  <2> HIDE DEF G
  <2> QED BY <2>1, <1>5
<1> HIDE DEF N, G
<1> DEFINE Good == [k \in 0 .. N |-> {r \in SUBSET G : Range(list[out]) \subseteq r}]
           step == [k \in 1 .. N |-> [r \in SUBSET G |-> Step(r)]]
<1>7. Good \in [0 .. N -> SUBSET (SUBSET G)]
  OBVIOUS
<1>8. Range(list[out]) \in Good[0]
  BY <1>2, <1>5
<1>9. ASSUME NEW k \in 1 .. N, NEW r \in Good[k - 1]
      PROVE  step[k][r] = Step(r) /\ Step(r) \in Good[k]
  <2>1. k - 1 \in 0 .. N /\ k \in 0 .. N
    BY <1>2
  <2>2. r \in SUBSET G
    BY <2>1
  <2>3. Step(r) \in SUBSET G /\ Range(list[out]) \subseteq Step(r)
    BY <2>2, <1>6
  <2> HIDE DEF Step
  <2> QED BY <2>1, <2>2, <2>3
<1> HIDE DEF step
<1>10. PICK g : (\A k \in 0 .. N : g[k] \in Good[k]) /\ g = [k \in 0 .. N |-> g[k]] /\ Follows(g, N, Range(list[out]), step)
  <2> HIDE DEF Good
  <2>1. \A k \in 1 .. N : \A x \in Good[k - 1] : step[k][x] \in Good[k]
    BY <1>9
  <2>2. PICK b : b = Range(list[out])
    OBVIOUS
  <2>3. b \in Good[0]
    BY <1>8, <2>2
  <2>4. \E g : (\A k \in 0 .. N : g[k] \in Good[k]) /\ g = [k \in 0 .. N |-> g[k]] /\ Follows(g, N, b, step)
    BY ONLY <1>2, <1>7, <2>1, <2>3, Guided
  <2> QED BY <2>2, <2>4
<1>11. Q(g)
  <2> DEFINE h == [k \in 0 .. N |-> Range(list[out]) \cup
                       IF k = 0 THEN {} ELSE UNION {Range(list[f]) : f \in {s \in g[k - 1] : Kind(s) = "fwd"}}]
  <2>1. ASSUME NEW k \in 0 .. N PROVE g[k] = h[k]
    <3>1. CASE k = 0
      BY <3>1, <1>10 DEF Follows
    <3>2. CASE k # 0
      <4>1. k \in 1 .. N /\ k - 1 \in 0 .. N
        BY <3>2, <1>2
      <4>2. g[k] = step[k][g[k - 1]] /\ g[k - 1] \in Good[k - 1]
        BY <4>1, <1>10 DEF Follows
      <4> HIDE DEF Good
      <4>3. g[k] = Step(g[k - 1])
        BY <4>1, <4>2, <1>9
      <4> QED BY <3>2, <4>3
    <3> QED BY <3>1, <3>2
  <2>2. g = h
    <3> HIDE DEF Good
    <3> QED BY <2>1, <1>10
  <2> QED BY <2>2
<1>12. Q(reach)
  <2> HIDE DEF Q
  <2> QED BY <1>11 DEF reach
<1> HIDE DEF reach
<1>13. reach[0] = Range(list[out]) /\ \A k \in 1 .. N : reach[k] = Step(reach[k - 1])
  <2>1. PICK h : h = [k \in 0 .. N |-> Range(list[out]) \cup
                       IF k = 0 THEN {} ELSE UNION {Range(list[f]) : f \in {s \in reach[k - 1] : Kind(s) = "fwd"}}]
    OBVIOUS
  <2>2. h = reach
    BY <2>1, <1>12
  <2>3. h[0] = Range(list[out]) /\ \A k \in 1 .. N : h[k] = Step(reach[k - 1])
    BY <2>1, <1>2
  <2> QED BY <2>2, <2>3
<1>14. \A k \in 0 .. N : reach[k] \in Good[k]
  <2>1. reach[0] \in Good[0]
    BY <1>8, <1>13
  <2>2. \A k \in 1 .. N : reach[k - 1] \in Good[k - 1] => reach[k] \in Good[k]
    <3> HIDE DEF Good, Step
    <3> QED BY <1>9, <1>13
  <2> HIDE DEF Good
  <2> QED BY <2>1, <2>2, <1>2, Stays
<1>15. reach[N] \in SUBSET G /\ Range(list[out]) \subseteq reach[N]
  <2>1. N \in 0 .. N
    BY <1>2
  <2> QED BY <2>1, <1>14
<1> QED BY <1>1, <1>15 DEF G

(***************************************************************************)
(* The inductive invariant.                                                *)
(***************************************************************************)
Typed ==
    /\ Net \in Nets
    /\ size \in [Existing -> Nat] /\ n \in [Tasks -> Nat \ {0}] /\ allocated \in [Tasks -> BOOLEAN]
    /\ fakes \in [Tasks -> Seq(Outputs)] /\ nInputs \in [Tasks -> Int]
    /\ alive \subseteq Tasks /\ torn \subseteq Tasks

\* A fake socket that is bound is bound to the socket it stands for, and its task
\* has it, once.
WaitAgrees(t) ==
    /\ Once(fakes[t])
    /\ \A o \in Members(fakes[t]) : o[1] # t
    /\ \A o \in Outputs : o[1] # t /\ link[Fake(t, o)] # None =>
            link[Fake(t, o)] = o /\ o \in Members(fakes[t])

\* What the two ends of a binding have in common, apart from the list.
Tied(in) == link[in] # None =>
    /\ in[1] \in alive /\ link[in][1] \in alive
    /\ size[in] = size[link[in]]
    /\ Kind(link[in]) = "out" => ptr[in] = ptr[link[in]] \/ GrownAlone(in, link[in])

OwnPointer(s) == Kind(s) = "out" => ptr[s] = s \/ ptr[s] = Null

\* Sizes are in step with n_frames as long as no change of it was refused half-way.
InStep(s) == s[1] \notin torn => size[s] = n[s[1]] * Bytes

InCount(t) == Cardinality({i \in DOMAIN Layout[t] : Layout[t][i][1] = "in"})
FakesBound(t) == \A o \in Members(fakes[t]) : link[Fake(t, o)] # None
CountAgrees(t) == FakesBound(t) => nInputs[t] = InCount(t) + Len(fakes[t])

IInv ==
    /\ Typed
    /\ Agree(Net)
    /\ \A t \in Tasks : WaitAgrees(t)
    /\ \A in \in Inputs : Tied(in)
    /\ \A s \in Real : OwnPointer(s)
    /\ \A s \in Real : InStep(s)
    /\ \A t \in alive : CountAgrees(t)

LEMMA InCountFacts == \A t \in Tasks : InCount(t) \in Nat
<1> TAKE t \in Tasks
<1> DEFINE D == DOMAIN Layout[t]  I == {i \in DOMAIN Layout[t] : Layout[t][i][1] = "in"}
<1>1. IsFiniteSet(D)
  <2>1. DOMAIN Layout[t] = 1 .. Len(Layout[t]) /\ Len(Layout[t]) \in Nat
    BY LayoutFacts
  <2>2. PICK len \in Nat : len = Len(Layout[t])
    BY <2>1
  <2>3. IsFiniteSet(1 .. len)
    BY FS_Interval
  <2> QED BY <2>1, <2>2, <2>3
<1>2. I \subseteq D
  OBVIOUS
<1> HIDE DEF I, D
<1>3. Cardinality(I) \in Nat
  BY <1>1, <1>2, FS_Subset, FS_CardinalityType
<1> QED BY <1>3 DEF I, InCount

LEMMA InitIInv == ASSUME Init PROVE IInv
<1> USE DEF Init
<1>1. Typed
  <2>1. link \in [Inputs -> Outputs \cup {None}] /\ list \in [Outputs -> Seq(Inputs)]
    BY EmptySeq
  <2>2. ptr \in [Existing -> Pointers]
    BY DEF Pointers
  <2>3. size \in [Existing -> Nat] /\ n \in [Tasks -> Nat \ {0}] /\ allocated \in [Tasks -> BOOLEAN]
    BY BytesAssumption
  <2>4. fakes \in [Tasks -> Seq(Outputs)]
    BY EmptySeq
  <2>5. nInputs \in [Tasks -> Int]
    BY InCountFacts DEF InCount
  <2>6. alive \subseteq Tasks /\ torn \subseteq Tasks
    OBVIOUS
  <2>7. Net \in Nets
    BY <2>1, <2>2 DEF Net, Nets
  <2> QED BY ONLY <2>3, <2>4, <2>5, <2>6, <2>7 DEF Typed
<1>2. Agree(Net)
  <2>1. \A out \in Outputs : Net.list[out] = <<>>
    BY DEF Net
  <2>2. \A in \in Inputs : Net.link[in] = None
    BY DEF Net
  <2> QED BY <2>1, <2>2 DEF Agree, ListAgrees, LinkAgrees, Once, Places
<1>3. ASSUME NEW t \in Tasks PROVE WaitAgrees(t)
  <2>1. fakes[t] = <<>>
    OBVIOUS
  <2>2. \A o \in Outputs : o[1] # t => link[Fake(t, o)] = None
    BY FakeFacts
  <2> QED BY <2>1, <2>2 DEF WaitAgrees, Once, Places, Members
<1>4. \A in \in Inputs : Tied(in)
  BY DEF Tied
<1>5. \A s \in Real : OwnPointer(s)
  BY DEF OwnPointer, Existing
<1>6. \A s \in Real : InStep(s)
  <2> TAKE s \in Real
  <2>1. size[s] = Bytes /\ n[s[1]] = 1
    BY RealFacts DEF Existing
  <2> QED BY <2>1, BytesAssumption DEF InStep
<1>7. \A t \in alive : CountAgrees(t)
  <2> TAKE t \in alive
  <2>1. fakes[t] = <<>> /\ nInputs[t] = InCount(t) /\ InCount(t) \in Int
    BY <1>1 DEF InCount, Typed
  <2> QED BY <2>1 DEF CountAgrees
<1> QED BY ONLY <1>1, <1>2, <1>3, <1>4, <1>5, <1>6, <1>7 DEF IInv

\* A net in which both ends agree, as the next state.
LEMMA AgreeNext ==
    ASSUME NEW m \in Nets, Agree(m), Set(m)
    PROVE  Net' = m /\ (Net \in Nets)' /\ Agree(Net)'
<1>1. Net' = m
  BY NetFacts DEF Net, Set
<1>2. Net' \in Nets
  BY <1>1
<1>3. Agree(Net)'
  BY <1>1 DEF Agree, ListAgrees, LinkAgrees
<1> QED BY <1>1, <1>2, <1>3

\* The net of a state.
LEMMA NetOfState ==
    ASSUME IInv
    PROVE  /\ Net \in Nets /\ Agree(Net)
           /\ Net.link = link /\ Net.list = list /\ Net.ptr = ptr
           /\ link \in [Inputs -> Outputs \cup {None}] /\ list \in [Outputs -> Seq(Inputs)]
           /\ ptr \in [Existing -> Pointers]
<1>1. Net \in Nets /\ Agree(Net)
  BY DEF IInv, Typed
<1>2. Net.link = link /\ Net.list = list /\ Net.ptr = ptr
  BY DEF Net
<1> QED BY <1>1, <1>2, NetFacts

LEMMA UnchangedIInv == ASSUME IInv, UNCHANGED vars PROVE IInv'
<1> USE DEF vars, bindings, counts
<1>1. Net' = Net
  BY DEF Net
<1>2. Agree(Net)'
  BY <1>1 DEF IInv, Agree, ListAgrees, LinkAgrees
<1>3. Typed'
  BY <1>1 DEF IInv, Typed
<1>4. \A t \in Tasks : WaitAgrees(t)'
  BY DEF IInv, WaitAgrees
<1>5. \A in \in Inputs : Tied(in)'
  BY DEF IInv, Tied, GrownAlone
<1>6. (\A s \in Real : OwnPointer(s)') /\ (\A s \in Real : InStep(s)')
  BY DEF IInv, OwnPointer, InStep
<1>7. \A t \in alive' : CountAgrees(t)'
  BY DEF IInv, CountAgrees, FakesBound
<1> QED BY ONLY <1>2, <1>3, <1>4, <1>5, <1>6, <1>7 DEF IInv

(***************************************************************************)
(* Bindings.                                                               *)
(***************************************************************************)

\* What is left alone when the fake sockets are.
LEMMA SameFakes ==
    ASSUME IInv, UNCHANGED <<fakes, nInputs>>, alive' \subseteq alive,
           \A t \in Tasks, o \in Outputs : o[1] # t => link'[Fake(t, o)] = link[Fake(t, o)]
    PROVE  (\A t \in Tasks : WaitAgrees(t)') /\ (\A t \in alive' : CountAgrees(t)')
<1>1. \A t \in Tasks : WaitAgrees(t)'
  BY DEF IInv, WaitAgrees
<1>2. ASSUME NEW t \in alive' PROVE CountAgrees(t)'
  <2>1. t \in alive /\ t \in Tasks /\ CountAgrees(t) /\ WaitAgrees(t) /\ fakes[t] \in Seq(Outputs)
    BY DEF IInv, Typed
  <2>2. \A o \in Members(fakes[t]) : o \in Outputs /\ o[1] # t
    BY <2>1 DEF WaitAgrees, Members, Places
  <2>3. FakesBound(t)' => FakesBound(t)
    BY <2>1, <2>2 DEF FakesBound
  <2> QED BY <2>1, <2>3 DEF CountAgrees
<1> QED BY <1>1, <1>2

LEMMA RealNotFake ==
    ASSUME NEW s \in Real
    PROVE  \A t \in Tasks, o \in Outputs : o[1] # t => Fake(t, o) # s /\ Fake(t, o) \in Inputs
BY FakeFacts

LEMMA AssignSocketIInv ==
    ASSUME IInv, NEW in \in Inputs \cap Real, NEW out \in Outputs, NEW priority \in {AtEnd} \cup Priorities,
           AssignSocket(in, out, priority)
    PROVE  IInv'
<1>1. /\ in[1] \in alive /\ out[1] \in alive /\ in[1] # out[1] /\ size[in] = size[out]
      /\ link[in] = None \/ link[in] = out
      /\ UNCHANGED <<size, n, allocated, fakes, nInputs, alive, torn>>
  BY DEF AssignSocket, Fits, Free, counts
<1>2. PICK b : b = BindSocket(Net, in, out, priority) /\ Set(b)
  BY DEF AssignSocket
<1>3. Binds(b, Net, in, out)
  <2>1. priority \in Nat \cup {AtEnd}
    BY PrioritiesAssumption
  <2> QED BY <1>1, <1>2, <2>1, NetOfState, BindAgrees
<1>4. b \in Nets /\ Agree(b) /\ link' = [link EXCEPT ![in] = out] /\ ptr' = [ptr EXCEPT ![in] = ptr[out]]
  BY <1>2, <1>3, NetOfState DEF Binds, Set
<1>5. (Net \in Nets)' /\ Agree(Net)'
  BY <1>2, <1>4, AgreeNext
<1>6. Typed'
  BY <1>1, <1>5 DEF IInv, Typed
<1>7. (\A t \in Tasks : WaitAgrees(t)') /\ (\A t \in alive' : CountAgrees(t)')
  <2>1. \A t \in Tasks, o \in Outputs : o[1] # t => link'[Fake(t, o)] = link[Fake(t, o)]
    BY <1>4, NetOfState, RealNotFake
  <2> QED BY <1>1, <2>1, SameFakes
<1>8. in \in Existing /\ out \in Existing /\ Kind(in) # "out"
  BY OutputFacts
<1>9. ASSUME NEW x \in Inputs PROVE Tied(x)'
  <2>1. CASE x = in
    <3>1. link'[x] = out /\ ptr'[x] = ptr[out] /\ ptr'[out] = ptr[out]
      BY <2>1, <1>1, <1>4, <1>8, NetOfState
    <3> QED BY <3>1, <2>1, <1>1 DEF Tied
  <2>2. CASE x # in
    <3>1. link'[x] = link[x] /\ ptr'[x] = ptr[x] /\ Tied(x)
      BY <2>2, <1>4, NetOfState, OutputFacts DEF IInv
    <3>2. link[x] # None /\ Kind(link[x]) = "out" => ptr'[link[x]] = ptr[link[x]]
      BY <1>4, <1>8, NetOfState
    <3> QED BY <3>1, <3>2, <1>1 DEF Tied, GrownAlone
  <2> QED BY <2>1, <2>2
<1>10. \A s \in Real : OwnPointer(s)'
  BY <1>4, <1>8, NetOfState DEF IInv, OwnPointer, Existing
<1>11. \A s \in Real : InStep(s)'
  BY <1>1 DEF IInv, InStep
<1> QED BY ONLY <1>5, <1>6, <1>7, <1>9, <1>10, <1>11 DEF IInv

LEMMA AssignMemoryIInv ==
    ASSUME IInv, NEW s \in Inputs \cap Real, AssignMemory(s)
    PROVE  IInv'
<1>1. /\ link[s] = None /\ ptr' = [ptr EXCEPT ![s] = User]
      /\ UNCHANGED <<link, list, size, n, allocated, fakes, nInputs, alive, torn>>
  BY DEF AssignMemory, IsBound, counts
<1>2. PICK b : b = [link |-> link, list |-> list, ptr |-> ptr']
  OBVIOUS
<1>3. b \in Nets
  <2>1. ptr' \in [Existing -> Pointers]
    BY <1>1, NetOfState DEF Pointers
  <2> QED BY <2>1, <1>2, NetOfState DEF Nets
<1>4. Agree(b)
  BY <1>2, NetOfState DEF Agree, ListAgrees, LinkAgrees
<1>5. (Net \in Nets)' /\ Agree(Net)'
  <2>1. Set(b)
    BY <1>1, <1>2 DEF Set
  <2> QED BY <2>1, <1>3, <1>4, AgreeNext
<1>6. Typed'
  BY <1>1, <1>5 DEF IInv, Typed
<1>7. (\A t \in Tasks : WaitAgrees(t)') /\ (\A t \in alive' : CountAgrees(t)')
  BY <1>1, SameFakes
<1>8. s \in Existing /\ Kind(s) # "out"
  BY OutputFacts
<1>9. ASSUME NEW x \in Inputs PROVE Tied(x)'
  <2>1. CASE x = s
    BY <2>1, <1>1 DEF Tied
  <2>2. CASE x # s
    <3>1. ptr'[x] = ptr[x] /\ Tied(x)
      BY <2>2, <1>1, NetOfState, OutputFacts DEF IInv
    <3>2. link[x] # None /\ Kind(link[x]) = "out" => ptr'[link[x]] = ptr[link[x]]
      BY <1>1, <1>8, NetOfState
    <3> QED BY <3>1, <3>2, <1>1 DEF Tied, GrownAlone
  <2> QED BY <2>1, <2>2
<1>10. \A x \in Real : OwnPointer(x)'
  BY <1>1, <1>8, NetOfState DEF IInv, OwnPointer, Existing
<1>11. \A x \in Real : InStep(x)'
  BY <1>1 DEF IInv, InStep
<1> QED BY ONLY <1>5, <1>6, <1>7, <1>9, <1>10, <1>11 DEF IInv

LEMMA UnbindIInv ==
    ASSUME IInv, NEW in \in Inputs \cap Real, Unbind(in)
    PROVE  IInv'
<1>1. link[in] # None /\ UNCHANGED <<size, n, allocated, fakes, nInputs, alive, torn>>
  BY DEF Unbind, counts
<1>2. PICK u : u = UnbindSocket(Net, in) /\ Set(u)
  BY DEF Unbind
<1>3. Unbinds(u, Net, in)
  BY <1>1, <1>2, NetOfState, UnbindAgrees
<1>4. u \in Nets /\ Agree(u) /\ link' = [link EXCEPT ![in] = None] /\ ptr' = ptr
  BY <1>2, <1>3, NetOfState DEF Unbinds, Set
<1>5. (Net \in Nets)' /\ Agree(Net)'
  BY <1>2, <1>4, AgreeNext
<1>6. Typed'
  BY <1>1, <1>5 DEF IInv, Typed
<1>7. (\A t \in Tasks : WaitAgrees(t)') /\ (\A t \in alive' : CountAgrees(t)')
  <2>1. \A t \in Tasks, o \in Outputs : o[1] # t => link'[Fake(t, o)] = link[Fake(t, o)]
    BY <1>4, NetOfState, RealNotFake
  <2> QED BY <1>1, <2>1, SameFakes
<1>8. ASSUME NEW x \in Inputs PROVE Tied(x)'
  <2>1. link'[x] = IF x = in THEN None ELSE link[x]
    BY <1>4, NetOfState
  <2> QED BY <2>1, <1>1, <1>4 DEF IInv, Tied, GrownAlone
<1>9. \A s \in Real : OwnPointer(s)'
  BY <1>4 DEF IInv, OwnPointer
<1>10. \A s \in Real : InStep(s)'
  BY <1>1 DEF IInv, InStep
<1> QED BY ONLY <1>5, <1>6, <1>7, <1>8, <1>9, <1>10 DEF IInv

(***************************************************************************)
(* Fake input sockets.                                                     *)
(***************************************************************************)
Removed(r, seq, e) == Len(r) = Len(seq) - 1 /\ Once(r) /\ Members(r) = Members(seq) \ {e}
Appended(r, seq, e) == Len(r) = Len(seq) + 1 /\ Once(r) /\ Members(r) = Members(seq) \cup {e}

LEMMA RemoveOnce ==
    ASSUME NEW S, NEW seq \in Seq(S), NEW e \in Members(seq), Once(seq)
    PROVE  RemoveFirst(seq, e) \in Seq(S) /\ Removed(RemoveFirst(seq, e), seq, e)
<1> DEFINE r == RemoveFirst(seq, e)
<1>0. PICK p \in Places(seq) : seq[p] = e
  BY DEF Members
<1>1. r \in Seq(S) /\ Len(r) = Len(seq) - 1 /\ \A i \in Places(r) : r[i] = IF i < p THEN seq[i] ELSE seq[i + 1]
  BY <1>0, RemoveFacts
<1> HIDE DEF r
<1>2. Len(seq) \in Nat /\ p \in 1 .. Len(seq)
  BY DEF Places
<1>3. \A i \in Places(r) : LET j == IF i < p THEN i ELSE i + 1 IN j \in Places(seq) /\ j # p /\ r[i] = seq[j]
  BY <1>1, <1>2 DEF Places
<1>4. Once(r)
  <2> SUFFICES ASSUME NEW i \in Places(r), NEW j \in Places(r), r[i] = r[j] PROVE i = j
    BY DEF Once
  <2>1. (IF i < p THEN i ELSE i + 1) = (IF j < p THEN j ELSE j + 1)
    BY <1>3 DEF Once
  <2> QED BY <2>1, <1>1, <1>2 DEF Places
<1>5. Members(r) \subseteq Members(seq) \ {e}
  BY <1>0, <1>3 DEF Once, Members
<1>6. ASSUME NEW j \in Places(seq), seq[j] # e PROVE \E i \in Places(r) : r[i] = seq[j]
  <2> DEFINE i == IF j < p THEN j ELSE j - 1
  <2>1. j # p
    BY <1>0, <1>6
  <2>2. i \in Places(r) /\ j = (IF i < p THEN i ELSE i + 1)
    BY <2>1, <1>1, <1>2 DEF Places
  <2>3. r[i] = seq[j]
    BY <2>2, <1>3
  <2> HIDE DEF i
  <2> QED BY <2>2, <2>3
<1>7. Members(seq) \ {e} \subseteq Members(r)
  BY <1>6 DEF Members
<1> QED BY <1>1, <1>4, <1>5, <1>7 DEF r, Removed

LEMMA AppendOnce ==
    ASSUME NEW S, NEW seq \in Seq(S), NEW e \in S, Once(seq), e \notin Members(seq)
    PROVE  Append(seq, e) \in Seq(S) /\ Appended(Append(seq, e), seq, e)
<1> DEFINE r == Append(seq, e)
<1>1. /\ r \in Seq(S) /\ Len(r) = Len(seq) + 1 /\ r[Len(seq) + 1] = e /\ Len(seq) \in Nat
      /\ \A i \in 1 .. Len(seq) : r[i] = seq[i]
  OBVIOUS
<1> HIDE DEF r
<1>2. /\ \A i \in Places(r) : i = Len(seq) + 1 \/ (i \in Places(seq) /\ r[i] = seq[i])
      /\ \A j \in Places(seq) : j \in Places(r) /\ r[j] = seq[j]
      /\ Len(seq) + 1 \in Places(r) /\ r[Len(seq) + 1] = e
  BY <1>1 DEF Places
<1>3. Once(r)
  BY <1>2 DEF Once, Members
<1>4. Members(r) = Members(seq) \cup {e}
  BY <1>2 DEF Members
<1> QED BY <1>1, <1>3, <1>4 DEF r, Appended

\* What a call that waits for an output, or waits for it no more, leaves alone.
LEMMA OtherWaits ==
    ASSUME IInv, NEW t \in Tasks, NEW out \in Outputs, t # out[1],
           \A x \in Inputs : x # Fake(t, out) => link'[x] = link[x],
           \A u \in Tasks : u # t => fakes'[u] = fakes[u] /\ nInputs'[u] = nInputs[u], UNCHANGED alive
    PROVE  \A u \in Tasks : u # t => WaitAgrees(u)' /\ (u \in alive' => CountAgrees(u)')
<1> SUFFICES ASSUME NEW u \in Tasks, u # t PROVE WaitAgrees(u)' /\ (u \in alive' => CountAgrees(u)')
  OBVIOUS
<1>1. \A o \in Outputs : o[1] # u => link'[Fake(u, o)] = link[Fake(u, o)]
  BY FakeFacts
<1>2. fakes'[u] = fakes[u] /\ nInputs'[u] = nInputs[u] /\ WaitAgrees(u) /\ fakes[u] \in Seq(Outputs)
  BY DEF IInv, Typed
<1>3. WaitAgrees(u)'
  BY <1>1, <1>2 DEF WaitAgrees
<1>4. \A o \in Members(fakes[u]) : o \in Outputs /\ o[1] # u
  BY <1>2 DEF WaitAgrees, Members, Places
<1>5. FakesBound(u)' => FakesBound(u)
  BY <1>1, <1>2, <1>4 DEF FakesBound
<1>6. u \in alive' => CountAgrees(u)'
  BY <1>2, <1>5 DEF IInv, CountAgrees
<1> QED BY <1>3, <1>6

LEMMA WaitForIInv ==
    ASSUME IInv, NEW t \in Tasks, NEW out \in Outputs, t # out[1], WaitFor(t, out)
    PROVE  IInv'
<1>1. PICK fake : fake = Fake(t, out)
  OBVIOUS
<1>2. /\ fake \in Inputs /\ fake \in Existing /\ fake \notin Real /\ fake[1] = t /\ Kind(fake) = "in"
      /\ out \in Real /\ out \in Existing /\ out # None
  BY <1>1, FakeFacts, OutputFacts
<1>3. /\ t \in alive /\ out[1] \in alive /\ ~Orphaned(t) /\ ~ReadBy(t, out)
      /\ size' = [size EXCEPT ![fake] = size[out]]
      /\ fakes' = [fakes EXCEPT ![t] = Append(@, out)]
      /\ UNCHANGED <<n, allocated, alive, torn>>
  BY <1>1 DEF WaitFor
<1>4. WaitAgrees(t) /\ fakes[t] \in Seq(Outputs) /\ fakes \in [Tasks -> Seq(Outputs)]
  BY DEF IInv, Typed
<1>5. FakesBound(t)
  BY <1>3, <1>4 DEF Orphaned, FakeLinks, FakesBound, Members, Places
<1>6. link[fake] = None
  BY <1>1, <1>2, <1>3, <1>4 DEF WaitAgrees, ReadBy
<1>7. out \notin Members(fakes[t])
  BY <1>1, <1>5, <1>6 DEF FakesBound
<1>8. fakes'[t] \in Seq(Outputs) /\ Appended(fakes'[t], fakes[t], out)
  <2>1. PICK f : f = fakes[t]
    OBVIOUS
  <2>2. fakes'[t] = Append(f, out)
    BY <1>3, <1>4, <2>1
  <2>3. f \in Seq(Outputs) /\ Once(f) /\ out \notin Members(f)
    BY <2>1, <1>4, <1>7 DEF WaitAgrees
  <2>4. Append(f, out) \in Seq(Outputs) /\ Appended(Append(f, out), f, out)
    BY <2>3, AppendOnce
  <2> QED BY <2>1, <2>2, <2>4
<1>9. /\ \/ UNCHANGED <<link, nInputs>> /\ NoBuffer(out)
         \/ link' = [link EXCEPT ![fake] = out] /\ nInputs' = [nInputs EXCEPT ![t] = @ + 1]
      /\ ptr' = ptr \/ (link' = [link EXCEPT ![fake] = out] /\ ptr' = [ptr EXCEPT ![fake] = ptr[out]])
      /\ ptr' = ptr => link' = link \/ ptr[fake] = ptr[out]
      /\ (Net \in Nets)' /\ Agree(Net)'
  <2>1. CASE NoBuffer(out)
    <3>1. UNCHANGED <<link, list, ptr, nInputs>>
      BY <2>1 DEF WaitFor, bindings
    <3>2. Set(Net)
      BY <3>1 DEF Set, Net
    <3> QED BY <2>1, <3>1, <3>2, NetOfState, AgreeNext
  <2>2. CASE ~NoBuffer(out)
    <3>1. nInputs' = [nInputs EXCEPT ![t] = @ + 1]
      BY <2>2 DEF WaitFor
    <3>2. PICK b : b = BindSocket(Net, fake, out, AtEnd) /\ Set(b)
      BY <2>2, <1>1 DEF WaitFor
    <3>3. Binds(b, Net, fake, out)
      BY <3>2, <1>2, <1>6, NetOfState, BindAgrees
    <3>4. b \in Nets /\ Agree(b) /\ link' = [link EXCEPT ![fake] = out] /\ ptr' = [ptr EXCEPT ![fake] = ptr[out]]
      BY <3>2, <3>3, NetOfState DEF Binds, Set
    <3>5. ptr' = ptr => ptr[fake] = ptr[out]
      BY <3>4, <1>2, NetOfState
    <3> QED BY <3>1, <3>2, <3>4, <3>5, AgreeNext
  <2> QED BY <2>1, <2>2
<1>10. Typed'
  <2>1. size' \in [Existing -> Nat]
    BY <1>2, <1>3 DEF IInv, Typed
  <2>2. fakes' \in [Tasks -> Seq(Outputs)]
    <3>1. fakes' = [fakes EXCEPT ![t] = fakes'[t]]
      BY <1>3, <1>8
    <3>2. \A f \in Seq(Outputs) : [fakes EXCEPT ![t] = f] \in [Tasks -> Seq(Outputs)]
      BY <1>4
    <3> QED BY <3>1, <3>2, <1>8
  <2>3. nInputs' \in [Tasks -> Int]
    BY <1>9 DEF IInv, Typed
  <2> QED BY <2>1, <2>2, <2>3, <1>3, <1>9 DEF IInv, Typed
<1>11. \A x \in Inputs : x # fake => link'[x] = link[x]
  BY <1>9, NetOfState
<1>12. \A u \in Tasks : u # t => fakes'[u] = fakes[u] /\ nInputs'[u] = nInputs[u]
  BY <1>3, <1>4, <1>9 DEF IInv, Typed
<1>13. \A u \in Tasks : u # t => WaitAgrees(u)' /\ (u \in alive' => CountAgrees(u)')
  BY <1>1, <1>3, <1>11, <1>12, OtherWaits
<1>14. link'[fake] = None \/ link'[fake] = out
  BY <1>2, <1>6, <1>9, NetOfState
<1>15. WaitAgrees(t)'
  <2>0. Once(fakes'[t]) /\ Members(fakes'[t]) = Members(fakes[t]) \cup {out}
    BY <1>8 DEF Appended
  <2>1. \A o \in Members(fakes'[t]) : o[1] # t
    BY <1>4, <2>0 DEF WaitAgrees
  <2>2. ASSUME NEW o \in Outputs, o[1] # t, link'[Fake(t, o)] # None
        PROVE  link'[Fake(t, o)] = o /\ o \in Members(fakes'[t])
    <3>1. CASE o = out
      BY <3>1, <2>0, <2>2, <1>1, <1>14
    <3>2. CASE o # out
      <4>1. Fake(t, o) # fake /\ Fake(t, o) \in Inputs
        BY <3>2, <2>2, <1>1, FakeFacts
      <4>2. link'[Fake(t, o)] = link[Fake(t, o)]
        BY <4>1, <1>11
      <4>3. link[Fake(t, o)] = o /\ o \in Members(fakes[t])
        BY <4>2, <2>2, <1>4 DEF WaitAgrees
      <4> QED BY <4>2, <4>3, <2>0
    <3> QED BY <3>1, <3>2
  <2> QED BY <2>0, <2>1, <2>2 DEF WaitAgrees
<1>16. CountAgrees(t)'
  <2>1. CASE UNCHANGED <<link, nInputs>>
    <3>1. link'[fake] = None
      BY <2>1, <1>6
    <3>2. ~FakesBound(t)'
      BY <3>1, <1>1, <1>8 DEF FakesBound, Appended
    <3> QED BY <3>2 DEF CountAgrees
  <2>2. CASE nInputs' = [nInputs EXCEPT ![t] = @ + 1]
    <3>1. nInputs[t] = InCount(t) + Len(fakes[t]) /\ nInputs \in [Tasks -> Int]
      BY <1>3, <1>5 DEF IInv, Typed, CountAgrees
    <3>2. nInputs'[t] = nInputs[t] + 1
      BY <2>2, <3>1
    <3>3. InCount(t) \in Nat /\ Len(fakes[t]) \in Nat /\ Len(fakes'[t]) = Len(fakes[t]) + 1
      BY <1>4, <1>8, InCountFacts DEF Appended
    <3>4. nInputs'[t] = InCount(t) + Len(fakes'[t])
      BY <3>1, <3>2, <3>3
    <3> QED BY <3>4 DEF CountAgrees
  <2> QED BY <2>1, <2>2, <1>9
<1>17. ASSUME NEW x \in Inputs PROVE Tied(x)'
  <2>1. CASE x = fake
    <3>1. size'[x] = size[out] /\ size'[out] = size[out]
      BY <2>1, <1>2, <1>3 DEF IInv, Typed
    <3>2. link'[x] # None => link'[x] = out /\ ptr'[x] = ptr'[out]
      BY <2>1, <1>2, <1>6, <1>9, <1>14, NetOfState
    <3> QED BY <2>1, <3>1, <3>2, <1>2, <1>3 DEF Tied
  <2>2. CASE x # fake
    <3>1. link'[x] = link[x] /\ ptr'[x] = ptr[x] /\ size'[x] = size[x] /\ Tied(x)
      BY <2>2, <1>3, <1>9, <1>11, NetOfState, OutputFacts DEF IInv, Typed
    <3>2. link[x] # None => link[x] \in Existing /\ link[x] # fake
      BY <1>2, NetOfState, OutputFacts
    <3>3. link[x] # None => ptr'[link[x]] = ptr[link[x]] /\ size'[link[x]] = size[link[x]]
      BY <3>2, <1>3, <1>9, NetOfState DEF IInv, Typed
    <3> QED BY <3>1, <3>3, <1>3 DEF Tied, GrownAlone
  <2> QED BY <2>1, <2>2
<1>18. \A s \in Real : s \in Existing /\ s # fake
  BY <1>2 DEF Existing
<1>19. \A s \in Real : OwnPointer(s)'
  BY <1>9, <1>18, NetOfState DEF IInv, OwnPointer
<1>20. \A s \in Real : InStep(s)'
  BY <1>3, <1>18 DEF IInv, Typed, InStep
<1>21. (\A u \in Tasks : WaitAgrees(u)') /\ (\A u \in alive' : CountAgrees(u)')
  <2>1. alive' \subseteq Tasks
    BY <1>3 DEF IInv, Typed
  <2> QED BY <2>1, <1>13, <1>15, <1>16
<1> QED BY ONLY <1>9, <1>10, <1>17, <1>19, <1>20, <1>21 DEF IInv

LEMMA WaitNoMoreIInv ==
    ASSUME IInv, NEW t \in Tasks, NEW out \in Outputs, t # out[1], WaitNoMore(t, out)
    PROVE  IInv'
<1>1. PICK fake : fake = Fake(t, out)
  OBVIOUS
<1>2. /\ fake \in Inputs /\ fake \in Existing /\ fake \notin Real /\ fake[1] = t /\ Kind(fake) = "in"
      /\ out \in Real /\ out \in Existing /\ out # None
  BY <1>1, FakeFacts, OutputFacts
<1>3. WaitAgrees(t) /\ fakes[t] \in Seq(Outputs) /\ fakes \in [Tasks -> Seq(Outputs)]
  BY DEF IInv, Typed
<1>4. out \in Members(fakes[t]) /\ link[fake] # None
  <2>1. PICK i \in DOMAIN fakes[t] : fakes[t][i] = out /\ \A j \in 1 .. i : link[Fake(t, fakes[t][j])] # None
    BY DEF WaitNoMore
  <2>2. i \in Places(fakes[t]) /\ i \in 1 .. i
    BY <1>3, <2>1 DEF Places
  <2> QED BY <1>1, <2>1, <2>2 DEF Members
<1>5. PICK u : u = UnbindSocket(Net, fake)
  OBVIOUS
<1>6. Unbinds(u, Net, fake)
  BY <1>2, <1>4, <1>5, NetOfState, UnbindAgrees
<1>7. u \in Nets /\ Agree(u) /\ u.link = [link EXCEPT ![fake] = None] /\ u.ptr = ptr
  BY <1>6, NetOfState DEF Unbinds
<1>8. PICK m : m = [u EXCEPT !.ptr[fake] = Null]
  OBVIOUS
<1>9. m = [link |-> u.link, list |-> u.list, ptr |-> [ptr EXCEPT ![fake] = Null]]
  <2>1. PICK a, b, c : a = u.link /\ b = u.list /\ c = u.ptr
    OBVIOUS
  <2>2. u = [link |-> a, list |-> b, ptr |-> c] /\ c = ptr
    BY <1>7, <2>1, NetFacts
  <2>3. m = [link |-> a, list |-> b, ptr |-> [c EXCEPT ![fake] = Null]]
    BY ONLY <2>2, <1>8
  <2> QED BY <2>1, <2>2, <2>3
<1>10. m \in Nets /\ Agree(m)
  <2>1. [ptr EXCEPT ![fake] = Null] \in [Existing -> Pointers]
    BY NetOfState DEF Pointers
  <2>2. m \in Nets
    BY <1>7, <1>9, <2>1, NetFacts DEF Nets
  <2>3. Agree(m)
    BY <1>7, <1>9 DEF Agree, ListAgrees, LinkAgrees
  <2> QED BY <2>2, <2>3
<1>11. Set(m)
  BY <1>1, <1>5, <1>8 DEF WaitNoMore
<1>12. (Net \in Nets)' /\ Agree(Net)'
  BY <1>10, <1>11, AgreeNext
<1>13. /\ link' = [link EXCEPT ![fake] = None] /\ ptr' = [ptr EXCEPT ![fake] = Null]
       /\ nInputs' = [nInputs EXCEPT ![t] = @ - 1]
       /\ fakes' = [fakes EXCEPT ![t] = RemoveFirst(fakes[t], out)]
       /\ UNCHANGED <<size, n, allocated, alive, torn>>
  BY <1>7, <1>9, <1>11 DEF Set, WaitNoMore, OneLess
<1>14. fakes'[t] \in Seq(Outputs) /\ Removed(fakes'[t], fakes[t], out)
  <2>1. PICK f : f = fakes[t]
    OBVIOUS
  <2>2. fakes'[t] = RemoveFirst(f, out)
    BY <1>3, <1>13, <2>1
  <2>3. f \in Seq(Outputs) /\ Once(f) /\ out \in Members(f)
    BY <2>1, <1>3, <1>4 DEF WaitAgrees
  <2>4. RemoveFirst(f, out) \in Seq(Outputs) /\ Removed(RemoveFirst(f, out), f, out)
    BY <2>3, RemoveOnce
  <2> QED BY <2>1, <2>2, <2>4
<1>15. Typed'
  <2>1. fakes' \in [Tasks -> Seq(Outputs)]
    <3>1. fakes' = [fakes EXCEPT ![t] = fakes'[t]]
      BY <1>3, <1>13
    <3>2. \A f \in Seq(Outputs) : [fakes EXCEPT ![t] = f] \in [Tasks -> Seq(Outputs)]
      BY <1>3
    <3> QED BY <3>1, <3>2, <1>14
  <2>2. nInputs' \in [Tasks -> Int]
    BY <1>13 DEF IInv, Typed
  <2> QED BY <2>1, <2>2, <1>12, <1>13 DEF IInv, Typed
<1>16. \A x \in Inputs : link'[x] = IF x = fake THEN None ELSE link[x]
  BY <1>13, NetOfState
<1>17. \A v \in Tasks : v # t => fakes'[v] = fakes[v] /\ nInputs'[v] = nInputs[v]
  BY <1>3, <1>13 DEF IInv, Typed
<1>18. \A v \in Tasks : v # t => WaitAgrees(v)' /\ (v \in alive' => CountAgrees(v)')
  BY <1>1, <1>13, <1>16, <1>17, OtherWaits
<1>19. Once(fakes'[t]) /\ Members(fakes'[t]) = Members(fakes[t]) \ {out} /\ Len(fakes'[t]) = Len(fakes[t]) - 1
  BY <1>14 DEF Removed
<1>20. WaitAgrees(t)'
  <2>1. \A o \in Members(fakes'[t]) : o[1] # t
    BY <1>3, <1>19 DEF WaitAgrees
  <2>2. ASSUME NEW o \in Outputs, o[1] # t, link'[Fake(t, o)] # None
        PROVE  link'[Fake(t, o)] = o /\ o \in Members(fakes'[t])
    <3>1. Fake(t, o) \in Inputs /\ Fake(t, o) # fake
      BY <2>2, <1>16, FakeFacts
    <3>2. o # out /\ link'[Fake(t, o)] = link[Fake(t, o)]
      BY <3>1, <1>1, <1>16
    <3>3. link[Fake(t, o)] = o /\ o \in Members(fakes[t])
      BY <3>2, <2>2, <1>3 DEF WaitAgrees
    <3> QED BY <3>2, <3>3, <1>19
  <2> QED BY <2>1, <2>2, <1>19 DEF WaitAgrees
<1>21. ASSUME t \in alive' PROVE CountAgrees(t)'
  <2>1. ASSUME FakesBound(t)' PROVE FakesBound(t)
    <3>1. SUFFICES ASSUME NEW o \in Members(fakes[t]) PROVE link[Fake(t, o)] # None
      BY DEF FakesBound
    <3>2. CASE o = out
      BY <3>2, <1>1, <1>4
    <3>3. CASE o # out
      <4>0. o \in Outputs /\ o[1] # t
        BY <1>3 DEF WaitAgrees, Members, Places
      <4>1. o \in Members(fakes'[t]) /\ o \in Outputs /\ o[1] # t
        BY <3>3, <4>0, <1>19
      <4>2. link'[Fake(t, o)] # None /\ Fake(t, o) \in Inputs
        BY <2>1, <4>1, FakeFacts DEF FakesBound
      <4> QED BY <4>2, <1>16
    <3> QED BY <3>2, <3>3
  <2>2. ASSUME FakesBound(t) PROVE nInputs'[t] = InCount(t) + Len(fakes'[t])
    <3>1. nInputs[t] = InCount(t) + Len(fakes[t]) /\ nInputs \in [Tasks -> Int]
      BY <2>2, <1>13, <1>21 DEF IInv, Typed, CountAgrees
    <3>2. nInputs'[t] = nInputs[t] - 1
      BY <1>13, <3>1
    <3>3. InCount(t) \in Nat /\ Len(fakes[t]) \in Nat
      BY <1>3, InCountFacts
    <3> QED BY <3>1, <3>2, <3>3, <1>19
  <2> QED BY <2>1, <2>2 DEF CountAgrees
<1>22. ASSUME NEW x \in Inputs PROVE Tied(x)'
  <2>1. CASE x = fake
    BY <2>1, <1>16 DEF Tied
  <2>2. CASE x # fake
    <3>1. link'[x] = link[x] /\ ptr'[x] = ptr[x] /\ Tied(x)
      BY <2>2, <1>13, <1>16, NetOfState, OutputFacts DEF IInv
    <3>2. link[x] # None => ptr'[link[x]] = ptr[link[x]]
      BY <1>2, <1>13, NetOfState, OutputFacts
    <3> QED BY <3>1, <3>2, <1>13 DEF Tied, GrownAlone
  <2> QED BY <2>1, <2>2
<1>23. \A s \in Real : OwnPointer(s)'
  BY <1>2, <1>13, NetOfState DEF IInv, OwnPointer, Existing
<1>24. \A s \in Real : InStep(s)'
  BY <1>13 DEF IInv, InStep
<1>25. (\A v \in Tasks : WaitAgrees(v)') /\ (\A v \in alive' : CountAgrees(v)')
  <2>1. alive' \subseteq Tasks
    BY <1>13 DEF IInv, Typed
  <2> QED BY <2>1, <1>18, <1>20, <1>21
<1> QED BY ONLY <1>12, <1>15, <1>22, <1>23, <1>24, <1>25 DEF IInv

(***************************************************************************)
(* Buffers.                                                                *)
(***************************************************************************)

\* Pointers are spread to the inputs of the outputs, and to forward sockets, and
\* what is bound to an output hears of that one only.
Spreads(p, outs, empty) ==
    /\ p \in [Existing -> Pointers]
    /\ \A s \in Real : Kind(s) = "out" => p[s] = IF s \in outs THEN IF empty THEN Null ELSE s ELSE ptr[s]
    /\ \A in \in Inputs : link[in] # None /\ Kind(link[in]) = "out" =>
            p[in] = IF link[in] \in outs THEN IF empty THEN Null ELSE link[in] ELSE ptr[in]

LEMMA SpreadFacts ==
    ASSUME IInv, NEW t \in Tasks, NEW outs \in SUBSET Owned(t), NEW empty \in BOOLEAN
    PROVE  Spreads(Spread(t, outs, empty), outs, empty)
<1> DEFINE p == Spread(t, outs, empty)
           Reaches(s) == \E o \in outs : s \in Behind(o)
           First(s) == CHOOSE o \in outs : s \in Behind(o)
<1>1. \A s \in outs : s \in Real /\ s[2] = "out" /\ Kind(s) = "out" /\ s \in Outputs /\ s \notin Inputs /\ s \in Existing
  BY RealFacts, OutputFacts DEF Owned
<1>2. \A s \in Existing : p[s] = IF s \in outs THEN IF empty THEN Null ELSE s
                                 ELSE IF Reaches(s) THEN IF empty THEN Null ELSE First(s) ELSE ptr[s]
  BY DEF Spread
<1>3. \A s : Reaches(s) => First(s) \in outs /\ s \in Behind(First(s))
  OBVIOUS
<1>4. \A o \in outs : /\ Range(list[o]) \subseteq Behind(o)
                      /\ \A s \in Behind(o) : s \in Inputs /\ \E x \in Outputs : s \in Range(list[x]) /\ (x = o \/ Kind(x) = "fwd")
  BY <1>1, NetOfState, BehindFacts
<1>5. p \in [Existing -> Pointers]
  <2>1. \A s \in Existing : p[s] \in Pointers
    <3> TAKE s \in Existing
    <3>1. ptr[s] \in Pointers /\ Null \in Pointers /\ s \in Pointers
      BY NetOfState DEF Pointers
    <3>2. Reaches(s) => First(s) \in Pointers
      <4> HIDE DEF Reaches, First
      <4> QED BY <1>1, <1>3 DEF Pointers
    <3> HIDE DEF Reaches, First, p
    <3> QED BY <3>1, <3>2, <1>2
  <2>2. p = [s \in Existing |-> p[s]]
    BY DEF Spread
  <2> HIDE DEF p
  <2> QED BY <2>1, <2>2
<1>6. ASSUME NEW s \in Real, Kind(s) = "out"
      PROVE  p[s] = IF s \in outs THEN IF empty THEN Null ELSE s ELSE ptr[s]
  <2>1. s \in Existing /\ s \notin Inputs
    BY <1>6, OutputFacts
  <2>2. ~ Reaches(s)
    BY <2>1, <1>4
  <2> HIDE DEF Reaches, First, p
  <2> QED BY <2>1, <2>2, <1>2
<1>7. ASSUME NEW in \in Inputs, link[in] # None, Kind(link[in]) = "out"
      PROVE  p[in] = IF link[in] \in outs THEN IF empty THEN Null ELSE link[in] ELSE ptr[in]
  <2>1. in \in Existing /\ in \notin outs /\ link[in] \in Outputs
    BY <1>1, <1>7, NetOfState, OutputFacts
  <2>2. \A x \in Outputs : in \in Range(list[x]) => x = link[in]
    <3> SUFFICES ASSUME NEW x \in Outputs, in \in Range(list[x]) PROVE x = link[in]
      OBVIOUS
    <3>1. list[x] \in Seq(Inputs) /\ ListAgrees(Net, x) /\ Net.list = list /\ Net.link = link
      BY NetOfState DEF Agree
    <3>2. PICK i \in Places(list[x]) : list[x][i] = in
      BY <3>1 DEF Range, Places
    <3> QED BY <3>1, <3>2 DEF ListAgrees
  <2>3. in \in Range(list[link[in]])
    <3>1. list[link[in]] \in Seq(Inputs) /\ LinkAgrees(Net, in) /\ Net.list = list /\ Net.link = link
      BY <2>1, NetOfState DEF Agree
    <3>2. PICK i \in Places(list[link[in]]) : list[link[in]][i] = in
      BY <3>1, <1>7 DEF LinkAgrees
    <3> QED BY <3>1, <3>2 DEF Range, Places
  <2>4. \A o \in outs : in \in Behind(o) <=> o = link[in]
    <3> TAKE o \in outs
    <3>1. o = link[in] => in \in Behind(o)
      BY <2>3, <1>4
    <3>2. in \in Behind(o) => o = link[in]
      <4> SUFFICES ASSUME in \in Behind(o) PROVE o = link[in]
        OBVIOUS
      <4>1. PICK x \in Outputs : in \in Range(list[x]) /\ (x = o \/ Kind(x) = "fwd")
        BY <1>4
      <4>2. x = link[in]
        BY <4>1, <2>2
      <4> QED BY <4>1, <4>2, <1>7
    <3> QED BY <3>1, <3>2
  <2>5. CASE link[in] \in outs
    <3>1. Reaches(in)
      BY <2>4, <2>5
    <3>2. First(in) = link[in]
      BY <3>1, <1>3, <2>4
    <3> HIDE DEF Reaches, First, p
    <3> QED BY <3>1, <3>2, <2>1, <2>5, <1>2
  <2>6. CASE link[in] \notin outs
    <3>1. ~ Reaches(in)
      BY <2>4, <2>6
    <3> HIDE DEF Reaches, First, p
    <3> QED BY <3>1, <2>1, <2>6, <1>2
  <2> QED BY <2>5, <2>6
<1> QED BY <1>5, <1>6, <1>7 DEF Spreads

LEMMA SpreadIInv ==
    ASSUME IInv, NEW outs, NEW empty \in BOOLEAN, Spreads(ptr', outs, empty), allocated' \in [Tasks -> BOOLEAN],
           UNCHANGED <<link, list, size, n, fakes, nInputs, alive, torn>>,
           \A s \in outs : empty \/ ptr[s] = Null
    PROVE  IInv'
<1>1. PICK m : m = [link |-> link, list |-> list, ptr |-> ptr']
  OBVIOUS
<1>2. m \in Nets
  BY <1>1, NetOfState DEF Nets, Spreads
<1>3. Agree(m)
  BY <1>1, NetOfState DEF Agree, ListAgrees, LinkAgrees
<1>4. Set(m)
  BY <1>1 DEF Set
<1>5. (Net \in Nets)' /\ Agree(Net)'
  BY <1>2, <1>3, <1>4, AgreeNext
<1>6. Typed'
  BY <1>5 DEF IInv, Typed
<1>7. (\A t \in Tasks : WaitAgrees(t)') /\ (\A t \in alive' : CountAgrees(t)')
  BY SameFakes
<1>8. ASSUME NEW x \in Inputs PROVE Tied(x)'
  <2> SUFFICES ASSUME link[x] # None, Kind(link[x]) = "out" PROVE ptr'[x] = ptr'[link[x]] \/ GrownAlone(x, link[x])'
    BY DEF IInv, Tied, GrownAlone
  <2>1. link[x] \in Real
    BY NetOfState, OutputFacts
  <2>2. /\ ptr'[link[x]] = IF link[x] \in outs THEN IF empty THEN Null ELSE link[x] ELSE ptr[link[x]]
        /\ ptr'[x] = IF link[x] \in outs THEN IF empty THEN Null ELSE link[x] ELSE ptr[x]
    BY <2>1 DEF Spreads
  <2>3. ptr[x] = ptr[link[x]] \/ GrownAlone(x, link[x])
    BY DEF IInv, Tied
  <2> QED BY <2>2, <2>3 DEF GrownAlone
<1>9. \A s \in Real : OwnPointer(s)'
  BY DEF IInv, OwnPointer, Spreads
<1>10. \A s \in Real : InStep(s)'
  BY DEF IInv, InStep
<1> QED BY ONLY <1>5, <1>6, <1>7, <1>8, <1>9, <1>10 DEF IInv

LEMMA AllocateIInv == ASSUME IInv, NEW t \in Tasks, Allocate(t) PROVE IInv'
<1> DEFINE outs == {s \in Owned(t) : ptr[s] = Null}
<1>1. Spreads(ptr', outs, FALSE)
  <2>1. ptr' = Spread(t, outs, FALSE)
    BY DEF Allocate
  <2>2. outs \in SUBSET Owned(t)
    OBVIOUS
  <2> HIDE DEF outs
  <2> QED BY <2>1, <2>2, SpreadFacts
<1>2. allocated' \in [Tasks -> BOOLEAN] /\ UNCHANGED <<link, list, size, n, fakes, nInputs, alive, torn>>
  BY DEF Allocate, IInv, Typed, counts
<1>3. \A s \in outs : FALSE \/ ptr[s] = Null
  OBVIOUS
<1> HIDE DEF outs
<1> QED BY <1>1, <1>2, <1>3, SpreadIInv

LEMMA DeallocateIInv == ASSUME IInv, NEW t \in Tasks, Deallocate(t) PROVE IInv'
<1> DEFINE outs == {s \in Owned(t) : ptr[s] # Null}
<1>1. Spreads(ptr', outs, TRUE)
  <2>1. ptr' = Spread(t, outs, TRUE)
    BY DEF Deallocate
  <2>2. outs \in SUBSET Owned(t)
    OBVIOUS
  <2> HIDE DEF outs
  <2> QED BY <2>1, <2>2, SpreadFacts
<1>2. allocated' \in [Tasks -> BOOLEAN] /\ UNCHANGED <<link, list, size, n, fakes, nInputs, alive, torn>>
  BY DEF Deallocate, IInv, Typed, counts
<1> HIDE DEF outs
<1> QED BY <1>1, <1>2, SpreadIInv

(***************************************************************************)
(* Changes of n_frames.                                                    *)
(***************************************************************************)
LEMMA Quotients ==
    ASSUME NEW a \in Nat \ {0}, NEW b \in Nat, NEW c \in Nat \ {0}
    PROVE  /\ (a * b) \div a = b
           /\ b > 0 /\ b * c = a * b => c = a
<1>1. (a * b) \div a = b
  <2> DEFINE x == a * b
  <2>1. x \in Nat
    OBVIOUS
  <2>2. PICK q \in Int, r \in 0 .. a - 1 : x = q * a + r /\ q = x \div a
    <3> HIDE DEF x
    <3> QED BY <2>1
  <2>3. r = (b - q) * a
    BY <2>2
  <2>4. PICK d \in Int : d = b - q
    BY <2>2
  <2>5. d < 1
    <3>1. d >= 1 => d * a >= a
      OBVIOUS
    <3> QED BY <3>1, <2>2, <2>3, <2>4
  <2>6. d > -1
    <3>1. d <= -1 => d * a <= -a
      OBVIOUS
    <3> QED BY <3>1, <2>2, <2>3, <2>4
  <2> QED BY <2>2, <2>4, <2>5, <2>6
<1>2. b > 0 /\ b * c = a * b => c = a
  <2>1. PICK d \in Int : d = c - a
    OBVIOUS
  <2>2. b * c = a * b => b * d = 0
    BY <2>1
  <2>3. b > 0 /\ d >= 1 => b * d >= 1
    OBVIOUS
  <2>4. b > 0 /\ d <= -1 => b * d <= -1
    OBVIOUS
  <2> QED BY <2>1, <2>2, <2>3, <2>4
<1> QED BY <1>1, <1>2

\* A socket that is reached and bound keeps its size.
LEMMA ReachedFacts ==
    ASSUME IInv, NEW t \in Tasks, NEW new \in Nat \ {0}
    PROVE  /\ \A s \in Reached(t, new) : s \in Real /\ s[1] = t /\ (IsBound(s) => NewSize(s, n[t], new) = size[s])
           /\ Refusing(t, new) = {} => \A s \in Real : s[1] = t => s \in Reached(t, new)
<1>1. DOMAIN All(t) = 1 .. Len(All(t)) /\ Len(All(t)) \in Nat
  BY AllFacts
<1>2. ASSUME NEW s \in Reached(t, new)
      PROVE  s \in Real /\ s[1] = t /\ (IsBound(s) => NewSize(s, n[t], new) = size[s])
  <2>1. PICK i \in DOMAIN All(t) : s = All(t)[i] /\ \A k \in Refusing(t, new) : i < k
    BY DEF Reached
  <2>2. i \notin Refusing(t, new)
    BY <1>1, <2>1
  <2> QED BY <1>1, <2>1, <2>2, AllFacts DEF Refusing
<1>3. ASSUME Refusing(t, new) = {}, NEW s \in Real, s[1] = t PROVE s \in Reached(t, new)
  <2>1. PICK i \in DOMAIN All(t) : s = All(t)[i]
    BY <1>1, <1>3, RealFacts
  <2> QED BY <1>3, <2>1 DEF Reached
<1> QED BY <1>2, <1>3

LEMMA SetFramesIInv ==
    ASSUME IInv, NEW t \in Tasks, NEW new \in 1 .. MaxFrames, SetFrames(t, new)
    PROVE  IInv'
<1>1. new \in Nat \ {0} /\ n[t] \in Nat \ {0} /\ new # n[t] /\ n \in [Tasks -> Nat \ {0}] /\ size \in [Existing -> Nat]
  BY DEF SetFrames, IInv, Typed
<1>2. PICK R : R = Reached(t, new)
  OBVIOUS
<1>3. /\ n' = [n EXCEPT ![t] = new]
      /\ size' = [s \in Existing |-> IF s \in R THEN NewSize(s, n[t], new) ELSE size[s]]
      /\ ptr' = [s \in Existing |-> IF s \in R \cap Owned(t) THEN s ELSE ptr[s]]
      /\ torn' = IF Refusing(t, new) = {} THEN torn ELSE torn \cup {t}
      /\ UNCHANGED <<link, list, allocated, fakes, nInputs, alive>>
  BY <1>2 DEF SetFrames, counts
<1>4. /\ \A s \in R : s \in Real /\ s[1] = t /\ (IsBound(s) => NewSize(s, n[t], new) = size[s])
      /\ Refusing(t, new) = {} => \A s \in Real : s[1] = t => s \in R
  BY <1>1, <1>2, ReachedFacts
<1>5. \A s \in R : s \in Existing /\ NewSize(s, n[t], new) \in Nat
  <2> TAKE s \in R
  <2>1. s \in Existing
    BY <1>4 DEF Existing
  <2>2. PICK a, b, q : a = size[s] /\ b = n[t] /\ q = a \div b
    OBVIOUS
  <2>3. q \in Nat
    BY <1>1, <2>1, <2>2
  <2>4. q * new \in Nat /\ new * Bytes \in Nat
    BY <1>1, <2>3, BytesAssumption
  <2> QED BY <2>1, <2>2, <2>4 DEF NewSize
<1>6. PICK m : m = [link |-> link, list |-> list, ptr |-> ptr']
  OBVIOUS
<1>7. (Net \in Nets)' /\ Agree(Net)'
  <2>1. ptr' \in [Existing -> Pointers]
    BY <1>3, NetOfState DEF Pointers
  <2>2. m \in Nets
    BY <1>6, <2>1, NetOfState DEF Nets
  <2>3. Agree(m)
    BY <1>6, NetOfState DEF Agree, ListAgrees, LinkAgrees
  <2>4. Set(m)
    BY <1>3, <1>6 DEF Set
  <2> QED BY <2>2, <2>3, <2>4, AgreeNext
<1>8. Typed'
  <2>1. size' \in [Existing -> Nat]
    BY <1>1, <1>3, <1>5
  <2>2. n' \in [Tasks -> Nat \ {0}]
    BY <1>1, <1>3
  <2>3. torn' \subseteq Tasks /\ alive' \subseteq Tasks
    BY <1>3 DEF IInv, Typed
  <2> QED BY <2>1, <2>2, <2>3, <1>3, <1>7 DEF IInv, Typed
<1>9. (\A u \in Tasks : WaitAgrees(u)') /\ (\A u \in alive' : CountAgrees(u)')
  BY <1>3, SameFakes
<1>10. torn \subseteq torn'
  BY <1>3
<1>11. \A s \in Existing : IsBound(s) => size'[s] = size[s]
  BY <1>3, <1>4
\* A size that is in step changes when n_frames does.
<1>12. ASSUME NEW s \in R, s \in Owned(t), IsBound(s) PROVE t \in torn
  <2> SUFFICES ASSUME t \notin torn PROVE FALSE
    OBVIOUS
  <2>1. s \in Real /\ s[1] = t /\ s # Status(t) /\ NewSize(s, n[t], new) = size[s]
    BY <1>4, <1>12 DEF Owned
  <2>2. size[s] = n[t] * Bytes
    BY <2>1 DEF IInv, InStep
  <2>3. PICK a, q : a = n[t] /\ q = size[s] \div a
    OBVIOUS
  <2>4. q * new = a * Bytes /\ q = (a * Bytes) \div a
    BY <2>1, <2>2, <2>3 DEF NewSize
  <2>5. a \in Nat \ {0} /\ new \in Nat \ {0} /\ new # a
    BY <1>1, <2>3
  <2>6. q = Bytes
    BY <2>4, <2>5, BytesAssumption, Quotients
  <2>7. Bytes > 0 /\ Bytes \in Nat /\ Bytes * new = a * Bytes
    BY <2>4, <2>6, BytesAssumption
  <2> QED BY <2>5, <2>7, Quotients
<1>13. ASSUME NEW x \in Inputs PROVE Tied(x)'
  <2> SUFFICES ASSUME link[x] # None PROVE Tied(x)'
    BY <1>3 DEF Tied
  <2>1. PICK o : o = link[x] /\ o \in Outputs /\ o \in Existing /\ o \in Real /\ x \in Existing
    BY NetOfState, OutputFacts
  <2>2. IsBound(x) /\ IsBound(o)
    <3>1. IsBound(x)
      BY DEF IsBound
    <3>2. LinkAgrees(Net, x) /\ Net.list = list /\ Net.link = link
      BY NetOfState DEF Agree
    <3>3. list[o] # <<>>
      BY <2>1, <3>2 DEF LinkAgrees, Places
    <3> QED BY <2>1, <3>1, <3>3 DEF IsBound
  <2>3. size'[x] = size[x] /\ size'[o] = size[o]
    BY <2>1, <2>2, <1>11
  <2>4. Tied(x)
    BY DEF IInv
  <2>5. ASSUME Kind(o) = "out" PROVE ptr'[x] = ptr'[o] \/ GrownAlone(x, o)'
    <3>1. ptr'[x] = ptr[x]
      <4>1. x \notin Owned(t)
        BY RealFacts, OutputFacts DEF Owned
      <4> QED BY <4>1, <2>1, <1>3
    <3>2. ptr[x] = ptr[o] \/ GrownAlone(x, o)
      BY <2>1, <2>4, <2>5 DEF Tied
    <3>3. CASE o \in R \cap Owned(t)
      <4>1. ptr'[o] = o /\ o[1] = t /\ t \in torn /\ o \in Real
        BY <3>3, <2>1, <2>2, <1>3, <1>4, <1>12
      <4>2. ptr[o] = o \/ ptr[o] = Null
        BY <2>1, <2>5 DEF IInv, OwnPointer
      <4> QED BY <3>1, <3>2, <4>1, <4>2, <1>10 DEF GrownAlone
    <3>4. CASE o \notin R \cap Owned(t)
      <4>1. ptr'[o] = ptr[o]
        BY <3>4, <2>1, <1>3
      <4> QED BY <3>1, <3>2, <4>1, <1>10 DEF GrownAlone
    <3> QED BY <3>3, <3>4
  <2>6. link'[x] = o /\ alive' = alive /\ x[1] \in alive /\ o[1] \in alive /\ size[x] = size[o]
    BY <2>1, <2>4, <1>3 DEF Tied
  <2> QED BY <2>3, <2>5, <2>6 DEF Tied
<1>14. \A s \in Real : OwnPointer(s)'
  BY <1>3 DEF IInv, OwnPointer, Existing
<1>15. ASSUME NEW s \in Real PROVE InStep(s)'
  <2> SUFFICES ASSUME s[1] \notin torn' PROVE size'[s] = n'[s[1]] * Bytes
    BY DEF InStep
  <2>1. s[1] \notin torn /\ s \in Existing /\ s[1] \in Tasks /\ size[s] = n[s[1]] * Bytes
    BY <1>10, RealFacts DEF IInv, InStep, Existing
  <2>2. CASE s[1] = t
    <3>1. Refusing(t, new) = {}
      BY <2>2, <1>3
    <3>2. s \in R
      BY <2>2, <3>1, <1>4
    <3>3. size'[s] = NewSize(s, n[t], new) /\ n'[t] = new
      BY <2>1, <3>2, <1>1, <1>3
    <3>4. PICK a, q : a = n[t] /\ q = size[s] \div a
      OBVIOUS
    <3>5. a \in Nat \ {0} /\ q = (a * Bytes) \div a
      BY <3>4, <2>1, <2>2, <1>1
    <3>6. q = Bytes
      BY <3>5, <1>1, BytesAssumption, Quotients
    <3>7. NewSize(s, n[t], new) = new * Bytes
      <4>1. Bytes * new = new * Bytes
        BY <1>1, BytesAssumption
      <4> QED BY <3>4, <3>6, <4>1 DEF NewSize
    <3> QED BY <2>2, <3>3, <3>7
  <2>3. CASE s[1] # t
    <3>1. s \notin R /\ n'[s[1]] = n[s[1]]
      BY <2>1, <2>3, <1>1, <1>3, <1>4
    <3> QED BY <3>1, <2>1, <1>3
  <2> QED BY <2>2, <2>3
<1> QED BY ONLY <1>7, <1>8, <1>9, <1>13, <1>14, <1>15 DEF IInv

(***************************************************************************)
(* Destruction.                                                            *)
(***************************************************************************)
Mine(t) == All(t) \o [i \in DOMAIN fakes[t] |-> Fake(t, fakes[t][i])]

LEMMA MineFacts ==
    ASSUME IInv, NEW t \in Tasks
    PROVE  /\ Mine(t) \in Seq(Existing)
           /\ \A s \in Real : s[1] = t => s \in Members(Mine(t))
           /\ \A o \in Members(fakes[t]) : Fake(t, o) \in Members(Mine(t))
<1> DEFINE a == All(t)
           f == [i \in DOMAIN fakes[t] |-> Fake(t, fakes[t][i])]
<1>1. fakes[t] \in Seq(Outputs) /\ WaitAgrees(t)
  BY DEF IInv, Typed
<1>2. PICK len \in Nat : len = Len(fakes[t]) /\ DOMAIN fakes[t] = 1 .. len
  BY <1>1
<1>3. \A i \in 1 .. len : fakes[t][i] \in Outputs /\ fakes[t][i][1] # t
  BY <1>1, <1>2 DEF WaitAgrees, Members, Places
<1>4. f \in Seq(Existing) /\ Len(f) = len /\ \A i \in 1 .. len : f[i] = Fake(t, fakes[t][i])
  <2>1. \A i \in 1 .. len : Fake(t, fakes[t][i]) \in Existing
    BY <1>3, FakeFacts
  <2>2. f \in [1 .. len -> Existing] /\ \A i \in 1 .. len : f[i] = Fake(t, fakes[t][i])
    BY <2>1, <1>2
  <2> HIDE DEF f
  <2> QED BY <2>2
<1>5. a \in Seq(Existing) /\ Len(a) \in Nat
  <2>1. a \in Seq(Real) /\ Real \subseteq Existing
    BY AllFacts DEF Existing
  <2> HIDE DEF a
  <2> QED BY <2>1
<1>6. Mine(t) = a \o f
  BY DEF Mine
<1>7. \A i \in 1 .. Len(a) : a[i] \in Members(Mine(t))
  <2> HIDE DEF a, f
  <2>1. Len(a \o f) = Len(a) + len /\ \A i \in 1 .. Len(a) + len : (a \o f)[i] = IF i <= Len(a) THEN a[i] ELSE f[i - Len(a)]
    BY <1>4, <1>5, ConcatProperties
  <2>2. \A i \in 1 .. Len(a) : i \in 1 .. Len(a) + len /\ i <= Len(a)
    BY <1>5
  <2> QED BY <2>1, <2>2, <1>6 DEF Members, Places
<1>8. \A i \in 1 .. len : f[i] \in Members(Mine(t))
  <2> HIDE DEF a, f
  <2>1. Len(a \o f) = Len(a) + len /\ \A i \in 1 .. Len(a) + len : (a \o f)[i] = IF i <= Len(a) THEN a[i] ELSE f[i - Len(a)]
    BY <1>4, <1>5, ConcatProperties
  <2> TAKE i \in 1 .. len
  <2>2. PICK j : j = Len(a) + i /\ j \in 1 .. Len(a) + len /\ ~ (j <= Len(a)) /\ j - Len(a) = i
    BY <1>5
  <2>3. (a \o f)[j] = f[i]
    BY <2>1, <2>2
  <2> QED BY <2>1, <2>2, <2>3, <1>6 DEF Members, Places
<1>9. \A s \in Real : s[1] = t => s \in Members(Mine(t))
  BY <1>7, RealFacts
<1>10. \A o \in Members(fakes[t]) : Fake(t, o) \in Members(Mine(t))
  BY <1>2, <1>4, <1>8 DEF Members, Places
<1>11. Mine(t) \in Seq(Existing)
  <2> HIDE DEF a, f
  <2> QED BY <1>4, <1>5, <1>6, ConcatProperties
<1> QED BY <1>9, <1>10, <1>11

LEMMA DestroyIInv == ASSUME IInv, NEW t \in Tasks, Destroy(t) PROVE IInv'
<1>1. PICK M, m : M = Members(Mine(t)) /\ m = Destroyed(Net, Mine(t))
  OBVIOUS
<1>2. /\ Set(m) /\ alive' = alive \ {t} /\ fakes' = [fakes EXCEPT ![t] = <<>>]
      /\ UNCHANGED <<size, n, allocated, nInputs, torn>>
  BY <1>1 DEF Destroy, Destroyed, Mine
<1>3. Mine(t) \in Seq(Existing)
  BY MineFacts
<1>4. Cut(m, Net, Mine(t), Len(Mine(t)))
  BY <1>1, <1>3, NetOfState, DestroyAgrees
<1>5. m \in Nets /\ Agree(m) /\ ptr' = ptr
  BY <1>2, <1>4, NetOfState DEF Cut, Set
<1>6. \A x \in Inputs : link'[x] = IF x \in M \/ link[x] \in M THEN None ELSE link[x]
  <2> TAKE x \in Inputs
  <2>1. m.link[x] = IF \E i \in 1 .. Len(Mine(t)) : Mine(t)[i] = x \/ Mine(t)[i] = link[x] THEN None ELSE link[x]
    <3>1. PICK N, q : N = Net /\ q = Mine(t) /\ Cut(m, N, q, Len(q)) /\ N.link = link
      BY <1>4, NetOfState
    <3>2. m.link[x] = IF \E i \in 1 .. Len(q) : q[i] = x \/ q[i] = N.link[x] THEN None ELSE N.link[x]
      BY ONLY <3>1, x \in Inputs DEF Cut
    <3> QED BY <3>1, <3>2
  <2>2. (\E i \in 1 .. Len(Mine(t)) : Mine(t)[i] = x \/ Mine(t)[i] = link[x]) <=> x \in M \/ link[x] \in M
    BY <1>1 DEF Members, Places
  <2> QED BY <2>1, <2>2, <1>2 DEF Set
<1>7. (Net \in Nets)' /\ Agree(Net)'
  BY <1>2, <1>5, AgreeNext
<1>8. fakes \in [Tasks -> Seq(Outputs)] /\ alive \subseteq Tasks
  BY DEF IInv, Typed
<1>9. Typed'
  <2>1. fakes' \in [Tasks -> Seq(Outputs)]
    BY <1>2, <1>8, EmptySeq
  <2> QED BY <2>1, <1>2, <1>7 DEF IInv, Typed
<1>10. \A x \in Inputs : link'[x] # None => link'[x] = link[x]
  BY <1>6
<1>11. ASSUME NEW x \in Inputs, x[1] = t PROVE link'[x] = None
  <2> SUFFICES ASSUME link[x] # None, link'[x] # None PROVE FALSE
    BY <1>10
  <2>1. CASE x \in Real
    BY <2>1, <1>1, <1>6, <1>11, MineFacts
  <2>2. CASE x \in Fakes
    <3>1. PICK u \in Tasks, o \in Outputs : o[1] # u /\ x = Fake(u, o)
      BY <2>2, FakesFacts
    <3>2. u = t
      BY <3>1, <1>11, FakeFacts
    <3>3. o \in Members(fakes[t])
      BY <3>1, <3>2 DEF IInv, WaitAgrees
    <3> QED BY <3>1, <3>2, <3>3, <1>1, <1>6, MineFacts
  <2> QED BY <2>1, <2>2, OutputFacts
<1>12. ASSUME NEW x \in Inputs, link'[x] # None PROVE link[x][1] # t
  <2>1. link[x] \in Real /\ link[x] \notin M
    BY <1>6, <1>12, NetOfState, OutputFacts
  <2> QED BY <2>1, <1>1, MineFacts
<1>13. ASSUME NEW u \in Tasks PROVE WaitAgrees(u)'
  <2>1. CASE u = t
    <3>1. fakes'[u] = <<>>
      BY <2>1, <1>2, <1>8
    <3>2. \A o \in Outputs : o[1] # u => link'[Fake(u, o)] = None
      BY <2>1, <1>11, FakeFacts
    <3> QED BY <3>1, <3>2 DEF WaitAgrees, Once, Members, Places
  <2>2. CASE u # t
    <3>1. fakes'[u] = fakes[u]
      BY <2>2, <1>2, <1>8
    <3>2. \A o \in Outputs : o[1] # u => Fake(u, o) \in Inputs
      BY FakeFacts
    <3>3. WaitAgrees(u)
      BY DEF IInv
    <3> QED BY <3>1, <3>2, <3>3, <1>10 DEF WaitAgrees
  <2> QED BY <2>1, <2>2
<1>14. ASSUME NEW u \in alive' PROVE CountAgrees(u)'
  <2>1. u \in alive /\ u \in Tasks /\ u # t /\ CountAgrees(u) /\ WaitAgrees(u)
    BY <1>2, <1>8 DEF IInv
  <2>2. fakes'[u] = fakes[u] /\ nInputs'[u] = nInputs[u] /\ fakes[u] \in Seq(Outputs)
    BY <2>1, <1>2, <1>8
  <2>3. \A o \in Members(fakes[u]) : Fake(u, o) \in Inputs
    BY <2>1, <2>2, FakeFacts DEF WaitAgrees, Members, Places
  <2>4. FakesBound(u)' => FakesBound(u)
    BY <2>2, <2>3, <1>10 DEF FakesBound
  <2> QED BY <2>1, <2>2, <2>4 DEF CountAgrees
<1>15. ASSUME NEW x \in Inputs PROVE Tied(x)'
  <2> SUFFICES ASSUME link'[x] # None PROVE Tied(x)'
    BY DEF Tied
  <2>1. link'[x] = link[x] /\ x[1] # t /\ link[x][1] # t /\ Tied(x)
    BY <1>10, <1>11, <1>12 DEF IInv
  <2> QED BY <2>1, <1>2, <1>5 DEF Tied, GrownAlone
<1>16. (\A s \in Real : OwnPointer(s)') /\ (\A s \in Real : InStep(s)')
  BY <1>2, <1>5 DEF IInv, OwnPointer, InStep
<1> QED BY ONLY <1>7, <1>9, <1>13, <1>14, <1>15, <1>16 DEF IInv

(***************************************************************************)
(* The number of sockets that are bound.                                   *)
(***************************************************************************)
InSockets(t) == {s \in Real : s[1] = t /\ Kind(s) = "in"}
FakeSockets(t) == {Fake(t, o) : o \in Members(fakes[t])}

\* A one-to-one list of the elements of a set counts them.
LEMMA Counting ==
    ASSUME NEW D, IsFiniteSet(D), NEW S, NEW f \in [D -> S],
           \A a, b \in D : f[a] = f[b] => a = b, \A s \in S : \E d \in D : f[d] = s
    PROVE  IsFiniteSet(S) /\ Cardinality(S) = Cardinality(D)
<1>1. f \in Surjection(D, S) /\ f \in Injection(D, S)
  BY DEF Surjection, Injection, IsInjective
<1>2. Cardinality(S) = Cardinality(D) <=> f \in Injection(D, S)
  BY <1>1, FS_Surjection
<1> QED BY <1>1, <1>2, FS_Surjection

LEMMA InSocketsCount ==
    ASSUME NEW t \in Tasks
    PROVE  IsFiniteSet(InSockets(t)) /\ Cardinality(InSockets(t)) = InCount(t)
<1> DEFINE D == {i \in DOMAIN Layout[t] : Layout[t][i][1] = "in"}
           S == InSockets(t)
           f == [i \in D |-> <<t, Layout[t][i][1], Layout[t][i][2]>>]
<1>1. DOMAIN Layout[t] = 1 .. Len(Layout[t]) /\ Len(Layout[t]) \in Nat
  BY LayoutFacts
<1>2. IsFiniteSet(D)
  <2>1. PICK len \in Nat : len = Len(Layout[t])
    BY <1>1
  <2>2. IsFiniteSet(1 .. len) /\ D \subseteq 1 .. len
    BY <1>1, <2>1, FS_Interval
  <2> HIDE DEF D
  <2> QED BY <2>2, FS_Subset
<1>3. \A i \in D : <<t, Layout[t][i][1], Layout[t][i][2]>> \in S
  <2> TAKE i \in D
  <2>1. i \in 1 .. Len(Layout[t]) /\ i \in 1 .. Len(All(t))
    BY <1>1, AllFacts
  <2>2. All(t)[i] = <<t, Layout[t][i][1], Layout[t][i][2]>> /\ All(t)[i] \in Real
    BY <2>1, AllFacts
  <2>3. PICK s : s = <<t, Layout[t][i][1], Layout[t][i][2]>>
    OBVIOUS
  <2>4. s[1] = t /\ s[2] = "in" /\ s \in Real
    BY <2>2, <2>3
  <2>5. Kind(s) = "in"
    BY <2>4, RealFacts
  <2> QED BY <2>3, <2>4, <2>5 DEF InSockets
<1>4. f \in [D -> S]
  BY <1>3
<1>5. \A a, b \in D : f[a] = f[b] => a = b
  BY <1>1, LayoutFacts
<1>6. \A s \in S : \E d \in D : f[d] = s
  <2> TAKE s \in S
  <2>1. s \in Real /\ s[1] = t /\ s[2] = "in"
    BY RealFacts DEF InSockets
  <2>2. PICK i \in 1 .. Len(All(t)) : s = All(t)[i]
    BY <2>1, RealFacts
  <2>3. i # Len(All(t))
    BY <2>1, <2>2, AllFacts DEF Status
  <2>4. i \in 1 .. Len(Layout[t])
    BY <1>1, <2>2, <2>3, AllFacts
  <2>5. s = <<t, Layout[t][i][1], Layout[t][i][2]>>
    BY <2>2, <2>4, AllFacts
  <2>6. Layout[t][i][1] = "in"
    BY <2>1, <2>5
  <2> QED BY <1>1, <2>4, <2>5, <2>6
<1> HIDE DEF D, S, f
<1>7. IsFiniteSet(S) /\ Cardinality(S) = Cardinality(D)
  BY <1>2, <1>4, <1>5, <1>6, Counting
<1> QED BY <1>7 DEF S, D, InCount

LEMMA FakeSocketsCount ==
    ASSUME IInv, NEW t \in Tasks
    PROVE  IsFiniteSet(FakeSockets(t)) /\ Cardinality(FakeSockets(t)) = Len(fakes[t])
<1> DEFINE D == 1 .. Len(fakes[t])
           S == FakeSockets(t)
           f == [i \in D |-> Fake(t, fakes[t][i])]
<1>1. fakes[t] \in Seq(Outputs) /\ Len(fakes[t]) \in Nat /\ WaitAgrees(t)
  BY DEF IInv, Typed
<1>2. IsFiniteSet(D) /\ Cardinality(D) = Len(fakes[t])
  <2>1. PICK len \in Nat : len = Len(fakes[t])
    BY <1>1
  <2>2. IsFiniteSet(1 .. len) /\ Cardinality(1 .. len) = len
    BY FS_Interval
  <2> QED BY <2>1, <2>2
<1>3. \A i \in D : fakes[t][i] \in Outputs /\ fakes[t][i] \in Members(fakes[t]) /\ fakes[t][i][1] # t
  BY <1>1 DEF WaitAgrees, Members, Places
<1>4. f \in [D -> S]
  BY <1>3 DEF FakeSockets
<1>5. \A a, b \in D : f[a] = f[b] => a = b
  <2> TAKE a, b \in D
  <2>1. Fake(t, fakes[t][a]) = Fake(t, fakes[t][b]) => fakes[t][a] = fakes[t][b]
    BY <1>3, FakeFacts
  <2>2. fakes[t][a] = fakes[t][b] => a = b
    BY <1>1 DEF WaitAgrees, Once, Places
  <2> QED BY <2>1, <2>2
<1>6. \A s \in S : \E d \in D : f[d] = s
  BY DEF FakeSockets, Members, Places
<1> HIDE DEF D, S, f
<1>7. IsFiniteSet(S) /\ Cardinality(S) = Cardinality(D)
  BY <1>2, <1>4, <1>5, <1>6, Counting
<1> QED BY <1>2, <1>7 DEF S

\* Two sets without a common element.
LEMMA Apart ==
    ASSUME NEW S, IsFiniteSet(S), NEW T, IsFiniteSet(T), S \cap T = {}
    PROVE  IsFiniteSet(S \cup T) /\ Cardinality(S \cup T) = Cardinality(S) + Cardinality(T)
<1>1. /\ IsFiniteSet(S \cup T)
      /\ Cardinality(S \cup T) = Cardinality(S) + Cardinality(T) - Cardinality(S \cap T)
  BY FS_Union
<1>2. Cardinality(S \cap T) = 0
  <2>1. PICK c : c = S \cap T
    OBVIOUS
  <2>2. c = {}
    BY <2>1
  <2>3. Cardinality(c) = 0
    BY <2>2, FS_EmptySet
  <2> QED BY <2>1, <2>3
<1>3. Cardinality(S) \in Nat /\ Cardinality(T) \in Nat
  BY FS_CardinalityType
<1> QED BY <1>1, <1>2, <1>3

LEMMA JoinCounted == IInv => JoinCount
<1> SUFFICES ASSUME IInv, NEW t \in alive,
                    \A s \in Inputs : s \in Real /\ s[1] = t /\ link[s] = None => Kind(s) = "in" /\ ptr[s] # Null,
                    ~Orphaned(t)
             PROVE  nInputs[t] + Cardinality(Forwarding(t)) - Cardinality(Static(t)) = Cardinality(Bound(t))
  BY DEF JoinCount
<1>1. t \in Tasks /\ fakes[t] \in Seq(Outputs) /\ WaitAgrees(t) /\ CountAgrees(t) /\ nInputs[t] \in Int
  BY DEF IInv, Typed
<1>2. FakesBound(t)
  BY <1>1 DEF Orphaned, FakeLinks, FakesBound, Members, Places
<1>3. nInputs[t] = InCount(t) + Len(fakes[t])
  BY <1>1, <1>2 DEF CountAgrees
<1> DEFINE I == InSockets(t)  K == FakeSockets(t)  F == Forwarding(t)  S == Static(t)  R == I \ S
<1>4. IsFiniteSet(I) /\ Cardinality(I) = InCount(t) /\ IsFiniteSet(K) /\ Cardinality(K) = Len(fakes[t])
  BY <1>1, InSocketsCount, FakeSocketsCount
<1>5. IsFiniteSet(F)
  <2>1. F \subseteq Outputs
    BY RealFacts, FakesFacts, OutputFacts DEF Forwarding
  <2> HIDE DEF F
  <2> QED BY <2>1, OutputsFinite, FS_Subset
<1>6. S \subseteq I
  BY DEF Static, InSockets
<1>7. I \subseteq Inputs /\ F \subseteq Inputs /\ F \subseteq Real /\ (\A s \in F : Kind(s) # "in")
  BY RealFacts, FakesFacts, OutputFacts DEF InSockets, Forwarding
<1>8. \A s \in K : s \in Inputs /\ s \notin Real /\ s[1] = t /\ link[s] # None
  <2> TAKE s \in K
  <2>1. PICK o \in Members(fakes[t]) : s = Fake(t, o)
    BY DEF FakeSockets
  <2>2. o \in Outputs /\ o[1] # t
    BY <1>1 DEF WaitAgrees, Members, Places
  <2> QED BY <1>1, <1>2, <2>1, <2>2, FakeFacts DEF FakesBound
<1>9. Bound(t) = (R \cup F) \cup K
  <2>1. ASSUME NEW s \in Bound(t) PROVE s \in (R \cup F) \cup K
    <3>1. s \in Inputs /\ s[1] = t /\ link[s] # None
      BY DEF Bound
    <3>2. CASE s \in Real
      <4>1. s[2] = "in" \/ s[2] = "fwd"
        BY <3>1, <3>2, OutputFacts, FakesFacts
      <4>2. Kind(s) = s[2]
        BY <3>2, RealFacts
      <4>3. s \notin S
        BY <3>1 DEF Static
      <4> QED BY <3>1, <3>2, <4>1, <4>2, <4>3 DEF InSockets, Forwarding
    <3>3. CASE s \notin Real
      <4>1. PICK u \in Tasks, o \in Outputs : o[1] # u /\ s = Fake(u, o)
        BY <3>1, <3>3, OutputFacts, FakesFacts
      <4>2. u = t
        BY <3>1, <4>1, FakeFacts
      <4>3. o \in Members(fakes[t])
        BY <3>1, <4>1, <4>2, <1>1 DEF WaitAgrees
      <4> QED BY <4>1, <4>2, <4>3 DEF FakeSockets
    <3> QED BY <3>2, <3>3
  <2>2. ASSUME NEW s \in R PROVE s \in Bound(t)
    <3>1. s \in Inputs /\ s \in Real /\ s[1] = t /\ Kind(s) = "in" /\ s \notin S
      BY <1>7 DEF InSockets
    <3>2. link[s] = None => s \in S
      BY <3>1 DEF Static
    <3> QED BY <3>1, <3>2 DEF Bound
  <2>3. ASSUME NEW s \in F PROVE s \in Bound(t)
    <3>1. s \in Inputs /\ s[1] = t /\ s \in Real /\ Kind(s) # "in"
      BY <1>7 DEF Forwarding
    <3> QED BY <3>1 DEF Bound
  <2>4. \A s \in K : s \in Bound(t)
    BY <1>8 DEF Bound
  <2> HIDE DEF R, F, K
  <2> QED BY <2>1, <2>2, <2>3, <2>4
<1>10. R \cap F = {} /\ (R \cup F) \cap K = {} /\ S \cap R = {} /\ S \cup R = I
  <2>1. \A s \in I : Kind(s) = "in" /\ s \in Real
    BY DEF InSockets
  <2> HIDE DEF I, F, S, K
  <2> QED BY <2>1, <1>6, <1>7, <1>8
<1>11. IsFiniteSet(S) /\ IsFiniteSet(R)
  <2>1. R \subseteq I
    OBVIOUS
  <2> HIDE DEF R, S, I
  <2> QED BY <2>1, <1>4, <1>6, FS_Subset
<1> HIDE DEF R, S, I, F, K
<1>12. Cardinality(I) = Cardinality(S) + Cardinality(R)
  BY <1>10, <1>11, Apart
<1>13. IsFiniteSet(R \cup F) /\ Cardinality(R \cup F) = Cardinality(R) + Cardinality(F)
  BY <1>5, <1>10, <1>11, Apart
<1>14. Cardinality((R \cup F) \cup K) = Cardinality(R \cup F) + Cardinality(K)
  BY <1>4, <1>10, <1>13, Apart
<1>15. Cardinality(I) \in Nat /\ Cardinality(S) \in Nat /\ Cardinality(R) \in Nat /\ Cardinality(F) \in Nat /\ Cardinality(K) \in Nat
  BY <1>4, <1>5, <1>11, FS_CardinalityType
<1> QED BY <1>3, <1>4, <1>9, <1>12, <1>13, <1>14, <1>15 DEF F, S

(***************************************************************************)
(* Theorems.                                                               *)
(***************************************************************************)
LEMMA StepIInv == ASSUME IInv, [Next]_vars PROVE IInv'
<1>1. ASSUME NEW in \in Inputs \cap Real, NEW out \in Outputs, NEW priority \in {AtEnd} \cup Priorities,
             AssignSocket(in, out, priority)
      PROVE  IInv'
  BY <1>1, AssignSocketIInv
<1>2. ASSUME NEW s \in Inputs \cap Real, AssignMemory(s) \/ Unbind(s) PROVE IInv'
  BY <1>2, AssignMemoryIInv, UnbindIInv
<1>3. ASSUME NEW t \in Tasks, NEW out \in Outputs, t # out[1], WaitFor(t, out) \/ WaitNoMore(t, out) PROVE IInv'
  BY <1>3, WaitForIInv, WaitNoMoreIInv
<1>4. ASSUME NEW t \in Tasks, Allocate(t) \/ Deallocate(t) \/ Destroy(t) PROVE IInv'
  BY <1>4, AllocateIInv, DeallocateIInv, DestroyIInv
<1>5. ASSUME NEW t \in Tasks, NEW new \in 1 .. MaxFrames, SetFrames(t, new) PROVE IInv'
  BY <1>5, SetFramesIInv
<1>6. CASE UNCHANGED vars
  BY <1>6, UnchangedIInv
<1> QED BY <1>1, <1>2, <1>3, <1>4, <1>5, <1>6 DEF Next

\* Whatever a program calls, in any order: every list of bound sockets and every
\* bound socket agree, fake sockets are bound to what they stand for, and sizes are
\* in step with n_frames unless a change of it was refused half-way.
THEOREM BindingsCorrect == Spec => []IInv
<1>1. Init => IInv
  BY InitIInv
<1>2. IInv /\ [Next]_vars => IInv'
  BY StepIInv
<1> QED BY <1>1, <1>2, PTL DEF Spec

\* Both sides of a binding agree, for any tasks, sockets and calls.
THEOREM BoundAgreeCorrect == Spec => []BoundAgree
<1>1. IInv => BoundAgree
  <2> SUFFICES ASSUME IInv PROVE BoundAgree
    OBVIOUS
  <2>1. ASSUME NEW out \in Outputs PROVE IsInjective(list[out]) /\ \A in \in Range(list[out]) : link[in] = out
    <3>1. list[out] \in Seq(Inputs) /\ ListAgrees(Net, out) /\ Net.list = list /\ Net.link = link
      BY NetOfState DEF Agree
    <3> QED BY <3>1 DEF ListAgrees, Once, Places, IsInjective, Range
  <2>2. ASSUME NEW in \in Inputs, link[in] # None PROVE in \in Range(list[link[in]])
    <3>1. list[link[in]] \in Seq(Inputs) /\ LinkAgrees(Net, in) /\ Net.list = list /\ Net.link = link
      BY <2>2, NetOfState DEF Agree
    <3>2. PICK i \in Places(list[link[in]]) : list[link[in]][i] = in
      BY <3>1, <2>2 DEF LinkAgrees
    <3> QED BY <3>1, <3>2 DEF Range, Places
  <2>3. \A in \in Inputs : Tied(in)
    BY DEF IInv
  <2> QED BY <2>1, <2>2, <2>3 DEF BoundAgree, Tied
<1> QED BY <1>1, BindingsCorrect, PTL

\* A sequence waits for as many inputs as are bound, for any tasks and calls.
THEOREM JoinCountCorrect == Spec => []JoinCount
BY JoinCounted, BindingsCorrect, PTL

=============================================================================
