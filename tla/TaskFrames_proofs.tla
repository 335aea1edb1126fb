------------------------- MODULE TaskFrames_proofs -------------------------
(***************************************************************************)
(* Theorems about TaskFrames, for up to 2^24 frames and frames in a wave,  *)
(* where Module counts its waves exactly, any sockets and calls in any     *)
(* order: an execution stays inside the memory of its sockets, and each    *)
(* frame is processed once.                                                *)
(***************************************************************************)
EXTENDS TaskFrames, TLAPS

(***************************************************************************)
(* Facts about quotients.                                                  *)
(***************************************************************************)
\* Every integer has a quotient and a remainder.
LEMMA DivMod ==
  ASSUME NEW N \in Nat \ {0}, NEW x \in Int
  PROVE \E q \in Int, r \in 0 .. N - 1 : x = q * N + r /\ r = x % N
  OBVIOUS

\* Multiples of a number are at least that number apart.
LEMMA NextMultiple ==
  ASSUME NEW N \in Nat \ {0}, NEW a \in Int, NEW b \in Int, a < b
  PROVE a * N + N <= b * N
<1>1. (a + 1) * N <= b * N
  OBVIOUS
<1>2. (a + 1) * N = a * N + N
  OBVIOUS
<1> QED BY <1>1, <1>2

LEMMA DivFacts ==
  ASSUME NEW N \in Nat \ {0}, NEW x \in Nat
  PROVE /\ x \div N \in Nat /\ x = (x \div N) * N + (x % N)
        /\ (x \div N) * N \in Nat /\ x % N \in 0 .. N - 1
<1> x \in Int
  OBVIOUS
<1>1. PICK q \in Int, r \in 0 .. N - 1 : x = q * N + r /\ r = x % N
  BY DivMod, Zenon
<1>2. x \div N = q
  BY <1>1
<1>3. q >= 0
  <2> SUFFICES ASSUME q <= -1 PROVE FALSE
    BY <1>1
  <2>1. q * N <= -N
    OBVIOUS
  <2> QED BY <1>1, <2>1
<1> QED BY <1>1, <1>2, <1>3

LEMMA BoundFacts ==
  /\ FloatExact \in Nat /\ MaxOps \in Nat
  /\ MaxFrames \in Nat \ {0} /\ MaxFrames <= FloatExact
<1>1. FloatExact \in Nat
  BY SMT DEF FloatExact
<1> QED BY <1>1, BoundsAssumption

\* The only multiple that leaves a remainder.
LEMMA QuotientUnique ==
  ASSUME NEW N \in Nat \ {0}, NEW x \in Nat, NEW q \in Nat
  PROVE x \div N = q <=> q * N <= x /\ x < q * N + N
<1> DEFINE d == x \div N
<1>1. d \in Nat /\ d * N \in Nat /\ d * N <= x /\ x < d * N + N
  <2>1. d \in Nat /\ x = d * N + (x % N) /\ d * N \in Nat /\ x % N \in 0 .. N - 1
    BY DivFacts
  <2> HIDE DEF d
  <2> QED BY <2>1
<1> HIDE DEF d
<1>2. q * N \in Nat
  OBVIOUS
<1>3. ASSUME q * N <= x, x < q * N + N
      PROVE d = q
  <2>1. ~ (d < q)
    <3> SUFFICES ASSUME d < q PROVE FALSE
      OBVIOUS
    <3>1. d * N + N <= q * N
      BY <1>1, NextMultiple
    <3> QED BY <1>1, <1>2, <1>3, <3>1
  <2>2. ~ (q < d)
    <3> SUFFICES ASSUME q < d PROVE FALSE
      OBVIOUS
    <3>1. q * N + N <= d * N
      BY <1>1, NextMultiple
    <3> QED BY <1>1, <1>2, <1>3, <3>1
  <2> QED BY <1>1, <2>1, <2>2
<1> QED BY <1>1, <1>3 DEF d

Place == Areas \X Nat
Pointer == {Null} \cup Place
Buffer == [Kinds -> Seq(Int)]
Hows == {"direct", "shift", "rest", "single"}
Mods == [n : 1 .. MaxFrames, per : 1 .. MaxFrames, rest : Nat, waves : Nat, single : BOOLEAN]

Created == {"idle", "running"}
IsSeq(x) == Len(x) \in Nat /\ x = [i \in 1 .. Len(x) |-> x[i]]

TypeOK ==
    /\ pc \in {"module", "creating"} \cup Created
    /\ mod \in Mods
    /\ sockets \in Seq(Kinds)
    /\ size \in [Kinds -> Nat]
    /\ memory \in Buffer /\ scratch \in Buffer
    /\ ptr \in [Kinds -> Pointer] /\ saved \in [Kinds -> Pointer]
    /\ IsSeq(status) /\ statusSize \in Nat
    /\ todo \in Seq([w : Nat, how : Hows, frame : Int])
    /\ fed \in BOOLEAN /\ wild \in BOOLEAN /\ lost \in BOOLEAN
    /\ ran \in [1 .. MaxFrames -> Nat]

\* The numbers of a module agree with each other.
Numbered(m) == m.rest = m.n % m.per /\ m.waves = Waves(m.n, m.per)

Module ==
    /\ Numbered(mod)
    /\ mod.single => mod.n = mod.per

\* What a record of the module and its task, as All, has at any time between calls.
Sized(a) ==
    /\ pc \in Created => Len(a.status) = a.mod.waves /\ a.statusSize = a.mod.waves
    /\ \A s \in Kinds :
        IF Has(s) THEN a.size[s] = a.mod.n /\ Len(a.scratch[s]) = ScratchSize(a.mod.per)
        ELSE a.ptr[s] = Null
    /\ Has("out") /\ a.ptr["out"] # Null => Len(a.memory["out"]) = a.mod.n

\* Before the task is complete.
Unready ==
    /\ pc = "module" => sockets = <<>>
    /\ pc = "creating" => Len(status) = mod.waves
    /\ pc \notin Created => ~fed /\ ~lost /\ ptr = [s \in Kinds |-> Null]
    /\ pc # "running" => todo = <<>>

\* The memory of the user has the size of the sockets.
Given == fed => \A s \in Existing : Reads(s) => Len(memory[s]) = mod.n

\* A wave is one of those of the module, and fits where it is executed.
Fitting(item) ==
    /\ item.w < mod.waves
    /\ CASE item.how = "direct" -> mod.per <= mod.n
         [] item.how = "single" -> item.frame > 0 /\ mod.per > 1
         [] item.how = "rest" -> item.w = mod.waves - 1 /\ mod.rest # 0
         [] item.how = "shift" -> item.w # mod.waves - 1 \/ mod.rest = 0

Running ==
    pc = "running" =>
        /\ fed /\ todo # <<>>
        /\ \A i \in DOMAIN todo : Fitting(todo[i]) /\ (todo[i].how = "direct" => Len(todo) = 1)
        /\ \A s \in Existing : ptr[s] # Null
        /\ todo[1].how # "direct" => \A s \in Existing : saved[s] # Null

\* Unless an exception has left them elsewhere, the pointers are those of the user, or
\* they are saved.
AtHome ==
    ~lost =>
        IF pc = "running" /\ todo[1].how # "direct"
        THEN \A s \in Existing : saved[s] = Home
        ELSE \A s \in Kinds : ptr[s] \in {Null, Home}

Tame == ~lost => ~wild

\* What has become of the frames since the user gave them.
Handled(m, runs) ==
    \A f \in 1 .. mod.n :
        /\ Has("in") => m["in"][f] = f
        /\ Has("in") /\ Has("out") /\ runs[f] > 0 => m["out"][f] = f
        /\ Has("fwd") => m["fwd"][f] = runs[f]

Frames ==
    fed /\ ~lost =>
        /\ Handled(memory, ran)
        /\ Has("out") /\ ptr["out"] = Null => \A f \in 1 .. mod.n : ran[f] = 0

Inv ==
    /\ Module /\ Sized(All) /\ Unready /\ Given /\ Running
    /\ AtHome /\ Tame /\ Frames

IInv == TypeOK /\ Inv

(***************************************************************************)
(* Waves.                                                                  *)
(***************************************************************************)
\* Up to FloatExact frames no quotient is rounded down: what it exceeds q by is at least
\* 1 / per, more than half of the distance between floats.
LEMMA NotRounded ==
  ASSUME NEW n \in Nat \ {0}, n <= FloatExact, NEW per \in Nat \ {0},
         NEW q \in Nat, NEW r \in Nat \ {0}, n = q * per + r
  PROVE ~ RoundedDown(q, r, per)
<1> SUFFICES ASSUME RoundedDown(q, r, per) PROVE FALSE
  OBVIOUS
<1>1. FloatExact \in Nat
  BY BoundFacts
<1>2. PICK power \in 1 .. q : r * FloatExact <= power * per
  BY DEF RoundedDown
<1>3. power * per <= q * per
  BY <1>2
<1>4. FloatExact <= r * FloatExact
  BY <1>1
<1>5. q * per \in Nat /\ q * per < n
  OBVIOUS
<1> QED BY <1>1, <1>2, <1>3, <1>4, <1>5

LEMMA WaveNumbers ==
  ASSUME NEW n \in Nat \ {0}, n <= FloatExact, NEW per \in Nat \ {0}, NEW W, W = Waves(n, per)
  PROVE /\ W \in Nat \ {0}
        /\ (W - 1) * per \in Nat /\ (W - 1) * per < n
        /\ n % per \in Nat /\ n % per < per
        /\ n % per = 0 => n = W * per
        /\ n % per # 0 => n = (W - 1) * per + (n % per)
<1> DEFINE q == n \div per
           r == n % per
<1>1. q \in Nat /\ n = q * per + r /\ q * per \in Nat /\ r \in 0 .. per - 1
  BY DivFacts
<1>2. W = IF r = 0 \/ RoundedDown(q, r, per) THEN q ELSE q + 1
  BY DEF Waves
<1>3. r = n % per
  OBVIOUS
<1> HIDE DEF q, r
<1>4. CASE r = 0
  <2>1. W = q /\ q # 0
    BY <1>1, <1>2, <1>4
  <2>2. (q - 1) * per = q * per - per /\ (q - 1) * per \in Nat
    BY <1>1, <2>1
  <2> QED BY <1>1, <1>3, <1>4, <2>1, <2>2
<1>5. CASE r # 0
  <2>1. ~ RoundedDown(q, r, per)
    <3>1. r \in Nat \ {0}
      BY <1>1, <1>5
    <3> QED BY <1>1, <3>1, NotRounded
  <2>2. W = q + 1
    BY <1>2, <1>5, <2>1
  <2>3. W - 1 = q
    BY <1>1, <2>2
  <2> QED BY <1>1, <1>3, <1>5, <2>2, <2>3
<1> QED BY <1>4, <1>5

\* A wave that is followed by another one, or that leaves no rest, is complete.
LEMMA WholeWave ==
  ASSUME NEW n \in Nat \ {0}, n <= FloatExact, NEW per \in Nat \ {0}, NEW W, W = Waves(n, per),
         NEW w \in Nat, w < W, w # W - 1 \/ n % per = 0
  PROVE w * per \in Nat /\ w * per + per <= n
<1>1. /\ W \in Nat \ {0}
      /\ (W - 1) * per \in Nat /\ (W - 1) * per < n
      /\ n % per = 0 => n = W * per
  BY WaveNumbers
<1>2. w * per \in Nat
  OBVIOUS
<1>3. CASE w = W - 1
  <2>1. w + 1 = W /\ w < W /\ n = W * per
    BY <1>1, <1>3
  <2>2. w * per + per <= W * per
    BY <1>1, <2>1, NextMultiple
  <2> QED BY <1>2, <2>1, <2>2
<1>4. CASE w # W - 1
  <2>1. w < W - 1
    BY <1>1, <1>4
  <2>2. w * per + per <= (W - 1) * per
    BY <1>1, <2>1, NextMultiple
  <2> QED BY <1>1, <1>2, <2>2
<1> QED BY <1>3, <1>4

\* The wave of a frame is one of the module.
LEMMA WaveOfFrame ==
  ASSUME NEW n \in Nat \ {0}, n <= FloatExact, NEW per \in Nat \ {0}, NEW W, W = Waves(n, per),
         NEW f \in Nat
  PROVE /\ f % n \in 0 .. n - 1 /\ f % per \in 0 .. per - 1
        /\ (f % n) \div per \in Nat /\ (f % n) \div per < W
<1> DEFINE x == f % n
           q == x \div per
<1>1. x \in 0 .. n - 1 /\ f % per \in 0 .. per - 1
  BY DivFacts
<1> HIDE DEF x
<1>2. q \in Nat /\ x = q * per + (x % per) /\ q * per \in Nat /\ x % per \in 0 .. per - 1
  <2>1. x \in Nat
    BY <1>1
  <2> QED BY <2>1, DivFacts, Zenon
<1> HIDE DEF q
<1>3. /\ W \in Nat \ {0} /\ (W - 1) * per \in Nat
      /\ n % per \in Nat /\ n % per < per
      /\ n % per = 0 => n = W * per
      /\ n % per # 0 => n = (W - 1) * per + (n % per)
  BY WaveNumbers
<1>4. n <= W * per
  <2>1. (W - 1) * per + per <= W * per /\ W * per \in Nat
    BY <1>3, NextMultiple
  <2> QED BY <1>3, <2>1
<1>5. q < W
  <2> SUFFICES ASSUME W <= q PROVE FALSE
    BY <1>2, <1>3
  <2>1. W * per <= q * per
    BY <1>2, <1>3
  <2> QED BY <1>1, <1>2, <1>3, <1>4, <2>1
<1> QED BY <1>1, <1>2, <1>5 DEF q, x

(***************************************************************************)
(* Pointers and buffers.                                                   *)
(***************************************************************************)
LEMMA PointerFacts ==
  /\ Home \in Place /\ Home[1] = "memory" /\ Home[2] = 0
  /\ InScratch \in Place /\ InScratch[1] = "scratch" /\ InScratch[2] = 0
  /\ \A p \in Place : p # Null /\ p[1] \in Areas /\ p[2] \in Nat
  /\ \A p \in Place, k \in Nat :
       From(p, k) \in Place /\ From(p, k)[1] = p[1] /\ From(p, k)[2] = p[2] + k
<1>1. Home \in Place /\ Home[1] = "memory" /\ Home[2] = 0
  BY DEF Home, Place, Areas
<1>2. InScratch \in Place /\ InScratch[1] = "scratch" /\ InScratch[2] = 0
  BY DEF InScratch, Place, Areas
<1>3. \A p \in Place : p # Null /\ p[1] \in Areas /\ p[2] \in Nat
  BY DEF Place, Null
<1>4. \A p \in Place, k \in Nat :
        From(p, k) \in Place /\ From(p, k)[1] = p[1] /\ From(p, k)[2] = p[2] + k
  BY DEF Place, From
<1> QED BY <1>1, <1>2, <1>3, <1>4

\* A function on 1 .. n is a sequence of n.
LEMMA SeqOf ==
  ASSUME NEW n \in Nat, NEW x, NEW S, x \in [1 .. n -> S]
  PROVE x \in Seq(S) /\ Len(x) = n /\ DOMAIN x = 1 .. n
OBVIOUS

LEMMA SeqFacts ==
  ASSUME NEW S, NEW x \in Seq(S)
  PROVE /\ Len(x) \in Nat /\ DOMAIN x = 1 .. Len(x)
        /\ \A i \in 1 .. Len(x) : x[i] \in S
OBVIOUS

Written(b, S, at, v, new) ==
    /\ new \in [Areas -> Buffer]
    /\ \A a \in Areas, s \in Kinds :
        /\ Len(new[a][s]) = Len(b[a][s])
        /\ \A f \in 1 .. Len(b[a][s]) :
            new[a][s][f] =
                IF s \in S /\ at[s][1] = a /\ f - at[s][2] \in 1 .. Len(v[s])
                THEN v[s][f - at[s][2]] ELSE b[a][s][f]

LEMMA Writing ==
  ASSUME NEW b \in [Areas -> Buffer], NEW S \in SUBSET Kinds, NEW at, NEW v \in [S -> Seq(Int)]
  PROVE Written(b, S, at, v, Write(b, at, v))
<1> DEFINE new == Write(b, at, v)
           cell(a, s, f) ==
             IF s \in S /\ at[s][1] = a /\ f - at[s][2] \in 1 .. Len(v[s])
             THEN v[s][f - at[s][2]] ELSE b[a][s][f]
<1>1. ASSUME NEW a \in Areas, NEW s \in Kinds
      PROVE /\ new[a][s] \in Seq(Int) /\ Len(new[a][s]) = Len(b[a][s])
            /\ \A f \in 1 .. Len(b[a][s]) : new[a][s][f] = cell(a, s, f)
  <2> DEFINE old == b[a][s]
             n == Len(old)
             x == new[a][s]
  <2>1. old \in Seq(Int) /\ n \in Nat /\ DOMAIN old = 1 .. n /\ \A f \in 1 .. n : old[f] \in Int
    <3>1. old \in Seq(Int)
      BY DEF Buffer
    <3> QED BY <3>1, SeqFacts
  <2>2. ASSUME s \in S
        PROVE /\ DOMAIN v[s] = 1 .. Len(v[s])
              /\ \A k \in 1 .. Len(v[s]) : v[s][k] \in Int
    <3>1. v[s] \in Seq(Int)
      BY <2>2
    <3> QED BY <3>1, SeqFacts
  <2>3. x = IF s \in S /\ at[s][1] = a
            THEN [f \in DOMAIN old |->
                   IF f - at[s][2] \in DOMAIN v[s] THEN v[s][f - at[s][2]] ELSE old[f]]
            ELSE old
    BY DEF Write
  <2> HIDE DEF old, n, new
  <2>4. CASE s \in S /\ at[s][1] = a
    <3> DEFINE y == [f \in 1 .. n |-> IF f - at[s][2] \in 1 .. Len(v[s])
                                      THEN v[s][f - at[s][2]] ELSE old[f]]
    <3>1. x = y
      BY <2>1, <2>2, <2>3, <2>4
    <3>2. y \in [1 .. n -> Int]
      BY <2>1, <2>2, <2>4
    <3>3. \A f \in 1 .. n : y[f] = cell(a, s, f)
      BY <2>4 DEF old
    <3> HIDE DEF y, x
    <3>4. x \in Seq(Int) /\ Len(x) = n
      BY <2>1, <3>1, <3>2, SeqOf
    <3> QED BY <3>1, <3>3, <3>4 DEF x, n, old
  <2>5. CASE ~ (s \in S /\ at[s][1] = a)
    <3>1. x = old
      BY <2>3, <2>5
    <3>2. \A f \in 1 .. n : old[f] = cell(a, s, f)
      BY <2>5 DEF old
    <3> HIDE DEF x, cell
    <3> QED BY <2>1, <3>1, <3>2 DEF x, n, old
  <2> QED BY <2>4, <2>5
<1>2. new \in [Areas -> Buffer]
  <2>1. new = [a \in Areas |-> [s \in Kinds |-> new[a][s]]]
    BY DEF Write
  <2> HIDE DEF new
  <2> QED BY <1>1, <2>1 DEF Buffer
<1> QED BY <1>1, <1>2 DEF Written

LEMMA Reading ==
  ASSUME NEW b \in [Areas -> Buffer], NEW s \in Kinds, NEW p \in Place, NEW n \in Nat
  PROVE /\ Read(b, s, p, n) \in Seq(Int) /\ Len(Read(b, s, p, n)) = n
        /\ p[2] + n <= Len(b[p[1]][s]) =>
             \A k \in 1 .. n : Read(b, s, p, n)[k] = b[p[1]][s][p[2] + k]
<1> DEFINE old == b[p[1]][s]
           x == Read(b, s, p, n)
<1>1. p[1] \in Areas /\ p[2] \in Nat
  BY PointerFacts
<1>2. old \in Seq(Int)
  BY <1>1 DEF Buffer
<1>3. Len(old) \in Nat /\ DOMAIN old = 1 .. Len(old) /\ \A f \in 1 .. Len(old) : old[f] \in Int
  BY <1>2, SeqFacts
<1>4. ASSUME NEW k \in 1 .. n
      PROVE x[k] = IF p[2] + k <= Len(old) THEN old[p[2] + k] ELSE Junk
  <2> DEFINE q == From(p, k - 1)
  <2>1. q[1] = p[1] /\ q[2] + 1 = p[2] + k
    <3>1. k - 1 \in Nat
      OBVIOUS
    <3>2. q[1] = p[1] /\ q[2] = p[2] + (k - 1)
      BY <3>1, PointerFacts
    <3> QED BY <1>1, <3>2
  <2>2. x[k] = IF Inside(b, s, q) THEN old[p[2] + k] ELSE Junk
    BY DEF Read
  <2>3. Inside(b, s, q) <=> p[2] + k \in 1 .. Len(old)
    <3>1. Inside(b, s, q) <=> q[2] + 1 \in DOMAIN b[q[1]][s]
      BY DEF Inside
    <3> HIDE DEF q
    <3> QED BY <1>3, <2>1, <3>1
  <2> HIDE DEF q
  <2> HIDE DEF x, old
  <2> QED BY <1>1, <1>3, <2>2, <2>3
<1>5. x \in [1 .. n -> Int]
  <2>1. x = [k \in 1 .. n |-> x[k]]
    BY DEF Read
  <2> HIDE DEF x, old
  <2>2. ASSUME NEW k \in 1 .. n PROVE x[k] \in Int
    <3>1. p[2] + k \in Nat /\ p[2] + k >= 1
      BY <1>1
    <3>2. p[2] + k <= Len(old) => old[p[2] + k] \in Int
      BY <1>3, <3>1
    <3>3. x[k] = IF p[2] + k <= Len(old) THEN old[p[2] + k] ELSE Junk
      BY <1>4
    <3> QED BY ONLY <3>2, <3>3 DEF Junk
  <2> QED BY <2>1, <2>2
<1> HIDE DEF x, old
<1>6. x \in Seq(Int) /\ Len(x) = n
  BY <1>5, SeqOf
<1>7. p[2] + n <= Len(old) => \A k \in 1 .. n : x[k] = old[p[2] + k]
  BY <1>1, <1>3, <1>4
<1> QED BY <1>6, <1>7 DEF x, old

(***************************************************************************)
(* What a wave does to the buffers.                                        *)
(***************************************************************************)
Sources == {s \in Existing : Reads(s)}
Targets == {s \in Existing : Writes(s)}

LEMMA KindFacts ==
  /\ "in" \in Kinds /\ "out" \in Kinds /\ "fwd" \in Kinds
  /\ \A s \in Kinds : s \in Existing <=> Has(s)
  /\ Existing \subseteq Kinds /\ Sources \subseteq Existing /\ Targets \subseteq Existing
  /\ "in" \in Sources <=> Has("in")
  /\ "fwd" \in Sources <=> Has("fwd")
  /\ "out" \in Targets <=> Has("out")
  /\ "fwd" \in Targets <=> Has("fwd")
  /\ "out" \notin Sources /\ "in" \notin Targets
  /\ \A s \in Targets : s = "out" \/ s = "fwd"
BY DEF Kinds, Existing, Sources, Targets, Reads, Writes

LEMMA BufferFacts ==
  ASSUME TypeOK
  PROVE /\ Buffers \in [Areas -> Buffer]
        /\ Buffers["memory"] = memory /\ Buffers["scratch"] = scratch
        /\ "memory" \in Areas /\ "scratch" \in Areas
BY DEF TypeOK, Buffers, Areas

\* A copy of n frames: v is what was read.
Copied(b, S, from, to, n, v, new) ==
    /\ Written(b, S, to, v, new)
    /\ \A s \in S :
        /\ Len(v[s]) = n
        /\ from[s][2] + n <= Len(b[from[s][1]][s]) =>
             \A k \in 1 .. n : v[s][k] = b[from[s][1]][s][from[s][2] + k]

LEMMA Copying ==
  ASSUME NEW b \in [Areas -> Buffer], NEW S \in SUBSET Existing, NEW n \in Nat,
         NEW from, NEW to, \A s \in S : from[s] \in Place
  PROVE \E v : Copied(b, S, from, to, n, v, Copy(b, S, from, to, n))
<1> DEFINE v == [s \in S |-> Read(b, s, from[s], n)]
<1>1. S \subseteq Kinds
  BY KindFacts
<1>2. ASSUME NEW s \in S
      PROVE /\ v[s] \in Seq(Int) /\ Len(v[s]) = n
            /\ from[s][2] + n <= Len(b[from[s][1]][s]) =>
                 \A k \in 1 .. n : v[s][k] = b[from[s][1]][s][from[s][2] + k]
  <2>1. v[s] = Read(b, s, from[s], n)
    OBVIOUS
  <2>2. s \in Kinds /\ from[s] \in Place
    BY <1>1
  <2> QED BY <2>1, <2>2, Reading
<1>3. v \in [S -> Seq(Int)]
  BY <1>2
<1>4. Copy(b, S, from, to, n) = Write(b, to, v)
  BY DEF Copy
<1>5. Written(b, S, to, v, Write(b, to, v))
  <2> HIDE DEF v
  <2> QED BY <1>1, <1>3, Writing
<1> HIDE DEF v
<1>6. Copied(b, S, from, to, n, v, Copy(b, S, from, to, n))
  BY <1>2, <1>4, <1>5 DEF Copied
<1> QED BY <1>6

Output(b, p) ==
    [s \in {k \in Existing : Writes(k)} |->
        IF s = "fwd" THEN Incremented(Read(b, "fwd", p["fwd"], mod.per))
        ELSE IF Has("in") THEN Read(b, "in", p["in"], mod.per)
        ELSE [k \in 1 .. mod.per |-> Junk]]

\* The codelet on n frames: v is what it has computed.
Coded(b, p, n, new) ==
    \E v :
        /\ Written(b, Targets, p, v, new)
        /\ \A s \in Targets : Len(v[s]) = n
        /\ Has("fwd") /\ p["fwd"][2] + n <= Len(b[p["fwd"][1]]["fwd"]) =>
             \A k \in 1 .. n : v["fwd"][k] = b[p["fwd"][1]]["fwd"][p["fwd"][2] + k] + 1
        /\ Has("in") /\ Has("out") /\ p["in"][2] + n <= Len(b[p["in"][1]]["in"]) =>
             \A k \in 1 .. n : v["out"][k] = b[p["in"][1]]["in"][p["in"][2] + k]

LEMMA Coding ==
  ASSUME NEW b \in [Areas -> Buffer], NEW p, \A s \in Existing : p[s] \in Place,
         NEW n \in Nat, n = mod.per
  PROVE Coded(b, p, n, Codelet(b, p))
<1>0. PICK v : v = Output(b, p)
  OBVIOUS
<1>1. ASSUME Has("fwd")
      PROVE /\ v["fwd"] \in Seq(Int) /\ Len(v["fwd"]) = n
            /\ p["fwd"][2] + n <= Len(b[p["fwd"][1]]["fwd"]) =>
                 \A k \in 1 .. n : v["fwd"][k] = b[p["fwd"][1]]["fwd"][p["fwd"][2] + k] + 1
  <2> DEFINE x == Read(b, "fwd", p["fwd"], n)
             old == b[p["fwd"][1]]["fwd"]
  <2>1. p["fwd"] \in Place /\ "fwd" \in Kinds /\ "fwd" \in Targets
    BY <1>1, KindFacts
  <2>2. /\ x \in Seq(Int) /\ Len(x) = n
        /\ p["fwd"][2] + n <= Len(old) => \A k \in 1 .. n : x[k] = old[p["fwd"][2] + k]
    BY <2>1, Reading
  <2>3. v["fwd"] = [k \in DOMAIN x |-> x[k] + 1]
    BY <1>0, <2>1 DEF Output, Incremented, Targets
  <2> HIDE DEF x, old
  <2>4. DOMAIN x = 1 .. n /\ \A k \in 1 .. n : x[k] \in Int
    BY <2>2, SeqFacts
  <2>5. v["fwd"] \in [1 .. n -> Int]
    BY <2>3, <2>4
  <2>6. v["fwd"] \in Seq(Int) /\ Len(v["fwd"]) = n
    BY <2>5, SeqOf
  <2> QED BY <2>2, <2>3, <2>4, <2>6 DEF old
<1>2. ASSUME Has("out")
      PROVE /\ v["out"] \in Seq(Int) /\ Len(v["out"]) = n
            /\ Has("in") /\ p["in"][2] + n <= Len(b[p["in"][1]]["in"]) =>
                 \A k \in 1 .. n : v["out"][k] = b[p["in"][1]]["in"][p["in"][2] + k]
  <2>1. "out" \in Targets /\ "out" # "fwd"
    BY <1>2, KindFacts
  <2>2. CASE Has("in")
    <3>1. p["in"] \in Place /\ "in" \in Kinds
      BY <2>2, KindFacts
    <3> DEFINE x == Read(b, "in", p["in"], n)
               old == b[p["in"][1]]["in"]
    <3>2. v["out"] = x
      BY <1>0, <2>1, <2>2 DEF Output, Targets
    <3>3. /\ x \in Seq(Int) /\ Len(x) = n
          /\ p["in"][2] + n <= Len(old) => \A k \in 1 .. n : x[k] = old[p["in"][2] + k]
      BY <3>1, Reading
    <3> HIDE DEF x
    <3> QED BY <3>2, <3>3
  <2>3. CASE ~ Has("in")
    <3>1. v["out"] = [k \in 1 .. n |-> Junk]
      BY <1>0, <2>1, <2>3 DEF Output, Targets
    <3>2. v["out"] \in [1 .. n -> Int]
      BY <3>1 DEF Junk
    <3>3. v["out"] \in Seq(Int) /\ Len(v["out"]) = n
      BY <3>2, SeqOf
    <3> QED BY <2>3, <3>3
  <2> QED BY <2>2, <2>3
<1>3. \A s \in Targets : v[s] \in Seq(Int) /\ Len(v[s]) = n
  BY <1>1, <1>2, KindFacts
<1>4. v \in [Targets -> Seq(Int)]
  <2>1. v = [s \in Targets |-> v[s]]
    BY <1>0 DEF Output, Targets
  <2> QED BY <1>3, <2>1
<1>5. Codelet(b, p) = Write(b, p, v)
  BY <1>0 DEF Codelet, Output
<1>6. Written(b, Targets, p, v, Write(b, p, v))
  BY <1>4, KindFacts, Writing
<1> QED BY <1>1, <1>2, <1>3, <1>5, <1>6 DEF Coded

\* The codelet on c frames, from frame o on: the frames that it leaves alone, and what
\* the others become.
Hit(f, o, c) == o < f /\ f <= o + c

Effect(m, o, c) ==
    \A f \in 1 .. mod.n :
        /\ Has("in") => m["in"][f] = memory["in"][f]
        /\ Has("in") /\ Has("out") =>
             m["out"][f] = IF Hit(f, o, c) THEN memory["in"][f] ELSE memory["out"][f]
        /\ Has("fwd") =>
             m["fwd"][f] = IF Hit(f, o, c) THEN memory["fwd"][f] + 1 ELSE memory["fwd"][f]

LEMMA DirectEffect ==
  ASSUME TypeOK, NEW n \in Nat, n = mod.n, NEW per \in Nat, per = mod.per,
         NEW o \in Nat, o + per <= n,
         NEW p, \A s \in Existing : /\ Len(memory[s]) = n
                                    /\ p[s] \in Place /\ p[s][1] = "memory" /\ p[s][2] = o
  PROVE Effect(Codelet(Buffers, p)["memory"], o, per)
<1> DEFINE new == Codelet(Buffers, p)
           m == new["memory"]
<1>1. Buffers \in [Areas -> Buffer] /\ Buffers["memory"] = memory /\ "memory" \in Areas
  BY BufferFacts
<1>2. PICK v :
        /\ Written(Buffers, Targets, p, v, new)
        /\ \A s \in Targets : Len(v[s]) = per
        /\ Has("fwd") /\ p["fwd"][2] + per <= Len(Buffers[p["fwd"][1]]["fwd"]) =>
             \A k \in 1 .. per : v["fwd"][k] = Buffers[p["fwd"][1]]["fwd"][p["fwd"][2] + k] + 1
        /\ Has("in") /\ Has("out") /\ p["in"][2] + per <= Len(Buffers[p["in"][1]]["in"]) =>
             \A k \in 1 .. per : v["out"][k] = Buffers[p["in"][1]]["in"][p["in"][2] + k]
  <2>1. \A s \in Existing : p[s] \in Place
    OBVIOUS
  <2>2. Coded(Buffers, p, per, Codelet(Buffers, p))
    BY ONLY <1>1, <2>1, per \in Nat, per = mod.per, Coding
  <2> QED BY ONLY <2>2 DEF Coded
<1> HIDE DEF new
<1>3. ASSUME NEW s \in Targets
      PROVE \A f \in 1 .. n :
              m[s][f] = IF f - o \in 1 .. per THEN v[s][f - o] ELSE memory[s][f]
  <2>1. s \in Existing /\ s \in Kinds
    BY KindFacts
  <2>2. p[s][1] = "memory" /\ p[s][2] = o /\ Len(v[s]) = per /\ Len(memory[s]) = n
    BY <1>2, <2>1
  <2>3. \A f \in 1 .. Len(Buffers["memory"][s]) :
          m[s][f] = IF f - p[s][2] \in 1 .. Len(v[s])
                    THEN v[s][f - p[s][2]] ELSE Buffers["memory"][s][f]
    BY ONLY <1>1, <1>2, <2>1, <2>2, s \in Targets DEF Written
  <2> QED BY <1>1, <2>2, <2>3
<1>4. ASSUME Has("in") PROVE \A f \in 1 .. n : m["in"][f] = memory["in"][f]
  <2>1. "in" \notin Targets /\ "in" \in Existing /\ "in" \in Kinds
    BY <1>4, KindFacts
  <2>2. Len(Buffers["memory"]["in"]) = n
    BY <1>1, <2>1
  <2> QED BY ONLY <1>1, <1>2, <2>1, <2>2 DEF Written
<1>5. ASSUME Has("fwd")
      PROVE \A f \in 1 .. n :
              m["fwd"][f] = IF Hit(f, o, per) THEN memory["fwd"][f] + 1 ELSE memory["fwd"][f]
  <2>1. "fwd" \in Targets /\ "fwd" \in Existing
    BY <1>5, KindFacts
  <2>2. \A k \in 1 .. per : v["fwd"][k] = memory["fwd"][o + k] + 1
    BY <1>1, <1>2, <1>5, <2>1
  <2>3. \A f \in 1 .. n :
          m["fwd"][f] = IF f - o \in 1 .. per THEN v["fwd"][f - o] ELSE memory["fwd"][f]
    BY <1>3, <2>1
  <2>4. \A f \in 1 .. n : o + (f - o) = f /\ (Hit(f, o, per) <=> f - o \in 1 .. per)
    BY ONLY o \in Nat, n \in Nat, per \in Nat DEF Hit
  <2> HIDE DEF m
  <2> QED BY ONLY <2>2, <2>3, <2>4
<1>6. ASSUME Has("in"), Has("out")
      PROVE \A f \in 1 .. n :
              m["out"][f] = IF Hit(f, o, per) THEN memory["in"][f] ELSE memory["out"][f]
  <2>1. "out" \in Targets /\ "in" \in Existing
    BY <1>6, KindFacts
  <2>2. \A k \in 1 .. per : v["out"][k] = memory["in"][o + k]
    BY <1>1, <1>2, <1>6, <2>1
  <2>3. \A f \in 1 .. n :
          m["out"][f] = IF f - o \in 1 .. per THEN v["out"][f - o] ELSE memory["out"][f]
    BY <1>3, <2>1
  <2>4. \A f \in 1 .. n : o + (f - o) = f /\ (Hit(f, o, per) <=> f - o \in 1 .. per)
    BY ONLY o \in Nat, n \in Nat, per \in Nat DEF Hit
  <2> HIDE DEF m
  <2> QED BY ONLY <2>2, <2>3, <2>4
<1> HIDE DEF m
<1>7. Effect(m, o, per)
  BY <1>4, <1>5, <1>6 DEF Effect
<1> QED BY <1>7 DEF m, new

\* Through the scratch memory: c frames go there, at frame a, and come back.
Placed(q, area, k) == \A s \in Existing : q[s] \in Place /\ q[s][1] = area /\ q[s][2] = k

Passed(given, wave, p, c) ==
    Copy(Codelet(Copy(Buffers, Sources, given, wave, c), p), Targets, wave, given, c)

LEMMA ThroughEffect ==
  ASSUME TypeOK, NEW n \in Nat, n = mod.n, NEW per \in Nat, per = mod.per,
         \A s \in Existing : Len(memory[s]) = n /\ Len(scratch[s]) = per,
         NEW o \in Nat, NEW c \in Nat, NEW a \in Nat, o + c <= n, a + c <= per,
         NEW given, Placed(given, "memory", o), NEW wave, Placed(wave, "scratch", a),
         NEW p, Placed(p, "scratch", 0)
  PROVE Effect(Passed(given, wave, p, c)["memory"], o, c)
<1> DEFINE b1 == Copy(Buffers, Sources, given, wave, c)
           b2 == Codelet(b1, p)
           b3 == Copy(b2, Targets, wave, given, c)
<1>a. b3 = Passed(given, wave, p, c) /\ b2 = Codelet(b1, p)
      /\ b1 = Copy(Buffers, Sources, given, wave, c) /\ b3 = Copy(b2, Targets, wave, given, c)
  BY DEF Passed
<1>b. \A s \in Existing :
        /\ Len(memory[s]) = n /\ Len(scratch[s]) = per
        /\ given[s] \in Place /\ given[s][1] = "memory" /\ given[s][2] = o
        /\ wave[s] \in Place /\ wave[s][1] = "scratch" /\ wave[s][2] = a
        /\ p[s] \in Place /\ p[s][1] = "scratch" /\ p[s][2] = 0
  BY DEF Placed
<1> HIDE DEF b1, b2, b3
<1> DEFINE B == Buffers
<1>1. /\ B \in [Areas -> Buffer] /\ B["memory"] = memory /\ B["scratch"] = scratch
      /\ "memory" \in Areas /\ "scratch" \in Areas
  BY BufferFacts
<1>2. PICK v1 : Copied(B, Sources, given, wave, c, v1, b1)
  <2>1. Sources \in SUBSET Existing /\ \A s \in Sources : given[s] \in Place
    BY <1>b, KindFacts
  <2> HIDE DEF B
  <2>2. b1 = Copy(B, Sources, given, wave, c)
    BY <1>a DEF B
  <2> QED BY ONLY <1>1, <2>1, <2>2, c \in Nat, Copying
<1> HIDE DEF B
<1>3. /\ Written(B, Sources, wave, v1, b1)
      /\ \A s \in Sources :
           /\ Len(v1[s]) = c
           /\ given[s][2] + c <= Len(B[given[s][1]][s]) =>
                \A k \in 1 .. c : v1[s][k] = B[given[s][1]][s][given[s][2] + k]
  BY <1>2 DEF Copied
<1>4. b1 \in [Areas -> Buffer]
  BY <1>3 DEF Written
<1>5. PICK v2 :
        /\ Written(b1, Targets, p, v2, b2)
        /\ \A s \in Targets : Len(v2[s]) = per
        /\ Has("fwd") /\ p["fwd"][2] + per <= Len(b1[p["fwd"][1]]["fwd"]) =>
             \A k \in 1 .. per : v2["fwd"][k] = b1[p["fwd"][1]]["fwd"][p["fwd"][2] + k] + 1
        /\ Has("in") /\ Has("out") /\ p["in"][2] + per <= Len(b1[p["in"][1]]["in"]) =>
             \A k \in 1 .. per : v2["out"][k] = b1[p["in"][1]]["in"][p["in"][2] + k]
  <2>1. \A s \in Existing : p[s] \in Place
    BY <1>b
  <2>2. Coded(b1, p, per, Codelet(b1, p))
    BY ONLY <1>4, <2>1, per \in Nat, per = mod.per, Coding
  <2>3. Coded(b1, p, per, b2)
    BY ONLY <1>a, <2>2
  <2> QED BY ONLY <2>3 DEF Coded
<1>6. b2 \in [Areas -> Buffer]
  BY <1>5 DEF Written
<1>7. PICK v3 : Copied(b2, Targets, wave, given, c, v3, b3)
  <2>1. Targets \in SUBSET Existing /\ \A s \in Targets : wave[s] \in Place
    BY <1>b, KindFacts
  <2> QED BY ONLY <1>a, <1>6, <2>1, c \in Nat, Copying
<1>8. /\ Written(b2, Targets, given, v3, b3)
      /\ \A s \in Targets :
           /\ Len(v3[s]) = c
           /\ wave[s][2] + c <= Len(b2[wave[s][1]][s]) =>
                \A k \in 1 .. c : v3[s][k] = b2[wave[s][1]][s][wave[s][2] + k]
  BY <1>7 DEF Copied
<1>9. ASSUME NEW s \in Existing
      PROVE /\ s \in Kinds
            /\ Len(b1["memory"][s]) = n /\ Len(b1["scratch"][s]) = per
            /\ Len(b2["memory"][s]) = n /\ Len(b2["scratch"][s]) = per
            /\ \A f \in 1 .. n : b2["memory"][s][f] = memory[s][f]
  <2>1. s \in Kinds /\ Len(B["memory"][s]) = n /\ Len(B["scratch"][s]) = per
    BY <1>b, <1>1, KindFacts
  <2>2. Len(b1["memory"][s]) = n /\ Len(b1["scratch"][s]) = per
    BY <1>1, <1>3, <2>1 DEF Written
  <2>3. Len(b2["memory"][s]) = n /\ Len(b2["scratch"][s]) = per
    BY <1>1, <1>5, <2>1, <2>2 DEF Written
  <2>4. s \in Sources => wave[s][1] # "memory"
    BY <1>b
  <2>5. s \in Targets => p[s][1] # "memory"
    BY <1>b
  <2>6. \A f \in 1 .. n : b1["memory"][s][f] = B["memory"][s][f]
    BY ONLY <1>1, <1>3, <2>1, <2>4 DEF Written
  <2>7. \A f \in 1 .. n : b2["memory"][s][f] = b1["memory"][s][f]
    BY ONLY <1>1, <1>5, <2>1, <2>2, <2>5 DEF Written
  <2> QED BY <1>1, <2>1, <2>2, <2>3, <2>6, <2>7
<1>10. ASSUME NEW s \in Sources
      PROVE \A k \in 1 .. c : b1["scratch"][s][a + k] = memory[s][o + k]
  <2>1. s \in Existing /\ s \in Kinds
    BY KindFacts
  <2>2. /\ wave[s][1] = "scratch" /\ wave[s][2] = a /\ Len(v1[s]) = c
        /\ Len(B["scratch"][s]) = per
    BY <1>b, <1>1, <1>3, <2>1
  <2>3. \A f \in 1 .. per :
          b1["scratch"][s][f] = IF f - a \in 1 .. c THEN v1[s][f - a] ELSE B["scratch"][s][f]
    BY ONLY <1>1, <1>3, <2>1, <2>2, s \in Sources DEF Written
  <2>4. \A k \in 1 .. c : v1[s][k] = memory[s][o + k]
    BY <1>b, <1>1, <1>3, <2>1
  <2>5. \A k \in 1 .. c : a + k \in 1 .. per /\ (a + k) - a = k
    OBVIOUS
  <2> QED BY ONLY <2>3, <2>4, <2>5
<1>11. ASSUME NEW s \in Targets
      PROVE /\ \A f \in 1 .. per : b2["scratch"][s][f] = v2[s][f]
            /\ \A f \in 1 .. n :
                 b3["memory"][s][f] = IF Hit(f, o, c) THEN v2[s][a + (f - o)] ELSE memory[s][f]
  <2>1. s \in Existing /\ s \in Kinds
    BY KindFacts
  <2>2. p[s][1] = "scratch" /\ p[s][2] = 0 /\ Len(v2[s]) = per /\ Len(b1["scratch"][s]) = per
    BY <1>b, <1>5, <1>9, <2>1
  <2>3. \A f \in 1 .. per : b2["scratch"][s][f] = v2[s][f]
    BY ONLY <1>1, <1>5, <2>1, <2>2, s \in Targets, per \in Nat DEF Written
  <2>4. given[s][1] = "memory" /\ given[s][2] = o /\ Len(v3[s]) = c
        /\ Len(b2["memory"][s]) = n
    BY <1>b, <1>8, <1>9, <2>1
  <2>5. \A f \in 1 .. n :
          b3["memory"][s][f] = IF f - o \in 1 .. c THEN v3[s][f - o] ELSE b2["memory"][s][f]
    BY ONLY <1>1, <1>8, <2>1, <2>4, s \in Targets DEF Written
  <2>6. \A k \in 1 .. c : v3[s][k] = v2[s][a + k]
    <3>1. wave[s][1] = "scratch" /\ wave[s][2] = a /\ Len(b2["scratch"][s]) = per
      BY <1>b, <1>9, <2>1
    <3>2. \A k \in 1 .. c : v3[s][k] = b2["scratch"][s][a + k]
      BY ONLY <1>8, <3>1, s \in Targets, a + c <= per
    <3>3. \A k \in 1 .. c : a + k \in 1 .. per
      OBVIOUS
    <3> QED BY ONLY <2>3, <3>2, <3>3
  <2>7. \A f \in 1 .. n : b2["memory"][s][f] = memory[s][f]
    BY <1>9, <2>1
  <2>8. \A f \in 1 .. n :
          b3["memory"][s][f] = IF Hit(f, o, c) THEN v2[s][a + (f - o)] ELSE memory[s][f]
    BY ONLY <2>5, <2>6, <2>7, o \in Nat, c \in Nat, n \in Nat DEF Hit
  <2> QED BY <2>3, <2>8
<1>12. ASSUME Has("in") PROVE \A f \in 1 .. n : b3["memory"]["in"][f] = memory["in"][f]
  <2>1. "in" \notin Targets /\ "in" \in Existing /\ "in" \in Kinds
    BY <1>12, KindFacts
  <2>2. /\ \A f \in 1 .. n : b2["memory"]["in"][f] = memory["in"][f]
        /\ Len(b2["memory"]["in"]) = n
    BY <1>9, <2>1
  <2>3. \A f \in 1 .. n : b3["memory"]["in"][f] = b2["memory"]["in"][f]
    BY ONLY <1>1, <1>8, <2>1, <2>2 DEF Written
  <2> QED BY <2>2, <2>3
<1>13. ASSUME Has("fwd")
       PROVE \A f \in 1 .. n :
               b3["memory"]["fwd"][f] = IF Hit(f, o, c) THEN memory["fwd"][f] + 1 ELSE memory["fwd"][f]
  <2>1. "fwd" \in Targets /\ "fwd" \in Sources /\ "fwd" \in Existing
    BY <1>13, KindFacts
  <2>2. \A k \in 1 .. per : v2["fwd"][k] = b1["scratch"]["fwd"][k] + 1
    <3>1. /\ p["fwd"][1] = "scratch" /\ p["fwd"][2] = 0
          /\ Len(b1["scratch"]["fwd"]) = per
      BY <1>b, <1>9, <2>1
    <3>2. \A k \in 1 .. per : v2["fwd"][k] = b1["scratch"]["fwd"][0 + k] + 1
      BY ONLY <1>5, <3>1, Has("fwd"), per \in Nat
    <3>3. \A k \in 1 .. per : 0 + k = k
      OBVIOUS
    <3> QED BY ONLY <3>2, <3>3
  <2>3. \A k \in 1 .. c : b1["scratch"]["fwd"][a + k] = memory["fwd"][o + k]
    BY <1>10, <2>1
  <2>4. \A f \in 1 .. n :
          b3["memory"]["fwd"][f] = IF Hit(f, o, c) THEN v2["fwd"][a + (f - o)] ELSE memory["fwd"][f]
    BY <1>11, <2>1
  <2>5. \A k \in 1 .. c : v2["fwd"][a + k] = memory["fwd"][o + k] + 1
    <3>1. \A k \in 1 .. c : a + k \in 1 .. per
      OBVIOUS
    <3> QED BY ONLY <2>2, <2>3, <3>1
  <2>6. \A f \in 1 .. n : Hit(f, o, c) => f - o \in 1 .. c /\ o + (f - o) = f
    BY DEF Hit
  <2> QED BY ONLY <2>4, <2>5, <2>6
<1>14. ASSUME Has("in"), Has("out")
       PROVE \A f \in 1 .. n :
               b3["memory"]["out"][f] = IF Hit(f, o, c) THEN memory["in"][f] ELSE memory["out"][f]
  <2>1. "out" \in Targets /\ "in" \in Sources /\ "in" \in Existing
    BY <1>14, KindFacts
  <2>2. \A k \in 1 .. per : v2["out"][k] = b1["scratch"]["in"][k]
    <3>1. /\ p["in"][1] = "scratch" /\ p["in"][2] = 0
          /\ Len(b1["scratch"]["in"]) = per
      BY <1>b, <1>9, <2>1
    <3>2. \A k \in 1 .. per : v2["out"][k] = b1["scratch"]["in"][0 + k]
      BY ONLY <1>5, <3>1, Has("in"), Has("out"), per \in Nat
    <3>3. \A k \in 1 .. per : 0 + k = k
      OBVIOUS
    <3> QED BY ONLY <3>2, <3>3
  <2>3. \A k \in 1 .. c : b1["scratch"]["in"][a + k] = memory["in"][o + k]
    BY <1>10, <2>1
  <2>4. \A f \in 1 .. n :
          b3["memory"]["out"][f] = IF Hit(f, o, c) THEN v2["out"][a + (f - o)] ELSE memory["out"][f]
    BY <1>11, <2>1
  <2>5. \A k \in 1 .. c : v2["out"][a + k] = memory["in"][o + k]
    <3>1. \A k \in 1 .. c : a + k \in 1 .. per
      OBVIOUS
    <3> QED BY ONLY <2>2, <2>3, <3>1
  <2>6. \A f \in 1 .. n : Hit(f, o, c) => f - o \in 1 .. c /\ o + (f - o) = f
    BY DEF Hit
  <2> QED BY ONLY <2>4, <2>5, <2>6
<1> DEFINE m == b3["memory"]
<1> HIDE DEF m
<1>15. Effect(m, o, c)
  BY <1>12, <1>13, <1>14 DEF Effect, m
<1> QED BY <1>a, <1>15 DEF m

(***************************************************************************)
(* A wave of an execution.                                                 *)
(***************************************************************************)
Items == [w : Nat, how : Hows, frame : Int]
Through == {"single", "rest"}

\* The wave number w of a module is w * per .. w * per + per - 1, up to n.
OfWave(f, w, per) == f \div per = w
Begins(o, w, per) == o = w * per

LEMMA FramesOfWave ==
  ASSUME NEW n \in Nat \ {0}, NEW per \in Nat \ {0}, NEW w \in Nat, NEW o \in Nat, Begins(o, w, per),
         NEW c \in Nat, c <= per, o + c <= n, c < per => o + c = n,
         NEW f \in 1 .. n
  PROVE OfWave(f - 1, w, per) <=> Hit(f, o, c)
<1>1. f - 1 \in Nat /\ f \in Nat
  OBVIOUS
<1>2. (f - 1) \div per = w <=> w * per <= f - 1 /\ f - 1 < w * per + per
  BY ONLY <1>1, per \in Nat \ {0}, w \in Nat, QuotientUnique
<1>3. (f - 1) \div per = w <=> o <= f - 1 /\ f - 1 < o + per
  BY ONLY <1>2, Begins(o, w, per) DEF Begins
<1> DEFINE q == (f - 1) \div per
<1> HIDE DEF q
<1>4. q = w <=> o <= f - 1 /\ f - 1 < o + per
  BY <1>3 DEF q
<1>5. q = w <=> Hit(f, o, c)
  BY ONLY <1>1, <1>4, f \in 1 .. n, n \in Nat, per \in Nat, o \in Nat, c \in Nat, c <= per,
          o + c <= n, c < per => o + c = n DEF Hit
<1> QED BY <1>5 DEF q, OfWave

LEMMA ModuleFacts ==
  ASSUME TypeOK, Numbered(mod)
  PROVE /\ mod.n \in Nat \ {0} /\ mod.n <= FloatExact /\ mod.per \in Nat \ {0} /\ mod.waves = Waves(mod.n, mod.per)
        /\ mod.n \in 1 .. MaxFrames /\ mod.per \in 1 .. MaxFrames
        /\ mod.rest = mod.n % mod.per /\ mod.rest \in Nat
        /\ mod.waves \in Nat \ {0}
<1>1. /\ mod.n \in 1 .. MaxFrames /\ mod.per \in 1 .. MaxFrames
      /\ mod.rest \in Nat /\ mod.waves \in Nat
  BY DEF TypeOK, Mods
<1>2. mod.n \in Nat \ {0} /\ mod.n <= FloatExact /\ mod.per \in Nat \ {0}
  BY <1>1, BoundFacts
<1>3. mod.rest = mod.n % mod.per /\ mod.waves = Waves(mod.n, mod.per)
  BY DEF Numbered
<1>4. mod.waves \in Nat \ {0}
  BY ONLY <1>2, <1>3, WaveNumbers
<1> QED BY <1>1, <1>2, <1>3, <1>4

\* A wave through the scratch memory: what is copied fits on both sides, and is what
\* the wave stands for.
LEMMA PartFacts ==
  ASSUME TypeOK, Numbered(mod), NEW e \in Items, Fitting(e), e.how \in Through,
         NEW o, o = Part(e).out, NEW a, a = Part(e).at, NEW c, c = Part(e).n
  PROVE /\ o \in Nat /\ a \in Nat /\ c \in Nat
        /\ o + c <= mod.n /\ a + c <= mod.per /\ mod.per > 1
        /\ \A f \in 1 .. mod.n : f - 1 \in Meant(e) <=> Hit(f, o, c)
<1> DEFINE n == mod.n
           per == mod.per
           W == mod.waves
           rest == mod.rest
           w == e.w
<1>1. /\ n \in Nat \ {0} /\ n <= FloatExact /\ per \in Nat \ {0} /\ W = Waves(n, per) /\ W \in Nat \ {0}
      /\ rest = n % per /\ rest \in Nat
  BY ModuleFacts
<1>2. w \in Nat /\ e.frame \in Int /\ w < W
  BY DEF Items, Fitting
<1>3. ASSUME e.how = "single"
      PROVE /\ o \in Nat /\ a \in Nat /\ c \in Nat
            /\ o + c <= n /\ a + c <= per /\ per > 1
            /\ \A f \in 1 .. n : f - 1 \in Meant(e) <=> Hit(f, o, c)
  <2>1. e.frame \in Nat /\ per > 1
    BY <1>2, <1>3 DEF Fitting
  <2>2. o = e.frame % n /\ a = e.frame % per /\ c = 1
    BY <1>3 DEF Part
  <2>3. Meant(e) = {o}
    BY <1>3, <2>2 DEF Meant
  <2> HIDE DEF n, per, W, rest, w
  <2>4. e.frame % n \in 0 .. n - 1 /\ e.frame % per \in 0 .. per - 1
    BY ONLY <1>1, <2>1, WaveOfFrame
  <2>5. o \in 0 .. n - 1 /\ a \in 0 .. per - 1
    BY ONLY <2>2, <2>4
  <2>6. \A f \in 1 .. n : f - 1 \in Meant(e) <=> Hit(f, o, c)
    BY ONLY <1>1, <2>2, <2>3, <2>5 DEF Hit
  <2> QED BY ONLY <1>1, <2>1, <2>2, <2>5, <2>6
<1>4. ASSUME e.how = "rest"
      PROVE /\ o \in Nat /\ a \in Nat /\ c \in Nat
            /\ o + c <= n /\ a + c <= per /\ per > 1
            /\ \A f \in 1 .. n : f - 1 \in Meant(e) <=> Hit(f, o, c)
  <2>1. o = w * per /\ a = 0 /\ c = rest
    BY <1>4 DEF Part
  <2>2. w = W - 1 /\ rest # 0
    BY <1>4 DEF Fitting
  <2>3. Meant(e) = {f \in 0 .. n - 1 : f \div per = w}
    BY <1>4 DEF Meant
  <2> HIDE DEF n, per, W, rest, w
  <2>4. /\ (W - 1) * per \in Nat /\ n % per < per
        /\ n % per # 0 => n = (W - 1) * per + (n % per)
    BY ONLY <1>1, WaveNumbers
  <2>5. o \in Nat /\ c \in Nat /\ c # 0 /\ c < per /\ o + c = n
    BY ONLY <1>1, <2>1, <2>2, <2>4
  <2>6. \A f \in 1 .. n : OfWave(f - 1, w, per) <=> Hit(f, o, c)
    <3>1. /\ n \in Nat \ {0} /\ per \in Nat \ {0} /\ w \in Nat /\ o \in Nat /\ Begins(o, w, per)
          /\ c \in Nat /\ c <= per /\ o + c <= n /\ (c < per => o + c = n)
      BY ONLY <1>1, <1>2, <2>1, <2>5 DEF Begins
    <3> QED BY ONLY <3>1, FramesOfWave
  <2>7. \A f \in 1 .. n : f - 1 \in Meant(e) <=> OfWave(f - 1, w, per)
    BY ONLY <1>1, <2>3 DEF OfWave
  <2> QED BY ONLY <1>1, <2>1, <2>5, <2>6, <2>7
<1> QED BY <1>3, <1>4 DEF Through

\* The other waves are where the user put the data.
Start(e) == IF e.how = "direct" THEN 0 ELSE e.w * mod.per

LEMMA StartFacts ==
  ASSUME TypeOK, Numbered(mod), NEW e \in Items, Fitting(e), e.how \notin Through,
         NEW o, o = Start(e)
  PROVE /\ o \in Nat /\ o + mod.per <= mod.n
        /\ \A f \in 1 .. mod.n : f - 1 \in Meant(e) <=> Hit(f, o, mod.per)
<1> DEFINE n == mod.n
           per == mod.per
           W == mod.waves
           rest == mod.rest
           w == e.w
<1>1. /\ n \in Nat \ {0} /\ n <= FloatExact /\ per \in Nat \ {0} /\ W = Waves(n, per) /\ W \in Nat \ {0}
      /\ rest = n % per /\ rest \in Nat
  BY ModuleFacts
<1>2. w \in Nat /\ w < W /\ (e.how = "direct" \/ e.how = "shift")
  BY DEF Items, Fitting, Hows, Through
<1>3. CASE e.how = "direct"
  <2>1. o = 0 /\ per <= n /\ Meant(e) = 0 .. per - 1
    BY <1>3 DEF Start, Fitting, Meant
  <2> HIDE DEF n, per, W, rest, w
  <2>2. \A f \in 1 .. n : f - 1 \in Meant(e) <=> Hit(f, o, per)
    BY ONLY <1>1, <2>1 DEF Hit
  <2>3. o \in Nat /\ o + per <= n
    BY ONLY <1>1, <2>1
  <2> QED BY <2>2, <2>3 DEF n, per
<1>4. CASE e.how = "shift"
  <2>1. o = w * per /\ (w # W - 1 \/ rest = 0)
    BY <1>4 DEF Start, Fitting
  <2>2. Meant(e) = {f \in 0 .. n - 1 : f \div per = w}
    BY <1>4 DEF Meant
  <2> HIDE DEF n, per, W, rest, w
  <2>3. w * per \in Nat /\ w * per + per <= n
    <3>1. w # W - 1 \/ n % per = 0
      BY ONLY <1>1, <2>1
    <3> QED BY ONLY <1>1, <1>2, <3>1, WholeWave
  <2>4. o \in Nat /\ o + per <= n
    BY ONLY <2>1, <2>3
  <2>5. \A f \in 1 .. n : OfWave(f - 1, w, per) <=> Hit(f, o, per)
    <3>1. per \in Nat /\ per <= per /\ ~ (per < per) /\ Begins(o, w, per)
      BY ONLY <1>1, <2>1 DEF Begins
    <3> QED BY <1>1, <1>2, <2>4, <3>1, FramesOfWave
  <2>6. \A f \in 1 .. n : f - 1 \in Meant(e) <=> OfWave(f - 1, w, per)
    BY ONLY <1>1, <2>2 DEF OfWave
  <2>7. \A f \in 1 .. n : f - 1 \in Meant(e) <=> Hit(f, o, per)
    BY ONLY <2>5, <2>6
  <2> QED BY <2>4, <2>7 DEF n, per
<1> QED BY <1>2, <1>3, <1>4

\* The pointers that a wave starts from are there.
Pointing(e) == \A s \in Existing : IF e.how = "direct" THEN ptr[s] # Null ELSE saved[s] # Null

LEMMA PointersFacts ==
  ASSUME TypeOK, Numbered(mod), NEW e \in Items, Fitting(e), Pointing(e)
  PROVE /\ Pointers(e) \in [Kinds -> Pointer]
        /\ \A s \in Existing : Pointers(e)[s] \in Place
        /\ \A s \in Kinds : ~ Has(s) => Pointers(e)[s] = ptr[s]
        /\ e.how # "direct" => \A s \in Existing : saved[s] \in Place
<1>1. ptr \in [Kinds -> Pointer] /\ saved \in [Kinds -> Pointer]
  BY DEF TypeOK
<1>2. \A s \in Existing : s \in Kinds /\ Has(s)
  BY KindFacts
<1>3. \A s \in Existing : IF e.how = "direct" THEN ptr[s] \in Place ELSE saved[s] \in Place
  BY <1>1, <1>2 DEF Pointing, Pointer
<1>4. e.w * mod.per \in Nat
  <2>1. e.w \in Nat /\ mod.per \in Nat
    BY ModuleFacts DEF Items
  <2> QED BY <2>1
<1> DEFINE k == e.w * mod.per
           p == Pointers(e)
<1>5. p = [s \in Kinds |-> IF ~ Has(s) \/ e.how = "direct" THEN ptr[s]
                           ELSE IF e.how = "shift" THEN From(saved[s], k) ELSE InScratch]
  BY DEF Pointers
<1> HIDE DEF k, p
<1>6. ASSUME NEW s \in Existing PROVE p[s] \in Place
  <2>1. p[s] = IF e.how = "direct" THEN ptr[s]
               ELSE IF e.how = "shift" THEN From(saved[s], k) ELSE InScratch
    BY <1>2, <1>5
  <2>2. e.how # "direct" => From(saved[s], k) \in Place
    BY <1>3, <1>4, PointerFacts DEF k
  <2> QED BY <1>3, <2>1, <2>2, PointerFacts
<1>7. \A s \in Kinds : ~ Has(s) => p[s] = ptr[s]
  BY <1>5
<1>8. p \in [Kinds -> Pointer]
  <2>1. \A s \in Kinds : p[s] \in Pointer
    BY <1>1, <1>6, <1>7, KindFacts DEF Pointer
  <2>2. p = [s \in Kinds |-> p[s]]
    BY <1>5
  <2> QED BY <2>1, <2>2
<1> QED BY <1>3, <1>6, <1>7, <1>8 DEF p

\* A wave leaves the buffers as long as they are.
Alike(b) ==
    /\ b \in [Areas -> Buffer]
    /\ \A a \in Areas, s \in Kinds : Len(b[a][s]) = Len(Buffers[a][s])

AfterCodelet(e) == Codelet(CopyIn(Buffers, e), Pointers(e))
AfterWave(e) == CopyOut(AfterCodelet(e), e)

LEMMA AlikeAfter ==
  ASSUME TypeOK, Numbered(mod), NEW e \in Items, Fitting(e), Pointing(e)
  PROVE /\ Alike(CopyIn(Buffers, e)) /\ Alike(AfterWave(e))
        /\ \A s \in Kinds : \A f \in 1 .. Len(memory[s]) :
             CopyIn(Buffers, e)["memory"][s][f] = memory[s][f]
<1> DEFINE b1 == CopyIn(Buffers, e)
           b2 == AfterCodelet(e)
           b3 == AfterWave(e)
           p == Pointers(e)
           o == Part(e).out
           a == Part(e).at
           c == Part(e).n
<1>1. /\ Buffers \in [Areas -> Buffer] /\ Buffers["memory"] = memory /\ "memory" \in Areas
      /\ Alike(Buffers)
  BY BufferFacts DEF Alike
<1>2. \A s \in Existing : p[s] \in Place
  BY PointersFacts
<1>3. mod.per \in Nat
  BY ModuleFacts
<1>4. b2 = Codelet(b1, p)
  BY DEF AfterCodelet
<1>5. e.how \in Through => o \in Nat /\ a \in Nat /\ c \in Nat
  BY PartFacts
<1>6. ASSUME e.how \in Through
      PROVE /\ b1 = Copy(Buffers, Sources, InUser(e), InWave(e), c)
            /\ b3 = Copy(b2, Targets, InWave(e), InUser(e), c)
            /\ \A s \in Existing :
                 /\ InUser(e)[s] \in Place /\ InUser(e)[s][1] = saved[s][1]
                 /\ InUser(e)[s][2] = saved[s][2] + o
                 /\ InWave(e)[s] \in Place /\ InWave(e)[s][1] = "scratch"
                 /\ InWave(e)[s][2] = a
  <2>1. b1 = Copy(Buffers, Sources, InUser(e), InWave(e), c)
    BY <1>6 DEF CopyIn, ThroughScratch, Through, Sources
  <2>2. b3 = Copy(b2, Targets, InWave(e), InUser(e), c)
    BY <1>6 DEF CopyOut, AfterWave, ThroughScratch, Through, Targets
  <2>3. e.how # "direct"
    BY <1>6 DEF Through
  <2>4. \A s \in Existing : saved[s] \in Place
    BY <2>3, PointersFacts
  <2>5. \A s \in Existing : InUser(e)[s] = From(saved[s], o) /\ InWave(e)[s] = From(InScratch, a)
    BY DEF InUser, InWave
  <2> HIDE DEF o, a, c
  <2>6. o \in Nat /\ a \in Nat /\ c \in Nat
    BY <1>5, <1>6
  <2>7. ASSUME NEW s \in Existing
        PROVE /\ InUser(e)[s] \in Place /\ InUser(e)[s][1] = saved[s][1]
              /\ InUser(e)[s][2] = saved[s][2] + o
              /\ InWave(e)[s] \in Place /\ InWave(e)[s][1] = "scratch"
              /\ InWave(e)[s][2] = a
    <3> DEFINE q == From(saved[s], o)  r == From(InScratch, a)
    <3>1. q \in Place /\ q[1] = saved[s][1] /\ q[2] = saved[s][2] + o
      BY <2>4, <2>6, PointerFacts
    <3>2. r \in Place /\ r[1] = "scratch" /\ r[2] = 0 + a
      BY <2>6, PointerFacts
    <3>3. InUser(e)[s] = q /\ InWave(e)[s] = r
      BY <2>5
    <3> HIDE DEF q, r
    <3> QED BY ONLY <2>6, <3>1, <3>2, <3>3
  <2> QED BY <2>1, <2>2, <2>7
<1>7. ASSUME e.how \notin Through PROVE b1 = Buffers /\ b3 = b2
  BY <1>7 DEF CopyIn, CopyOut, AfterWave, ThroughScratch, Through
<1> HIDE DEF b1, b2, b3, p, o, a, c
<1>8. /\ Alike(b1)
      /\ \A s \in Kinds : \A f \in 1 .. Len(memory[s]) : b1["memory"][s][f] = memory[s][f]
  <2>1. CASE e.how \in Through
    <3>1. Sources \in SUBSET Existing /\ \A s \in Sources : InUser(e)[s] \in Place
      BY <1>6, <2>1, KindFacts
    <3>2. b1 = Copy(Buffers, Sources, InUser(e), InWave(e), c) /\ c \in Nat
      BY <1>5, <1>6, <2>1
    <3>3. PICK v : Copied(Buffers, Sources, InUser(e), InWave(e), c, v, b1)
      BY ONLY <1>1, <3>1, <3>2, Copying
    <3>4. Written(Buffers, Sources, InWave(e), v, b1)
      BY <3>3 DEF Copied
    <3>5. \A s \in Sources : InWave(e)[s][1] # "memory"
      BY <1>6, <2>1, <3>1
    <3>6. Alike(b1)
      BY ONLY <3>4 DEF Written, Alike
    <3>7. \A s \in Kinds : \A f \in 1 .. Len(Buffers["memory"][s]) :
            b1["memory"][s][f] = Buffers["memory"][s][f]
      BY ONLY <1>1, <3>4, <3>5 DEF Written
    <3> QED BY <1>1, <3>6, <3>7
  <2>2. CASE e.how \notin Through
    BY <1>1, <1>7, <2>2
  <2> QED BY <2>1, <2>2
<1>9. Alike(b2)
  <2>1. b1 \in [Areas -> Buffer]
    BY <1>8 DEF Alike
  <2>2. PICK n \in Nat : n = mod.per
    BY <1>3
  <2>3. Coded(b1, p, n, Codelet(b1, p))
    BY ONLY <1>2, <2>1, <2>2, Coding
  <2>4. PICK v : Written(b1, Targets, p, v, b2)
    BY ONLY <1>4, <2>3 DEF Coded
  <2> QED BY ONLY <1>8, <2>4 DEF Written, Alike
<1>10. Alike(b3)
  <2>1. CASE e.how \in Through
    <3>1. Targets \in SUBSET Existing /\ \A s \in Targets : InWave(e)[s] \in Place
      BY <1>6, <2>1, KindFacts
    <3>2. b3 = Copy(b2, Targets, InWave(e), InUser(e), c) /\ c \in Nat
      BY <1>5, <1>6, <2>1
    <3>3. b2 \in [Areas -> Buffer]
      BY <1>9 DEF Alike
    <3>4. PICK v : Copied(b2, Targets, InWave(e), InUser(e), c, v, b3)
      BY ONLY <3>1, <3>2, <3>3, Copying
    <3>5. Written(b2, Targets, InUser(e), v, b3)
      BY <3>4 DEF Copied
    <3> QED BY ONLY <1>9, <3>5 DEF Written, Alike
  <2>2. CASE e.how \notin Through
    BY <1>7, <1>9, <2>2
  <2> QED BY <2>1, <2>2
<1> QED BY <1>8, <1>10 DEF b1, b3

\* The user's pointers are where the user has put them, and the buffers have their size.
Ready(e) ==
    /\ Pointing(e)
    /\ \A s \in Existing :
        /\ (IF e.how = "direct" THEN ptr[s] ELSE saved[s]) = Home
        /\ Len(memory[s]) = mod.n /\ Len(scratch[s]) = ScratchSize(mod.per)
    /\ Len(status) = mod.waves

\* The frames that a wave stands for are those whose data it changes.
LEMMA WaveEffect ==
  ASSUME TypeOK, Numbered(mod), NEW e \in Items, Fitting(e), Ready(e)
  PROVE \E o \in Nat, c \in Nat :
          /\ Effect(AfterWave(e)["memory"], o, c)
          /\ \A f \in 1 .. mod.n : f - 1 \in Meant(e) <=> Hit(f, o, c)
<1> DEFINE n == mod.n
           per == mod.per
           p == Pointers(e)
           b2 == AfterCodelet(e)
           b3 == AfterWave(e)
<1>1. n \in Nat /\ per \in Nat
  BY ModuleFacts
<1>2. \A s \in Existing : /\ (IF e.how = "direct" THEN ptr[s] ELSE saved[s]) = Home
                          /\ Len(memory[s]) = n /\ Len(scratch[s]) = ScratchSize(per)
                          /\ p[s] \in Place /\ s \in Kinds /\ Has(s)
  BY PointersFacts, KindFacts DEF Ready
<1>3. CASE e.how \notin Through
  <2> DEFINE o == Start(e)
  <2>1. /\ o \in Nat /\ o + per <= n
        /\ \A f \in 1 .. n : f - 1 \in Meant(e) <=> Hit(f, o, per)
    BY <1>3, StartFacts
  <2>2. b3 = Codelet(Buffers, p)
    BY <1>3 DEF AfterWave, AfterCodelet, CopyIn, CopyOut, ThroughScratch, Through
  <2>3. ASSUME NEW s \in Existing PROVE p[s][1] = "memory" /\ p[s][2] = o
    <3>1. s \in Kinds /\ Has(s)
      BY <1>2
    <3>2. CASE e.how = "direct"
      <4>1. p[s] = Home
        BY <1>2, <3>1, <3>2 DEF Pointers
      <4>2. o = 0
        BY <3>2 DEF Start
      <4> QED BY <4>1, <4>2, PointerFacts
    <3>3. CASE e.how # "direct"
      <4>1. e.how = "shift"
        BY <1>3, <3>3 DEF Through, Items, Hows
      <4>2. o = e.w * per
        BY <3>3 DEF Start
      <4>3. p[s] = From(Home, o)
        BY <1>2, <3>1, <4>1, <4>2 DEF Pointers
      <4> HIDE DEF p, o
      <4>4. From(Home, o)[1] = "memory" /\ From(Home, o)[2] = 0 + o
        BY <2>1, PointerFacts
      <4> QED BY <2>1, <4>3, <4>4
    <3> QED BY <3>2, <3>3
  <2> HIDE DEF o, p, n, per
  <2>4. Effect(Codelet(Buffers, p)["memory"], o, per)
    <3>1. \A s \in Existing : /\ Len(memory[s]) = n
                              /\ p[s] \in Place /\ p[s][1] = "memory" /\ p[s][2] = o
      BY <1>2, <2>3
    <3>2. n = mod.n /\ per = mod.per
      BY DEF n, per
    <3> QED BY ONLY TypeOK, <1>1, <2>1, <3>1, <3>2, DirectEffect
  <2> QED BY <1>1, <2>1, <2>2, <2>4 DEF n, per
<1>4. CASE e.how \in Through
  <2> DEFINE o == Part(e).out
             a == Part(e).at
             c == Part(e).n
             there == InUser(e)
             wave == InWave(e)
             b1 == CopyIn(Buffers, e)
  <2>1. /\ o \in Nat /\ a \in Nat /\ c \in Nat /\ o + c <= n /\ a + c <= per /\ per > 1
        /\ \A f \in 1 .. n : f - 1 \in Meant(e) <=> Hit(f, o, c)
    BY <1>4, PartFacts
  <2>2. /\ b1 = Copy(Buffers, Sources, there, wave, c)
        /\ b2 = Codelet(b1, p)
        /\ b3 = Copy(b2, Targets, wave, there, c)
    BY <1>4 DEF AfterWave, AfterCodelet, CopyIn, CopyOut, ThroughScratch, Through, Sources, Targets
  <2>3. e.how # "direct" /\ e.how # "shift"
    BY <1>4 DEF Through
  <2>4. ASSUME NEW s \in Existing
        PROVE /\ there[s] = From(Home, o) /\ wave[s] = From(InScratch, a) /\ p[s] = InScratch
              /\ Len(scratch[s]) = per
    <3>1. s \in Kinds /\ Has(s) /\ saved[s] = Home
      BY <1>2, <2>3
    <3>2. Len(scratch[s]) = per
      BY <1>2, <2>1 DEF ScratchSize
    <3> QED BY <2>3, <3>1, <3>2 DEF InUser, InWave, Pointers
  <2> HIDE DEF o, a, c, p, n, per, there, wave, b1, b2, b3
  <2>5. /\ From(Home, o) \in Place /\ From(Home, o)[1] = "memory" /\ From(Home, o)[2] = o
        /\ From(InScratch, a) \in Place /\ From(InScratch, a)[1] = "scratch"
        /\ From(InScratch, a)[2] = a
        /\ InScratch \in Place /\ InScratch[1] = "scratch" /\ InScratch[2] = 0
    <3>a. o \in Nat /\ a \in Nat
      BY <2>1
    <3>1. o \in Nat /\ a \in Nat /\ 0 + o = o /\ 0 + a = a
      BY ONLY <3>a
    <3>2. From(Home, o) \in Place /\ From(Home, o)[1] = "memory" /\ From(Home, o)[2] = 0 + o
      BY ONLY <3>1, PointerFacts
    <3>3. /\ From(InScratch, a) \in Place /\ From(InScratch, a)[1] = "scratch"
          /\ From(InScratch, a)[2] = 0 + a
      BY ONLY <3>1, PointerFacts
    <3> QED BY ONLY <3>1, <3>2, <3>3, PointerFacts
  <2>6. \A s \in Existing : Len(memory[s]) = n /\ Len(scratch[s]) = per
    BY <1>2, <2>4
  <2>7. Placed(there, "memory", o) /\ Placed(wave, "scratch", a) /\ Placed(p, "scratch", 0)
    BY <2>4, <2>5 DEF Placed
  <2>8. n = mod.n /\ per = mod.per
    BY DEF n, per
  <2>9. Effect(Passed(there, wave, p, c)["memory"], o, c)
    BY ONLY TypeOK, <1>1, <2>1, <2>6, <2>7, <2>8, ThroughEffect
  <2>10. b3 = Passed(there, wave, p, c)
    BY <2>2 DEF Passed
  <2> QED BY <2>1, <2>8, <2>9, <2>10 DEF b3
<1> QED BY <1>3, <1>4

\* Such a wave stays inside the buffers.
LEMMA WaveStays ==
  ASSUME TypeOK, Numbered(mod), NEW e \in Items, Fitting(e), Ready(e)
  PROVE WaveInside(e, Pointers(e))
<1> DEFINE n == mod.n
           per == mod.per
           p == Pointers(e)
<1>1. n \in Nat /\ per \in Nat
  BY ModuleFacts
<1>2. \A s \in Existing : /\ (IF e.how = "direct" THEN ptr[s] ELSE saved[s]) = Home
                          /\ Len(memory[s]) = n /\ Len(scratch[s]) = ScratchSize(per)
                          /\ s \in Kinds /\ Has(s)
  BY KindFacts DEF Ready
<1>3. ASSUME NEW s \in Existing
      PROVE /\ Buffers["memory"][s] \in Seq(Int) /\ DOMAIN Buffers["memory"][s] = 1 .. n
            /\ Buffers["scratch"][s] \in Seq(Int)
            /\ DOMAIN Buffers["scratch"][s] = 1 .. ScratchSize(per)
  <2>1. memory[s] \in Seq(Int) /\ scratch[s] \in Seq(Int)
    BY KindFacts DEF TypeOK, Buffer
  <2>2. DOMAIN memory[s] = 1 .. n /\ DOMAIN scratch[s] = 1 .. ScratchSize(per)
    BY <1>2, <2>1, SeqFacts
  <2> QED BY <2>1, <2>2, BufferFacts
<1>4. e.w + 1 \in DOMAIN status
  <2>1. e.w \in Nat /\ e.w < mod.waves /\ mod.waves \in Nat
    BY ModuleFacts DEF Items, Fitting
  <2>2. DOMAIN status = 1 .. mod.waves
    BY DEF TypeOK, IsSeq, Ready
  <2> QED BY <2>1, <2>2
<1>5. ASSUME NEW s \in Existing, NEW o \in Nat, NEW c \in Nat, o + c <= n,
             NEW k \in 0 .. c - 1
      PROVE Inside(Buffers, s, From(From(Home, o), k))
  <2> DEFINE q == From(Home, o)
             r == From(q, k)
  <2>1. q \in Place /\ q[1] = "memory" /\ q[2] = 0 + o
    BY PointerFacts
  <2> HIDE DEF q
  <2>2. k \in Nat /\ r[1] = q[1] /\ r[2] = q[2] + k
    <3>1. k \in Nat
      OBVIOUS
    <3> QED BY ONLY <2>1, <3>1, PointerFacts
  <2> HIDE DEF r
  <2>3. Inside(Buffers, s, r) <=> r[2] + 1 \in DOMAIN Buffers[r[1]][s]
    BY DEF Inside
  <2>4. r[1] = "memory" /\ r[2] + 1 \in 1 .. n
    BY ONLY <1>1, <2>1, <2>2, o \in Nat, c \in Nat, o + c <= n, k \in 0 .. c - 1
  <2>5. Inside(Buffers, s, r)
    BY <1>3, <2>3, <2>4
  <2> QED BY <2>5 DEF r, q
<1>6. ASSUME NEW s \in Existing, NEW a \in Nat, NEW c \in Nat, a + c <= per, per > 1,
             NEW k \in 0 .. c - 1
      PROVE Inside(Buffers, s, From(From(InScratch, a), k))
  <2> DEFINE q == From(InScratch, a)
             r == From(q, k)
  <2>1. q \in Place /\ q[1] = "scratch" /\ q[2] = 0 + a
    BY PointerFacts
  <2> HIDE DEF q
  <2>2. k \in Nat /\ r[1] = q[1] /\ r[2] = q[2] + k
    <3>1. k \in Nat
      OBVIOUS
    <3> QED BY ONLY <2>1, <3>1, PointerFacts
  <2> HIDE DEF r
  <2>3. Inside(Buffers, s, r) <=> r[2] + 1 \in DOMAIN Buffers[r[1]][s]
    BY DEF Inside
  <2>4. r[1] = "scratch" /\ r[2] + 1 \in 1 .. ScratchSize(per)
    BY ONLY <1>1, <2>1, <2>2, a \in Nat, c \in Nat, a + c <= per, per > 1, k \in 0 .. c - 1
       DEF ScratchSize
  <2>5. Inside(Buffers, s, r)
    BY <1>3, <2>3, <2>4
  <2> QED BY <2>5 DEF r, q
<1>7. CASE e.how \notin Through
  <2> DEFINE o == Start(e)
  <2>1. o \in Nat /\ o + per <= n
    BY <1>7, StartFacts
  <2>2. ASSUME NEW s \in Existing PROVE p[s] = From(Home, o)
    <3>1. s \in Kinds /\ Has(s)
      BY <1>2
    <3>2. CASE e.how = "direct"
      <4>1. p[s] = Home /\ o = 0
        BY <1>2, <3>1, <3>2 DEF Pointers, Start
      <4>2. From(Home, 0) = Home
        BY DEF From, Home
      <4> QED BY <4>1, <4>2
    <3>3. CASE e.how # "direct"
      <4>1. e.how = "shift"
        BY <1>7, <3>3 DEF Through, Items, Hows
      <4> QED BY <1>2, <3>1, <4>1 DEF Pointers, Start
    <3> QED BY <3>2, <3>3
  <2> HIDE DEF o, p, n, per
  <2>3. \A s \in Existing : \A k \in 0 .. per - 1 : Inside(Buffers, s, From(p[s], k))
    BY <1>1, <1>5, <2>1, <2>2
  <2>4. ~ ThroughScratch(e)
    BY <1>7 DEF ThroughScratch, Through
  <2> QED BY <1>4, <2>3, <2>4 DEF WaveInside, p, per
<1>8. CASE e.how \in Through
  <2> DEFINE o == Part(e).out
             a == Part(e).at
             c == Part(e).n
  <2>1. o \in Nat /\ a \in Nat /\ c \in Nat /\ o + c <= n /\ a + c <= per /\ per > 1
    BY <1>8, PartFacts
  <2>2. e.how # "direct" /\ e.how # "shift"
    BY <1>8 DEF Through
  <2>3. ASSUME NEW s \in Existing PROVE p[s] = From(InScratch, 0) /\ saved[s] = Home
    <3>1. From(InScratch, 0) = InScratch
      BY DEF From, InScratch
    <3> QED BY <1>2, <2>2, <3>1 DEF Pointers
  <2> HIDE DEF o, a, c, p, n, per
  <2>4. \A s \in Existing : \A k \in 0 .. per - 1 : Inside(Buffers, s, From(p[s], k))
    BY <1>1, <1>6, <2>1, <2>3
  <2>5. ASSUME NEW s \in Existing, NEW k \in 0 .. c - 1
        PROVE /\ Inside(Buffers, s, From(saved[s], o + k))
              /\ Inside(Buffers, s, From(InScratch, a + k))
    <3>1. From(From(Home, o), k) = From(Home, o + k)
      BY <2>1 DEF From, Home
    <3>2. From(From(InScratch, a), k) = From(InScratch, a + k)
      BY <2>1 DEF From, InScratch
    <3>3. Inside(Buffers, s, From(From(Home, o), k))
      BY <1>5, <2>1
    <3>4. Inside(Buffers, s, From(From(InScratch, a), k))
      BY <1>6, <2>1
    <3> QED BY <2>3, <3>1, <3>2, <3>3, <3>4
  <2> QED BY <1>4, <2>4, <2>5 DEF WaveInside, p, per, o, a, c
<1> QED BY <1>7, <1>8

(***************************************************************************)
(* The steps.                                                              *)
(***************************************************************************)
\* Sized(All), in the variables.
Sizes ==
    /\ pc \in Created => Len(status) = mod.waves /\ statusSize = mod.waves
    /\ \A s \in Kinds :
        IF Has(s) THEN size[s] = mod.n /\ Len(scratch[s]) = ScratchSize(mod.per)
        ELSE ptr[s] = Null
    /\ Has("out") /\ ptr["out"] # Null => Len(memory["out"]) = mod.n

LEMMA SizesAll == Sizes <=> Sized(All)
BY DEF Sizes, Sized, All

\* The wave that is about to be executed.
LEMMA NextWave ==
  ASSUME TypeOK, Inv, todo # <<>>, NEW e, e = Head(todo)
  PROVE /\ pc = "running" /\ fed /\ e = todo[1] /\ Len(todo) \in Nat \ {0}
        /\ e \in Items /\ Fitting(e) /\ Pointing(e)
        /\ \A s \in Existing : Len(memory[s]) = mod.n
        /\ ~ lost => Ready(e)
<1>1. pc = "running"
  BY DEF Inv, Unready
<1>2. todo \in Seq(Items) /\ e = todo[1] /\ e \in Items /\ Len(todo) \in Nat \ {0}
  <2>1. todo \in Seq(Items)
    BY DEF TypeOK, Items
  <2> QED BY <2>1
<1>3. 1 \in DOMAIN todo
  BY <1>2
<1>4. /\ fed /\ Fitting(e)
      /\ \A s \in Existing : ptr[s] # Null
      /\ e.how # "direct" => \A s \in Existing : saved[s] # Null
  BY <1>1, <1>2, <1>3 DEF Inv, Running
<1>5. Pointing(e)
  BY <1>4 DEF Pointing
<1>6. /\ Len(status) = mod.waves
      /\ \A s \in Existing : Len(scratch[s]) = ScratchSize(mod.per)
      /\ Has("out") => Len(memory["out"]) = mod.n
  <2>1. Sizes
    BY SizesAll DEF Inv
  <2> QED BY <1>1, <1>4, <2>1, KindFacts DEF Sizes, Created
<1>7. \A s \in Existing : Len(memory[s]) = mod.n
  <2>1. \A s \in Existing : Reads(s) => Len(memory[s]) = mod.n
    BY <1>4 DEF Inv, Given
  <2>2. \A s \in Existing : Reads(s) \/ (s = "out" /\ Has("out"))
    BY KindFacts DEF Kinds, Reads
  <2> QED BY <1>6, <2>1, <2>2
<1>8. ASSUME ~ lost
      PROVE \A s \in Existing : (IF e.how = "direct" THEN ptr[s] ELSE saved[s]) = Home
  <2>1. IF e.how # "direct" THEN \A s \in Existing : saved[s] = Home
        ELSE \A s \in Kinds : ptr[s] \in {Null, Home}
    BY <1>1, <1>2, <1>8 DEF Inv, AtHome
  <2> QED BY <1>4, <2>1, KindFacts
<1> QED BY <1>1, <1>2, <1>4, <1>5, <1>6, <1>7, <1>8 DEF Ready

\* What the pointers are once a wave is over: those of the next wave, or the user's.
LEMMA PointersNext ==
  ASSUME TypeOK, Inv, todo # <<>>, NEW e, e = Head(todo), NEW last \in BOOLEAN,
         NEW p, p = PointersAfter(e, last)
  PROVE /\ p \in [Kinds -> Pointer]
        /\ \A s \in Kinds : IF Has(s) THEN p[s] # Null ELSE p[s] = Null
        /\ ~ lost /\ (last \/ e.how = "direct") => \A s \in Kinds : p[s] \in {Null, Home}
<1>1. e \in Items /\ Fitting(e) /\ Pointing(e) /\ (~ lost => Ready(e))
  BY NextWave
<1>2. Numbered(mod)
  BY DEF Inv, Module
<1>3. /\ Pointers(e) \in [Kinds -> Pointer]
      /\ \A s \in Existing : Pointers(e)[s] \in Place
      /\ \A s \in Kinds : ~ Has(s) => Pointers(e)[s] = ptr[s]
      /\ e.how # "direct" => \A s \in Existing : saved[s] \in Place
  BY <1>1, <1>2, PointersFacts
<1>4. \A s \in Kinds : ~ Has(s) => ptr[s] = Null
  <2>1. Sizes
    BY SizesAll DEF Inv
  <2> QED BY <2>1 DEF Sizes
<1>5. ptr \in [Kinds -> Pointer] /\ saved \in [Kinds -> Pointer]
  BY DEF TypeOK
<1>6. CASE last /\ e.how # "direct"
  <2>1. p = [s \in Kinds |-> IF Has(s) THEN saved[s] ELSE ptr[s]]
    BY <1>6 DEF PointersAfter
  <2>2. p \in [Kinds -> Pointer]
    BY <1>5, <2>1
  <2>3. \A s \in Kinds : IF Has(s) THEN p[s] # Null ELSE p[s] = Null
    BY <1>3, <1>4, <1>6, <2>1, KindFacts, PointerFacts
  <2>4. ~ lost => \A s \in Kinds : p[s] \in {Null, Home}
    <3>1. ~ lost => \A s \in Existing : saved[s] = Home
      BY <1>1, <1>6 DEF Ready
    <3> QED BY <1>4, <2>1, <3>1, KindFacts
  <2> QED BY <2>2, <2>3, <2>4
<1>7. CASE ~ (last /\ e.how # "direct")
  <2>1. p = Pointers(e)
    BY <1>7 DEF PointersAfter
  <2>2. \A s \in Kinds : IF Has(s) THEN p[s] # Null ELSE p[s] = Null
    BY <1>3, <1>4, <2>1, KindFacts, PointerFacts
  <2>3. ASSUME ~ lost, last \/ e.how = "direct", NEW s \in Kinds PROVE p[s] \in {Null, Home}
    <3>1. e.how = "direct"
      BY <1>7, <2>3
    <3>2. p[s] = ptr[s]
      BY <2>1, <3>1 DEF Pointers
    <3>3. s \in Existing => ptr[s] = Home
      BY <1>1, <2>3, <3>1 DEF Ready
    <3> QED BY <1>4, <3>2, <3>3, KindFacts
  <2> QED BY <1>3, <2>1, <2>2, <2>3
<1> QED BY <1>6, <1>7

LEMMA SeqAny ==
  ASSUME NEW n \in Nat, NEW x, x = [i \in 1 .. n |-> x[i]]
  PROVE IsSeq(x) /\ Len(x) = n /\ DOMAIN x = 1 .. n
<1> DEFINE S == {x[i] : i \in 1 .. n}
<1>1. x \in [1 .. n -> S]
  OBVIOUS
<1> HIDE DEF S
<1>2. Len(x) = n /\ DOMAIN x = 1 .. n
  BY <1>1, SeqOf
<1> QED BY <1>2 DEF IsSeq

\* Sockets that stay are the same sockets.
LEMMA SameSockets ==
  ASSUME sockets' = sockets
  PROVE /\ \A s : Has(s)' <=> Has(s)
        /\ Existing' = Existing
BY DEF Has, Existing

LEMMA SizesAllNext == Sizes' <=> Sized(All)'
<1>1. Sizes <=> Sized(All)
  BY SizesAll
<1> QED BY <1>1, PTL

\* The data after a wave: each frame of it has been processed once more.
LEMMA HandledOnce ==
  ASSUME TypeOK, NEW o \in Nat, NEW c \in Nat, NEW m, Effect(m, o, c), Handled(memory, ran),
         NEW runs, \A f \in 1 .. mod.n : runs[f] = IF Hit(f, o, c) THEN ran[f] + 1 ELSE ran[f]
  PROVE Handled(m, runs)
<1> SUFFICES ASSUME NEW f \in 1 .. mod.n
             PROVE /\ Has("in") => m["in"][f] = f
                   /\ Has("in") /\ Has("out") /\ runs[f] > 0 => m["out"][f] = f
                   /\ Has("fwd") => m["fwd"][f] = runs[f]
  BY DEF Handled
<1>1. /\ Has("in") => m["in"][f] = memory["in"][f]
      /\ Has("in") /\ Has("out") =>
           m["out"][f] = IF Hit(f, o, c) THEN memory["in"][f] ELSE memory["out"][f]
      /\ Has("fwd") =>
           m["fwd"][f] = IF Hit(f, o, c) THEN memory["fwd"][f] + 1 ELSE memory["fwd"][f]
  BY DEF Effect
<1>2. /\ Has("in") => memory["in"][f] = f
      /\ Has("in") /\ Has("out") /\ ran[f] > 0 => memory["out"][f] = f
      /\ Has("fwd") => memory["fwd"][f] = ran[f]
  BY DEF Handled
<1> QED BY <1>1, <1>2

LEMMA RunWaveStep ==
  ASSUME TypeOK, Inv, NEW result \in Statuses, RunWave(result)
  PROVE TypeOK' /\ Inv'
<1>1. PICK e : e = Head(todo)
  OBVIOUS
<1>2. PICK rest : rest = IF result = "FAILURE_STOP" THEN <<>> ELSE Tail(todo)
  OBVIOUS
<1>3. /\ todo # <<>>
      /\ memory' = AfterWave(e)["memory"] /\ scratch' = AfterWave(e)["scratch"]
      /\ status' = [status EXCEPT ![e.w + 1] = result]
      /\ ptr' = PointersAfter(e, rest = <<>>)
      /\ todo' = rest
      /\ pc' = IF rest = <<>> THEN "idle" ELSE pc
      /\ ran' = [f \in 1 .. MaxFrames |-> IF f - 1 \in Meant(e) THEN ran[f] + 1 ELSE ran[f]]
      /\ wild' = (wild \/ ~ WaveInside(e, Pointers(e)))
  BY <1>1, <1>2 DEF RunWave, AfterWave, AfterCodelet
<1>4. /\ mod' = mod /\ sockets' = sockets /\ size' = size /\ saved' = saved
      /\ statusSize' = statusSize /\ fed' = fed /\ lost' = lost
  BY DEF RunWave, task
<1>5. /\ pc = "running" /\ fed /\ e = todo[1] /\ Len(todo) \in Nat \ {0}
      /\ e \in Items /\ Fitting(e) /\ Pointing(e)
      /\ \A s \in Existing : Len(memory[s]) = mod.n
      /\ ~ lost => Ready(e)
  BY <1>1, <1>3, NextWave
<1>6. Numbered(mod)
  BY DEF Inv, Module
<1>7. /\ \A s : Has(s)' <=> Has(s)
      /\ Existing' = Existing
  BY <1>4, SameSockets
<1>8. /\ memory' \in Buffer /\ scratch' \in Buffer
      /\ \A s \in Kinds : Len(memory'[s]) = Len(memory[s]) /\ Len(scratch'[s]) = Len(scratch[s])
  <2>1. Alike(AfterWave(e))
    BY <1>5, <1>6, AlikeAfter
  <2> QED BY <1>3, <2>1, BufferFacts DEF Alike
<1>9. /\ ptr' \in [Kinds -> Pointer]
      /\ \A s \in Kinds : IF Has(s) THEN ptr'[s] # Null ELSE ptr'[s] = Null
      /\ ~ lost /\ (rest = <<>> \/ e.how = "direct") => \A s \in Kinds : ptr'[s] \in {Null, Home}
  <2>1. PICK last \in BOOLEAN : last <=> rest = <<>>
    OBVIOUS
  <2>2. PICK p : p = PointersAfter(e, last)
    OBVIOUS
  <2>3. /\ p \in [Kinds -> Pointer]
        /\ \A s \in Kinds : IF Has(s) THEN p[s] # Null ELSE p[s] = Null
        /\ ~ lost /\ (last \/ e.how = "direct") => \A s \in Kinds : p[s] \in {Null, Home}
    BY <1>1, <1>3, <2>2, PointersNext
  <2>4. ptr' = p
    BY <1>3, <2>1, <2>2 DEF PointersAfter
  <2> QED BY ONLY <2>1, <2>3, <2>4
<1>10. /\ rest \in Seq(Items)
       /\ rest # <<>> => /\ \A i \in DOMAIN rest : i + 1 \in DOMAIN todo /\ rest[i] = todo[i + 1]
                         /\ Len(todo) > 1 /\ rest[1] = todo[2] /\ 2 \in DOMAIN todo
                         /\ 1 \in DOMAIN todo
  <2>1. todo \in Seq(Items)
    BY DEF TypeOK, Items
  <2>2. CASE rest = <<>>
    BY <2>2
  <2>3. CASE rest # <<>>
    <3>1. rest = Tail(todo)
      BY <1>2, <2>3
    <3> QED BY <1>3, <2>1, <2>3, <3>1
  <2> QED BY <2>2, <2>3
<1>11. IsSeq(status') /\ Len(status') = Len(status)
  <2>1. IsSeq(status)
    BY DEF TypeOK
  <2>2. status' = [i \in 1 .. Len(status) |-> status'[i]]
    BY <1>3, <2>1 DEF IsSeq
  <2> QED BY <2>1, <2>2, SeqAny DEF IsSeq
<1>12. ran' \in [1 .. MaxFrames -> Nat]
  BY <1>3 DEF TypeOK
<1>13. TypeOK'
  <2>1. pc' \in {"module", "creating"} \cup Created
    BY <1>3 DEF TypeOK, Created
  <2>2. mod' \in Mods /\ sockets' \in Seq(Kinds) /\ size' \in [Kinds -> Nat]
        /\ saved' \in [Kinds -> Pointer] /\ statusSize' \in Nat
    BY <1>4 DEF TypeOK
  <2>3. fed' \in BOOLEAN /\ lost' \in BOOLEAN /\ wild' \in BOOLEAN
    BY <1>3, <1>4 DEF TypeOK
  <2>4. todo' \in Seq([w : Nat, how : Hows, frame : Int])
    BY <1>3, <1>10 DEF Items
  <2> QED BY <1>8, <1>9, <1>11, <1>12, <2>1, <2>2, <2>3, <2>4 DEF TypeOK
<1>14. Module'
  BY <1>4 DEF Inv, Module, Numbered
<1>15. Sizes'
  <2>1. Sizes
    BY SizesAll DEF Inv
  <2>2. pc' \in Created /\ pc \in Created
    BY <1>3, <1>5 DEF Created
  <2>3. Len(status') = mod'.waves /\ statusSize' = mod'.waves
    BY <1>4, <1>11, <2>1, <2>2 DEF Sizes
  <2>4. \A s \in Kinds : IF Has(s)' THEN size'[s] = mod'.n /\ Len(scratch'[s]) = ScratchSize(mod'.per)
                         ELSE ptr'[s] = Null
    BY <1>4, <1>7, <1>8, <1>9, <2>1 DEF Sizes
  <2>5. Has("out")' => Len(memory'["out"]) = mod'.n
    BY <1>4, <1>5, <1>7, <1>8, KindFacts
  <2> QED BY <2>3, <2>4, <2>5 DEF Sizes
<1>16. Unready'
  BY <1>3, <1>5 DEF Unready, Created
<1>17. Given'
  BY <1>4, <1>5, <1>7, <1>8, KindFacts DEF Given
<1>18. rest # <<>> => e.how # "direct" /\ rest[1].how # "direct"
  <2>1. \A i \in DOMAIN todo : todo[i].how = "direct" => Len(todo) = 1
    BY <1>5 DEF Inv, Running
  <2>2. Len(todo) > 1 => Len(todo) # 1
    BY <1>5
  <2> QED BY <1>5, <1>10, <2>1, <2>2
<1>19. Running'
  <2>1. SUFFICES ASSUME pc' = "running"
                 PROVE /\ fed' /\ todo' # <<>>
                       /\ \A i \in DOMAIN todo' : Fitting(todo[i])' /\ todo'[i].how # "direct"
                       /\ \A s \in Existing' : ptr'[s] # Null
                       /\ \A s \in Existing' : saved'[s] # Null
    BY DEF Running
  <2>2. rest # <<>>
    BY <1>3, <2>1
  <2>3. \A i \in DOMAIN todo : Fitting(todo[i]) /\ (todo[i].how = "direct" => Len(todo) = 1)
    BY <1>5 DEF Inv, Running
  <2>4. ASSUME NEW i \in DOMAIN rest PROVE Fitting(rest[i]) /\ rest[i].how # "direct"
    <3>1. i + 1 \in DOMAIN todo /\ rest[i] = todo[i + 1] /\ Len(todo) # 1
      BY <1>5, <1>10, <2>2
    <3> QED BY <2>3, <3>1
  <2>5. \A i \in DOMAIN todo' : Fitting(todo[i])'
    BY <1>3, <1>4, <2>4 DEF Fitting
  <2>6. \A s \in Existing' : ptr'[s] # Null /\ saved'[s] # Null
    BY <1>4, <1>5, <1>7, <1>9, <1>18, <2>2, KindFacts DEF Pointing
  <2> QED BY <1>3, <1>4, <1>5, <2>2, <2>4, <2>5, <2>6
<1>20. AtHome'
  <2>1. SUFFICES ASSUME ~ lost
                 PROVE IF pc' = "running" /\ todo'[1].how # "direct"
                       THEN \A s \in Existing' : saved'[s] = Home
                       ELSE \A s \in Kinds : ptr'[s] \in {Null, Home}
    BY <1>4 DEF AtHome
  <2>2. CASE rest = <<>>
    BY <1>3, <1>9, <2>1, <2>2
  <2>3. CASE rest # <<>>
    <3>1. pc' = "running" /\ todo'[1].how # "direct" /\ e.how # "direct"
      BY <1>3, <1>5, <1>18, <2>3
    <3>2. \A s \in Existing : saved[s] = Home
      BY <1>5, <2>1, <3>1 DEF Ready
    <3> QED BY <1>4, <1>7, <3>1, <3>2
  <2> QED BY <2>2, <2>3
<1>21. Tame'
  <2>1. ~ lost => WaveInside(e, Pointers(e))
    BY <1>5, <1>6, WaveStays
  <2> QED BY <1>3, <1>4, <2>1 DEF Inv, Tame
<1>22. Frames'
  <2>1. SUFFICES ASSUME ~ lost
                 PROVE Handled(memory, ran)' /\ (Has("out")' => ptr'["out"] # Null)
    BY <1>4 DEF Frames
  <2>2. PICK o \in Nat, c \in Nat :
          /\ Effect(AfterWave(e)["memory"], o, c)
          /\ \A f \in 1 .. mod.n : f - 1 \in Meant(e) <=> Hit(f, o, c)
    BY <1>5, <1>6, <2>1, WaveEffect
  <2>3. Handled(memory, ran)
    BY <1>5, <2>1 DEF Inv, Frames
  <2>4. PICK m, runs : m = memory' /\ runs = ran'
    OBVIOUS
  <2>5. \A f \in 1 .. mod.n : runs[f] = IF Hit(f, o, c) THEN ran[f] + 1 ELSE ran[f]
    <3>1. \A f \in 1 .. mod.n : f \in 1 .. MaxFrames
      <4> DEFINE n == mod.n
      <4>1. n \in 1 .. MaxFrames /\ MaxFrames \in Nat
        BY <1>6, ModuleFacts, BoundFacts
      <4> HIDE DEF n
      <4>2. \A f \in 1 .. n : f \in 1 .. MaxFrames
        BY ONLY <4>1
      <4> QED BY <4>2 DEF n
    <3> QED BY <1>3, <2>2, <2>4, <3>1
  <2>6. Handled(m, runs)
    BY <1>3, <2>2, <2>3, <2>4, <2>5, HandledOnce
  <2>7. Handled(memory, ran)'
    BY <1>4, <1>7, <2>4, <2>6 DEF Handled
  <2> QED BY <1>7, <1>9, <2>7, KindFacts
<1> QED BY <1>13, <1>14, <1>15, <1>16, <1>17, <1>19, <1>20, <1>21, <1>22, SizesAllNext DEF Inv

LEMMA ThrowStep ==
  ASSUME TypeOK, Inv, Throw
  PROVE TypeOK' /\ Inv'
<1>1. PICK e : e = Head(todo)
  OBVIOUS
<1>2. /\ todo # <<>>
      /\ memory' = CopyIn(Buffers, e)["memory"] /\ scratch' = CopyIn(Buffers, e)["scratch"]
      /\ ptr' = Pointers(e)
      /\ todo' = <<>> /\ pc' = "idle"
      /\ lost' = (lost \/ Pointers(e) # PointersAfter(e, TRUE))
  BY <1>1 DEF Throw
<1>3. /\ mod' = mod /\ sockets' = sockets /\ size' = size /\ saved' = saved
      /\ status' = status /\ statusSize' = statusSize /\ fed' = fed /\ ran' = ran /\ wild' = wild
  BY DEF Throw, task
<1>4. /\ pc = "running" /\ fed
      /\ e \in Items /\ Fitting(e) /\ Pointing(e)
      /\ \A s \in Existing : Len(memory[s]) = mod.n
  BY <1>1, <1>2, NextWave
<1>5. Numbered(mod)
  BY DEF Inv, Module
<1>6. /\ \A s : Has(s)' <=> Has(s)
      /\ Existing' = Existing
  BY <1>3, SameSockets
<1>7. /\ memory' \in Buffer /\ scratch' \in Buffer
      /\ \A s \in Kinds : Len(memory'[s]) = Len(memory[s]) /\ Len(scratch'[s]) = Len(scratch[s])
      /\ \A s \in Kinds : \A f \in 1 .. Len(memory[s]) : memory'[s][f] = memory[s][f]
  <2>1. /\ Alike(CopyIn(Buffers, e))
        /\ \A s \in Kinds : \A f \in 1 .. Len(memory[s]) :
             CopyIn(Buffers, e)["memory"][s][f] = memory[s][f]
    BY <1>4, <1>5, AlikeAfter
  <2> QED BY <1>2, <2>1, BufferFacts DEF Alike
<1>8. /\ ptr' \in [Kinds -> Pointer]
      /\ \A s \in Kinds : IF Has(s) THEN ptr'[s] # Null ELSE ptr'[s] = Null
      /\ ~ lost' => \A s \in Kinds : ptr'[s] \in {Null, Home}
  <2>1. PointersAfter(e, FALSE) = Pointers(e)
    BY DEF PointersAfter
  <2>2. /\ ptr' \in [Kinds -> Pointer]
        /\ \A s \in Kinds : IF Has(s) THEN ptr'[s] # Null ELSE ptr'[s] = Null
    BY <1>1, <1>2, <2>1, PointersNext
  <2>3. ~ lost => \A s \in Kinds : PointersAfter(e, TRUE)[s] \in {Null, Home}
    BY <1>1, <1>2, PointersNext
  <2> QED BY <1>2, <2>2, <2>3
<1>9. TypeOK'
  <2>1. pc' \in {"module", "creating"} \cup Created
    BY <1>2 DEF Created
  <2>2. /\ mod' \in Mods /\ sockets' \in Seq(Kinds) /\ size' \in [Kinds -> Nat]
        /\ saved' \in [Kinds -> Pointer] /\ IsSeq(status') /\ statusSize' \in Nat
        /\ ran' \in [1 .. MaxFrames -> Nat]
    BY <1>3 DEF TypeOK
  <2>3. fed' \in BOOLEAN /\ lost' \in BOOLEAN /\ wild' \in BOOLEAN
    BY <1>2, <1>3 DEF TypeOK
  <2>4. todo' \in Seq([w : Nat, how : Hows, frame : Int])
    BY <1>2
  <2> QED BY <1>7, <1>8, <2>1, <2>2, <2>3, <2>4 DEF TypeOK
<1>10. Module'
  BY <1>3 DEF Inv, Module, Numbered
<1>11. Sizes'
  <2>1. Sizes
    BY SizesAll DEF Inv
  <2>2. pc \in Created
    BY <1>4 DEF Created
  <2>3. Len(status') = mod'.waves /\ statusSize' = mod'.waves
    BY <1>3, <2>1, <2>2 DEF Sizes
  <2>4. \A s \in Kinds : IF Has(s)' THEN size'[s] = mod'.n /\ Len(scratch'[s]) = ScratchSize(mod'.per)
                         ELSE ptr'[s] = Null
    BY <1>3, <1>6, <1>7, <1>8, <2>1 DEF Sizes
  <2>5. Has("out")' => Len(memory'["out"]) = mod'.n
    BY <1>3, <1>4, <1>6, <1>7, KindFacts
  <2> QED BY <2>3, <2>4, <2>5 DEF Sizes
<1>12. Unready'
  BY <1>2 DEF Unready, Created
<1>13. Given'
  BY <1>3, <1>4, <1>6, <1>7, KindFacts DEF Given
<1>14. Running' /\ AtHome'
  BY <1>2, <1>8 DEF Running, AtHome
<1>15. Tame'
  BY <1>2, <1>3 DEF Inv, Tame
<1>16. Frames'
  <2>1. SUFFICES ASSUME ~ lost'
                 PROVE Handled(memory, ran)' /\ (Has("out")' => ptr'["out"] # Null)
    BY DEF Frames
  <2>2. Handled(memory, ran)
    BY <1>2, <1>4, <2>1 DEF Inv, Frames
  <2>3. \A s \in Existing : \A f \in 1 .. mod.n : memory'[s][f] = memory[s][f]
    BY <1>4, <1>7, KindFacts
  <2>4. Handled(memory, ran)'
    BY <1>3, <1>6, <2>2, <2>3, KindFacts DEF Handled
  <2> QED BY <1>6, <1>8, <2>4, KindFacts
<1> QED BY <1>9, <1>10, <1>11, <1>12, <1>13, <1>14, <1>15, <1>16, SizesAllNext DEF Inv

(***************************************************************************)
(* Task::exec.                                                             *)
(***************************************************************************)
LEMMA ToRunFacts ==
  ASSUME TypeOK, Numbered(mod), NEW frame \in Int, frame >= -1, NEW managed \in BOOLEAN,
         managed \/ mod.per <= mod.n,
         NEW t, t = ToRun(frame, managed)
  PROVE /\ t \in Seq(Items) /\ t # <<>>
        /\ \A i \in DOMAIN t : Fitting(t[i]) /\ (t[i].how = "direct" <=> Direct(frame, managed))
        /\ Direct(frame, managed) => Len(t) = 1
<1> DEFINE n == mod.n
           per == mod.per
           W == mod.waves
           real == IF frame = -1 THEN 0 ELSE frame
           w == (real % n) \div per
<1>1. /\ n \in Nat \ {0} /\ n <= FloatExact /\ per \in Nat \ {0} /\ W = Waves(n, per) /\ W \in Nat \ {0}
      /\ mod.rest = n % per
  BY ModuleFacts
<1>2. real \in Nat
  OBVIOUS
<1> HIDE DEF real
<1>3. w \in Nat /\ w < W
  <2> HIDE DEF n, per, W
  <2> QED BY ONLY <1>1, <1>2, WaveOfFrame
<1>4. t = IF Direct(frame, managed) THEN <<Item(w, "direct", real)>>
          ELSE IF frame > 0 /\ per > 1 THEN <<Item(w, "single", frame)>>
          ELSE IF frame = -1 THEN [i \in 1 .. W |-> Whole(i - 1)]
          ELSE <<Whole(frame % W)>>
  BY DEF ToRun, real
<1> HIDE DEF w
<1>5. ASSUME NEW k \in Nat, k < W
      PROVE Whole(k) \in Items /\ Fitting(Whole(k)) /\ Whole(k).how # "direct"
  <2> DEFINE how == IF k = W - 1 /\ mod.rest # 0 THEN "rest" ELSE "shift"
             x == Whole(k)
  <2>1. /\ x = [w |-> k, how |-> how, frame |-> -1]
        /\ x.w = k /\ x.how = how
    BY DEF Whole, Item
  <2>2. how = "rest" => k = W - 1 /\ mod.rest # 0
    OBVIOUS
  <2>3. how = "shift" => k # W - 1 \/ mod.rest = 0
    OBVIOUS
  <2>4. how = "rest" \/ how = "shift"
    OBVIOUS
  <2> HIDE DEF how, x
  <2>5. x \in Items /\ x.how # "direct"
    BY <2>1, <2>4 DEF Items, Hows
  <2>6. Fitting(x)
    BY <1>5, <2>1, <2>2, <2>3, <2>4 DEF Fitting
  <2> QED BY <2>5, <2>6 DEF x
<1>6. CASE Direct(frame, managed)
  <2>1. per <= n
    <3>1. per = 1 => per <= n
      BY <1>1
    <3>2. /\ (W - 1) * per \in Nat /\ (W - 1) * per < n
          /\ n % per = 0 => n = W * per
      <4> HIDE DEF n, per, W
      <4> QED BY ONLY <1>1, WaveNumbers
    <3>3. W > 1 => per <= n
      <4> HIDE DEF n, per, W
      <4>1. ASSUME W > 1 PROVE 0 * per + per <= (W - 1) * per
        <5>1. 0 \in Int /\ W - 1 \in Int /\ 0 < W - 1
          BY <1>1, <4>1
        <5> QED BY ONLY <1>1, <5>1, NextMultiple
      <4>2. 0 * per = 0
        BY <1>1
      <4> QED BY <1>1, <3>2, <4>1, <4>2
    <3>4. mod.rest = 0 => per <= n
      <4> HIDE DEF n, per, W
      <4>1. 0 * per + per <= W * per /\ 0 * per = 0
        <5>1. 0 \in Int /\ W \in Int /\ 0 < W
          BY <1>1
        <5>2. 0 * per + per <= W * per
          BY ONLY <1>1, <5>1, NextMultiple
        <5> QED BY <1>1, <5>2
      <4> QED BY <1>1, <3>2, <4>1
    <3>5. \/ ~ managed
          \/ per = n
          \/ per = 1 \/ W > 1 \/ mod.rest = 0
      BY <1>6 DEF Direct
    <3> QED BY <1>1, <3>1, <3>3, <3>4, <3>5
  <2>2. t = <<Item(w, "direct", real)>>
    BY <1>4, <1>6
  <2>3. Item(w, "direct", real) \in Items /\ Item(w, "direct", real).how = "direct"
    BY <1>2, <1>3 DEF Item, Items, Hows
  <2>4. Fitting(Item(w, "direct", real))
    BY <1>3, <2>1 DEF Item, Fitting
  <2> HIDE DEF n, per, W
  <2> QED BY <1>6, <2>2, <2>3, <2>4
<1>7. CASE ~ Direct(frame, managed) /\ frame > 0 /\ per > 1
  <2>1. t = <<Item(w, "single", frame)>>
    BY <1>4, <1>7
  <2>2. Item(w, "single", frame) \in Items /\ Item(w, "single", frame).how # "direct"
    BY <1>3 DEF Item, Items, Hows
  <2>3. Fitting(Item(w, "single", frame))
    BY <1>3, <1>7 DEF Item, Fitting
  <2> HIDE DEF n, per, W
  <2> QED BY <1>7, <2>1, <2>2, <2>3
<1>8. CASE ~ Direct(frame, managed) /\ ~ (frame > 0 /\ per > 1) /\ frame = -1
  <2>1. t = [i \in 1 .. W |-> Whole(i - 1)]
    BY <1>4, <1>8
  <2>2. \A i \in 1 .. W : i - 1 \in Nat /\ i - 1 < W
    BY <1>1
  <2>3. t \in [1 .. W -> Items]
    BY <1>5, <2>1, <2>2
  <2>4. t \in Seq(Items) /\ Len(t) = W /\ DOMAIN t = 1 .. W
    BY <1>1, <2>3, SeqOf
  <2>5. t # <<>>
    BY <1>1, <2>4
  <2>6. \A i \in DOMAIN t : Fitting(t[i]) /\ t[i].how # "direct"
    BY <1>5, <2>1, <2>2, <2>4
  <2> QED BY <1>8, <2>4, <2>5, <2>6
<1>9. CASE ~ Direct(frame, managed) /\ ~ (frame > 0 /\ per > 1) /\ frame # -1
  <2>1. t = <<Whole(frame % W)>>
    BY <1>4, <1>9
  <2>2. frame % W \in Nat /\ frame % W < W
    <3>1. frame \in Nat
      BY <1>9
    <3>2. frame % W \in 0 .. W - 1
      BY <1>1, <3>1, DivFacts
    <3> QED BY <1>1, <3>2
  <2> DEFINE k == frame % W
  <2> HIDE DEF k
  <2>3. Whole(k) \in Items /\ Fitting(Whole(k)) /\ Whole(k).how # "direct"
    BY <1>5, <2>2 DEF k
  <2>4. t = <<Whole(k)>>
    BY <2>1 DEF k
  <2> QED BY <1>9, <2>3, <2>4
<1> QED BY <1>6, <1>7, <1>8, <1>9

LEMMA ExecStep ==
  ASSUME TypeOK, Inv, NEW frame \in -1 .. MaxFrames - 1, NEW managed \in BOOLEAN,
         Exec(frame, managed)
  PROVE TypeOK' /\ Inv'
<1>1. PICK t : t = ToRun(frame, managed)
  OBVIOUS
<1>2. /\ pc = "idle" /\ CanExec /\ Provided(managed)
      /\ pc' = "running"
      /\ status' = [w \in DOMAIN status |-> IF w <= mod.waves THEN "UNKNOWN" ELSE status[w]]
      /\ wild' = (wild \/ mod.waves > Len(status))
      /\ todo' = t
      /\ saved' = IF Direct(frame, managed) THEN saved ELSE ptr
  BY <1>1 DEF Exec
<1>3. /\ mod' = mod /\ sockets' = sockets /\ size' = size /\ memory' = memory
      /\ scratch' = scratch /\ ptr' = ptr /\ statusSize' = statusSize /\ fed' = fed
      /\ ran' = ran /\ lost' = lost
  BY DEF Exec
<1>4. Numbered(mod)
  BY DEF Inv, Module
<1>5. /\ \A s : Has(s)' <=> Has(s)
      /\ Existing' = Existing
  BY <1>3, SameSockets
<1>6. fed /\ (managed \/ mod.per <= mod.n)
  BY <1>2 DEF Provided
<1>7. \A s \in Existing : ptr[s] # Null
  BY <1>2 DEF CanExec
<1>8. /\ t \in Seq(Items) /\ t # <<>>
      /\ \A i \in DOMAIN t : Fitting(t[i]) /\ (t[i].how = "direct" <=> Direct(frame, managed))
      /\ Direct(frame, managed) => Len(t) = 1
  <2>1. frame \in Int /\ frame >= -1
    BY BoundFacts
  <2> QED BY <1>1, <1>4, <1>6, <2>1, ToRunFacts
<1>9. 1 \in DOMAIN t
  BY <1>8
<1>10. Sizes
  BY SizesAll DEF Inv
<1>11. Len(status) = mod.waves /\ mod.waves \in Nat
  BY <1>2, <1>4, <1>10, ModuleFacts DEF Sizes, Created
<1>12. IsSeq(status') /\ Len(status') = Len(status)
  <2>1. IsSeq(status) /\ Len(status) \in Nat /\ DOMAIN status = 1 .. Len(status)
    BY DEF TypeOK, IsSeq
  <2>2. status' = [i \in 1 .. Len(status) |-> status'[i]]
    BY <1>2, <2>1
  <2> QED BY <2>1, <2>2, SeqAny
<1>13. wild' = wild
  <2>1. ~ (mod.waves > Len(status))
    BY <1>11
  <2> QED BY <1>2, <2>1 DEF TypeOK
<1>14. TypeOK'
  <2>1. pc' \in {"module", "creating"} \cup Created
    BY <1>2 DEF Created
  <2>2. /\ mod' \in Mods /\ sockets' \in Seq(Kinds) /\ size' \in [Kinds -> Nat]
        /\ memory' \in Buffer /\ scratch' \in Buffer /\ ptr' \in [Kinds -> Pointer]
        /\ statusSize' \in Nat /\ ran' \in [1 .. MaxFrames -> Nat]
    BY <1>3 DEF TypeOK
  <2>3. fed' \in BOOLEAN /\ lost' \in BOOLEAN /\ wild' \in BOOLEAN
    BY <1>3, <1>13 DEF TypeOK
  <2>4. saved' \in [Kinds -> Pointer]
    BY <1>2 DEF TypeOK
  <2>5. todo' \in Seq([w : Nat, how : Hows, frame : Int])
    BY <1>2, <1>8 DEF Items
  <2> QED BY <1>12, <2>1, <2>2, <2>3, <2>4, <2>5 DEF TypeOK
<1>15. Module'
  BY <1>3 DEF Inv, Module, Numbered
<1>16. Sizes'
  <2>1. pc' \in Created /\ pc \in Created
    BY <1>2 DEF Created
  <2> QED BY <1>3, <1>5, <1>10, <1>12, <2>1 DEF Sizes
<1>17. Unready'
  BY <1>2 DEF Unready, Created
<1>18. Given'
  BY <1>3, <1>5 DEF Inv, Given
<1>19. Running'
  <2>1. \A i \in DOMAIN todo' : Fitting(todo[i])'
    BY <1>2, <1>3, <1>8 DEF Fitting
  <2>2. \A i \in DOMAIN todo' : todo'[i].how = "direct" => Len(todo') = 1
    BY <1>2, <1>8
  <2>3. todo'[1].how # "direct" => \A s \in Existing' : saved'[s] # Null
    BY <1>2, <1>5, <1>7, <1>8, <1>9
  <2>4. fed' /\ todo' # <<>> /\ \A s \in Existing' : ptr'[s] # Null
    BY <1>2, <1>3, <1>5, <1>6, <1>7, <1>8
  <2> QED BY <2>1, <2>2, <2>3, <2>4 DEF Running
<1>20. AtHome'
  <2>1. SUFFICES ASSUME ~ lost
                 PROVE IF pc' = "running" /\ todo'[1].how # "direct"
                       THEN \A s \in Existing' : saved'[s] = Home
                       ELSE \A s \in Kinds : ptr'[s] \in {Null, Home}
    BY <1>3 DEF AtHome
  <2>2. \A s \in Kinds : ptr[s] \in {Null, Home}
    BY <1>2, <2>1 DEF Inv, AtHome
  <2>3. todo'[1].how # "direct" => saved' = ptr
    BY <1>2, <1>8, <1>9
  <2> QED BY <1>3, <1>5, <1>7, <2>2, <2>3, KindFacts
<1>21. Tame'
  BY <1>3, <1>13 DEF Inv, Tame
<1>22. Frames'
  BY <1>3, <1>5 DEF Inv, Frames, Handled
<1> QED BY <1>14, <1>15, <1>16, <1>17, <1>18, <1>19, <1>20, <1>21, <1>22, SizesAllNext DEF Inv

(***************************************************************************)
(* Creation, copies and what the user gives.                               *)
(***************************************************************************)
LEMMA ResizeFacts ==
  ASSUME NEW x, NEW n \in Nat
  PROVE /\ IsSeq(Resize(x, n)) /\ Len(Resize(x, n)) = n
        /\ x \in Seq(Int) => Resize(x, n) \in Seq(Int)
<1> DEFINE y == Resize(x, n)
<1>1. y = [f \in 1 .. n |-> IF f \in DOMAIN x THEN x[f] ELSE Junk]
  BY DEF Resize
<1> HIDE DEF y
<1>2. IsSeq(y) /\ Len(y) = n
  <2>1. y = [f \in 1 .. n |-> y[f]]
    BY <1>1
  <2> QED BY <2>1, SeqAny
<1>3. ASSUME x \in Seq(Int) PROVE y \in Seq(Int)
  <2>1. DOMAIN x = 1 .. Len(x) /\ \A f \in 1 .. Len(x) : x[f] \in Int
    BY <1>3, SeqFacts
  <2>2. y \in [1 .. n -> Int]
    BY <1>1, <2>1 DEF Junk
  <2> QED BY <2>2, SeqOf
<1> QED BY <1>2, <1>3 DEF y

LEMMA InitFacts ==
  ASSUME Init
  PROVE TypeOK /\ Inv
<1>1. MaxFrames \in Nat \ {0}
  BY BoundFacts
<1>2. mod = [n |-> 1, per |-> 1, rest |-> 0, waves |-> 1, single |-> FALSE]
  BY DEF Init
<1>3. mod \in Mods /\ ~ mod.single
  BY <1>1, <1>2 DEF Mods
<1>4. Numbered(mod)
  <2>1. 1 % 1 = 0 /\ Waves(1, 1) = 1
    BY DEF Waves
  <2> QED BY <1>2, <2>1 DEF Numbered
<1>5. TypeOK
  <2>1. pc \in {"module", "creating"} \cup Created
    BY DEF Init
  <2>2. /\ sockets \in Seq(Kinds) /\ size \in [Kinds -> Nat] /\ memory \in Buffer
        /\ scratch \in Buffer /\ ptr \in [Kinds -> Pointer] /\ saved \in [Kinds -> Pointer]
    BY DEF Init, Buffer, Pointer
  <2>3. IsSeq(status) /\ statusSize \in Nat
    BY DEF Init, IsSeq
  <2>4. todo \in Seq([w : Nat, how : Hows, frame : Int])
    BY DEF Init
  <2>5. fed \in BOOLEAN /\ wild \in BOOLEAN /\ lost \in BOOLEAN /\ ran \in [1 .. MaxFrames -> Nat]
    BY DEF Init
  <2> QED BY <1>3, <2>1, <2>2, <2>3, <2>4, <2>5 DEF TypeOK
<1>6. \A s : ~ Has(s)
  BY DEF Init, Has
<1>7. pc = "module" /\ ~ fed /\ ~ lost /\ ~ wild /\ todo = <<>> /\ sockets = <<>>
      /\ ptr = [s \in Kinds |-> Null]
  BY DEF Init
<1>8. Sizes
  BY <1>6, <1>7 DEF Sizes, Created
<1>9. Unready /\ Given /\ Running /\ AtHome /\ Tame /\ Frames
  BY <1>7 DEF Unready, Given, Running, AtHome, Tame, Frames, Created
<1>10. Module
  BY <1>3, <1>4 DEF Module
<1> QED BY <1>5, <1>8, <1>9, <1>10, SizesAll DEF Inv

LEMMA CreateTaskStep ==
  ASSUME TypeOK, Inv, CreateTask
  PROVE TypeOK' /\ Inv'
<1>1. pc = "module" /\ pc' = "creating" /\ status' = Resize(<<>>, mod.waves)
  BY DEF CreateTask
<1>2. /\ mod' = mod /\ sockets' = sockets /\ size' = size /\ saved' = saved
      /\ memory' = memory /\ scratch' = scratch /\ ptr' = ptr /\ statusSize' = statusSize
      /\ todo' = todo /\ fed' = fed /\ ran' = ran /\ wild' = wild /\ lost' = lost
  BY DEF CreateTask, task, ghosts
<1>3. /\ \A s : Has(s)' <=> Has(s)
      /\ Existing' = Existing
  BY <1>2, SameSockets
<1>4. ~ fed /\ ~ lost /\ ptr = [s \in Kinds |-> Null] /\ todo = <<>>
  BY <1>1 DEF Inv, Unready, Created
<1>5. IsSeq(status') /\ Len(status') = mod'.waves
  <2>1. mod.waves \in Nat
    BY DEF TypeOK, Mods
  <2> QED BY <1>1, <1>2, <2>1, ResizeFacts
<1>6. TypeOK'
  BY <1>1, <1>2, <1>5 DEF TypeOK
<1>7. Sizes'
  <2>1. Sizes
    BY SizesAll DEF Inv
  <2> QED BY <1>1, <1>2, <1>3, <2>1 DEF Sizes, Created
<1>8. Unready'
  BY <1>1, <1>2, <1>4, <1>5 DEF Unready, Created
<1>9. Module'
  BY <1>2 DEF Inv, Module, Numbered
<1>10. Given' /\ Running' /\ AtHome' /\ Frames' /\ Tame'
  BY <1>1, <1>2, <1>4 DEF Inv, Given, Running, AtHome, Frames, Tame
<1> QED BY <1>6, <1>7, <1>8, <1>9, <1>10, SizesAllNext DEF Inv

LEMMA NewSocketStep ==
  ASSUME TypeOK, Inv, NEW s \in Kinds, NewSocket(s)
  PROVE TypeOK' /\ Inv'
<1>1. /\ pc = "creating" /\ ~ Has(s)
      /\ sockets' = Append(sockets, s)
      /\ size' = [size EXCEPT ![s] = mod.n]
      /\ scratch' = [scratch EXCEPT ![s] = Resize(<<>>, ScratchSize(mod.per))]
  BY DEF NewSocket, Rows
<1>2. /\ pc' = pc /\ mod' = mod /\ saved' = saved
      /\ memory' = memory /\ ptr' = ptr /\ status' = status /\ statusSize' = statusSize
      /\ todo' = todo /\ fed' = fed /\ ran' = ran /\ wild' = wild /\ lost' = lost
  BY DEF NewSocket, ghosts
<1>3. ~ fed /\ ~ lost /\ ptr = [x \in Kinds |-> Null] /\ todo = <<>> /\ Len(status) = mod.waves
  BY <1>1 DEF Inv, Unready, Created
<1>4. \A x : Has(x)' <=> (Has(x) \/ x = s)
  <2>1. sockets \in Seq(Kinds) /\ sockets' = Append(sockets, s)
    BY <1>1 DEF TypeOK
  <2>2. PICK n \in Nat : n = Len(sockets) /\ DOMAIN sockets = 1 .. n
    BY ONLY <2>1
  <2>3. /\ DOMAIN sockets' = 1 .. n + 1
        /\ \A i \in 1 .. n : sockets'[i] = sockets[i]
        /\ sockets'[n + 1] = s
    BY ONLY <2>1, <2>2
  <2>4. \A i \in 1 .. n + 1 : i \in 1 .. n \/ i = n + 1
    OBVIOUS
  <2>5. n + 1 \in 1 .. n + 1 /\ \A i \in 1 .. n : i \in 1 .. n + 1
    OBVIOUS
  <2> QED BY ONLY <2>2, <2>3, <2>4, <2>5 DEF Has
<1>5. mod.n \in Nat /\ ScratchSize(mod.per) \in Nat
  BY DEF TypeOK, Mods, ScratchSize
<1>6. /\ Resize(<<>>, ScratchSize(mod.per)) \in Seq(Int)
      /\ Len(Resize(<<>>, ScratchSize(mod.per))) = ScratchSize(mod.per)
  <2>1. <<>> \in Seq(Int)
    OBVIOUS
  <2> QED BY <1>5, <2>1, ResizeFacts
<1>7. size' \in [Kinds -> Nat] /\ scratch' \in Buffer
  BY <1>1, <1>5, <1>6 DEF TypeOK, Buffer
<1>8. sockets' \in Seq(Kinds)
  BY <1>1 DEF TypeOK
<1>9. TypeOK'
  BY <1>2, <1>7, <1>8 DEF TypeOK
<1>10. Sizes'
  <2>1. Sizes
    BY SizesAll DEF Inv
  <2>2. pc' \notin Created
    BY <1>1, <1>2 DEF Created
  <2>3. ASSUME NEW x \in Kinds
        PROVE IF Has(x)' THEN size'[x] = mod'.n /\ Len(scratch'[x]) = ScratchSize(mod'.per)
              ELSE ptr'[x] = Null
    <3>1. x = s => size'[x] = mod.n /\ Len(scratch'[x]) = ScratchSize(mod.per)
      BY <1>1, <1>6 DEF TypeOK, Buffer
    <3>2. x # s => size'[x] = size[x] /\ scratch'[x] = scratch[x]
      BY <1>1 DEF TypeOK, Buffer
    <3> QED BY <1>2, <1>3, <1>4, <2>1, <3>1, <3>2 DEF Sizes
  <2>4. ptr'["out"] = Null
    BY <1>2, <1>3, KindFacts
  <2> QED BY <2>2, <2>3, <2>4 DEF Sizes
<1>11. Unready'
  BY <1>1, <1>2, <1>3 DEF Unready, Created
<1>12. Module'
  BY <1>2 DEF Inv, Module, Numbered
<1>13. Given' /\ Running' /\ AtHome' /\ Frames' /\ Tame'
  BY <1>1, <1>2, <1>3 DEF Inv, Given, Running, AtHome, Frames, Tame
<1> QED BY <1>9, <1>10, <1>11, <1>12, <1>13, SizesAllNext DEF Inv

LEMMA Allocating ==
  ASSUME TypeOK, Sizes, NEW p \in [Kinds -> Pointer],
         Has("out") /\ p["out"] # Null => Len(memory["out"]) = mod.n,
         NEW q, q = Allocated(p), NEW m, m = OutBuffer(p)
  PROVE /\ q \in [Kinds -> Pointer] /\ m \in Buffer
        /\ \A s \in Kinds : s # "out" => q[s] = p[s] /\ m[s] = memory[s]
        /\ q["out"] = IF Has("out") /\ p["out"] = Null THEN Home ELSE p["out"]
        /\ Has("out") => q["out"] # Null /\ Len(m["out"]) = mod.n
<1>1. "out" \in Kinds /\ memory \in Buffer /\ size \in [Kinds -> Nat] /\ mod.n \in Nat
  BY KindFacts DEF TypeOK, Mods
<1>2. Home \in Pointer /\ Home # Null
  BY PointerFacts DEF Pointer
<1>3. CASE Has("out") /\ p["out"] = Null
  <2>1. q = [p EXCEPT !["out"] = Home] /\ m = [memory EXCEPT !["out"] = Resize(<<>>, size["out"])]
    BY <1>3 DEF Allocated, OutBuffer
  <2>2. size["out"] = mod.n
    BY <1>1, <1>3 DEF Sizes
  <2>3. Resize(<<>>, mod.n) \in Seq(Int) /\ Len(Resize(<<>>, mod.n)) = mod.n
    <3>1. <<>> \in Seq(Int)
      OBVIOUS
    <3> QED BY <1>1, <3>1, ResizeFacts
  <2> QED BY <1>1, <1>2, <1>3, <2>1, <2>2, <2>3 DEF Buffer
<1>4. CASE ~ (Has("out") /\ p["out"] = Null)
  <2>1. q = p /\ m = memory
    BY <1>4 DEF Allocated, OutBuffer
  <2> QED BY <1>1, <1>4, <2>1
<1> QED BY <1>3, <1>4

LEMMA CreateCodeletStep ==
  ASSUME TypeOK, Inv, CreateCodelet
  PROVE TypeOK' /\ Inv'
<1>1. /\ pc = "creating" /\ pc' = "idle"
      /\ statusSize' = mod.waves
      /\ IF autoalloc THEN ptr' = Allocated(ptr) /\ memory' = OutBuffer(ptr)
         ELSE ptr' = ptr /\ memory' = memory
  BY DEF CreateCodelet
<1>2. /\ mod' = mod /\ sockets' = sockets /\ size' = size /\ saved' = saved
      /\ scratch' = scratch /\ status' = status /\ todo' = todo
      /\ fed' = fed /\ ran' = ran /\ wild' = wild /\ lost' = lost
  BY DEF CreateCodelet, task, ghosts
<1>3. /\ \A s : Has(s)' <=> Has(s)
      /\ Existing' = Existing
  BY <1>2, SameSockets
<1>4. ~ fed /\ ~ lost /\ ptr = [x \in Kinds |-> Null] /\ todo = <<>> /\ Len(status) = mod.waves
  BY <1>1 DEF Inv, Unready, Created
<1>5. Sizes
  BY SizesAll DEF Inv
<1>6. /\ ptr' \in [Kinds -> Pointer] /\ memory' \in Buffer
      /\ \A s \in Kinds : s # "out" => ptr'[s] = ptr[s] /\ memory'[s] = memory[s]
      /\ ptr'["out"] = ptr["out"] \/ (Has("out") /\ ptr'["out"] = Home)
      /\ Has("out") /\ ptr'["out"] # Null => Len(memory'["out"]) = mod.n
  <2>1. ptr \in [Kinds -> Pointer] /\ memory \in Buffer
        /\ (Has("out") /\ ptr["out"] # Null => Len(memory["out"]) = mod.n)
    BY <1>5 DEF TypeOK, Sizes
  <2>2. CASE autoalloc
    BY <1>1, <1>5, <2>1, <2>2, Allocating
  <2>3. CASE ~ autoalloc
    BY <1>1, <2>1, <2>3
  <2> QED BY <2>2, <2>3
<1>7. mod.waves \in Nat
  BY DEF TypeOK, Mods
<1>8. TypeOK'
  BY <1>1, <1>2, <1>6, <1>7 DEF TypeOK, Created
<1>9. Sizes'
  <2>1. \A s \in Kinds : IF Has(s)' THEN size'[s] = mod'.n /\ Len(scratch'[s]) = ScratchSize(mod'.per)
                         ELSE ptr'[s] = Null
    BY <1>2, <1>3, <1>4, <1>5, <1>6 DEF Sizes
  <2> QED BY <1>1, <1>2, <1>3, <1>4, <1>6, <2>1 DEF Sizes
<1>10. Unready'
  BY <1>1, <1>2, <1>4 DEF Unready, Created
<1>11. Module'
  BY <1>2 DEF Inv, Module, Numbered
<1>12. Given' /\ Running' /\ Frames' /\ Tame'
  BY <1>1, <1>2, <1>4 DEF Inv, Given, Running, Frames, Tame
<1>13. AtHome'
  BY <1>1, <1>4, <1>6 DEF AtHome
<1> QED BY <1>8, <1>9, <1>10, <1>11, <1>12, <1>13, SizesAllNext DEF Inv

LEMMA AllocateOutbuffersStep ==
  ASSUME TypeOK, Inv, AllocateOutbuffers
  PROVE TypeOK' /\ Inv'
<1>1. pc = "idle" /\ Allocated(ptr) # ptr /\ ptr' = Allocated(ptr) /\ memory' = OutBuffer(ptr)
  BY DEF AllocateOutbuffers
<1>2. /\ pc' = pc /\ mod' = mod /\ sockets' = sockets /\ size' = size /\ saved' = saved
      /\ scratch' = scratch /\ status' = status /\ statusSize' = statusSize /\ todo' = todo
      /\ fed' = fed /\ ran' = ran /\ wild' = wild /\ lost' = lost
  BY DEF AllocateOutbuffers, task, ghosts
<1>3. /\ \A s : Has(s)' <=> Has(s)
      /\ Existing' = Existing
  BY <1>2, SameSockets
<1>4. Sizes
  BY SizesAll DEF Inv
<1>5. Has("out") /\ ptr["out"] = Null
  BY <1>1 DEF Allocated
<1>6. /\ ptr' \in [Kinds -> Pointer] /\ memory' \in Buffer
      /\ \A s \in Kinds : s # "out" => ptr'[s] = ptr[s] /\ memory'[s] = memory[s]
      /\ ptr'["out"] = Home /\ Len(memory'["out"]) = mod.n
  <2>1. ptr \in [Kinds -> Pointer]
    BY DEF TypeOK
  <2> QED BY <1>1, <1>4, <1>5, <2>1, Allocating
<1>7. TypeOK'
  BY <1>2, <1>6 DEF TypeOK
<1>8. Sizes'
  <2>1. \A s \in Kinds : IF Has(s)' THEN size'[s] = mod'.n /\ Len(scratch'[s]) = ScratchSize(mod'.per)
                         ELSE ptr'[s] = Null
    BY <1>2, <1>3, <1>4, <1>5, <1>6 DEF Sizes
  <2> QED BY <1>2, <1>3, <1>4, <1>6, <2>1 DEF Sizes
<1>9. Unready'
  BY <1>1, <1>2 DEF Inv, Unready, Created
<1>10. Module'
  BY <1>2 DEF Inv, Module, Numbered
<1>11. Given'
  BY <1>2, <1>3, <1>6, KindFacts DEF Inv, Given, Reads
<1>12. Running' /\ Tame'
  BY <1>1, <1>2 DEF Inv, Running, Tame
<1>13. AtHome'
  BY <1>1, <1>2, <1>6 DEF Inv, AtHome
<1>14. Frames'
  <2>1. SUFFICES ASSUME fed, ~ lost PROVE Handled(memory, ran)'
    BY <1>2, <1>6, PointerFacts DEF Frames
  <2>2. Handled(memory, ran) /\ \A f \in 1 .. mod.n : ran[f] = 0
    BY <1>5, <2>1 DEF Inv, Frames
  <2> QED BY <1>2, <1>3, <1>6, <2>2, KindFacts DEF Handled
<1> QED BY <1>7, <1>8, <1>9, <1>10, <1>11, <1>12, <1>13, <1>14, SizesAllNext DEF Inv

LEMMA CloneTaskStep ==
  ASSUME TypeOK, Inv, CloneTask
  PROVE TypeOK' /\ Inv'
<1>1. PICK none : none = [ptr EXCEPT !["out"] = Null]
  OBVIOUS
<1>2. /\ pc = "idle"
      /\ ptr' = IF autoalloc THEN Allocated(none) ELSE none
      /\ memory' = IF autoalloc THEN OutBuffer(none) ELSE [memory EXCEPT !["out"] = <<>>]
      /\ fed' = FALSE
  BY <1>1 DEF CloneTask
<1>3. /\ pc' = pc /\ mod' = mod /\ sockets' = sockets /\ size' = size /\ saved' = saved
      /\ scratch' = scratch /\ status' = status /\ statusSize' = statusSize /\ todo' = todo
      /\ ran' = ran /\ wild' = wild /\ lost' = lost
  BY DEF CloneTask, task
<1>4. /\ \A s : Has(s)' <=> Has(s)
      /\ Existing' = Existing
  BY <1>3, SameSockets
<1>5. Sizes
  BY SizesAll DEF Inv
<1>6. /\ none \in [Kinds -> Pointer] /\ none["out"] = Null
      /\ \A s \in Kinds : s # "out" => none[s] = ptr[s]
  BY <1>1, KindFacts DEF TypeOK, Pointer
<1>7. /\ ptr' \in [Kinds -> Pointer] /\ memory' \in Buffer
      /\ \A s \in Kinds : s # "out" => ptr'[s] = ptr[s] /\ memory'[s] = memory[s]
      /\ ptr'["out"] = Null \/ (Has("out") /\ ptr'["out"] = Home)
      /\ Has("out") /\ ptr'["out"] # Null => Len(memory'["out"]) = mod.n
  <2>1. CASE autoalloc
    <3>1. ptr' = Allocated(none) /\ memory' = OutBuffer(none)
      BY <1>2, <2>1
    <3> QED BY <1>5, <1>6, <3>1, Allocating
  <2>2. CASE ~ autoalloc
    <3>1. ptr' = none /\ memory' = [memory EXCEPT !["out"] = <<>>]
      BY <1>2, <2>2
    <3>2. memory' \in Buffer /\ \A s \in Kinds : s # "out" => memory'[s] = memory[s]
      <4>1. memory \in [Kinds -> Seq(Int)] /\ <<>> \in Seq(Int)
        BY DEF TypeOK, Buffer
      <4>2. memory' \in [Kinds -> Seq(Int)]
        BY ONLY <3>1, <4>1
      <4>3. \A s \in Kinds : s # "out" => memory'[s] = memory[s]
        BY ONLY <3>1, <4>1
      <4> QED BY <4>2, <4>3 DEF Buffer
    <3> QED BY <1>6, <3>1, <3>2
  <2> QED BY <2>1, <2>2
<1>8. TypeOK'
  BY <1>2, <1>3, <1>7 DEF TypeOK
<1>9. Sizes'
  <2>1. \A s \in Kinds : IF Has(s)' THEN size'[s] = mod'.n /\ Len(scratch'[s]) = ScratchSize(mod'.per)
                         ELSE ptr'[s] = Null
    BY <1>3, <1>4, <1>5, <1>7 DEF Sizes
  <2> QED BY <1>3, <1>4, <1>5, <1>7, <2>1 DEF Sizes
<1>10. Unready'
  BY <1>2, <1>3 DEF Inv, Unready, Created
<1>11. Module'
  BY <1>3 DEF Inv, Module, Numbered
<1>12. Given' /\ Running' /\ Frames' /\ Tame'
  BY <1>2, <1>3 DEF Inv, Given, Running, Frames, Tame
<1>13. AtHome'
  BY <1>2, <1>3, <1>7 DEF Inv, AtHome
<1> QED BY <1>8, <1>9, <1>10, <1>11, <1>12, <1>13, SizesAllNext DEF Inv

LEMMA FreshFacts ==
  ASSUME NEW s \in Kinds, NEW n \in Nat
  PROVE /\ Fresh(s, n) \in Seq(Int) /\ Len(Fresh(s, n)) = n
        /\ \A f \in 1 .. n : /\ s = "in" => Fresh(s, n)[f] = f
                             /\ s = "fwd" => Fresh(s, n)[f] = 0
<1> DEFINE x == Fresh(s, n)
<1>1. x = [f \in 1 .. n |-> IF s = "in" THEN f ELSE IF s = "fwd" THEN 0 ELSE Junk]
  BY DEF Fresh
<1> HIDE DEF x
<1>2. x \in [1 .. n -> Int]
  BY <1>1 DEF Junk
<1>3. x \in Seq(Int) /\ Len(x) = n
  BY <1>2, SeqOf
<1>4. s = "in" => \A f \in 1 .. n : x[f] = f
  BY <1>1
<1>5. s = "fwd" => \A f \in 1 .. n : x[f] = 0
  BY <1>1
<1> QED BY <1>3, <1>4, <1>5 DEF x

LEMMA FeedStep ==
  ASSUME TypeOK, Inv, Feed
  PROVE TypeOK' /\ Inv'
<1>1. /\ pc = "idle" /\ fed' = TRUE
      /\ memory' = [s \in Kinds |-> IF ~ Has(s) THEN memory[s]
                                    ELSE IF Reads(s) THEN Fresh(s, size[s])
                                    ELSE [f \in DOMAIN memory[s] |-> Junk]]
      /\ ptr' = [s \in Kinds |-> IF Reads(s) /\ Has(s) THEN Home ELSE ptr[s]]
      /\ ran' = [f \in 1 .. MaxFrames |-> 0]
  BY DEF Feed
<1>2. /\ pc' = pc /\ mod' = mod /\ sockets' = sockets /\ size' = size /\ saved' = saved
      /\ scratch' = scratch /\ status' = status /\ statusSize' = statusSize /\ todo' = todo
      /\ wild' = wild /\ lost' = lost
  BY DEF Feed, task
<1>3. /\ \A s : Has(s)' <=> Has(s)
      /\ Existing' = Existing
  BY <1>2, SameSockets
<1>4. Sizes
  BY SizesAll DEF Inv
<1>5. mod.n \in Nat
  BY DEF TypeOK, Mods
<1>6. ASSUME NEW s \in Kinds
      PROVE /\ memory'[s] \in Seq(Int)
            /\ s = "out" => Len(memory'[s]) = Len(memory[s])
            /\ Has(s) /\ Reads(s) =>
                 /\ Len(memory'[s]) = mod.n
                 /\ \A f \in 1 .. mod.n : /\ s = "in" => memory'[s][f] = f
                                          /\ s = "fwd" => memory'[s][f] = 0
  <2>1. memory[s] \in Seq(Int)
    BY DEF TypeOK, Buffer
  <2>2. CASE ~ Has(s)
    BY <1>1, <2>1, <2>2
  <2>3. CASE Has(s) /\ Reads(s)
    <3>1. memory'[s] = Fresh(s, mod.n) /\ s # "out"
      BY <1>1, <1>4, <2>3 DEF Sizes, Reads
    <3> DEFINE n == mod.n
               x == Fresh(s, n)
    <3>2. /\ x \in Seq(Int) /\ Len(x) = n
          /\ \A f \in 1 .. n : (s = "in" => x[f] = f) /\ (s = "fwd" => x[f] = 0)
      <4> HIDE DEF n
      <4>1. n \in Nat
        BY <1>5 DEF n
      <4> QED BY ONLY <4>1, s \in Kinds, FreshFacts
    <3> HIDE DEF x
    <3> QED BY <3>1, <3>2 DEF x
  <2>4. CASE Has(s) /\ ~ Reads(s)
    <3> DEFINE x == [f \in DOMAIN memory[s] |-> Junk]
    <3>1. Len(memory[s]) \in Nat /\ DOMAIN memory[s] = 1 .. Len(memory[s])
      BY <2>1, SeqFacts
    <3>2. x \in [1 .. Len(memory[s]) -> Int]
      BY <3>1 DEF Junk
    <3>3. memory'[s] = x
      BY <1>1, <2>4
    <3> HIDE DEF x
    <3>4. x \in Seq(Int) /\ Len(x) = Len(memory[s])
      BY <3>1, <3>2, SeqOf
    <3> QED BY <2>4, <3>3, <3>4
  <2> QED BY <2>2, <2>3, <2>4
<1>7. memory' \in Buffer
  BY <1>1, <1>6 DEF Buffer
<1>8. /\ ptr' \in [Kinds -> Pointer]
      /\ \A s \in Kinds : ~ Has(s) => ptr'[s] = ptr[s]
      /\ ptr'["out"] = ptr["out"]
      /\ \A s \in Kinds : ptr'[s] = ptr[s] \/ ptr'[s] = Home
  <2>1. \A s \in Kinds : ptr'[s] = IF Reads(s) /\ Has(s) THEN Home ELSE ptr[s]
    BY <1>1
  <2>2. ~ Reads("out")
    BY DEF Reads
  <2>3. ptr' \in [Kinds -> Pointer]
    BY <1>1, PointerFacts DEF TypeOK, Pointer
  <2> QED BY <2>1, <2>2, <2>3, KindFacts
<1>9. TypeOK'
  BY <1>1, <1>2, <1>7, <1>8 DEF TypeOK
<1>10. Sizes'
  <2>1. \A s \in Kinds : IF Has(s)' THEN size'[s] = mod'.n /\ Len(scratch'[s]) = ScratchSize(mod'.per)
                         ELSE ptr'[s] = Null
    BY <1>2, <1>3, <1>4, <1>8 DEF Sizes
  <2>2. Len(memory'["out"]) = Len(memory["out"])
    BY <1>6, KindFacts
  <2> QED BY <1>2, <1>3, <1>4, <1>8, <2>1, <2>2 DEF Sizes
<1>11. Unready'
  BY <1>1, <1>2 DEF Inv, Unready, Created
<1>12. Module'
  BY <1>2 DEF Inv, Module, Numbered
<1>13. Given'
  BY <1>2, <1>3, <1>6, KindFacts DEF Given
<1>14. Running' /\ Tame'
  BY <1>1, <1>2 DEF Inv, Running, Tame
<1>15. AtHome'
  BY <1>1, <1>2, <1>8 DEF Inv, AtHome
<1>16. Frames'
  <2>1. \A f \in 1 .. mod.n : ran'[f] = 0
    <3> DEFINE n == mod.n
    <3>1. n \in 1 .. MaxFrames /\ MaxFrames \in Nat
      BY BoundFacts DEF TypeOK, Mods
    <3> HIDE DEF n
    <3>2. \A f \in 1 .. n : f \in 1 .. MaxFrames
      BY ONLY <3>1
    <3>3. \A f \in 1 .. n : ran'[f] = 0
      BY <1>1, <3>2
    <3> QED BY <3>3 DEF n
  <2>2. Has("in") => \A f \in 1 .. mod.n : memory'["in"][f] = f
    BY <1>6, KindFacts DEF Reads
  <2>3. Has("fwd") => \A f \in 1 .. mod.n : memory'["fwd"][f] = 0
    BY <1>6, KindFacts DEF Reads
  <2>4. Handled(memory, ran)'
    BY <1>2, <1>3, <2>1, <2>2, <2>3 DEF Handled
  <2> QED BY <1>2, <2>1, <2>4 DEF Frames
<1> QED BY <1>9, <1>10, <1>11, <1>12, <1>13, <1>14, <1>15, <1>16, SizesAllNext DEF Inv

(***************************************************************************)
(* The setters of the module.                                              *)
(***************************************************************************)
Fields == {"mod", "size", "memory", "ptr", "scratch", "status", "statusSize"}

\* When the setters are called.
Settable == pc \in {"module", "idle"}

Shaped(a) ==
    /\ DOMAIN a = Fields
    /\ a.size \in [Kinds -> Nat] /\ a.memory \in Buffer /\ a.scratch \in Buffer
    /\ a.ptr \in [Kinds -> Pointer]
    /\ IsSeq(a.status) /\ a.statusSize \in Nat

Good(a) == Shaped(a) /\ a.mod \in Mods /\ Numbered(a.mod) /\ Sized(a)

\* What a setter leaves alone: the user's data and pointers, and all the data while
\* the number of frames stays.
Kept(a, b) ==
    /\ \A s \in Kinds : s # "out" => b.memory[s] = a.memory[s] /\ b.ptr[s] = a.ptr[s]
    /\ b.ptr["out"] = a.ptr["out"] \/ (Has("out") /\ b.ptr["out"] = Home)
    /\ b.mod.n = a.mod.n => b.memory = a.memory /\ b.ptr = a.ptr

LEMMA NumbersFacts ==
  ASSUME NEW m \in Mods, NEW n \in 1 .. MaxFrames, NEW per \in 1 .. MaxFrames,
         NEW r, r = Numbers(m, n, per)
  PROVE r \in Mods /\ Numbered(r) /\ r.n = n /\ r.per = per /\ r.single = m.single
<1>1. n \in Nat \ {0} /\ n <= FloatExact /\ per \in Nat \ {0}
  BY BoundFacts
<1>2. r = [m EXCEPT !.n = n, !.per = per, !.rest = n % per, !.waves = Waves(n, per)]
  BY DEF Numbers
<1>3. n % per \in Nat /\ Waves(n, per) \in Nat
  BY ONLY <1>1, WaveNumbers
<1> DEFINE rest == n % per
           W == Waves(n, per)
<1> HIDE DEF rest, W
<1>4. r = [m EXCEPT !.n = n, !.per = per, !.rest = rest, !.waves = W] /\ rest \in Nat /\ W \in Nat
  BY <1>2, <1>3 DEF rest, W
<1>5. r \in Mods /\ r.n = n /\ r.per = per /\ r.rest = rest /\ r.waves = W /\ r.single = m.single
  BY <1>4 DEF Mods
<1> QED BY <1>5 DEF Numbered, rest, W

LEMMA StatusFacts ==
  ASSUME NEW a, Shaped(a), NEW W \in Nat, Settable,
         pc \in Created => Len(a.status) = a.statusSize,
         NEW b, b = StatusFor(a, W)
  PROVE /\ Shaped(b)
        /\ b.mod = a.mod /\ b.size = a.size /\ b.memory = a.memory /\ b.scratch = a.scratch
        /\ b.ptr = a.ptr
        /\ pc \in Created => Len(b.status) = W /\ b.statusSize = W
<1>1. CASE pc = "module"
  <2>1. b = a
    BY <1>1 DEF StatusFor
  <2> QED BY <1>1, <2>1 DEF Created
<1>2. CASE pc = "idle" /\ a.statusSize = W
  <2>1. b = a
    BY <1>2 DEF StatusFor
  <2> QED BY <1>2, <2>1 DEF Created
<1>3. CASE pc = "idle" /\ a.statusSize # W
  <2>1. PICK z : z = Resize(a.status, W)
    OBVIOUS
  <2>2. b = [a EXCEPT !.status = z, !.statusSize = W]
    BY <1>3, <2>1 DEF StatusFor
  <2>3. IsSeq(z) /\ Len(z) = W
    BY <2>1, ResizeFacts
  <2>4. /\ DOMAIN b = Fields
        /\ b.mod = a.mod /\ b.size = a.size /\ b.memory = a.memory /\ b.scratch = a.scratch
        /\ b.ptr = a.ptr /\ b.status = z /\ b.statusSize = W
    BY <2>2 DEF Shaped, Fields
  <2> QED BY <2>3, <2>4 DEF Shaped
<1> QED BY <1>1, <1>2, <1>3 DEF Settable

LEMMA WithFramesFacts ==
  ASSUME Settable, NEW a, Good(a), NEW n \in 1 .. MaxFrames,
         NEW b, b = WithFrames(a, n)
  PROVE /\ Good(b) /\ Kept(a, b) /\ b.mod.n = n /\ b.mod.per = a.mod.per
        /\ b.mod.single = a.mod.single
<1>1. CASE a.mod.n = n
  <2>1. b = a
    BY <1>1 DEF WithFrames
  <2> QED BY <1>1, <2>1 DEF Kept
<1>2. CASE a.mod.n # n
  <2>1. PICK old : old = a.mod.n
    OBVIOUS
  <2>2. a.mod \in Mods /\ Shaped(a) /\ Sized(a)
    BY DEF Good
  <2>3. old \in Nat \ {0} /\ n \in Nat \ {0}
    BY <2>1, <2>2, BoundFacts DEF Mods
  <2>4. PICK m : m = Numbers(a.mod, n, a.mod.per)
    OBVIOUS
  <2>5. m \in Mods /\ Numbered(m) /\ m.n = n /\ m.per = a.mod.per /\ m.single = a.mod.single
    <3>1. PICK per, r : per = a.mod.per /\ r = a.mod
      OBVIOUS
    <3>2. r \in Mods /\ per \in 1 .. MaxFrames /\ m = Numbers(r, n, per)
      BY <2>2, <2>4, <3>1 DEF Mods
    <3>3. m \in Mods /\ Numbered(m) /\ m.n = n /\ m.per = per /\ m.single = r.single
      BY ONLY <3>2, n \in 1 .. MaxFrames, NumbersFacts
    <3> QED BY <3>1, <3>3
  <2>6. PICK x : x = [a EXCEPT !.mod = m]
    OBVIOUS
  <2>7. /\ Shaped(x) /\ x.mod = m /\ x.size = a.size /\ x.memory = a.memory
        /\ x.scratch = a.scratch /\ x.ptr = a.ptr /\ x.status = a.status
        /\ x.statusSize = a.statusSize
    BY <2>2, <2>6 DEF Shaped, Fields
  <2>8. b = UpdateFrames(x, old, n)
    BY <1>2, <2>1, <2>4, <2>6 DEF WithFrames
  <2>9. PICK y : y = StatusFor(x, m.waves)
    OBVIOUS
  <2>10. /\ Shaped(y)
         /\ y.mod = m /\ y.size = a.size /\ y.memory = a.memory /\ y.scratch = a.scratch
         /\ y.ptr = a.ptr
         /\ pc \in Created => Len(y.status) = m.waves /\ y.statusSize = m.waves
    <3>1. PICK W : W = m.waves
      OBVIOUS
    <3>2. W \in Nat /\ y = StatusFor(x, W) /\ Shaped(x)
      BY <2>5, <2>7, <2>9, <3>1 DEF Mods
    <3>3. pc \in Created => Len(x.status) = x.statusSize
      BY <2>2, <2>7 DEF Sized
    <3>4. /\ Shaped(y)
          /\ y.mod = x.mod /\ y.size = x.size /\ y.memory = x.memory /\ y.scratch = x.scratch
          /\ y.ptr = x.ptr
          /\ pc \in Created => Len(y.status) = W /\ y.statusSize = W
      BY ONLY Settable, <3>2, <3>3, StatusFacts
    <3> QED BY <2>7, <3>1, <3>4
  <2>11. PICK sizes : sizes = [s \in Kinds |-> (a.size[s] \div old) * n]
    OBVIOUS
  <2>12. sizes \in [Kinds -> Nat] /\ \A s \in Kinds : a.size[s] = old => sizes[s] = n
    <3>1. ASSUME NEW s \in Kinds PROVE sizes[s] \in Nat /\ (a.size[s] = old => sizes[s] = n)
      <4>1. PICK k : k = a.size[s]
        OBVIOUS
      <4>2. k \in Nat
        BY <2>2, <4>1 DEF Shaped
      <4>3. k \div old \in Nat
        BY ONLY <2>3, <4>2, DivFacts
      <4>4. sizes[s] = (k \div old) * n
        BY <2>11, <4>1
      <4>5. sizes[s] \in Nat
        BY <2>3, <4>3, <4>4
      <4>6. ASSUME k = old PROVE sizes[s] = n
        <5>1. 1 \in Nat /\ 1 * old <= k /\ k < 1 * old + old
          BY <2>3, <4>6
        <5>2. k \div old = 1
          BY ONLY <2>3, <4>2, <5>1, QuotientUnique
        <5> QED BY <2>3, <4>4, <5>2
      <4> QED BY <4>1, <4>5, <4>6
    <3>2. sizes = [s \in Kinds |-> sizes[s]]
      BY <2>11
    <3> QED BY <3>1, <3>2
  <2>13. b = [y EXCEPT !.size = sizes,
                       !.memory["out"] = IF Has("out") THEN Resize(@, sizes["out"]) ELSE @,
                       !.ptr["out"] = IF Has("out") THEN Home ELSE @]
    <3>1. sizes = [s \in Kinds |-> (x.size[s] \div old) * n]
      BY <2>7, <2>11
    <3> QED BY <2>7, <2>8, <2>9, <3>1 DEF UpdateFrames
  <2>14. PICK out : out = Resize(a.memory["out"], sizes["out"])
    OBVIOUS
  <2>15. /\ DOMAIN b = Fields
         /\ b.mod = m /\ b.size = sizes /\ b.scratch = a.scratch
         /\ b.status = y.status /\ b.statusSize = y.statusSize
         /\ b.memory = [a.memory EXCEPT !["out"] = IF Has("out") THEN out ELSE @]
         /\ b.ptr = [a.ptr EXCEPT !["out"] = IF Has("out") THEN Home ELSE @]
    BY <2>10, <2>13, <2>14 DEF Shaped, Fields
  <2>16. out \in Seq(Int) /\ Len(out) = sizes["out"] /\ a.memory["out"] \in Seq(Int)
    <3>1. a.memory["out"] \in Seq(Int) /\ sizes["out"] \in Nat
      BY <2>2, <2>12, KindFacts DEF Shaped, Buffer
    <3> QED BY <2>14, <3>1, ResizeFacts
  <2>17. /\ b.memory \in Buffer /\ b.ptr \in [Kinds -> Pointer]
         /\ \A s \in Kinds : s # "out" => b.memory[s] = a.memory[s] /\ b.ptr[s] = a.ptr[s]
         /\ Has("out") => b.memory["out"] = out /\ b.ptr["out"] = Home
         /\ ~ Has("out") => b.ptr["out"] = a.ptr["out"]
    <3>1. a.memory \in [Kinds -> Seq(Int)] /\ a.ptr \in [Kinds -> Pointer]
      BY <2>2 DEF Shaped, Buffer
    <3>2. Home \in Pointer
      BY PointerFacts DEF Pointer
    <3>3. /\ b.memory \in [Kinds -> Seq(Int)]
          /\ \A s \in Kinds : s # "out" => b.memory[s] = a.memory[s]
          /\ Has("out") => b.memory["out"] = out
      BY <2>15, <2>16, <3>1, KindFacts
    <3>4. /\ b.ptr \in [Kinds -> Pointer]
          /\ \A s \in Kinds : s # "out" => b.ptr[s] = a.ptr[s]
          /\ Has("out") => b.ptr["out"] = Home
          /\ ~ Has("out") => b.ptr["out"] = a.ptr["out"]
      BY <2>15, <3>1, <3>2, KindFacts
    <3> QED BY <3>3, <3>4 DEF Buffer
  <2>18. Shaped(b)
    BY <2>2, <2>10, <2>12, <2>15, <2>17 DEF Shaped
  <2>19. Sized(b)
    <3>1. pc \in Created => Len(b.status) = b.mod.waves /\ b.statusSize = b.mod.waves
      BY <2>10, <2>15
    <3>2. ASSUME NEW s \in Kinds
          PROVE IF Has(s) THEN b.size[s] = b.mod.n /\ Len(b.scratch[s]) = ScratchSize(b.mod.per)
                ELSE b.ptr[s] = Null
      <4>1. CASE Has(s)
        <5>1. a.size[s] = old /\ Len(a.scratch[s]) = ScratchSize(a.mod.per)
          BY <2>1, <2>2, <4>1 DEF Sized
        <5> QED BY <2>5, <2>12, <2>15, <4>1, <5>1
      <4>2. CASE ~ Has(s)
        <5>1. a.ptr[s] = Null
          BY <2>2, <4>2 DEF Sized
        <5> QED BY <2>17, <4>2, <5>1
      <4> QED BY <4>1, <4>2
    <3>3. Has("out") => Len(b.memory["out"]) = b.mod.n
      <4>1. Has("out") => a.size["out"] = old
        BY <2>1, <2>2, KindFacts DEF Sized
      <4> QED BY <2>5, <2>12, <2>15, <2>16, <2>17, <4>1, KindFacts
    <3> QED BY <3>1, <3>2, <3>3 DEF Sized
  <2>20. Kept(a, b)
    BY <1>2, <2>5, <2>15, <2>17 DEF Kept
  <2> QED BY <2>5, <2>15, <2>18, <2>19, <2>20 DEF Good
<1> QED BY <1>1, <1>2

LEMMA WithPerWaveFacts ==
  ASSUME Settable, NEW a, Good(a), NEW per \in 1 .. MaxFrames,
         NEW b, b = WithPerWave(a, per)
  PROVE /\ Good(b) /\ Kept(a, b) /\ b.mod.per = per /\ b.mod.n = a.mod.n
        /\ b.mod.single = a.mod.single
<1>1. CASE a.mod.per = per
  <2>1. b = a
    BY <1>1 DEF WithPerWave
  <2> QED BY <1>1, <2>1 DEF Kept
<1>2. CASE a.mod.per # per
  <2>1. a.mod \in Mods /\ Shaped(a) /\ Sized(a)
    BY DEF Good
  <2>2. PICK m : m = Numbers(a.mod, a.mod.n, per)
    OBVIOUS
  <2>3. m \in Mods /\ Numbered(m) /\ m.n = a.mod.n /\ m.per = per /\ m.single = a.mod.single
    <3>1. PICK n, r : n = a.mod.n /\ r = a.mod
      OBVIOUS
    <3>2. r \in Mods /\ n \in 1 .. MaxFrames /\ m = Numbers(r, n, per)
      BY <2>1, <2>2, <3>1 DEF Mods
    <3>3. m \in Mods /\ Numbered(m) /\ m.n = n /\ m.per = per /\ m.single = r.single
      BY ONLY <3>2, per \in 1 .. MaxFrames, NumbersFacts
    <3> QED BY <3>1, <3>3
  <2>4. PICK x : x = [a EXCEPT !.mod = m]
    OBVIOUS
  <2>5. /\ Shaped(x) /\ x.mod = m /\ x.size = a.size /\ x.memory = a.memory
        /\ x.scratch = a.scratch /\ x.ptr = a.ptr /\ x.status = a.status
        /\ x.statusSize = a.statusSize
    BY <2>1, <2>4 DEF Shaped, Fields
  <2>6. b = UpdatePerWave(x, per)
    BY <1>2, <2>2, <2>4 DEF WithPerWave
  <2>7. PICK y : y = StatusFor(x, m.waves)
    OBVIOUS
  <2>8. /\ Shaped(y)
        /\ y.mod = m /\ y.size = a.size /\ y.memory = a.memory /\ y.scratch = a.scratch
        /\ y.ptr = a.ptr
        /\ pc \in Created => Len(y.status) = m.waves /\ y.statusSize = m.waves
    <3>1. PICK W : W = m.waves
      OBVIOUS
    <3>2. W \in Nat /\ y = StatusFor(x, W) /\ Shaped(x)
      BY <2>3, <2>5, <2>7, <3>1 DEF Mods
    <3>3. pc \in Created => Len(x.status) = x.statusSize
      BY <2>1, <2>5 DEF Sized
    <3>4. /\ Shaped(y)
          /\ y.mod = x.mod /\ y.size = x.size /\ y.memory = x.memory /\ y.scratch = x.scratch
          /\ y.ptr = x.ptr
          /\ pc \in Created => Len(y.status) = W /\ y.statusSize = W
      BY ONLY Settable, <3>2, <3>3, StatusFacts
    <3> QED BY <2>5, <3>1, <3>4
  <2>9. PICK z : z = [s \in Kinds |-> IF Has(s) THEN Resize(a.scratch[s], ScratchSize(per))
                                      ELSE a.scratch[s]]
    OBVIOUS
  <2>10. ScratchSize(per) \in Nat
    BY BoundFacts DEF ScratchSize
  <2>11. z \in Buffer /\ \A s \in Kinds : Has(s) => Len(z[s]) = ScratchSize(per)
    <3>1. ASSUME NEW s \in Kinds
          PROVE z[s] \in Seq(Int) /\ (Has(s) => Len(z[s]) = ScratchSize(per))
      <4>1. a.scratch[s] \in Seq(Int)
        BY <2>1 DEF Shaped, Buffer
      <4>2. /\ Resize(a.scratch[s], ScratchSize(per)) \in Seq(Int)
            /\ Len(Resize(a.scratch[s], ScratchSize(per))) = ScratchSize(per)
        BY <2>10, <4>1, ResizeFacts
      <4> QED BY <2>9, <4>1, <4>2
    <3> QED BY <2>9, <3>1 DEF Buffer
  <2>12. b = [y EXCEPT !.scratch = z]
    BY <2>5, <2>6, <2>7, <2>8, <2>9 DEF UpdatePerWave
  <2>13. /\ DOMAIN b = Fields
         /\ b.mod = m /\ b.size = a.size /\ b.scratch = z /\ b.memory = a.memory
         /\ b.ptr = a.ptr /\ b.status = y.status /\ b.statusSize = y.statusSize
    BY <2>8, <2>12 DEF Shaped, Fields
  <2>14. Shaped(b)
    BY <2>1, <2>8, <2>11, <2>13 DEF Shaped
  <2>15. Sized(b)
    BY <2>1, <2>3, <2>8, <2>11, <2>13 DEF Sized
  <2>16. Kept(a, b)
    BY <2>3, <2>13 DEF Kept
  <2> QED BY <2>3, <2>13, <2>14, <2>15, <2>16 DEF Good
<1> QED BY <1>1, <1>2

\* Two changes, of which only one is of the number of frames.
LEMMA KeptTwice ==
  ASSUME NEW a, NEW b, NEW c, Kept(a, b), Kept(b, c), b.mod.n = a.mod.n \/ c.mod.n = b.mod.n
  PROVE Kept(a, c)
<1>1. \A s \in Kinds : s # "out" => c.memory[s] = a.memory[s] /\ c.ptr[s] = a.ptr[s]
  BY DEF Kept
<1>2. c.ptr["out"] = a.ptr["out"] \/ (Has("out") /\ c.ptr["out"] = Home)
  BY DEF Kept
<1>3. c.mod.n = a.mod.n => c.memory = a.memory /\ c.ptr = a.ptr
  BY DEF Kept
<1> QED BY <1>1, <1>2, <1>3 DEF Kept

LEMMA SetFramesFacts ==
  ASSUME Settable, NEW a, Good(a), NEW n \in 1 .. MaxFrames, NEW b, b = SetFrames(a, n)
  PROVE /\ Good(b) /\ Kept(a, b) /\ b.mod.n = n /\ b.mod.single = a.mod.single
        /\ b.mod.single => b.mod.per = n
<1>1. PICK x : x = WithFrames(a, n)
  OBVIOUS
<1>2. Good(x) /\ Kept(a, x) /\ x.mod.n = n /\ x.mod.single = a.mod.single
  BY ONLY Settable, Good(a), n \in 1 .. MaxFrames, <1>1, WithFramesFacts
<1>3. b = IF x.mod.single THEN WithPerWave(x, n) ELSE x
  BY <1>1 DEF SetFrames
<1>4. CASE x.mod.single
  <2>1. b = WithPerWave(x, n)
    BY <1>3, <1>4
  <2>2. /\ Good(b) /\ Kept(x, b) /\ b.mod.per = n /\ b.mod.n = x.mod.n
        /\ b.mod.single = x.mod.single
    BY ONLY Settable, <1>2, n \in 1 .. MaxFrames, <2>1, WithPerWaveFacts
  <2>3. Kept(a, b)
    BY ONLY <1>2, <2>2, KeptTwice
  <2> QED BY <1>2, <2>2, <2>3
<1>5. CASE ~ x.mod.single
  BY <1>2, <1>3, <1>5
<1> QED BY <1>4, <1>5

LEMMA SetPerWaveFacts ==
  ASSUME Settable, NEW a, Good(a), NEW per \in 1 .. MaxFrames, NEW b, b = SetPerWave(a, per)
  PROVE /\ Good(b) /\ Kept(a, b) /\ b.mod.per = per /\ b.mod.single = a.mod.single
        /\ b.mod.n = IF b.mod.single THEN per ELSE a.mod.n
<1>1. PICK x : x = WithPerWave(a, per)
  OBVIOUS
<1>2. /\ Good(x) /\ Kept(a, x) /\ x.mod.per = per /\ x.mod.n = a.mod.n
      /\ x.mod.single = a.mod.single
  BY ONLY Settable, Good(a), per \in 1 .. MaxFrames, <1>1, WithPerWaveFacts
<1>3. b = IF x.mod.single THEN WithFrames(x, per) ELSE x
  BY <1>1 DEF SetPerWave
<1>4. CASE x.mod.single
  <2>1. b = WithFrames(x, per)
    BY <1>3, <1>4
  <2>2. /\ Good(b) /\ Kept(x, b) /\ b.mod.n = per /\ b.mod.per = x.mod.per
        /\ b.mod.single = x.mod.single
    BY ONLY Settable, <1>2, per \in 1 .. MaxFrames, <2>1, WithFramesFacts
  <2>3. Kept(a, b)
    BY ONLY <1>2, <2>2, KeptTwice
  <2> QED BY <1>2, <1>4, <2>2, <2>3
<1>5. CASE ~ x.mod.single
  BY <1>2, <1>3, <1>5
<1> QED BY <1>4, <1>5

LEMMA SetSingleFacts ==
  ASSUME Settable, NEW a, Good(a), NEW single \in BOOLEAN, NEW b, b = SetSingle(a, single)
  PROVE Good(b) /\ Kept(a, b) /\ (b.mod.single => b.mod.n = b.mod.per)
<1>1. PICK x, n : x = [a EXCEPT !.mod.single = single] /\ n = a.mod.n
  OBVIOUS
<1>2. Shaped(a) /\ a.mod \in Mods /\ Numbered(a.mod) /\ Sized(a) /\ n \in 1 .. MaxFrames
  BY <1>1 DEF Good, Mods
<1>3. PICK m : m = [a.mod EXCEPT !.single = single]
  OBVIOUS
<1>4. m \in Mods /\ Numbered(m) /\ m.n = a.mod.n /\ m.per = a.mod.per /\ m.waves = a.mod.waves
  BY <1>2, <1>3 DEF Mods, Numbered
<1>5. /\ DOMAIN x = Fields /\ x.mod = m /\ x.size = a.size /\ x.memory = a.memory
      /\ x.scratch = a.scratch /\ x.ptr = a.ptr /\ x.status = a.status
      /\ x.statusSize = a.statusSize
  BY <1>1, <1>2, <1>3 DEF Shaped, Fields
<1>6. Good(x)
  BY <1>2, <1>4, <1>5 DEF Good, Shaped, Sized
<1>7. Kept(a, x) /\ x.mod.n = n
  BY <1>1, <1>4, <1>5 DEF Kept
<1>8. PICK y : y = SetFrames(x, n)
  OBVIOUS
<1>9. Good(y) /\ Kept(x, y) /\ y.mod.n = n
  BY ONLY Settable, <1>2, <1>6, <1>8, SetFramesFacts
<1>10. b = SetPerWave(y, n)
  BY <1>1, <1>8 DEF SetSingle
<1>11. Good(b) /\ Kept(y, b) /\ b.mod.per = n
       /\ b.mod.n = IF b.mod.single THEN n ELSE y.mod.n
  BY ONLY Settable, <1>2, <1>9, <1>10, SetPerWaveFacts
<1>12. Kept(a, y)
  BY ONLY <1>7, <1>9, KeptTwice
<1>13. b.mod.n = y.mod.n
  BY <1>9, <1>11
<1>14. Kept(a, b)
  BY ONLY <1>11, <1>12, <1>13, KeptTwice
<1> QED BY <1>9, <1>11, <1>13, <1>14

LEMMA GoodAll ==
  ASSUME TypeOK, Inv
  PROVE /\ Good(All)
        /\ All.mod = mod /\ All.memory = memory /\ All.ptr = ptr
<1>1. /\ DOMAIN All = Fields
      /\ All.mod = mod /\ All.size = size /\ All.memory = memory /\ All.ptr = ptr
      /\ All.scratch = scratch /\ All.status = status /\ All.statusSize = statusSize
  BY DEF All, Fields
<1>2. Shaped(All)
  BY <1>1 DEF TypeOK, Shaped
<1>3. mod \in Mods /\ Numbered(mod) /\ Sized(All)
  BY DEF TypeOK, Inv, Module
<1> QED BY <1>1, <1>2, <1>3 DEF Good

LEMMA SetStep ==
  ASSUME TypeOK, Inv, NEW a, Good(a), Kept(All, a), a.mod.single => a.mod.n = a.mod.per, Set(a)
  PROVE TypeOK' /\ Inv'
<1>1. /\ pc \in {"module", "idle"}
      /\ mod' = a.mod /\ size' = a.size /\ memory' = a.memory /\ ptr' = a.ptr
      /\ scratch' = a.scratch /\ status' = a.status /\ statusSize' = a.statusSize
      /\ fed' = (fed /\ a.mod.n = mod.n)
  BY DEF Set
<1>2. /\ pc' = pc /\ sockets' = sockets /\ saved' = saved /\ todo' = todo /\ ran' = ran
      /\ wild' = wild /\ lost' = lost
  BY DEF Set
<1>3. /\ \A s : Has(s)' <=> Has(s)
      /\ Existing' = Existing
  BY <1>2, SameSockets
<1>4. Shaped(a) /\ a.mod \in Mods /\ Numbered(a.mod) /\ Sized(a)
  BY DEF Good
<1>5. /\ \A s \in Kinds : s # "out" => memory'[s] = memory[s] /\ ptr'[s] = ptr[s]
      /\ ptr'["out"] = ptr["out"] \/ (Has("out") /\ ptr'["out"] = Home)
      /\ mod'.n = mod.n => memory' = memory /\ ptr' = ptr
  BY <1>1, GoodAll DEF Kept
<1>6. TypeOK'
  <2>1. fed' \in BOOLEAN
    BY <1>1 DEF TypeOK
  <2> QED BY <1>1, <1>2, <1>4, <2>1 DEF TypeOK, Shaped
<1>7. Sizes'
  <2>1. pc \in Created => Len(status') = mod'.waves /\ statusSize' = mod'.waves
    BY <1>1, <1>4 DEF Sized
  <2>2. \A s \in Kinds : IF Has(s) THEN size'[s] = mod'.n /\ Len(scratch'[s]) = ScratchSize(mod'.per)
                         ELSE ptr'[s] = Null
    BY <1>1, <1>4 DEF Sized
  <2>3. Has("out") /\ ptr'["out"] # Null => Len(memory'["out"]) = mod'.n
    BY <1>1, <1>4 DEF Sized
  <2> QED BY <1>2, <1>3, <2>1, <2>2, <2>3 DEF Sizes
<1>8. Unready'
  <2>1. pc = "module" => sockets = <<>>
    BY DEF Inv, Unready
  <2>2. pc = "module" => ~ fed /\ ~ lost /\ ptr = [s \in Kinds |-> Null]
    BY DEF Inv, Unready, Created
  <2>3. pc = "module" => ~ Has("out")
    BY <2>1 DEF Has
  <2>4. pc = "module" => ptr' = [s \in Kinds |-> Null]
    <3>1. ptr' \in [Kinds -> Pointer]
      BY <1>6 DEF TypeOK
    <3> QED BY <1>5, <2>2, <2>3, <3>1, KindFacts
  <2>5. todo = <<>>
    BY <1>1 DEF Inv, Unready
  <2> QED BY <1>1, <1>2, <2>1, <2>2, <2>4, <2>5 DEF Unready, Created
<1>9. Module'
  BY <1>1, <1>4 DEF Module, Numbered
<1>10. Given'
  <2>1. fed' => fed /\ mod'.n = mod.n
    BY <1>1
  <2> QED BY <1>3, <1>5, <2>1 DEF Inv, Given
<1>11. Running' /\ Tame'
  BY <1>1, <1>2 DEF Inv, Running, Tame
<1>12. AtHome'
  BY <1>1, <1>2, <1>5 DEF Inv, AtHome
<1>13. Frames'
  <2>1. SUFFICES ASSUME fed', ~ lost
                 PROVE /\ Handled(memory, ran)'
                       /\ Has("out")' /\ ptr'["out"] = Null => \A f \in 1 .. mod'.n : ran'[f] = 0
    BY <1>2 DEF Frames
  <2>2. fed /\ mod'.n = mod.n /\ memory' = memory /\ ptr' = ptr
    BY <1>1, <1>5, <2>1
  <2> QED BY <1>2, <1>3, <2>1, <2>2 DEF Inv, Frames, Handled
<1> QED BY <1>6, <1>7, <1>8, <1>9, <1>10, <1>11, <1>12, <1>13, SizesAllNext DEF Inv

LEMMA SettersStep ==
  ASSUME TypeOK, Inv, SetNFrames \/ SetNFramesPerWave \/ SetSingleWave
  PROVE TypeOK' /\ Inv'
<1>1. Good(All) /\ Settable
  <2>1. Settable
    BY DEF SetNFrames, SetNFramesPerWave, SetSingleWave, Set, Settable
  <2> QED BY <2>1, GoodAll
<1>2. CASE SetNFrames
  <2>1. PICK n \in 1 .. MaxFrames : Set(SetFrames(All, n))
    BY <1>2 DEF SetNFrames
  <2>2. PICK a : a = SetFrames(All, n) /\ Set(a)
    BY <2>1
  <2>3. Good(a) /\ Kept(All, a) /\ (a.mod.single => a.mod.n = a.mod.per)
    <3>1. /\ Good(a) /\ Kept(All, a) /\ a.mod.n = n
          /\ a.mod.single => a.mod.per = n
      BY ONLY <1>1, <2>2, n \in 1 .. MaxFrames, SetFramesFacts
    <3> QED BY <3>1
  <2> QED BY <2>2, <2>3, SetStep
<1>3. CASE SetNFramesPerWave
  <2>1. PICK per \in 1 .. MaxFrames : Set(SetPerWave(All, per))
    BY <1>3 DEF SetNFramesPerWave
  <2>2. PICK a : a = SetPerWave(All, per) /\ Set(a)
    BY <2>1
  <2>3. Good(a) /\ Kept(All, a) /\ (a.mod.single => a.mod.n = a.mod.per)
    <3>1. /\ Good(a) /\ Kept(All, a) /\ a.mod.per = per
          /\ a.mod.n = IF a.mod.single THEN per ELSE All.mod.n
      BY ONLY <1>1, <2>2, per \in 1 .. MaxFrames, SetPerWaveFacts
    <3> QED BY <3>1
  <2> QED BY <2>2, <2>3, SetStep
<1>4. CASE SetSingleWave
  <2>1. PICK single \in BOOLEAN : Set(SetSingle(All, single))
    BY <1>4 DEF SetSingleWave
  <2>2. PICK a : a = SetSingle(All, single) /\ Set(a)
    BY <2>1
  <2>3. Good(a) /\ Kept(All, a) /\ (a.mod.single => a.mod.n = a.mod.per)
    BY ONLY <1>1, <2>2, single \in BOOLEAN, SetSingleFacts
  <2> QED BY <2>2, <2>3, SetStep
<1> QED BY <1>2, <1>3, <1>4

(***************************************************************************)
(* Theorems.                                                               *)
(***************************************************************************)

\* Every state of a task, its module and its buffers satisfies the inductive invariant, with
\* numbers of frames and of frames per wave up to FloatExact, the bound of MaxFrames.
THEOREM Invariance == Spec => []IInv
<1>1. Init => IInv
  BY InitFacts DEF IInv
<1>2. IInv /\ [Next]_vars => IInv'
  <2> SUFFICES ASSUME TypeOK, Inv, [Next]_vars PROVE TypeOK' /\ Inv'
    BY DEF IInv
  <2>1. CASE SetNFrames \/ SetNFramesPerWave \/ SetSingleWave
    BY <2>1, SettersStep
  <2>2. CASE CreateTask
    BY <2>2, CreateTaskStep
  <2>3. CASE CreateCodelet
    BY <2>3, CreateCodeletStep
  <2>4. CASE AllocateOutbuffers
    BY <2>4, AllocateOutbuffersStep
  <2>5. CASE CloneTask
    BY <2>5, CloneTaskStep
  <2>6. CASE Feed
    BY <2>6, FeedStep
  <2>7. CASE Throw
    BY <2>7, ThrowStep
  <2>8. CASE CreateSocket
    <3>1. PICK s \in Kinds : NewSocket(s)
      BY <2>8, KindFacts DEF CreateSocket, CreateSocketIn, CreateSocketOut, CreateSocketFwd
    <3> QED BY <3>1, NewSocketStep
  <2>9. CASE \E frame \in -1 .. MaxFrames - 1, managed \in BOOLEAN : Exec(frame, managed)
    BY <2>9, ExecStep
  <2>10. CASE \E result \in Statuses : RunWave(result)
    BY <2>10, RunWaveStep
  <2>11. CASE UNCHANGED vars
    <3>1. /\ pc' = pc /\ mod' = mod /\ sockets' = sockets /\ size' = size /\ saved' = saved
          /\ memory' = memory /\ scratch' = scratch /\ ptr' = ptr /\ status' = status
          /\ statusSize' = statusSize /\ todo' = todo /\ fed' = fed /\ ran' = ran
          /\ wild' = wild /\ lost' = lost
      BY <2>11 DEF vars, task, data, ghosts
    <3>2. /\ \A s : Has(s)' <=> Has(s)
          /\ Existing' = Existing
      BY <3>1, SameSockets
    <3>3. Sizes'
      <4>1. Sizes
        BY SizesAll DEF Inv
      <4> QED BY <3>1, <3>2, <4>1 DEF Sizes
    <3>4. TypeOK'
      BY <3>1 DEF TypeOK
    <3>5. Module' /\ Unready' /\ Given'
      BY <3>1, <3>2 DEF Inv, Module, Numbered, Unready, Given
    <3>6. Running'
      BY <3>1, <3>2 DEF Inv, Running, Fitting
    <3>7. AtHome' /\ Tame'
      BY <3>1, <3>2 DEF Inv, AtHome, Tame
    <3>8. Frames'
      BY <3>1, <3>2 DEF Inv, Frames, Handled
    <3> QED BY <3>3, <3>4, <3>5, <3>6, <3>7, <3>8, SizesAllNext DEF Inv
  <2> QED BY <2>1, <2>2, <2>3, <2>4, <2>5, <2>6, <2>7, <2>8, <2>9, <2>10, <2>11 DEF Next
<1> QED BY <1>1, <1>2, PTL DEF Spec

LEMMA OneWave ==
  ASSUME NEW n \in Nat \ {0}
  PROVE Waves(n, n) = 1
<1>1. n \div n = 1 /\ n % n = 0
  <2>1. n \div n = 1
    <3>1. n \in Nat /\ 1 \in Nat /\ 1 * n <= n /\ n < 1 * n + n
      OBVIOUS
    <3> QED BY ONLY <3>1, n \in Nat \ {0}, QuotientUnique
  <2>2. n \div n \in Nat /\ n = (n \div n) * n + (n % n) /\ n % n \in 0 .. n - 1
    BY DivFacts
  <2> QED BY <2>1, <2>2
<1> QED BY <1>1 DEF Waves

\* For any numbers of frames and of frames per wave up to 2^24, set in any order and at any
\* time between the calls, Task::_exec and the setters of Module keep an execution inside the
\* memory of the sockets, the scratch memory and the statuses, and leave sizes and
\* pointers as the user has them.
THEOREM InBoundsCorrect == Spec => []InBounds
<1>1. IInv => InBounds
  <2> SUFFICES ASSUME TypeOK, Inv PROVE InBounds
    BY DEF IInv
  <2>1. lost \/ ~ wild
    BY DEF Inv, Tame
  <2>2. Sizes
    BY SizesAll DEF Inv
  <2>3. mod.single => mod.waves = 1
    <3>1. Numbered(mod) /\ (mod.single => mod.n = mod.per)
      BY DEF Inv, Module
    <3>2. mod.n \in Nat \ {0} /\ mod.waves = Waves(mod.n, mod.per)
      BY <3>1, ModuleFacts
    <3>3. Waves(mod.n, mod.n) = 1
      BY ONLY <3>2, OneWave
    <3> QED BY <3>1, <3>2, <3>3
  <2>4. pc = "idle" => lost \/ \A s \in Existing : ptr[s] \in {Null, Home}
    BY KindFacts DEF Inv, AtHome
  <2>5. pc = "idle" => pc \in Created
    BY DEF Created
  <2> QED BY <2>1, <2>2, <2>3, <2>4, <2>5, KindFacts DEF InBounds, Sizes
<1> QED BY <1>1, Invariance, PTL

\* However Task::_exec cuts the frames into waves, and through the scratch memory or not,
\* each frame is read, transformed and written once by each execution that asks for it, for
\* up to 2^24 frames.
THEOREM FramesExactCorrect == Spec => []FramesExact
<1>1. IInv => FramesExact
  BY DEF IInv, Inv, Frames, Handled, FramesExact
<1> QED BY <1>1, Invariance, PTL

=============================================================================
