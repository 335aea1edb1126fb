----------------------- MODULE ReporterProbe_proofs -----------------------
(***************************************************************************)
(* Theorems about ReporterProbe, for any probes and stages, frames in a    *)
(* wave, sizes of the rings, waves and executions: a value is told once    *)
(* and in its order, and the rows of the reports are the frames.           *)
(***************************************************************************)
EXTENDS ReporterProbe, FiniteSetTheorems, TLAPS

(***************************************************************************)
(* Facts about remainders and quotients, for the positions in the rings.   *)
(***************************************************************************)
\* Below twice the modulus, the remainder is one subtraction away.
LEMMA ModSmall ==
  ASSUME NEW M \in Nat \ {0}, NEW x \in 0 .. 2 * M - 1
  PROVE x % M = IF x < M THEN x ELSE x - M
  OBVIOUS

\* Every integer has a quotient and a remainder.
LEMMA DivMod ==
  ASSUME NEW N \in Nat \ {0}, NEW x \in Int
  PROVE \E q \in Int, r \in 0 .. N - 1 : x = q * N + r /\ r = x % N
  OBVIOUS

\* Multiples of a number are at least that number apart.
LEMMA NextMultiple ==
  ASSUME NEW N \in Nat \ {0}, NEW a \in Int, NEW b \in Int, a < b
  PROVE a * N + N <= b * N
<1>1. (a + 1) * N <= b * N
  OBVIOUS
<1>2. (a + 1) * N = a * N + N
  OBVIOUS
<1> QED BY <1>1, <1>2

LEMMA Quotient ==
  ASSUME NEW N \in Nat \ {0}, NEW K \in Nat, NEW x \in Nat, x < N * K
  PROVE /\ x \div N \in 0 .. K - 1
        /\ (x \div N) * N <= x /\ x < (x \div N) * N + N
<1>1. PICK q \in Int, r \in 0 .. N - 1 : x = q * N + r /\ r = x % N
  BY DivMod
<1>2. x \div N = q
  BY <1>1
<1>3. q >= 0
  <2> SUFFICES ASSUME q <= -1 PROVE FALSE
    BY <1>1
  <2>1. q * N <= -N
    OBVIOUS
  <2> QED BY <1>1, <2>1
<1>4. q < K
  <2> SUFFICES ASSUME q >= K PROVE FALSE
    BY <1>1
  <2>1. q * N >= N * K
    OBVIOUS
  <2> QED BY <1>1, <2>1
<1> QED BY <1>1, <1>2, <1>3, <1>4

LEMMA ExactQuotient ==
  ASSUME NEW N \in Nat \ {0}, NEW B \in Nat
  PROVE (N * B) \div N = B
<1>1. N * B \in Nat /\ N * B < N * (B + 1)
  OBVIOUS
<1>2. (N * B) \div N \in 0 .. B /\ ((N * B) \div N) * N <= N * B
      /\ N * B < ((N * B) \div N) * N + N
  BY <1>1, Quotient
<1> DEFINE q == (N * B) \div N
<1> HIDE DEF q
<1>3. q \in 0 .. B /\ N * B < q * N + N
  BY <1>2 DEF q
<1>4. ~ (q <= B - 1)
  <2> SUFFICES ASSUME q <= B - 1 PROVE FALSE
    OBVIOUS
  <2>1. q * N <= (B - 1) * N /\ (B - 1) * N = N * B - N
    BY <1>3
  <2> QED BY <1>3, <2>1
<1>5. q = B
  BY <1>3, <1>4
<1> QED BY <1>5 DEF q

(***************************************************************************)
(* A ring on its own.                                                      *)
(***************************************************************************)
Ring == [cells : Seq(Nat), head : Nat, tail : Nat]
Room(rg) == Len(rg.cells)
Held(rg) == rg.head - rg.tail + (IF rg.head >= rg.tail THEN 0 ELSE Room(rg))
Cell(rg, i) == rg.cells[((rg.tail + i - 1) % Room(rg)) + 1]

WithPushed(rg, v) == [rg EXCEPT !.cells[rg.head + 1] = v, !.head = (@ + 1) % Room(rg)]
WithTaken(rg) == [rg EXCEPT !.tail = (@ + 1) % Room(rg)]

\* Its indices are inside it, unless it is empty and was made smaller.
Sound(rg) == Room(rg) > 0 /\ (rg.head = rg.tail \/ (rg.head < Room(rg) /\ rg.tail < Room(rg)))

(***************************************************************************)
(* The inductive invariant.                                                *)
(***************************************************************************)
Modes == {"stage", "terminal", "nobody"}
Ending == {"stop", "notify", "join"}
Reporting == {"test", "lock", "wait", "report"}

TypeOK ==
    /\ pc \in {"rest", "exec", "final", "undefined"} \cup Ending
    /\ mode \in Modes
    /\ terminal \in {"none"} \cup Reporting
    /\ nFrames \in Nat \ {0} /\ buffSize \in Nat \ {0}
    /\ ring \in [Probes -> Ring]
    /\ done \in [Stages -> Nat] /\ next \in [Stages -> Nat]
    /\ report \in [Reporters -> Nat] /\ row \in [Reporters -> Seq(Nat)]
    /\ \A r \in Reporters : Len(row[r]) <= Columns
    /\ calls \in [Probes -> Nat] /\ lost \in [Probes -> Nat]
    /\ told \in [Probes -> Nat] /\ lastTold \in [Probes -> Nat]

Rings == \A p \in Probes : Sound(ring[p]) /\ Room(ring[p]) = nFrames * buffSize

\* A column holds what was pushed and is not told, in its order.  If nothing found it
\* full these are the calls that follow the ones told.
InOrder(rg, first, last, before, exact) ==
    /\ \A i \in 1 .. Held(rg) :
        /\ first < Cell(rg, i) /\ Cell(rg, i) <= last
        /\ exact => Cell(rg, i) = before + i
    /\ \A i, j \in 1 .. Held(rg) : i < j => Cell(rg, i) < Cell(rg, j)

Values ==
    \A p \in Probes :
        /\ told[p] + Held(ring[p]) + lost[p] = calls[p]
        /\ lastTold[p] <= calls[p]
        /\ InOrder(ring[p], lastTold[p], calls[p], told[p], lost[p] = 0)

\* Who may report when.
Roles ==
    /\ report["stage"] > 0 => pc = "exec" /\ mode = "stage"
    /\ report["terminal"] > 0 => terminal = "report"
    /\ terminal # "none" => mode = "terminal" /\ (pc = "exec" \/ pc \in Ending)
    /\ report["main"] > 0 => pc = "final"

\* Between two executions nothing is left of the one before.
Rested ==
    pc = "rest" =>
        /\ calls = Zeros /\ lost = Zeros /\ told = Zeros
        /\ \A r \in Reporters : row[r] = <<>>
        /\ \A p \in Probes : Held(ring[p]) = 0

\* The final report: a column without a value in the row is empty, and all are when it
\* is over.
Drained ==
    pc = "final" =>
        /\ report["main"] = 0 => \A p \in Probes : Held(ring[p]) = 0
        /\ \A p \in Probes :
            p <= Len(row["main"]) /\ row["main"][p] = NoValue => Held(ring[p]) = 0

\* Nobody tells a value before the final report.
Silent == mode = "nobody" /\ (pc = "exec" \/ pc \in Ending) => told = Zeros

\* The calls of a probe are the frames of the waves of its stage, and of the current
\* one those that the probes before it leave.
Frames(p) ==
    LET left == next[StageOf[p]] - Rank(p) * nFrames IN
    IF left < 0 THEN 0 ELSE IF left > nFrames THEN nFrames ELSE left

Waves ==
    pc = "exec" =>
        /\ \A s \in Stages : next[s] < nFrames * Cardinality(ProbesOf(s))
        /\ \A p \in Probes : calls[p] = done[StageOf[p]] * nFrames + Frames(p)

\* A stage is behind the ones before it, and ahead of the last one by what the
\* adaptors between them hold.
Distances ==
    pc = "exec" =>
        /\ \A s, u \in Stages :
            s < u => done[u] <= done[s] /\ (next[u] # 0 => done[u] < done[s])
        /\ \A s \in Stages :
            s < LastStage =>
                /\ done[s] <= done[LastStage] + Ahead * (LastStage - s)
                /\ next[s] # 0 => done[s] < done[LastStage] + Ahead * (LastStage - s)

Roomy == buffSize > Ahead * (LastStage - 1) + 1

\* The rows that the stop condition has told, and the one it is in.
RowsTold == done[LastStage] * nFrames - report["stage"]
InRow(p) == Len(row["stage"]) < Columns /\ p <= Len(row["stage"])

Rows ==
    pc = "exec" /\ mode = "stage" /\ Roomy =>
        /\ lost = Zeros
        /\ report["stage"] <= nFrames
        /\ report["stage"] = 0 => Len(row["stage"]) \in {0, Columns}
        /\ report["stage"] # 0 => next[LastStage] = 0
        /\ \A p \in Probes :
            /\ told[p] = RowsTold + (IF InRow(p) THEN 1 ELSE 0)
            /\ p <= Len(row["stage"]) => row["stage"][p] = told[p] /\ told[p] > 0

\* The final report, if nobody has reported before: the columns that have a value left
\* were told as often as each other.
FinalRow(n) ==
    \A p \in Probes :
        \/ p <= Len(row["main"]) /\ row["main"][p] = n /\ told[p] = n
        \/ p <= Len(row["main"]) /\ row["main"][p] = NoValue
        \/ p > Len(row["main"]) /\ (told[p] = n - 1 \/ Held(ring[p]) = 0)

FinalRows ==
    pc = "final" /\ mode = "nobody" /\ lost = Zeros => \E n \in Nat \ {0} : FinalRow(n)

Inv ==
    /\ Rings /\ Values /\ Roles /\ Rested /\ Drained /\ Silent
    /\ Waves /\ Distances /\ Rows /\ FinalRows

IInv == TypeOK /\ (pc # "undefined" => Inv)

(***************************************************************************)
(* What a push, a pull and a change of size do to a ring.                  *)
(***************************************************************************)
LEMMA HeldBounds ==
  ASSUME NEW rg \in Ring, Sound(rg)
  PROVE /\ Room(rg) \in Nat \ {0}
        /\ Held(rg) \in 0 .. Room(rg) - 1
        /\ Held(rg) = 0 <=> rg.head = rg.tail
BY DEF Ring, Sound, Room, Held

LEMMA CellValue ==
  ASSUME NEW rg \in Ring, Sound(rg), NEW i \in 1 .. Held(rg)
  PROVE Cell(rg, i) \in Nat
<1>1. Room(rg) \in Nat \ {0} /\ Held(rg) <= Room(rg) - 1
  BY HeldBounds
<1>2. rg.head < Room(rg) /\ rg.tail < Room(rg) /\ rg.tail \in Nat
  BY DEF Ring, Sound, Held
<1>3. (rg.tail + i - 1) % Room(rg) \in 0 .. Room(rg) - 1
  BY <1>1, <1>2
<1>4. rg.cells \in Seq(Nat) /\ Room(rg) = Len(rg.cells)
  BY DEF Ring, Room
<1> QED BY <1>1, <1>3, <1>4 DEF Cell

LEMMA Push ==
  ASSUME NEW rg \in Ring, Sound(rg), rg.head < Room(rg), Held(rg) # Room(rg) - 1,
         NEW v \in Nat, NEW new, new = WithPushed(rg, v)
  PROVE /\ new \in Ring /\ Sound(new) /\ Room(new) = Room(rg)
        /\ Held(new) = Held(rg) + 1
        /\ \A i \in 1 .. Held(rg) : Cell(new, i) = Cell(rg, i)
        /\ Cell(new, Held(rg) + 1) = v
<1> DEFINE M == Room(rg)
           h == rg.head
           t == rg.tail
<1>1. M \in Nat \ {0} /\ h \in 0 .. M - 1 /\ t \in 0 .. M - 1
      /\ rg.cells \in Seq(Nat) /\ Len(rg.cells) = M
  BY DEF Ring, Sound, Room
<1>2. /\ new.cells = [rg.cells EXCEPT ![h + 1] = v]
      /\ new.head = (h + 1) % M
      /\ new.tail = t
      /\ new = [cells |-> new.cells, head |-> new.head, tail |-> new.tail]
  BY DEF Ring, WithPushed
<1>3. new.head = IF h + 1 < M THEN h + 1 ELSE 0
  <2> DEFINE k == h + 1
  <2>1. k \in 0 .. 2 * M - 1 /\ M \in Nat \ {0}
    BY <1>1
  <2> HIDE DEF M, k
  <2>2. k % M = IF k < M THEN k ELSE k - M
    BY ONLY <2>1, ModSmall
  <2> USE DEF M, k
  <2> QED BY <1>1, <1>2, <2>2
<1>4. new.cells \in Seq(Nat) /\ Len(new.cells) = M
  BY <1>1, <1>2
<1> DEFINE cc == new.cells
           nh == new.head
<1>11. /\ new = [cells |-> cc, head |-> nh, tail |-> t]
       /\ cc = new.cells /\ nh = new.head /\ new.tail = t
  BY <1>2
<1>5. new \in Ring /\ Room(new) = M
  <2> HIDE DEF M, h, t, cc, nh
  <2>1. nh \in Nat /\ t \in Nat /\ cc \in Seq(Nat) /\ Len(cc) = M
    BY <1>1, <1>3, <1>4, <1>11
  <2> QED BY <1>11, <2>1 DEF Ring, Room
<1>6. Held(rg) = h - t + (IF h >= t THEN 0 ELSE M)
  BY DEF Held
<1>7. Held(new) = Held(rg) + 1 /\ Sound(new)
  <2>1. Held(new) = new.head - new.tail + (IF new.head >= new.tail THEN 0 ELSE M)
    BY <1>5 DEF Held
  <2>2. Sound(new) <=> M > 0 /\ (new.head = new.tail \/ (new.head < M /\ new.tail < M))
    BY <1>5 DEF Sound
  <2>3. Held(rg) # M - 1
    OBVIOUS
  <2>4. nh = IF h + 1 < M THEN h + 1 ELSE 0
    BY <1>3
  <2>5. Held(new) = nh - t + (IF nh >= t THEN 0 ELSE M)
    BY <2>1, <1>11
  <2>6. Sound(new) <=> M > 0 /\ (nh = t \/ (nh < M /\ t < M))
    BY <2>2, <1>11
  <2> HIDE DEF M, h, t, nh
  <2> QED BY ONLY <1>1, <1>6, <2>3, <2>4, <2>5, <2>6
<1>9. \A i \in 1 .. Held(rg) + 1 :
        Cell(new, i) = IF i = Held(rg) + 1 THEN v ELSE Cell(rg, i)
  <2> TAKE i \in 1 .. Held(rg) + 1
  <2>1. Cell(new, i) = new.cells[((t + i - 1) % M) + 1]
    BY <1>2, <1>5 DEF Cell
  <2>2. Cell(rg, i) = rg.cells[((t + i - 1) % M) + 1]
    BY DEF Cell
  <2>3. Held(rg) \in 0 .. M - 1
    BY HeldBounds
  <2> DEFINE j == t + i - 1
             k == j % M
  <2>4. j = t + i - 1 /\ i \in 1 .. Held(rg) + 1 /\ M \in Nat \ {0}
    BY <1>1
  <2>5. cc = [rg.cells EXCEPT ![h + 1] = v]
    BY <1>2
  <2>7. Cell(new, i) = cc[k + 1] /\ Cell(rg, i) = rg.cells[k + 1]
    BY <1>11, <2>1, <2>2
  <2> HIDE DEF M, h, t, j, cc
  <2>8. j \in 0 .. 2 * M - 1
    BY ONLY <1>1, <2>3, <2>4
  <2>9. k = IF j < M THEN j ELSE j - M
    BY ONLY <2>4, <2>8, ModSmall
  <2> HIDE DEF k
  <2>6. k \in 0 .. M - 1 /\ (k = h <=> i = Held(rg) + 1)
    BY ONLY <1>1, <1>6, <2>3, <2>4, <2>9
  <2> QED BY <1>1, <2>5, <2>6, <2>7
<1>10. Held(rg) \in Nat
  BY HeldBounds
<1> QED BY <1>5, <1>7, <1>9, <1>10

LEMMA Take ==
  ASSUME NEW rg \in Ring, Sound(rg), Held(rg) # 0,
         NEW new, new = WithTaken(rg)
  PROVE /\ new \in Ring /\ Sound(new) /\ Room(new) = Room(rg)
        /\ Held(new) = Held(rg) - 1
        /\ \A i \in 1 .. Held(new) : Cell(new, i) = Cell(rg, i + 1)
<1> DEFINE M == Room(rg)
           h == rg.head
           t == rg.tail
<1>1. M \in Nat \ {0} /\ h \in 0 .. M - 1 /\ t \in 0 .. M - 1 /\ h # t
  BY HeldBounds DEF Ring, Sound, Room
<1>2. /\ new.cells = rg.cells /\ new.head = h /\ new.tail = (t + 1) % M
      /\ new = [cells |-> new.cells, head |-> new.head, tail |-> new.tail]
  BY DEF Ring, WithTaken
<1>3. (t + 1) % M = IF t + 1 < M THEN t + 1 ELSE 0
  <2> DEFINE k == t + 1
  <2>1. k \in 0 .. 2 * M - 1 /\ M \in Nat \ {0}
    BY <1>1
  <2> HIDE DEF M, k
  <2>2. k % M = IF k < M THEN k ELSE k - M
    BY ONLY <2>1, ModSmall
  <2> USE DEF M, k
  <2> QED BY <1>1, <2>2
<1>4. new \in Ring /\ Room(new) = M
  BY <1>1, <1>2, <1>3 DEF Ring, Room
<1>5. Held(new) = Held(rg) - 1 /\ Sound(new)
  <2>1. Held(new) = new.head - new.tail + (IF new.head >= new.tail THEN 0 ELSE M)
    BY <1>4 DEF Held
  <2>2. Sound(new) <=> M > 0 /\ (new.head = new.tail \/ (new.head < M /\ new.tail < M))
    BY <1>4 DEF Sound
  <2>3. Held(rg) = h - t + (IF h >= t THEN 0 ELSE M)
    BY DEF Held
  <2> HIDE DEF M, h, t
  <2> QED BY <1>1, <1>2, <1>3, <2>1, <2>2, <2>3
<1>6. ASSUME NEW i \in 1 .. Held(new)
      PROVE Cell(new, i) = Cell(rg, i + 1)
  <2>1. Cell(new, i) = rg.cells[((new.tail + i - 1) % M) + 1]
    BY <1>2, <1>4 DEF Cell
  <2>2. Cell(rg, i + 1) = rg.cells[((t + (i + 1) - 1) % M) + 1]
    BY DEF Cell
  <2>3. Held(rg) \in 0 .. M - 1
    BY HeldBounds
  <2> HIDE DEF M, h, t
  <2> DEFINE k == new.tail + i - 1
             l == t + (i + 1) - 1
  <2>4. k \in 0 .. 2 * M - 1 /\ l \in 0 .. 2 * M - 1 /\ M \in Nat \ {0}
    BY <1>1, <1>2, <1>3, <1>5, <2>3
  <2>8. new.tail \in Int /\ k = new.tail + i - 1 /\ l = t + (i + 1) - 1
    BY <1>1, <1>2, <1>3
  <2> HIDE DEF k, l
  <2>5. k % M = IF k < M THEN k ELSE k - M
    BY ONLY <2>4, ModSmall
  <2>6. l % M = IF l < M THEN l ELSE l - M
    BY ONLY <2>4, ModSmall
  <2>7. k % M = l % M
    <3>1. Held(rg) = h - t + (IF h >= t THEN 0 ELSE M)
      BY DEF Held, M, h, t
    <3>2. new.tail = IF t + 1 < M THEN t + 1 ELSE 0
      BY <1>2, <1>3
    <3>3. i \in 1 .. Held(rg) - 1
      BY <1>5
    <3> QED BY ONLY <1>1, <2>3, <2>4, <2>5, <2>6, <2>8, <3>1, <3>2, <3>3
  <2> QED BY <2>1, <2>2, <2>7, <2>8
<1> QED BY <1>4, <1>5, <1>6

\* An empty ring stays so when its size changes, wherever its indices are.
LEMMA Resizing ==
  ASSUME NEW rg \in Ring, Sound(rg), Held(rg) = 0, NEW size \in Nat \ {0}, NEW new,
         new = [rg EXCEPT !.cells =
                  [i \in 1 .. size |-> IF i <= Room(rg) THEN @[i] ELSE NoValue]]
  PROVE new \in Ring /\ Sound(new) /\ Room(new) = size /\ Held(new) = 0
<1>1. rg.head = rg.tail /\ rg.head \in Nat /\ rg.tail \in Nat
  BY HeldBounds DEF Ring
<1>2. rg.cells \in Seq(Nat) /\ Room(rg) = Len(rg.cells)
  BY DEF Ring, Room
<1> DEFINE c == [i \in 1 .. size |-> IF i <= Room(rg) THEN rg.cells[i] ELSE NoValue]
<1>3. new.cells = c /\ new.head = rg.head /\ new.tail = rg.tail
      /\ new = [cells |-> c, head |-> rg.head, tail |-> rg.tail]
  BY DEF Ring
<1>4. c \in Seq(Nat) /\ Len(c) = size
  <2>1. \A i \in 1 .. size : c[i] \in Nat
    BY <1>2 DEF NoValue
  <2>2. c \in [1 .. size -> Nat]
    BY <2>1
  <2> HIDE DEF c
  <2> QED BY <2>2
<1> HIDE DEF c
<1>5. new \in Ring /\ Room(new) = size
  BY <1>1, <1>3, <1>4 DEF Ring, Room
<1>6. Held(new) = 0 /\ Sound(new)
  BY <1>1, <1>3, <1>5 DEF Sound, Held
<1> QED BY <1>5, <1>6

(***************************************************************************)
(* The probes of a stage and their order in it.                            *)
(***************************************************************************)
LEMMA ProbeFacts ==
  /\ Columns \in Nat \ {0} /\ Probes = 1 .. Columns /\ IsFiniteSet(Probes)
  /\ \A p \in Probes : p \in Nat \ {0} /\ StageOf[p] \in Stages
  /\ LastStage \in Nat \ {0} /\ LastStage \in Stages
  /\ \A s \in Stages : s \in Nat \ {0} /\ s <= LastStage
  /\ \A s \in 1 .. LastStage : s \in Stages
<1> USE ProbesAssumption
<1>1. Columns \in Nat \ {0} /\ Probes = 1 .. Columns
  BY DEF Columns, Probes
<1>2. IsFiniteSet(Probes)
  BY <1>1, FS_Interval
<1>3. \A p \in Probes : StageOf[p] \in Stages
  BY DEF Stages, Range, Probes
<1> DEFINE n == Cardinality(Stages)
<1>4. 1 \in Probes /\ StageOf[1] \in Stages
  BY <1>1, <1>3
<1>5. IsFiniteSet(Stages)
  <2> DEFINE f == [p \in Probes |-> StageOf[p]]
  <2>1. f \in Surjection(Probes, Stages)
    BY DEF Surjection, Stages, Range, Probes
  <2> QED BY <1>2, <2>1, FS_Surjection
<1>6. n \in Nat
  BY <1>5, FS_CardinalityType
<1>7. Stages = 1 .. n
  OBVIOUS
<1> HIDE DEF n
<1>8. n \in Stages /\ \A s \in Stages : n >= s
  BY <1>4, <1>6, <1>7
<1>9. LastStage \in Stages /\ \A s \in Stages : LastStage >= s
  <2> DEFINE Top(x) == x \in Stages /\ \A y \in Stages : x >= y
  <2>1. Top(n)
    BY <1>8
  <2>2. LastStage = CHOOSE x : Top(x)
    BY DEF LastStage, Max
  <2> HIDE DEF Top
  <2>3. Top(LastStage)
    BY <2>1, <2>2, Zenon
  <2> QED BY <2>3 DEF Top
<1>10. LastStage = n
  BY <1>6, <1>7, <1>8, <1>9
<1>11. Stages = 1 .. LastStage
  BY <1>7, <1>10
<1>12. \A s \in Stages : s \in Nat \ {0} /\ s <= LastStage
  BY <1>6, <1>10, <1>11
<1>13. \A p \in Probes : p \in Nat \ {0}
  BY <1>1
<1>14. LastStage \in Nat \ {0}
  BY <1>8, <1>10, <1>12
<1> HIDE DEF Stages
<1> QED BY <1>1, <1>2, <1>3, <1>9, <1>11, <1>12, <1>13, <1>14

LEMMA RankFacts ==
  ASSUME NEW s \in Stages
  PROVE /\ Cardinality(ProbesOf(s)) \in Nat \ {0}
        /\ \A p \in ProbesOf(s) :
            p \in Probes /\ StageOf[p] = s /\ Rank(p) \in 0 .. Cardinality(ProbesOf(s)) - 1
        /\ \A p, q \in ProbesOf(s) : p < q => Rank(p) < Rank(q)
        /\ \A k \in 0 .. Cardinality(ProbesOf(s)) - 1 : \E p \in ProbesOf(s) : Rank(p) = k
<1> DEFINE P == ProbesOf(s)
           K == Cardinality(P)
           Before(p) == {q \in P : q < p}
<1>1. P \in SUBSET Probes /\ P \in SUBSET Int /\ \A p \in P : StageOf[p] = s
  BY ProbeFacts DEF ProbesOf
<1>2. IsFiniteSet(P) /\ K \in Nat
  BY <1>1, ProbeFacts, FS_Subset, FS_CardinalityType
<1>3. K # 0
  <2>1. PICK p \in Probes : StageOf[p] = s
    BY DEF Stages, Range, Probes
  <2>2. P # {}
    BY <2>1 DEF ProbesOf
  <2> QED BY <1>2, <2>2, FS_EmptySet
<1>4. \A p \in P : Rank(p) = Cardinality(Before(p))
  BY <1>1 DEF Rank
<1> HIDE DEF P
<1>5. \A T \in SUBSET P : IsFiniteSet(T) /\ Cardinality(T) \in Nat /\ Cardinality(T) <= K
  BY <1>2, FS_Subset, FS_CardinalityType
<1>6. ASSUME NEW T \in SUBSET P, NEW p \in P, p \notin T
      PROVE Cardinality(T \cup {p}) = Cardinality(T) + 1
  <2>1. IsFiniteSet(T)
    BY <1>5
  <2> QED BY <1>6, <2>1, FS_AddElement
<1>7. ASSUME NEW p \in P
      PROVE Rank(p) \in 0 .. K - 1
  <2> DEFINE T == Before(p)
  <2>1. T \in SUBSET P /\ p \notin T /\ T \cup {p} \in SUBSET P
    BY <1>1
  <2>2. Rank(p) = Cardinality(T)
    BY <1>4
  <2> HIDE DEF T
  <2>3. Cardinality(T \cup {p}) = Cardinality(T) + 1 /\ Cardinality(T \cup {p}) <= K
        /\ Cardinality(T) \in Nat
    BY <1>5, <1>6, <2>1
  <2> QED BY <1>2, <2>2, <2>3
<1>8. ASSUME NEW p \in P, NEW q \in P, p < q
      PROVE Rank(p) < Rank(q)
  <2> DEFINE T == Before(p)
             U == Before(q)
  <2>5. \A x \in P : x \in Int
    BY <1>1
  <2>6. \A x \in T : x \in P /\ x < q
    BY <1>8, <2>5
  <2>1. T \in SUBSET P /\ U \in SUBSET P /\ p \notin T /\ T \cup {p} \in SUBSET U
    BY <1>8, <2>5, <2>6
  <2>2. Rank(p) = Cardinality(T) /\ Rank(q) = Cardinality(U)
    BY <1>4
  <2> HIDE DEF T, U
  <2>3. Cardinality(T \cup {p}) = Cardinality(T) + 1
    BY <1>6, <2>1
  <2>4. IsFiniteSet(U) /\ Cardinality(U) \in Nat /\ Cardinality(T) \in Nat
    BY <1>5, <2>1
  <2>7. Cardinality(T \cup {p}) <= Cardinality(U)
    BY <2>1, <2>4, FS_Subset
  <2> QED BY <2>2, <2>3, <2>4, <2>7
<1>9. \A k \in 0 .. K - 1 : \E p \in P : Rank(p) = k
  <2> DEFINE f == [p \in P |-> Rank(p)]
             Q == 0 .. K - 1
  <2>1. f \in [P -> Q]
    BY <1>7
  <2>2. \A p, q \in P : f[p] = f[q] => p = q
    <3> SUFFICES ASSUME NEW p \in P, NEW q \in P, Rank(p) = Rank(q), p # q PROVE FALSE
      OBVIOUS
    <3>1. p \in Int /\ q \in Int /\ Rank(p) \in Int
      BY <1>1, <1>7
    <3>2. CASE p < q
      BY <1>8, <3>1, <3>2
    <3>3. CASE q < p
      BY <1>8, <3>1, <3>3
    <3> QED BY <3>1, <3>2, <3>3
  <2>3. IsFiniteSet(Q) /\ Cardinality(Q) = K
    <3>1. 0 \in Int /\ K - 1 \in Int
      BY <1>2
    <3> QED BY <1>2, <1>3, <3>1, FS_Interval
  <2>4. f \in Injection(P, Q)
    BY <2>1, <2>2 DEF Injection, IsInjective
  <2> HIDE DEF f, Q
  <2>5. f \in Surjection(P, Q)
    BY <1>2, <2>3, <2>4, FS_Injection
  <2>6. \A k \in Q : \E p \in P : f[p] = k
    BY <2>5 DEF Surjection
  <2> QED BY <2>6 DEF f, Q
<1> QED BY <1>1, <1>2, <1>3, <1>7, <1>8, <1>9 DEF P

LEMMA RankOf ==
  ASSUME NEW p \in Probes
  PROVE /\ StageOf[p] \in Stages /\ p \in ProbesOf(StageOf[p])
        /\ Cardinality(ProbesOf(StageOf[p])) \in Nat \ {0}
        /\ Rank(p) \in 0 .. Cardinality(ProbesOf(StageOf[p])) - 1
<1> DEFINE s == StageOf[p]
<1>1. s \in Stages /\ p \in ProbesOf(s)
  BY ProbeFacts DEF ProbesOf
<1> HIDE DEF s
<1>2. Cardinality(ProbesOf(s)) \in Nat \ {0} /\ Rank(p) \in 0 .. Cardinality(ProbesOf(s)) - 1
  BY <1>1, RankFacts
<1> QED BY <1>1, <1>2 DEF s

\* A wave that is not over is in one of the probes of the stage.
LEMMA CurrentProbe ==
  ASSUME TypeOK, NEW s \in Stages, next[s] < nFrames * Cardinality(ProbesOf(s))
  PROVE /\ Current(s) \in ProbesOf(s)
        /\ Rank(Current(s)) * nFrames <= next[s]
        /\ next[s] < Rank(Current(s)) * nFrames + nFrames
<1> DEFINE k == next[s] \div nFrames
           Its(p) == p \in ProbesOf(s) /\ Rank(p) = k
<1>1. nFrames \in Nat \ {0} /\ next[s] \in Nat /\ Cardinality(ProbesOf(s)) \in Nat
  BY RankFacts DEF TypeOK
<1>2. /\ k \in 0 .. Cardinality(ProbesOf(s)) - 1
      /\ k * nFrames <= next[s] /\ next[s] < k * nFrames + nFrames
  BY <1>1, Quotient
<1> HIDE DEF k
<1>3. \E p : Its(p)
  BY <1>2, RankFacts
<1>4. Current(s) = CHOOSE p : Its(p)
  BY DEF Current, k
<1> HIDE DEF Its
<1>5. Its(Current(s))
  BY <1>3, <1>4, Zenon
<1> QED BY <1>2, <1>5 DEF Its

\* A column that is empty before and after holds nothing out of order.
LEMMA EmptyValues ==
  ASSUME TypeOK, Values, UNCHANGED history,
         \A p \in Probes : Held(ring[p]) = 0 /\ Held(ring'[p]) = 0
  PROVE Values'
<1> SUFFICES ASSUME NEW p \in Probes
             PROVE /\ told'[p] + Held(ring'[p]) + lost'[p] = calls'[p]
                   /\ lastTold'[p] <= calls'[p]
                   /\ InOrder(ring'[p], lastTold'[p], calls'[p], told'[p], lost'[p] = 0)
  BY DEF Values
<1>1. Held(ring'[p]) = 0 /\ Held(ring[p]) = 0
  OBVIOUS
<1>2. \A i \in 1 .. Held(ring'[p]) : FALSE
  BY <1>1
<1>4. InOrder(ring'[p], lastTold'[p], calls'[p], told'[p], lost'[p] = 0)
  BY ONLY <1>2 DEF InOrder
<1>5. told[p] + Held(ring[p]) + lost[p] = calls[p] /\ lastTold[p] <= calls[p]
  BY DEF Values
<1> QED BY <1>1, <1>4, <1>5 DEF history

(***************************************************************************)
(* The steps that neither push nor pull.                                   *)
(***************************************************************************)
LEMMA DataKept ==
  ASSUME UNCHANGED <<nFrames, buffSize, ring, history>>
  PROVE (Rings => Rings') /\ (Values => Values')
BY DEF history, Rings, Values

LEMMA WavesKept ==
  ASSUME UNCHANGED <<nFrames, done, next, calls>>, pc' = "exec" => pc = "exec"
  PROVE (Waves => Waves') /\ (Distances => Distances')
BY DEF Waves, Distances, Frames

LEMMA InitInv == Init => IInv
<1> SUFFICES ASSUME Init PROVE IInv
  OBVIOUS
<1> USE ProbesAssumption, ProbeFacts
<1>1. nFrames \in Nat \ {0} /\ buffSize \in Nat \ {0} /\ nFrames * buffSize \in Nat \ {0}
  BY DEF Init
<1> DEFINE new == NewRing(nFrames * buffSize)
<1>2. new \in Ring /\ Sound(new) /\ Room(new) = nFrames * buffSize /\ Held(new) = 0
  <2> DEFINE M == nFrames * buffSize
             c == [i \in 1 .. M |-> NoValue]
  <2>1. new = [cells |-> c, head |-> 0, tail |-> 0]
    BY DEF NewRing
  <2>2. M \in Nat \ {0}
    BY <1>1
  <2> HIDE DEF M
  <2>3. c \in [1 .. M -> Nat]
    BY DEF NoValue
  <2>4. c \in Seq(Nat) /\ Len(c) = M
    BY <2>2, <2>3
  <2> HIDE DEF c
  <2>5. Room(new) = M /\ Held(new) = 0
    BY <2>1, <2>4 DEF Room, Held
  <2>6. new \in Ring /\ Sound(new)
    BY <2>1, <2>2, <2>4, <2>5 DEF Ring, Sound
  <2> QED BY <2>5, <2>6 DEF M
<1>3. \A p \in Probes : ring[p] = new
  BY DEF Init
<1> HIDE DEF new
<1>4. TypeOK
  <2>1. <<>> \in Seq(Nat) /\ Len(<<>>) = 0
    OBVIOUS
  <2>2. ring \in [Probes -> Ring]
    BY <1>2 DEF Init, new
  <2>3. row \in [Reporters -> Seq(Nat)] /\ \A r \in Reporters : Len(row[r]) <= Columns
    BY <2>1 DEF Init
  <2> QED BY <1>1, <2>2, <2>3 DEF Init, TypeOK, Zeros, Modes
<1>5. Rings
  BY <1>2, <1>3 DEF Rings
<1>6. Values
  <2> SUFFICES ASSUME NEW p \in Probes
               PROVE /\ told[p] + Held(ring[p]) + lost[p] = calls[p]
                     /\ lastTold[p] <= calls[p]
                     /\ InOrder(ring[p], lastTold[p], calls[p], told[p], lost[p] = 0)
    BY DEF Values
  <2>1. Held(ring[p]) = 0
    BY <1>2, <1>3
  <2> QED BY <2>1 DEF Init, Zeros, InOrder
<1>7. Roles /\ Rested
  <2>1. report["stage"] = 0 /\ report["terminal"] = 0 /\ report["main"] = 0
    BY DEF Init, Reporters
  <2>2. Roles
    BY <2>1 DEF Init, Roles
  <2>3. \A p \in Probes : Held(ring[p]) = 0
    BY <1>2, <1>3
  <2>4. \A r \in Reporters : row[r] = <<>>
    BY DEF Init
  <2> QED BY <2>2, <2>3, <2>4 DEF Init, Rested
<1>8. pc = "rest"
  BY DEF Init
<1>9. Drained /\ Waves /\ Distances /\ Rows /\ FinalRows
  BY <1>8 DEF Drained, Waves, Distances, Rows, FinalRows
<1>10. Silent
  BY DEF Init, Silent
<1> QED BY <1>4, <1>5, <1>6, <1>7, <1>9, <1>10 DEF IInv, Inv

LEMMA ResizeInv ==
  ASSUME IInv, NEW size \in Nat \ {0}, Resize(size),
         nFrames' \in Nat \ {0}, buffSize' \in Nat \ {0}, size = nFrames' * buffSize'
  PROVE IInv'
<1> USE DEF Resize, history
<1>1. pc = "rest" /\ TypeOK /\ Inv
  BY DEF IInv
<1>2. \A p \in Probes : Held(ring[p]) = 0 /\ ring[p] \in Ring /\ Sound(ring[p])
  BY <1>1 DEF Inv, Rested, Rings, TypeOK
<1>3. ASSUME NEW p \in Probes
      PROVE /\ ring'[p] \in Ring /\ Sound(ring'[p])
            /\ Room(ring'[p]) = size /\ Held(ring'[p]) = 0
  <2> DEFINE rg == ring[p]
             new == ring'[p]
  <2>1. new = [rg EXCEPT !.cells =
                 [i \in 1 .. size |-> IF i <= Room(rg) THEN @[i] ELSE NoValue]]
    BY DEF Resized, Size, Room
  <2>2. Held(rg) = 0 /\ rg \in Ring /\ Sound(rg)
    BY <1>2
  <2> HIDE DEF rg, new
  <2>3. new \in Ring /\ Sound(new) /\ Room(new) = size /\ Held(new) = 0
    BY ONLY size \in Nat \ {0}, <2>1, <2>2, Resizing
  <2> QED BY <2>3 DEF new
<1>4. TypeOK'
  <2>1. ring' \in [Probes -> Ring]
    <3>1. ring' = [p \in Probes |-> ring'[p]]
      BY DEF Resized
    <3> QED BY <1>3, <3>1
  <2> QED BY <1>1, <2>1 DEF TypeOK
<1>5. Rings'
  BY <1>3 DEF Rings
<1>6. Values'
  BY <1>1, <1>2, <1>3, EmptyValues DEF Inv
<1>7. Roles' /\ Rested'
  BY <1>1, <1>3 DEF Inv, Roles, Rested
<1>8. Drained' /\ Silent' /\ Waves' /\ Distances' /\ Rows' /\ FinalRows'
  BY <1>1 DEF Drained, Silent, Waves, Distances, Rows, FinalRows, Ending
<1> QED BY <1>4, <1>5, <1>6, <1>7, <1>8 DEF IInv, Inv

LEMMA SettingsInv ==
  ASSUME IInv,
         \/ \E n \in FrameCounts : SetNFrames(n)
         \/ \E b \in BufferSizes : SetBuffSize(b)
  PROVE IInv'
<1> USE ProbesAssumption
<1>1. CASE \E n \in FrameCounts : SetNFrames(n)
  <2>1. PICK n \in FrameCounts : SetNFrames(n)
    BY <1>1
  <2>2. nFrames \in Nat \ {0} /\ buffSize \in Nat \ {0} /\ n \in Nat \ {0}
    BY DEF IInv, TypeOK
  <2>3. Size(1) = nFrames * buffSize
    <3>1. pc = "rest"
      BY <2>1 DEF SetNFrames, Resize
    <3> QED BY <3>1, ProbeFacts DEF IInv, Inv, Rings, Size, Room
  <2>4. Size(1) \div nFrames = buffSize
    BY <2>2, <2>3, ExactQuotient
  <2>5. n * buffSize \in Nat \ {0}
    BY <2>2
  <2>6. Resize(n * buffSize) /\ nFrames' = n /\ buffSize' = buffSize
    BY <2>1, <2>4 DEF SetNFrames
  <2> QED BY <2>2, <2>5, <2>6, ResizeInv
<1>2. CASE \E b \in BufferSizes : SetBuffSize(b)
  <2>1. PICK b \in BufferSizes : SetBuffSize(b)
    BY <1>2
  <2>2. nFrames \in Nat \ {0} /\ b \in Nat \ {0}
    BY DEF IInv, TypeOK
  <2>3. nFrames * b \in Nat \ {0}
    BY <2>2
  <2>4. Resize(nFrames * b) /\ nFrames' = nFrames /\ buffSize' = b
    BY <2>1 DEF SetBuffSize
  <2> QED BY <2>2, <2>3, <2>4, ResizeInv
<1> QED BY <1>1, <1>2

LEMMA ResetInv ==
  ASSUME IInv, Reset
  PROVE IInv'
<1> USE DEF Reset, history, settings
<1>1. pc = "rest" /\ TypeOK /\ Inv
  BY DEF IInv
<1>2. \A p \in Probes :
        /\ Held(ring[p]) = 0 /\ ring[p] \in Ring
        /\ Sound(ring[p]) /\ Room(ring[p]) = nFrames * buffSize
  BY <1>1 DEF Inv, Rested, Rings, TypeOK
<1>3. ASSUME NEW p \in Probes
      PROVE /\ ring'[p] \in Ring /\ Sound(ring'[p])
            /\ Room(ring'[p]) = Room(ring[p]) /\ Held(ring'[p]) = 0
  <2> DEFINE rg == ring[p]
             new == ring'[p]
  <2>1. rg \in Ring /\ Sound(rg)
    BY <1>2
  <2>2. new = [rg EXCEPT !.head = 0, !.tail = 0]
    OBVIOUS
  <2> HIDE DEF rg, new
  <2>3. new = [cells |-> rg.cells, head |-> 0, tail |-> 0]
    BY <2>1, <2>2 DEF Ring
  <2>4. rg.cells \in Seq(Nat) /\ Room(rg) = Len(rg.cells) /\ Room(rg) > 0
    BY <2>1 DEF Ring, Sound, Room
  <2>5. new \in Ring /\ new.cells = rg.cells /\ new.head = 0 /\ new.tail = 0
    BY <2>3, <2>4 DEF Ring
  <2>6. Room(new) = Room(rg)
    BY <2>5 DEF Room
  <2>7. Sound(new)
    BY <2>4, <2>5, <2>6 DEF Sound
  <2>8. Held(new) = 0
    BY ONLY <2>5 DEF Held
  <2> QED BY <2>5, <2>6, <2>7, <2>8 DEF rg, new
<1>4. TypeOK'
  <2>1. ring' \in [Probes -> Ring]
    BY <1>3
  <2> QED BY <1>1, <2>1 DEF TypeOK
<1>5. Rings'
  BY <1>2, <1>3 DEF Rings
<1>6. Values'
  BY <1>1, <1>2, <1>3, EmptyValues DEF Inv
<1>7. Roles' /\ Rested'
  BY <1>1, <1>3 DEF Inv, Roles, Rested
<1>8. Drained' /\ Silent' /\ Waves' /\ Distances' /\ Rows' /\ FinalRows'
  BY <1>1 DEF Drained, Silent, Waves, Distances, Rows, FinalRows, Ending
<1> QED BY <1>4, <1>5, <1>6, <1>7, <1>8 DEF IInv, Inv

LEMMA StartInv ==
  ASSUME IInv, NEW m \in Modes, Start(m)
  PROVE IInv'
<1>1. pc = "rest" /\ pc' = "exec" /\ TypeOK /\ Inv
  BY DEF IInv, Start
<1>2. TypeOK'
  BY <1>1 DEF TypeOK, Start, history, Reporting
<1>3. Rings' /\ Values'
  BY <1>1, DataKept DEF Inv, Start
<1>4. calls' = Zeros /\ lost' = Zeros /\ told' = Zeros /\ \A r \in Reporters : row'[r] = <<>>
  BY <1>1 DEF Inv, Rested, Start, history
<1>10. /\ \A s \in Stages : next'[s] = 0 /\ done'[s] = 0
       /\ nFrames' = nFrames /\ nFrames \in Nat \ {0}
  BY <1>1 DEF Start, TypeOK
<1>5. Roles' /\ report' = report /\ report["stage"] = 0
  <2>1. report["stage"] \in Nat /\ report["terminal"] \in Nat /\ report["main"] \in Nat
    BY <1>1 DEF TypeOK, Reporters
  <2>2. report["stage"] = 0 /\ report["terminal"] = 0 /\ report["main"] = 0
    BY <1>1, <2>1 DEF Inv, Roles, Ending
  <2>3. terminal' # "none" => mode' = "terminal"
    BY DEF Start
  <2>4. report' = report
    BY DEF Start
  <2>5. report'["stage"] = 0 /\ report'["terminal"] = 0 /\ report'["main"] = 0
    BY <2>2, <2>4
  <2>6. ~ (report'["stage"] > 0) /\ ~ (report'["terminal"] > 0) /\ ~ (report'["main"] > 0)
    BY <2>5
  <2> QED BY <1>1, <2>2, <2>3, <2>4, <2>6, Zenon DEF Roles
<1>6. Rested' /\ Drained' /\ Silent' /\ FinalRows'
  BY <1>1, <1>4 DEF Rested, Drained, Silent, FinalRows
<1>7. Waves'
  <2>1. \A s \in Stages : next'[s] = 0 /\ done'[s] = 0
    BY <1>10
  <2>2. nFrames' = nFrames /\ nFrames \in Nat \ {0}
    BY <1>10
  <2>3. ASSUME NEW s \in Stages
        PROVE next'[s] < nFrames' * Cardinality(ProbesOf(s))
    <3> DEFINE K == Cardinality(ProbesOf(s))
    <3>1. K \in Nat \ {0}
      BY RankFacts
    <3> HIDE DEF K
    <3>2. nFrames * K > 0
      BY <2>2, <3>1
    <3> QED BY <2>1, <2>2, <3>2 DEF K
  <2>4. ASSUME NEW p \in Probes
        PROVE calls'[p] = done'[StageOf[p]] * nFrames' + Frames(p)'
    <3>1. StageOf[p] \in Stages /\ Rank(p) \in Nat
      BY RankOf
    <3> DEFINE f == Rank(p) * nFrames
    <3>2. f \in Nat
      BY <2>2, <3>1
    <3>3. Frames(p)' = LET left == next'[StageOf[p]] - f IN
                       IF left < 0 THEN 0 ELSE IF left > nFrames THEN nFrames ELSE left
      BY <2>2 DEF Frames
    <3>4. next'[StageOf[p]] = 0 /\ done'[StageOf[p]] = 0
      BY <2>1, <3>1
    <3> HIDE DEF f
    <3>5. Frames(p)' = 0
      BY <2>2, <3>2, <3>3, <3>4
    <3>6. calls'[p] = 0
      BY <1>4 DEF Zeros
    <3> QED BY <2>2, <3>4, <3>5, <3>6
  <2> QED BY <2>3, <2>4 DEF Waves
<1>8. Distances'
  <2>1. \A s \in Stages : next'[s] = 0 /\ done'[s] = 0
    BY <1>10
  <2>2. ASSUME NEW s \in Stages, s < LastStage
        PROVE Ahead * (LastStage - s) >= 0
    <3>1. Ahead \in Nat /\ LastStage - s \in Nat
      BY <2>2, ProbeFacts, ProbesAssumption
    <3> QED BY <3>1
  <2>3. LastStage \in Stages
    BY ProbeFacts
  <2>4. ASSUME NEW s \in Stages, NEW u \in Stages
        PROVE done'[u] <= done'[s] /\ ~ (next'[u] # 0)
    BY <2>1
  <2>5. ASSUME NEW s \in Stages, s < LastStage
        PROVE done'[s] <= done'[LastStage] + Ahead * (LastStage - s)
    <3> DEFINE a == Ahead * (LastStage - s)
    <3>1. a \in Int /\ a >= 0
      BY <2>2, <2>5, ProbeFacts, ProbesAssumption
    <3>2. done'[s] = 0 /\ done'[LastStage] = 0
      BY <2>1, <2>3
    <3> HIDE DEF a
    <3>3. done'[s] <= done'[LastStage] + a
      BY <3>1, <3>2
    <3> QED BY <3>3 DEF a
  <2> QED BY <2>4, <2>5, Zenon DEF Distances
<1>9. Rows'
  <2>1. \A p \in Probes : told'[p] = 0
    BY <1>4 DEF Zeros
  <2>2. RowsTold' = 0
    <3>1. LastStage \in Stages /\ nFrames \in Nat
      BY <1>10, ProbeFacts
    <3>2. done'[LastStage] = 0 /\ nFrames' = nFrames /\ report'["stage"] = 0
      BY <1>5, <1>10, <3>1
    <3> QED BY <3>1, <3>2 DEF RowsTold
  <2>3. Len(row'["stage"]) = 0
    BY <1>4 DEF Reporters
  <2>4. report'["stage"] = 0 /\ nFrames' \in Nat
    BY <1>5, <1>10
  <2>5. \A p \in Probes : ~ (p <= 0)
    BY ProbeFacts
  <2>6. \A p \in Probes : ~ InRow(p)' /\ ~ (p <= Len(row'["stage"]))
    BY <2>3, <2>5 DEF InRow
  <2>7. ASSUME NEW p \in Probes
        PROVE told'[p] = RowsTold' + (IF InRow(p)' THEN 1 ELSE 0)
    BY <2>1, <2>2, <2>6
  <2>8. report'["stage"] <= nFrames' /\ ~ (report'["stage"] # 0)
        /\ Len(row'["stage"]) \in {0, Columns}
    BY <2>3, <2>4
  <2> QED BY <1>4, <2>6, <2>7, <2>8, Zenon DEF Rows
<1> QED BY <1>2, <1>3, <1>5, <1>6, <1>7, <1>8, <1>9 DEF IInv, Inv

\* The thread of the terminal.
LEMMA TerminalInv ==
  ASSUME IInv, Untold, pc' = pc, pc # "undefined",
         terminal \in Reporting, terminal' \in {"none"} \cup Reporting,
         report' \in [Reporters -> Nat],
         report'["stage"] = report["stage"], report'["main"] = report["main"],
         report'["terminal"] > 0 => terminal' = "report",
         row' \in [Reporters -> Seq(Nat)], \A r \in Reporters : Len(row'[r]) <= Columns
  PROVE IInv'
<1>1. TypeOK /\ Inv /\ mode = "terminal" /\ (pc = "exec" \/ pc \in Ending)
  BY DEF IInv, Inv, Roles, Reporting
<1>2. pc # "rest" /\ pc # "final"
  BY <1>1 DEF Ending
<1>3. /\ UNCHANGED <<mode, ring, done, next, history>>
      /\ UNCHANGED <<nFrames, buffSize>>
  BY DEF Untold, settings
<1>4. TypeOK'
  BY <1>1, <1>3 DEF TypeOK, history
<1>5. Rings' /\ Values'
  BY <1>1, <1>3, DataKept DEF Inv
<1>6. Waves' /\ Distances'
  BY <1>1, <1>3, WavesKept DEF Inv, history
<1>7. Roles'
  <2>1. mode' = "terminal" /\ (pc' = "exec" \/ pc' \in Ending)
    BY <1>1, <1>3
  <2> QED BY <1>1, <2>1 DEF Inv, Roles
<1>8. Rested' /\ Drained' /\ Silent' /\ Rows' /\ FinalRows'
  BY <1>1, <1>2, <1>3 DEF Rested, Drained, Silent, Rows, FinalRows
<1> QED BY <1>4, <1>5, <1>6, <1>7, <1>8 DEF IInv, Inv

LEMMA TerminalStepInv ==
  ASSUME IInv,
         \/ TerminalTests \/ TerminalWaits \/ TerminalReports
         \/ TerminalReported \/ SpuriousWakeup
  PROVE IInv'
<1> USE DEF Timeout
<1> DEFINE Thread == TerminalTests \/ TerminalWaits \/ TerminalReports
                     \/ TerminalReported \/ SpuriousWakeup
<1>1. Untold /\ pc' = pc /\ pc # "undefined"
  BY DEF TerminalTests, TerminalWaits, TerminalReports, TerminalReported, SpuriousWakeup
<1>2. terminal \in Reporting /\ terminal' \in {"none"} \cup Reporting
  BY DEF TerminalTests, TerminalWaits, TerminalReports, TerminalReported, SpuriousWakeup,
         Reporting
<1>3. TypeOK /\ Roles
  BY <1>1 DEF IInv, Inv
<1>4. CASE TerminalReports
  <2>1. /\ terminal' = "report"
        /\ report' = [report EXCEPT !["terminal"] = nFrames]
        /\ row' = [row EXCEPT !["terminal"] = <<>>]
    BY <1>4 DEF TerminalReports
  <2>2. /\ report' \in [Reporters -> Nat]
        /\ report'["stage"] = report["stage"] /\ report'["main"] = report["main"]
    BY <1>3, <2>1 DEF TypeOK, Reporters
  <2>3. <<>> \in Seq(Nat) /\ Len(<<>>) = 0 /\ 0 <= Columns
    BY ProbeFacts
  <2>4. row' \in [Reporters -> Seq(Nat)] /\ \A r \in Reporters : Len(row'[r]) <= Columns
    BY <1>3, <2>1, <2>3 DEF TypeOK
  <2> QED BY <1>1, <1>2, <2>1, <2>2, <2>4, TerminalInv
<1>5. CASE TerminalTests \/ TerminalWaits \/ TerminalReported \/ SpuriousWakeup
  <2>1. report' = report /\ row' = row
    BY <1>5 DEF TerminalTests, TerminalWaits, TerminalReported, SpuriousWakeup
  <2>2. report["terminal"] \in Nat /\ report \in [Reporters -> Nat]
        /\ row \in [Reporters -> Seq(Nat)] /\ \A r \in Reporters : Len(row[r]) <= Columns
    BY <1>3 DEF TypeOK, Reporters
  <2>5. report["terminal"] = 0 \/ terminal # "report"
    BY <1>5 DEF TerminalTests, TerminalWaits, TerminalReported, SpuriousWakeup
  <2>6. report["terminal"] # 0 => report["terminal"] > 0
    BY <2>2
  <2>3. report["terminal"] = 0
    BY <1>3, <2>5, <2>6, Zenon DEF Roles
  <2>4. ~ (report'["terminal"] > 0)
    BY <2>1, <2>3
  <2> QED BY <1>1, <1>2, <2>1, <2>2, <2>4, TerminalInv
<1> QED BY <1>4, <1>5

\* The end of the execution, up to the join of the thread.
LEMMA EndingInv ==
  ASSUME IInv, ExecReturns \/ StopTerminal \/ Notify
  PROVE IInv'
<1> USE DEF ExecReturns, StopTerminal, Notify
<1>1. TypeOK /\ Inv /\ (pc = "exec" \/ pc \in Ending) /\ pc' \in Ending
  BY DEF IInv, Ending
<1>2. /\ UNCHANGED <<mode, ring, done, next, history>>
      /\ UNCHANGED <<nFrames, buffSize, report, row>>
  BY DEF Untold, settings
<1>3. /\ terminal' \in {"none"} \cup Reporting
      /\ terminal' # "none" => terminal # "none"
      /\ terminal = "report" => terminal' = "report"
  BY <1>1 DEF TypeOK, Reporting
<1>4. pc' # "rest" /\ pc' # "final" /\ pc' # "exec"
  BY <1>1 DEF Ending
<1>5. ~ (report["stage"] > 0)
  <2>1. report["stage"] \in Nat
    BY <1>1 DEF TypeOK, Reporters
  <2>2. pc = "exec" => report["stage"] = 0
    OBVIOUS
  <2>3. pc # "exec" => ~ (report["stage"] > 0)
    BY <1>1 DEF Inv, Roles
  <2> QED BY <2>1, <2>2, <2>3
<1>6. TypeOK'
  BY <1>1, <1>2, <1>3 DEF TypeOK, history
<1>7. Rings' /\ Values'
  BY <1>1, <1>2, DataKept DEF Inv
<1>8. Waves' /\ Distances'
  BY <1>4 DEF Waves, Distances
<1>9. Roles'
  <2>1. ~ (report["main"] > 0)
    BY <1>1 DEF Inv, Roles, Ending
  <2> QED BY <1>1, <1>2, <1>3, <1>5, <2>1 DEF Inv, Roles
<1>10. Silent'
  BY <1>1, <1>2 DEF Inv, Silent, history
<1>11. Rested' /\ Drained' /\ Rows' /\ FinalRows'
  BY <1>4 DEF Rested, Drained, Rows, FinalRows
<1> QED BY <1>6, <1>7, <1>8, <1>9, <1>10, <1>11 DEF IInv, Inv

\* The final report begins.
LEMMA JoinInv ==
  ASSUME IInv, Join
  PROVE IInv'
<1>1. TypeOK /\ Inv /\ pc = "join" /\ pc' = "final"
  BY DEF IInv, Join
<1>2. /\ UNCHANGED <<mode, ring, done, next, history>>
      /\ UNCHANGED <<nFrames, buffSize, terminal>>
      /\ terminal = "none"
      /\ report' = [report EXCEPT !["main"] = 1]
      /\ row' = [row EXCEPT !["main"] = <<>>]
  BY DEF Join, Untold, settings
<1>3. <<>> \in Seq(Nat) /\ Len(<<>>) = 0 /\ 0 <= Columns
  BY ProbeFacts
<1>4. report' \in [Reporters -> Nat] /\ report'["main"] = 1
      /\ report'["stage"] = report["stage"] /\ report'["terminal"] = report["terminal"]
  BY <1>1, <1>2 DEF TypeOK, Reporters
<1>5. row' \in [Reporters -> Seq(Nat)] /\ \A r \in Reporters : Len(row'[r]) <= Columns
  BY <1>1, <1>2, <1>3 DEF TypeOK
<1>6. TypeOK'
  BY <1>1, <1>2, <1>4, <1>5 DEF TypeOK, history
<1>7. Rings' /\ Values'
  BY <1>1, <1>2, DataKept DEF Inv
<1>8. Roles'
  <2>1. ~ (report["stage"] > 0) /\ ~ (report["terminal"] > 0)
    BY <1>1, <1>2 DEF Inv, Roles
  <2> QED BY <1>1, <1>2, <1>4, <2>1 DEF Roles
<1>9. Len(row'["main"]) = 0 /\ \A p \in Probes : ~ (p <= Len(row'["main"]))
  <2>1. row'["main"] = <<>>
    BY <1>1, <1>2 DEF TypeOK, Reporters
  <2>2. \A p \in Probes : p \in Nat \ {0}
    BY ProbeFacts
  <2> QED BY <1>3, <2>1, <2>2
<1>10. Drained'
  BY <1>4, <1>9 DEF Drained
<1>11. FinalRows'
  <2> SUFFICES ASSUME mode = "nobody" PROVE FinalRow(1)'
    BY <1>2 DEF FinalRows
  <2>1. \A p \in Probes : told'[p] = 0
    BY <1>1, <1>2 DEF Inv, Silent, Ending, history, Zeros
  <2>2. \A p \in Probes : p > Len(row'["main"])
    <3>1. \A p \in Probes : p \in Nat
      BY ProbeFacts
    <3> QED BY <1>9, <3>1
  <2> QED BY <2>1, <2>2 DEF FinalRow
<1>12. Waves' /\ Distances' /\ Rested' /\ Silent' /\ Rows'
  BY <1>1 DEF Waves, Distances, Rested, Silent, Rows, Ending
<1> QED BY <1>6, <1>7, <1>8, <1>10, <1>11, <1>12 DEF IInv, Inv

LEMMA FinalReportedInv ==
  ASSUME IInv, FinalReported
  PROVE IInv'
<1>1. TypeOK /\ Inv /\ pc = "final" /\ pc' = "rest" /\ report["main"] = 0
  BY DEF IInv, FinalReported
<1>2. /\ UNCHANGED <<mode, ring, done, next, nFrames, buffSize, terminal, report>>
      /\ row' = [r \in Reporters |-> <<>>]
      /\ calls' = Zeros /\ lost' = Zeros /\ told' = Zeros /\ lastTold' = Zeros
  BY DEF FinalReported, settings
<1>3. \A p \in Probes : Held(ring[p]) = 0
  BY <1>1 DEF Inv, Drained
<1>4. TypeOK'
  <2>1. <<>> \in Seq(Nat) /\ Len(<<>>) = 0 /\ 0 <= Columns
    BY ProbeFacts
  <2>2. row' \in [Reporters -> Seq(Nat)] /\ \A r \in Reporters : Len(row'[r]) <= Columns
    BY <1>2, <2>1
  <2>3. Zeros \in [Probes -> Nat]
    BY DEF Zeros
  <2> QED BY <1>1, <1>2, <2>2, <2>3 DEF TypeOK
<1>5. Rings'
  BY <1>1, <1>2 DEF Inv, Rings
<1>6. Values'
  <2> SUFFICES ASSUME NEW p \in Probes
               PROVE /\ told'[p] + Held(ring'[p]) + lost'[p] = calls'[p]
                     /\ lastTold'[p] <= calls'[p]
                     /\ InOrder(ring'[p], lastTold'[p], calls'[p], told'[p], lost'[p] = 0)
    BY DEF Values
  <2>1. Held(ring'[p]) = 0
    BY <1>2, <1>3
  <2>2. \A i \in 1 .. Held(ring'[p]) : FALSE
    BY <2>1
  <2>4. InOrder(ring'[p], lastTold'[p], calls'[p], told'[p], lost'[p] = 0)
    BY ONLY <2>2 DEF InOrder
  <2>5. told'[p] = 0 /\ lost'[p] = 0 /\ calls'[p] = 0 /\ lastTold'[p] = 0
    BY <1>2 DEF Zeros
  <2> QED BY <2>1, <2>4, <2>5
<1>7. Roles'
  <2>1. ~ (report["stage"] > 0) /\ ~ (report["terminal"] > 0) /\ ~ (report["main"] > 0)
    BY <1>1 DEF Inv, Roles, Ending
  <2>2. terminal = "none"
    BY <1>1 DEF Inv, Roles, Ending
  <2> QED BY <1>2, <2>1, <2>2 DEF Roles
<1>8. Rested'
  BY <1>2, <1>3 DEF Rested
<1>9. Waves' /\ Distances' /\ Drained' /\ Silent' /\ Rows' /\ FinalRows'
  BY <1>1 DEF Waves, Distances, Drained, Silent, Rows, FinalRows, Ending
<1> QED BY <1>4, <1>5, <1>6, <1>7, <1>8, <1>9 DEF IInv, Inv

(***************************************************************************)
(* The values of a column, when one is pushed, dropped or pulled.          *)
(***************************************************************************)
LEMMA PushInOrder ==
  ASSUME NEW rg \in Ring, Sound(rg), NEW new,
         NEW first \in Nat, NEW last \in Nat, NEW before \in Nat, NEW exact \in BOOLEAN,
         Held(new) = Held(rg) + 1,
         \A i \in 1 .. Held(rg) : Cell(new, i) = Cell(rg, i),
         Cell(new, Held(rg) + 1) = last + 1,
         first <= last, exact => before + Held(rg) = last,
         InOrder(rg, first, last, before, exact)
  PROVE InOrder(new, first, last + 1, before, exact)
<1> DEFINE h == Held(rg)
<1>1. h \in Nat
  BY HeldBounds
<1>2. \A i \in 1 .. h : Cell(new, i) = Cell(rg, i) /\ Cell(rg, i) \in Nat
                        /\ first < Cell(rg, i) /\ Cell(rg, i) <= last
                        /\ (exact => Cell(rg, i) = before + i)
  BY CellValue DEF InOrder
<1>3. \A i, j \in 1 .. h : i < j => Cell(rg, i) < Cell(rg, j)
  BY DEF InOrder
<1>4. Held(new) = h + 1 /\ Cell(new, h + 1) = last + 1
  OBVIOUS
<1> HIDE DEF h
<1>5. \A i \in 1 .. h + 1 :
        first < Cell(new, i) /\ Cell(new, i) <= last + 1 /\ (exact => Cell(new, i) = before + i)
  <2> TAKE i \in 1 .. h + 1
  <2>1. CASE i = h + 1
    BY <1>1, <1>4, <2>1 DEF h
  <2>2. CASE i # h + 1
    <3>1. i \in 1 .. h
      BY <1>1, <2>2
    <3> QED BY <1>2, <3>1
  <2> QED BY <2>1, <2>2
<1>6. \A i, j \in 1 .. h + 1 : i < j => Cell(new, i) < Cell(new, j)
  <2> SUFFICES ASSUME NEW i \in 1 .. h + 1, NEW j \in 1 .. h + 1, i < j
               PROVE Cell(new, i) < Cell(new, j)
    OBVIOUS
  <2>1. i \in 1 .. h
    BY <1>1
  <2>2. CASE j = h + 1
    BY <1>2, <1>4, <2>1, <2>2
  <2>3. CASE j # h + 1
    <3>1. j \in 1 .. h
      BY <1>1, <2>3
    <3> QED BY <1>2, <1>3, <2>1, <3>1
  <2> QED BY <2>2, <2>3
<1> QED BY <1>4, <1>5, <1>6 DEF InOrder

LEMMA LostInOrder ==
  ASSUME NEW rg \in Ring, Sound(rg),
         NEW first \in Nat, NEW last \in Nat, NEW before \in Nat, NEW exact \in BOOLEAN,
         InOrder(rg, first, last, before, exact)
  PROVE InOrder(rg, first, last + 1, before, FALSE)
<1>1. \A i \in 1 .. Held(rg) : Cell(rg, i) \in Nat
  BY CellValue
<1> QED BY <1>1 DEF InOrder

LEMMA TakeInOrder ==
  ASSUME NEW rg \in Ring, Sound(rg), Held(rg) # 0, NEW new,
         NEW first \in Nat, NEW last \in Nat, NEW before \in Nat, NEW exact \in BOOLEAN,
         Held(new) = Held(rg) - 1,
         \A i \in 1 .. Held(new) : Cell(new, i) = Cell(rg, i + 1),
         InOrder(rg, first, last, before, exact)
  PROVE /\ Cell(rg, 1) \in Nat /\ Cell(rg, 1) <= last /\ first < Cell(rg, 1)
        /\ exact => Cell(rg, 1) = before + 1
        /\ InOrder(new, Cell(rg, 1), last, before + 1, exact)
<1> DEFINE h == Held(rg)
<1>1. h \in Nat \ {0} /\ 1 \in 1 .. h
  BY HeldBounds
<1>2. \A i \in 1 .. h : Cell(rg, i) \in Nat
                        /\ first < Cell(rg, i) /\ Cell(rg, i) <= last
                        /\ (exact => Cell(rg, i) = before + i)
  BY CellValue DEF InOrder
<1>3. \A i, j \in 1 .. h : i < j => Cell(rg, i) < Cell(rg, j)
  BY DEF InOrder
<1>4. Held(new) = h - 1 /\ \A i \in 1 .. h - 1 : Cell(new, i) = Cell(rg, i + 1)
  OBVIOUS
<1> HIDE DEF h
<1>5. \A i \in 1 .. h - 1 : i + 1 \in 1 .. h /\ 1 < i + 1
  BY <1>1
<1>6. \A i \in 1 .. h - 1 :
        /\ Cell(rg, 1) < Cell(new, i) /\ Cell(new, i) <= last
        /\ exact => Cell(new, i) = (before + 1) + i
  <2> TAKE i \in 1 .. h - 1
  <2>1. i + 1 \in 1 .. h /\ 1 < i + 1 /\ Cell(new, i) = Cell(rg, i + 1)
    BY <1>4, <1>5
  <2>2. Cell(rg, 1) < Cell(rg, i + 1)
    BY <1>1, <1>3, <2>1
  <2>3. Cell(rg, i + 1) <= last /\ (exact => Cell(rg, i + 1) = before + (i + 1))
    BY <1>2, <2>1
  <2> QED BY <2>1, <2>2, <2>3
<1>7. \A i, j \in 1 .. h - 1 : i < j => Cell(new, i) < Cell(new, j)
  <2> SUFFICES ASSUME NEW i \in 1 .. h - 1, NEW j \in 1 .. h - 1, i < j
               PROVE Cell(new, i) < Cell(new, j)
    OBVIOUS
  <2>1. i + 1 \in 1 .. h /\ j + 1 \in 1 .. h /\ i + 1 < j + 1
    BY <1>1
  <2>2. Cell(rg, i + 1) < Cell(rg, j + 1)
    BY <1>3, <2>1
  <2> QED BY <1>4, <2>2
<1> QED BY <1>1, <1>2, <1>4, <1>6, <1>7 DEF InOrder

(***************************************************************************)
(* A value that a stage pushes, and the waves.                             *)
(***************************************************************************)
\* What Probe(s) does to the waves, in any case of the push.
Advance(s, p) ==
    /\ calls' = [calls EXCEPT ![p] = @ + 1]
    /\ next' = [next EXCEPT ![s] = IF EndsWave(s) THEN 0 ELSE @ + 1]
    /\ done' = [done EXCEPT ![s] = IF EndsWave(s) THEN @ + 1 ELSE @]
    /\ nFrames' = nFrames

LEMMA WavesStep ==
  ASSUME TypeOK, Waves, pc = "exec", NEW s \in Stages, Advance(s, Current(s))
  PROVE Waves'
<1> DEFINE N == nFrames
           p == Current(s)
           x == next[s]
           d == done[s]
           top == N * Cardinality(ProbesOf(s))
           Start0(q) == Rank(q) * N
<1>1. /\ N \in Nat \ {0} /\ x \in Nat /\ d \in Nat /\ nFrames' = N
      /\ \A u \in Stages : next[u] \in Nat /\ done[u] \in Nat
      /\ \A q \in Probes : calls[q] \in Nat
  BY DEF TypeOK, Advance
<1>2. \A u \in Stages : next[u] < N * Cardinality(ProbesOf(u))
  BY DEF Waves
<1>3. p \in ProbesOf(s) /\ Start0(p) <= x /\ x < Start0(p) + N
  BY <1>2, CurrentProbe
<1>4. p \in Probes /\ StageOf[p] = s
  BY <1>3, RankFacts
<1>5. EndsWave(s) <=> x + 1 = top
  BY DEF EndsWave
<1>6. \A u \in Stages : /\ next'[u] = IF u = s THEN (IF x + 1 = top THEN 0 ELSE x + 1) ELSE next[u]
                        /\ done'[u] = IF u = s THEN (IF x + 1 = top THEN d + 1 ELSE d) ELSE done[u]
  BY <1>5 DEF Advance, TypeOK
<1>7. \A q \in Probes : calls'[q] = IF q = p THEN calls[q] + 1 ELSE calls[q]
  BY DEF Advance, TypeOK
<1>8. top \in Nat \ {0}
  <2> DEFINE K == Cardinality(ProbesOf(s))
  <2>1. K \in Nat \ {0}
    BY RankFacts
  <2> HIDE DEF K
  <2>2. N * K \in Nat \ {0}
    BY <1>1, <2>1
  <2> QED BY <2>2 DEF K
<1>9. ASSUME NEW u \in Stages
      PROVE next'[u] < N * Cardinality(ProbesOf(u))
  <2>1. CASE u = s
    <3> HIDE DEF N, x, d, top
    <3>1. next'[s] = IF x + 1 = top THEN 0 ELSE x + 1
      BY <1>6
    <3>2. x < top
      BY <1>2 DEF x, top
    <3>3. next'[s] < top
      BY <1>1, <1>8, <3>1, <3>2
    <3> QED BY <2>1, <3>3 DEF top
  <2>2. CASE u # s
    BY <1>2, <1>6, <2>2
  <2> QED BY <2>1, <2>2
<1>10. ASSUME NEW q \in Probes
       PROVE calls'[q] = done'[StageOf[q]] * N + Frames(q)'
  <2>1. calls[q] = done[StageOf[q]] * N + Frames(q)
    BY DEF Waves
  <2>2. CASE StageOf[q] # s
    <3>1. StageOf[q] \in Stages /\ q # p
      BY <1>4, <2>2, RankOf
    <3>2. next'[StageOf[q]] = next[StageOf[q]] /\ done'[StageOf[q]] = done[StageOf[q]]
      BY <1>6, <2>2, <3>1
    <3>3. Frames(q)' = Frames(q)
      BY <1>1, <3>2 DEF Frames
    <3> QED BY <1>7, <2>1, <3>1, <3>2, <3>3
  <2>3. CASE StageOf[q] = s
    <3> DEFINE f == Start0(q)
               g == Start0(p)
               c == calls[q]
               y == next'[s]
               e == done'[s]
               Part(z) == IF z - f < 0 THEN 0 ELSE IF z - f > N THEN N ELSE z - f
    <3>1. q \in ProbesOf(s)
      BY <2>3, RankOf
    <3>2. Rank(q) \in Nat /\ Rank(p) \in Nat /\ Rank(q) < Cardinality(ProbesOf(s))
          /\ Cardinality(ProbesOf(s)) \in Nat
      BY <1>3, <3>1, RankFacts
    <3>3. f \in Int /\ g \in Int
      BY <1>1, <3>2
    <3>4. f + N <= top
      <4> DEFINE K == Cardinality(ProbesOf(s))
                 k == Rank(q)
      <4>1. k \in Int /\ K \in Int /\ k < K
        BY <3>2
      <4> HIDE DEF k, K
      <4>2. k * N + N <= K * N
        BY <1>1, <4>1, NextMultiple
      <4>3. K * N = N * K
        BY <1>1, <4>1
      <4> QED BY <4>2, <4>3 DEF k, K
    <3>5. q # p => f + N <= g \/ g + N <= f
      <4> SUFFICES ASSUME q # p PROVE f + N <= g \/ g + N <= f
        OBVIOUS
      <4> DEFINE i == Rank(q)
                 j == Rank(p)
      <4>1. q \in Int /\ p \in Int
        BY <1>4, ProbeFacts
      <4>2. i < j \/ j < i
        <5>1. CASE q < p
          BY <1>3, <3>1, <5>1, RankFacts
        <5>2. CASE p < q
          BY <1>3, <3>1, <5>2, RankFacts
        <5> QED BY <4>1, <5>1, <5>2
      <4>3. i \in Int /\ j \in Int
        BY <3>2
      <4> HIDE DEF i, j
      <4>4. i < j => i * N + N <= j * N
        BY <1>1, <4>3, NextMultiple
      <4>5. j < i => j * N + N <= i * N
        BY <1>1, <4>3, NextMultiple
      <4> QED BY <4>2, <4>4, <4>5 DEF i, j
    <3>6. q = p => f = g
      OBVIOUS
    <3>7. c = d * N + Part(x)
      BY <2>1, <2>3 DEF Frames
    <3>8. Frames(q)' = Part(y)
      BY <1>1, <2>3 DEF Frames
    <3>9. calls'[q] = IF q = p THEN c + 1 ELSE c
      BY <1>7
    <3>10. /\ y = IF x + 1 = top THEN 0 ELSE x + 1
           /\ e = IF x + 1 = top THEN d + 1 ELSE d
      BY <1>6
    <3>11. c \in Nat /\ g <= x /\ x < g + N /\ f >= 0
      <4>1. f >= 0
        BY <1>1, <3>2
      <4> QED BY <1>1, <1>3, <4>1
    <3> DEFINE dn == d * N
               en == e * N
    <3>12. dn \in Int /\ en = IF x + 1 = top THEN dn + N ELSE dn
      <4> HIDE DEF N, x, d, top, e
      <4>1. (d + 1) * N = d * N + N /\ d * N \in Int
        BY <1>1
      <4> QED BY <3>10, <4>1
    <3>13. c = dn + Part(x)
      BY <3>7
    <3> HIDE DEF N, x, d, top, f, g, c, y, e, dn, en
    <3>14. (IF q = p THEN c + 1 ELSE c) = en + Part(y)
      <4>1. CASE x + 1 = top
        BY <1>1, <1>8, <3>3, <3>4, <3>5, <3>6, <3>10, <3>11, <3>12, <3>13, <4>1
      <4>2. CASE x + 1 # top
        BY <1>1, <1>8, <3>3, <3>4, <3>5, <3>6, <3>10, <3>11, <3>12, <3>13, <4>2
      <4> QED BY <4>1, <4>2
    <3> QED BY <2>3, <3>8, <3>9, <3>14 DEF e, en
  <2> QED BY <2>2, <2>3
<1> QED BY <1>1, <1>9, <1>10 DEF Waves

LEMMA DistancesStep ==
  ASSUME TypeOK, Distances, pc = "exec", NEW s \in Stages, MayRun(s), Advance(s, Current(s))
  PROVE Distances'
<1> DEFINE L == LastStage
           Lead(u) == Ahead * (L - u)
           d == done[s]
<1>1. /\ \A u \in Stages : next[u] \in Nat /\ done[u] \in Nat
      /\ Ahead \in Nat \ {0} /\ L \in Stages
      /\ \A u \in Stages : u \in Nat \ {0} /\ u <= L
  BY ProbesAssumption, ProbeFacts DEF TypeOK
<1>2. /\ \A u \in Stages \ {s} : next'[u] = next[u] /\ done'[u] = done[u]
      /\ \/ next'[s] = next[s] + 1 /\ done'[s] = d
         \/ next'[s] = 0 /\ done'[s] = d + 1
  BY DEF Advance, TypeOK
<1>3. ASSUME NEW u \in Stages, u < s
      PROVE d < done[u]
  <2>1. s - 1 \in Stages
    BY <1>1, <1>3, ProbeFacts
  <2>2. d < done[s - 1]
    BY <2>1 DEF MayRun
  <2>3. CASE u = s - 1
    BY <2>2, <2>3
  <2>4. CASE u # s - 1
    <3>1. u < s - 1
      BY <1>1, <1>3, <2>4
    <3>2. done[s - 1] <= done[u]
      BY <2>1, <3>1 DEF Distances
    <3> QED BY <1>1, <2>1, <2>2, <3>2
  <2> QED BY <2>3, <2>4
<1>4. ASSUME s < L
      PROVE d < done[L] + Lead(s)
  <2>1. s + 1 \in Stages /\ s + 1 <= L
    BY <1>1, <1>4, ProbeFacts
  <2>2. d < done[s + 1] + Ahead
    BY <2>1 DEF MayRun
  <2>3. Lead(s) = Lead(s + 1) + Ahead /\ Lead(s + 1) \in Int
    <3> DEFINE n == L - (s + 1)
    <3>1. n \in Int /\ L - s = n + 1
      BY <1>1
    <3> HIDE DEF n
    <3>2. Ahead * (n + 1) = Ahead * n + Ahead /\ Ahead * n \in Int
      BY <1>1, <3>1
    <3> QED BY <3>1, <3>2 DEF n
  <2>4. CASE s + 1 = L
    <3>1. Lead(s + 1) = 0
      BY <1>1, <2>4
    <3> HIDE DEF Lead, L
    <3> QED BY <1>1, <2>1, <2>2, <2>3, <2>4, <3>1
  <2>5. CASE s + 1 # L
    <3>1. s + 1 < L
      BY <1>1, <2>1, <2>5
    <3>2. done[s + 1] <= done[L] + Lead(s + 1)
      BY <2>1, <3>1 DEF Distances
    <3> HIDE DEF Lead, L
    <3> QED BY <1>1, <2>1, <2>2, <2>3, <3>2
  <2> QED BY <2>4, <2>5
<1>5. \A v, u \in Stages :
        v < u => done[u] <= done[v] /\ (next[u] # 0 => done[u] < done[v])
  BY DEF Distances
<1>6. ASSUME NEW v \in Stages, NEW u \in Stages, v < u
      PROVE done'[u] <= done'[v] /\ (next'[u] # 0 => done'[u] < done'[v])
  <2>1. CASE u = s
    <3>1. d < done[v] /\ done'[v] = done[v]
      BY <1>1, <1>2, <1>3, <1>6, <2>1
    <3> QED BY <1>1, <1>2, <2>1, <3>1
  <2>2. CASE v = s
    <3>1. done'[u] = done[u] /\ next'[u] = next[u] /\ done[s] <= done'[s] /\ done'[s] \in Nat
      BY <1>1, <1>2, <1>6, <2>2
    <3>2. done[u] <= done[s] /\ (next[u] # 0 => done[u] < done[s])
      BY <1>5, <1>6, <2>2
    <3> QED BY <1>1, <2>2, <3>1, <3>2
  <2>3. CASE u # s /\ v # s
    BY <1>2, <1>5, <1>6, <2>3
  <2> QED BY <2>1, <2>2, <2>3
<1>7. ASSUME NEW u \in Stages, u < L
      PROVE /\ done'[u] <= done'[L] + Lead(u)
            /\ next'[u] # 0 => done'[u] < done'[L] + Lead(u)
  <2>1. Lead(u) \in Int
    BY <1>1
  <2>2. done[L] <= done'[L] /\ done'[L] \in Nat
    BY <1>1, <1>2
  <2>3. CASE u = s
    <3>1. d < done[L] + Lead(s)
      BY <1>4, <1>7, <2>3
    <3> HIDE DEF Lead, L
    <3> QED BY <1>1, <1>2, <2>1, <2>2, <2>3, <3>1
  <2>4. CASE u # s
    <3>1. done[u] <= done[L] + Lead(u) /\ (next[u] # 0 => done[u] < done[L] + Lead(u))
      BY <1>7 DEF Distances
    <3>2. done'[u] = done[u] /\ next'[u] = next[u]
      BY <1>2, <2>4
    <3> HIDE DEF Lead, L
    <3> QED BY <1>1, <2>1, <2>2, <3>1, <3>2
  <2> QED BY <2>3, <2>4
<1> QED BY <1>6, <1>7, Zenon DEF Distances

\* In time for the reports of the last stage, no ring is full.
LEMMA RoomLeft ==
  ASSUME IInv, pc = "exec", mode = "stage", Roomy, NEW s \in Stages, MayRun(s)
  PROVE ~ Full(Current(s))
<1> DEFINE N == nFrames
           B == buffSize
           L == LastStage
           p == Current(s)
           rg == ring[p]
           dn == done[s] * N
           ln == done[L] * N
<1>1. TypeOK /\ Inv
  BY DEF IInv
<1>2. /\ N \in Nat \ {0} /\ B \in Nat \ {0} /\ L \in Stages
      /\ \A u \in Stages : u \in Nat \ {0} /\ u <= L /\ done[u] \in Nat /\ next[u] \in Nat
      /\ report["stage"] \in Nat
  BY <1>1, ProbeFacts DEF TypeOK, Reporters
<1>3. /\ p \in ProbesOf(s) /\ Rank(p) * N <= next[s] /\ next[s] < Rank(p) * N + N
  BY <1>1, CurrentProbe DEF Inv, Waves
<1>4. p \in Probes /\ StageOf[p] = s /\ Rank(p) \in Nat
  BY <1>3, RankFacts
<1>5. calls[p] = dn + (next[s] - Rank(p) * N)
  <2> DEFINE f == Rank(p) * N
             x == next[s]
  <2>1. f \in Int /\ f <= x /\ x < f + N /\ x \in Nat
    BY <1>2, <1>3, <1>4
  <2>2. calls[p] = dn + (IF x - f < 0 THEN 0 ELSE IF x - f > N THEN N ELSE x - f)
    BY <1>1, <1>4 DEF Inv, Waves, Frames
  <2> HIDE DEF f, x
  <2>3. (IF x - f < 0 THEN 0 ELSE IF x - f > N THEN N ELSE x - f) = x - f
    BY <1>2, <2>1
  <2> QED BY <2>2, <2>3 DEF f, x
<1>6. calls[p] <= dn + N - 1
  <2> DEFINE f == Rank(p) * N
  <2>1. f \in Int /\ dn \in Int
    BY <1>2, <1>4
  <2> HIDE DEF f, dn, N
  <2> QED BY <1>2, <1>3, <1>5, <2>1 DEF f
<1>7. /\ report["stage"] <= N /\ lost[p] = 0
      /\ told[p] >= ln - report["stage"]
  <2>1. Rows
    BY <1>1 DEF Inv
  <2>2. lost = Zeros /\ report["stage"] <= N
        /\ told[p] = RowsTold + (IF InRow(p) THEN 1 ELSE 0)
    BY <1>4, <2>1 DEF Rows
  <2>3. ln \in Int /\ RowsTold = ln - report["stage"]
    BY <1>2 DEF RowsTold
  <2> HIDE DEF ln
  <2>4. RowsTold \in Int
    BY <1>2, <2>3
  <2> QED BY <1>4, <2>2, <2>3, <2>4 DEF Zeros
<1>8. calls[p] = told[p] + Held(rg) /\ told[p] \in Nat /\ Held(rg) \in Nat
  <2>1. rg \in Ring /\ Sound(rg) /\ told[p] \in Nat
    BY <1>1, <1>4 DEF TypeOK, Inv, Rings
  <2>2. told[p] + Held(rg) + lost[p] = calls[p]
    BY <1>1, <1>4 DEF Inv, Values
  <2>3. Held(rg) \in Nat
    BY <2>1, HeldBounds
  <2> QED BY <1>7, <2>1, <2>2, <2>3
<1>9. Held(rg) < N * B - 1
  <2>1. dn \in Int /\ ln \in Int /\ N * B \in Int
    BY <1>2
  <2>2. CASE s = L
    <3>1. report["stage"] = 0 /\ dn = ln
      BY <2>2 DEF MayRun
    <3>2. B >= 2
      <4>1. Ahead * (L - 1) >= 0 /\ Ahead * (L - 1) \in Int
        <5>1. Ahead \in Nat /\ L - 1 \in Nat
          BY <1>2, ProbesAssumption
        <5> QED BY <5>1
      <4> HIDE DEF L
      <4>2. B > Ahead * (L - 1) + 1
        BY DEF Roomy, L
      <4> DEFINE a == Ahead * (L - 1)
      <4> HIDE DEF a, B
      <4>3. a \in Int /\ a >= 0 /\ B > a + 1 /\ B \in Nat
        BY <1>2, <4>1, <4>2 DEF a
      <4> QED BY <4>3
    <3>3. N * B >= N + N
      <4> HIDE DEF N, B
      <4>1. N * B >= N * 2
        BY <1>2, <3>2
      <4> QED BY <1>2, <2>1, <4>1
    <3> DEFINE nb == N * B
    <3> HIDE DEF nb, N, B, dn, ln, rg
    <3>4. nb \in Int /\ nb >= N + N
      BY <2>1, <3>3 DEF nb
    <3>5. Held(rg) < nb - 1
      BY <1>2, <1>6, <1>7, <1>8, <2>1, <3>1, <3>4
    <3> QED BY <3>5 DEF nb
  <2>3. CASE s # L
    <3> DEFINE a == Ahead * (L - s)
               top == Ahead * (L - 1)
    <3>1. s < L
      BY <1>2, <2>3
    <3>2. a \in Nat /\ top \in Nat /\ a <= top
      <4>1. Ahead \in Nat /\ L - s \in Nat /\ L - 1 \in Nat /\ L - s <= L - 1
        BY <1>2, ProbesAssumption
      <4> DEFINE m == L - s
                 n == L - 1
      <4>2. Ahead \in Nat /\ m \in Nat /\ n \in Nat /\ m <= n
        BY <4>1
      <4> HIDE DEF m, n
      <4>3. Ahead * m \in Nat /\ Ahead * n \in Nat /\ Ahead * m <= Ahead * n
        BY <4>2
      <4> QED BY <4>3 DEF m, n
    <3>3. done[s] < done[L] + a
      <4>1. s + 1 \in Stages /\ s + 1 <= L
        BY <1>2, <3>1, ProbeFacts
      <4>2. done[s] < done[s + 1] + Ahead
        BY <4>1 DEF MayRun
      <4>3. a = Ahead * (L - (s + 1)) + Ahead /\ Ahead * (L - (s + 1)) \in Int
        <5> DEFINE n == L - (s + 1)
        <5>1. n \in Int /\ L - s = n + 1 /\ Ahead \in Int
          BY <1>2, ProbesAssumption
        <5> HIDE DEF n
        <5>2. Ahead * (n + 1) = Ahead * n + Ahead /\ Ahead * n \in Int
          BY <5>1
        <5> QED BY <5>1, <5>2 DEF n
      <4>4. done[s + 1] <= done[L] + Ahead * (L - (s + 1))
        <5>1. CASE s + 1 = L
          <6>1. Ahead * (L - (s + 1)) = 0
            BY <1>2, <5>1, ProbesAssumption
          <6> QED BY <1>2, <5>1, <6>1
        <5>2. CASE s + 1 # L
          <6>1. s + 1 < L
            BY <1>2, <4>1, <5>2
          <6> QED BY <1>1, <4>1, <6>1 DEF Inv, Distances
        <5> QED BY <5>1, <5>2
      <4> DEFINE b == Ahead * (L - (s + 1))
      <4>5. Ahead \in Int
        BY ProbesAssumption
      <4> HIDE DEF a, b, L
      <4>6. a = b + Ahead /\ b \in Int /\ done[s + 1] <= done[L] + b
        BY <4>3, <4>4 DEF b
      <4> QED BY <1>2, <4>1, <4>2, <4>5, <4>6
    <3>4. B >= top + 2
      <4>1. B > top + 1
        BY DEF Roomy
      <4> HIDE DEF top, B
      <4> QED BY <1>2, <3>2, <4>1
    <3> DEFINE an == a * N
               nb == N * B
               l == done[L]
               d == done[s]
    <3>5. an \in Int /\ dn + N <= ln + an
      <4>1. d \in Int /\ l \in Int /\ a \in Int /\ d < l + a
        BY <1>2, <3>2, <3>3
      <4> HIDE DEF a, l, d, N
      <4>2. d * N + N <= (l + a) * N
        BY <1>2, <4>1, NextMultiple
      <4>3. (l + a) * N = l * N + a * N /\ a * N \in Int
        BY <1>2, <4>1
      <4> QED BY <4>2, <4>3 DEF l, d
    <3>6. nb >= an + N + N
      <4>1. B >= a + 2 /\ B \in Int /\ a \in Int
        <5> HIDE DEF a, top, B
        <5> QED BY <1>2, <3>2, <3>4
      <4> HIDE DEF a, B, N
      <4>2. B * N >= (a + 2) * N
        BY <1>2, <4>1
      <4>3. (a + 2) * N = a * N + N + N /\ B * N = N * B
        BY <1>2, <4>1
      <4> QED BY <4>2, <4>3
    <3>7. nb \in Int
      BY <2>1
    <3> HIDE DEF nb, an, N, B, dn, ln, rg, a, top
    <3>8. Held(rg) < nb - 1
      BY <1>2, <1>6, <1>7, <1>8, <2>1, <3>5, <3>6, <3>7
    <3> QED BY <3>8 DEF nb
  <2> QED BY <2>2, <2>3
<1>10. Size(p) = N * B /\ ColSize(p) = Held(rg)
  BY <1>1, <1>4 DEF Inv, Rings, Size, Room, ColSize, Held
<1>11. N * B \in Int
  BY <1>2
<1> QED BY <1>8, <1>9, <1>10, <1>11 DEF Full

\* The three ends of a push.
LEMMA PushCases ==
  ASSUME IInv, NEW p \in Probes, PushValue(p), lastTold' = lastTold, told' = told,
         UNCHANGED <<nFrames, buffSize>>, pc = "exec"
  PROVE /\ pc' \in {"exec", "undefined"}
        /\ ring' \in [Probes -> Ring] /\ lost' \in [Probes -> Nat] /\ calls' \in [Probes -> Nat]
        /\ pc' = "exec" => Rings' /\ Values'
        /\ ~ Full(p) => lost' = lost
<1> DEFINE rg == ring[p]
           c == calls[p]
<1>1. TypeOK /\ Rings /\ Values
  BY DEF IInv, Inv
<1>2. /\ ring \in [Probes -> Ring] /\ lost \in [Probes -> Nat] /\ calls \in [Probes -> Nat]
      /\ told \in [Probes -> Nat] /\ lastTold \in [Probes -> Nat]
  BY <1>1 DEF TypeOK
<1>3. rg \in Ring /\ Sound(rg) /\ Room(rg) \in Nat \ {0} /\ Held(rg) \in Nat
  <2>1. rg \in Ring /\ Sound(rg)
    BY <1>1, <1>2 DEF Rings
  <2> QED BY <2>1, HeldBounds
<1>4. Size(p) = Room(rg) /\ ColSize(p) = Held(rg)
  BY DEF Size, ColSize, Room, Held
<1>5. calls' = [calls EXCEPT ![p] = c + 1] /\ calls' \in [Probes -> Nat]
  BY <1>2 DEF PushValue
<1>6. \A q \in Probes : q # p => calls'[q] = calls[q]
  BY <1>2, <1>5
<1>7. calls'[p] = c + 1 /\ c \in Nat
  BY <1>2, <1>5
<1>8. /\ told[p] + Held(rg) + lost[p] = c /\ lastTold[p] <= c
      /\ InOrder(rg, lastTold[p], c, told[p], lost[p] = 0)
  BY <1>1 DEF Values
<1>9. CASE Full(p)
  <2>1. lost' = [lost EXCEPT ![p] = @ + 1] /\ ring' = ring /\ pc' = pc
    BY <1>9 DEF PushValue
  <2>2. lost' \in [Probes -> Nat] /\ lost'[p] = lost[p] + 1 /\ lost[p] \in Nat
    BY <1>2, <2>1
  <2>3. InOrder(rg, lastTold[p], c + 1, told[p], FALSE)
    <3>1. (lost[p] = 0) \in BOOLEAN
      OBVIOUS
    <3>2. lastTold[p] \in Nat /\ told[p] \in Nat
      BY <1>2
    <3> HIDE DEF rg, c
    <3> QED BY <1>3, <1>7, <1>8, <3>1, <3>2, LostInOrder
  <2>4. (lost'[p] = 0) = FALSE
    BY <2>2
  <2>5. ASSUME NEW q \in Probes
        PROVE /\ told'[q] + Held(ring'[q]) + lost'[q] = calls'[q]
              /\ lastTold'[q] <= calls'[q]
              /\ InOrder(ring'[q], lastTold'[q], calls'[q], told'[q], lost'[q] = 0)
    <3>1. CASE q = p
      <4>1. told[p] \in Nat /\ lastTold[p] \in Nat
        BY <1>2
      <4>2. InOrder(ring'[p], lastTold'[p], calls'[p], told'[p], lost'[p] = 0)
        BY <1>7, <2>1, <2>3, <2>4
      <4> HIDE DEF c
      <4> QED BY <1>3, <1>7, <1>8, <2>1, <2>2, <3>1, <4>1, <4>2
    <3>2. CASE q # p
      <4>1. lost'[q] = lost[q] /\ calls'[q] = calls[q] /\ ring'[q] = ring[q]
        BY <1>2, <1>6, <2>1, <3>2
      <4> QED BY <1>1, <4>1 DEF Values
    <3> QED BY <3>1, <3>2
  <2>6. Rings' /\ Values'
    BY <1>1, <2>1, <2>5 DEF Rings, Values
  <2> QED BY <1>2, <1>5, <1>9, <2>1, <2>2, <2>6
<1>10. CASE ~ Full(p) /\ ring[p].head >= Size(p)
  BY <1>2, <1>5, <1>10 DEF PushValue
<1>11. CASE ~ Full(p) /\ ~ (ring[p].head >= Size(p))
  <2> DEFINE new == Pushed(p)
  <2>1. ring' = [ring EXCEPT ![p] = new] /\ lost' = lost /\ pc' = pc
    BY <1>11 DEF PushValue
  <2>2. /\ new \in Ring /\ Sound(new) /\ Room(new) = Room(rg)
        /\ Held(new) = Held(rg) + 1
        /\ \A i \in 1 .. Held(rg) : Cell(new, i) = Cell(rg, i)
        /\ Cell(new, Held(rg) + 1) = c + 1
    <3>1. new = WithPushed(rg, c + 1)
      BY <1>4 DEF Pushed, WithPushed
    <3>2. rg.head < Room(rg)
      <4>1. rg.head \in Nat
        BY <1>3 DEF Ring
      <4>2. ~ (rg.head >= Room(rg))
        BY <1>4, <1>11
      <4> HIDE DEF rg
      <4> QED BY <1>3, <4>1, <4>2
    <3>3. Held(rg) # Room(rg) - 1
      BY <1>4, <1>11 DEF Full
    <3>4. c + 1 \in Nat
      BY <1>7
    <3> HIDE DEF new, rg, c
    <3> QED BY <1>3, <3>1, <3>2, <3>3, <3>4, Push
  <2> HIDE DEF new
  <2>3. ring' \in [Probes -> Ring] /\ ring'[p] = new /\ \A q \in Probes : q # p => ring'[q] = ring[q]
    BY <1>2, <2>1, <2>2
  <2>4. InOrder(new, lastTold[p], c + 1, told[p], lost[p] = 0)
    <3>1. (lost[p] = 0) \in BOOLEAN
      OBVIOUS
    <3>2. lastTold[p] \in Nat /\ told[p] \in Nat /\ lost[p] \in Nat
      BY <1>2
    <3>3. lost[p] = 0 => told[p] + Held(rg) = c
      BY <1>8, <1>3, <3>2
    <3> DEFINE ex == lost[p] = 0
    <3> HIDE DEF rg, c, ex
    <3>4. ex \in BOOLEAN /\ (ex => told[p] + Held(rg) = c) /\ InOrder(rg, lastTold[p], c, told[p], ex)
      BY <1>8, <3>1, <3>3 DEF ex
    <3>5. lastTold[p] <= c
      BY <1>8
    <3>6. InOrder(new, lastTold[p], c + 1, told[p], ex)
      BY <1>3, <1>7, <2>2, <3>2, <3>4, <3>5, PushInOrder
    <3> QED BY <3>6 DEF ex
  <2>5. ASSUME NEW q \in Probes
        PROVE /\ told'[q] + Held(ring'[q]) + lost'[q] = calls'[q]
              /\ lastTold'[q] <= calls'[q]
              /\ InOrder(ring'[q], lastTold'[q], calls'[q], told'[q], lost'[q] = 0)
    <3>1. CASE q = p
      <4>1. told[p] \in Nat /\ lastTold[p] \in Nat /\ lost[p] \in Nat
        BY <1>2
      <4>2. InOrder(ring'[p], lastTold'[p], calls'[p], told'[p], lost'[p] = 0)
        BY <1>7, <2>1, <2>3, <2>4
      <4> HIDE DEF c, rg
      <4>3. told[p] + Held(new) + lost[p] = c + 1 /\ lastTold[p] <= c + 1
        BY <1>3, <1>7, <1>8, <2>2, <4>1
      <4> QED BY <1>7, <2>1, <2>3, <3>1, <4>2, <4>3
    <3>2. CASE q # p
      <4>1. lost'[q] = lost[q] /\ calls'[q] = calls[q] /\ ring'[q] = ring[q]
        BY <1>2, <1>6, <2>1, <2>3, <3>2
      <4> QED BY <1>1, <4>1 DEF Values
    <3> QED BY <3>1, <3>2
  <2>6. \A q \in Probes : Sound(ring'[q]) /\ Room(ring'[q]) = nFrames' * buffSize'
    <3> TAKE q \in Probes
    <3>1. Sound(ring[q]) /\ Room(ring[q]) = nFrames * buffSize /\ Room(rg) = nFrames * buffSize
      BY <1>1 DEF Rings
    <3> QED BY <2>2, <2>3, <3>1
  <2> QED BY <1>2, <1>5, <2>1, <2>3, <2>5, <2>6 DEF Rings, Values
<1> QED BY <1>9, <1>10, <1>11

LEMMA ProbeInv ==
  ASSUME IInv, NEW s \in Stages, Probe(s)
  PROVE IInv'
<1> DEFINE p == Current(s)
           L == LastStage
           Wakes == s = L /\ EndsWave(s) /\ mode = "stage"
<1>1. TypeOK /\ Inv /\ pc = "exec" /\ MayRun(s)
  BY DEF IInv, Probe, MayRun
<1>2. /\ PushValue(p) /\ Advance(s, p)
      /\ report' = IF Wakes THEN [report EXCEPT !["stage"] = nFrames] ELSE report
      /\ UNCHANGED <<mode, nFrames, buffSize, terminal, row, told, lastTold>>
  BY DEF Probe, settings, Advance, PushValue
<1>3. p \in Probes /\ StageOf[p] = s
  <2>1. p \in ProbesOf(s)
    BY <1>1, CurrentProbe DEF Inv, Waves
  <2> QED BY <2>1, RankFacts
<1> HIDE DEF p
<1>4. /\ pc' \in {"exec", "undefined"}
      /\ ring' \in [Probes -> Ring] /\ lost' \in [Probes -> Nat] /\ calls' \in [Probes -> Nat]
      /\ pc' = "exec" => Rings' /\ Values'
      /\ ~ Full(p) => lost' = lost
  BY <1>1, <1>2, <1>3, PushCases
<1>5. /\ report' \in [Reporters -> Nat]
      /\ report'["stage"] = IF Wakes THEN nFrames ELSE report["stage"]
      /\ report'["terminal"] = report["terminal"] /\ report'["main"] = report["main"]
  BY <1>1, <1>2 DEF TypeOK, Reporters
<1>6. done' \in [Stages -> Nat] /\ next' \in [Stages -> Nat]
  BY <1>1, <1>2 DEF TypeOK, Advance
<1>7. TypeOK'
  BY <1>1, <1>2, <1>4, <1>5, <1>6 DEF TypeOK
<1>8. SUFFICES ASSUME pc' = "exec" PROVE Inv'
  BY <1>4, <1>7 DEF IInv
<1>9. Waves' /\ Distances'
  BY <1>1, <1>2, WavesStep, DistancesStep DEF Inv, p
<1>10. Roles'
  <2>1. Wakes => mode = "stage"
    OBVIOUS
  <2> HIDE DEF Wakes
  <2> QED BY <1>1, <1>2, <1>5, <1>8, <2>1 DEF Inv, Roles
<1>11. Silent'
  BY <1>1, <1>2 DEF Inv, Silent
<1>12. Rested' /\ Drained' /\ FinalRows'
  BY <1>8 DEF Rested, Drained, FinalRows
<1>13. Rows'
  <2> SUFFICES ASSUME mode = "stage", Roomy
               PROVE /\ lost' = Zeros
                     /\ report'["stage"] <= nFrames'
                     /\ report'["stage"] = 0 => Len(row'["stage"]) \in {0, Columns}
                     /\ report'["stage"] # 0 => next'[LastStage] = 0
                     /\ \A q \in Probes :
                          /\ told'[q] = RowsTold' + (IF InRow(q)' THEN 1 ELSE 0)
                          /\ q <= Len(row'["stage"]) => row'["stage"][q] = told'[q] /\ told'[q] > 0
    BY <1>2 DEF Rows, Roomy
  <2>1. /\ lost = Zeros
        /\ report["stage"] <= nFrames
        /\ report["stage"] = 0 => Len(row["stage"]) \in {0, Columns}
        /\ report["stage"] # 0 => next[L] = 0
        /\ \A q \in Probes :
             /\ told[q] = RowsTold + (IF InRow(q) THEN 1 ELSE 0)
             /\ q <= Len(row["stage"]) => row["stage"][q] = told[q] /\ told[q] > 0
    BY <1>1 DEF Inv, Rows
  <2>2. lost' = Zeros
    BY <1>1, <1>4, <2>1, RoomLeft DEF p
  <2>3. nFrames \in Nat \ {0} /\ nFrames' = nFrames /\ report["stage"] \in Nat
        /\ done[L] \in Nat /\ L \in Stages
    BY <1>1, <1>2, ProbeFacts DEF TypeOK, Reporters
  <2>4. s = L => report["stage"] = 0
    BY <1>1 DEF MayRun
  <2>5. Wakes => s = L /\ EndsWave(s)
    OBVIOUS
  <2>6. next'[L] = IF s = L THEN (IF EndsWave(s) THEN 0 ELSE next[L] + 1) ELSE next[L]
    BY <1>1, <1>2, <2>3 DEF Advance, TypeOK
  <2>7. done'[L] = IF s = L /\ EndsWave(s) THEN done[L] + 1 ELSE done[L]
    BY <1>1, <1>2, <2>3 DEF Advance, TypeOK
  <2>8. s = L /\ EndsWave(s) => Wakes
    OBVIOUS
  <2> HIDE DEF Wakes
  <2>9. RowsTold' = RowsTold
    <3>1. (done[L] + 1) * nFrames = done[L] * nFrames + nFrames /\ done[L] * nFrames \in Int
      BY <2>3
    <3>2. CASE Wakes
      <4>1. done'[L] = done[L] + 1 /\ report'["stage"] = nFrames /\ report["stage"] = 0
        BY <1>5, <2>4, <2>5, <2>7, <3>2
      <4> QED BY <2>3, <3>1, <4>1 DEF RowsTold
    <3>3. CASE ~ Wakes
      <4>1. done'[L] = done[L] /\ report'["stage"] = report["stage"]
        BY <1>5, <2>7, <2>8, <3>3
      <4> QED BY <2>3, <4>1 DEF RowsTold
    <3> QED BY <3>2, <3>3
  <2>10. /\ report'["stage"] <= nFrames'
         /\ report'["stage"] = 0 => Len(row'["stage"]) \in {0, Columns}
         /\ report'["stage"] # 0 => next'[L] = 0
    <3>1. CASE Wakes
      <4>1. report'["stage"] = nFrames /\ next'[L] = 0
        BY <1>5, <2>5, <2>6, <3>1
      <4> QED BY <2>3, <4>1
    <3>2. CASE ~ Wakes
      <4>1. report'["stage"] = report["stage"] /\ row' = row
        BY <1>2, <1>5, <3>2
      <4>2. report["stage"] # 0 => next'[L] = next[L]
        BY <2>4, <2>6
      <4> QED BY <2>1, <2>3, <4>1, <4>2
    <3> QED BY <3>1, <3>2
  <2>11. ASSUME NEW q \in Probes
         PROVE /\ told'[q] = RowsTold' + (IF InRow(q)' THEN 1 ELSE 0)
               /\ q <= Len(row'["stage"]) => row'["stage"][q] = told'[q] /\ told'[q] > 0
    <3>1. row' = row /\ told' = told
      BY <1>2
    <3>2. InRow(q)' <=> InRow(q)
      BY <3>1 DEF InRow
    <3> QED BY <2>1, <2>9, <3>1, <3>2
  <2> QED BY <2>2, <2>10, <2>11
<1> QED BY <1>4, <1>8, <1>9, <1>10, <1>11, <1>12, <1>13 DEF Inv

(***************************************************************************)
(* A value that a report pulls.                                            *)
(***************************************************************************)
LEMMA RowStep ==
  ASSUME TypeOK, NEW r \in Reporters, NEW v \in Nat, NEW w, w = WithValue(r, v)
  PROVE /\ Column(r) \in Probes /\ Column(r) \in 1 .. Columns
        /\ w \in Seq(Nat) /\ Len(w) = Column(r) /\ w[Column(r)] = v
        /\ \A q \in Probes : q < Column(r) => q <= Len(row[r]) /\ w[q] = row[r][q]
        /\ \/ Column(r) = 1 /\ Len(row[r]) = Columns
           \/ Column(r) = Len(row[r]) + 1 /\ Len(row[r]) < Columns
<1> DEFINE old == row[r]
           k == Len(old)
           p == Column(r)
<1>1. old \in Seq(Nat) /\ k \in Nat /\ k <= Columns
  BY DEF TypeOK
<1>2. Columns \in Nat \ {0} /\ Probes = 1 .. Columns /\ \A q \in Probes : q \in Nat \ {0}
  BY ProbeFacts
<1>3. p = IF k = Columns THEN 1 ELSE k + 1
  BY DEF Column
<1>4. w = IF k = Columns THEN <<v>> ELSE Append(old, v)
  BY DEF WithValue
<1> HIDE DEF old, k, p
<1>5. p \in 1 .. Columns /\ p \in Probes
  BY <1>1, <1>2, <1>3
<1>6. /\ w \in Seq(Nat) /\ Len(w) = p /\ w[p] = v
      /\ \A q \in Probes : q < p => q <= k /\ w[q] = old[q]
  <2>1. CASE k = Columns
    <3>1. w = <<v>> /\ p = 1
      BY <1>3, <1>4, <2>1
    <3>2. w \in Seq(Nat) /\ Len(w) = 1 /\ w[1] = v
      BY <3>1
    <3>3. \A q \in Probes : ~ (q < 1)
      BY <1>2
    <3> QED BY <3>1, <3>2, <3>3
  <2>2. CASE k # Columns
    <3>1. w = Append(old, v) /\ p = k + 1 /\ k = Len(old)
      BY <1>3, <1>4, <2>2 DEF k
    <3>2. w \in Seq(Nat) /\ Len(w) = k + 1 /\ w[k + 1] = v
          /\ \A q \in 1 .. k : w[q] = old[q]
      BY <1>1, <3>1
    <3>3. \A q \in Probes : q < k + 1 => q \in 1 .. k
      BY <1>1, <1>2
    <3> QED BY <1>1, <3>1, <3>2, <3>3
  <2> QED BY <2>1, <2>2
<1> QED BY <1>1, <1>2, <1>3, <1>5, <1>6 DEF p, k, old

\* The value of a column that Pull takes.
Value(p) == IF ColSize(p) = 0 THEN NoValue ELSE Content(p)[1]

PullValue(p) ==
    IF ColSize(p) = 0 THEN UNCHANGED <<ring, told, lastTold>>
    ELSE /\ ring' = [ring EXCEPT ![p] = Pulled(p)]
         /\ told' = [told EXCEPT ![p] = @ + 1]
         /\ lastTold' = [lastTold EXCEPT ![p] = Value(p)]

LEMMA PullCases ==
  ASSUME TypeOK, Rings, Values, NEW p \in Probes, PullValue(p),
         UNCHANGED <<nFrames, buffSize, calls, lost>>
  PROVE /\ ring' \in [Probes -> Ring] /\ told' \in [Probes -> Nat] /\ lastTold' \in [Probes -> Nat]
        /\ Rings' /\ Values'
        /\ Value(p) \in Nat /\ (Value(p) = NoValue <=> Held(ring[p]) = 0)
        /\ lost[p] = 0 /\ Held(ring[p]) # 0 => Value(p) = told[p] + 1
        /\ Held(ring[p]) = 0 => Held(ring'[p]) = 0 /\ told'[p] = told[p]
        /\ Held(ring[p]) # 0 => told'[p] = told[p] + 1
        /\ \A q \in Probes \ {p} : ring'[q] = ring[q] /\ told'[q] = told[q]
<1> DEFINE rg == ring[p]
           v == Value(p)
<1>1. /\ ring \in [Probes -> Ring] /\ lost \in [Probes -> Nat] /\ calls \in [Probes -> Nat]
      /\ told \in [Probes -> Nat] /\ lastTold \in [Probes -> Nat]
  BY DEF TypeOK
<1>2. rg \in Ring /\ Sound(rg) /\ Room(rg) \in Nat \ {0} /\ Held(rg) \in Nat
  <2>1. rg \in Ring /\ Sound(rg)
    BY <1>1 DEF Rings
  <2> QED BY <2>1, HeldBounds
<1>3. Size(p) = Room(rg) /\ ColSize(p) = Held(rg)
  BY DEF Size, ColSize, Room, Held
<1>4. /\ told[p] + Held(rg) + lost[p] = calls[p] /\ lastTold[p] <= calls[p]
      /\ InOrder(rg, lastTold[p], calls[p], told[p], lost[p] = 0)
  BY DEF Values
<1>5. CASE Held(rg) = 0
  <2>1. ring' = ring /\ told' = told /\ lastTold' = lastTold /\ v = NoValue
    BY <1>3, <1>5 DEF PullValue, Value
  <2>2. Rings' /\ Values'
    BY <2>1 DEF Rings, Values
  <2> QED BY <1>1, <1>5, <2>1, <2>2 DEF NoValue
<1>6. CASE Held(rg) # 0
  <2> DEFINE new == Pulled(p)
  <2>1. /\ ring' = [ring EXCEPT ![p] = new]
        /\ told' = [told EXCEPT ![p] = told[p] + 1]
        /\ lastTold' = [lastTold EXCEPT ![p] = v]
    BY <1>1, <1>3, <1>6 DEF PullValue
  <2>2. v = Cell(rg, 1)
    <3>1. 1 \in 1 .. ColSize(p)
      BY <1>2, <1>3, <1>6
    <3>2. Content(p)[1] = ring[p].cells[((ring[p].tail + 1 - 1) % Size(p)) + 1]
      BY <3>1 DEF Content
    <3> QED BY <1>3, <1>6, <3>2 DEF Value, Cell
  <2>3. new = WithTaken(rg)
    BY <1>3 DEF Pulled, WithTaken
  <2> HIDE DEF new, rg
  <2>4. /\ new \in Ring /\ Sound(new) /\ Room(new) = Room(rg)
        /\ Held(new) = Held(rg) - 1
        /\ \A i \in 1 .. Held(new) : Cell(new, i) = Cell(rg, i + 1)
    BY <1>2, <1>6, <2>3, Take
  <2> DEFINE ex == lost[p] = 0
             a == lastTold[p]
             b == calls[p]
             c == told[p]
  <2>5. a \in Nat /\ b \in Nat /\ c \in Nat /\ ex \in BOOLEAN /\ lost[p] \in Nat
    BY <1>1
  <2>6. InOrder(rg, a, b, c, ex)
    BY <1>4
  <2> HIDE DEF ex, a, b, c
  <2>7. /\ Cell(rg, 1) \in Nat /\ Cell(rg, 1) <= b /\ a < Cell(rg, 1)
        /\ ex => Cell(rg, 1) = c + 1
        /\ InOrder(new, Cell(rg, 1), b, c + 1, ex)
    BY <1>2, <1>6, <2>4, <2>5, <2>6, TakeInOrder
  <2>8. v \in Nat /\ v # NoValue /\ v <= b /\ (ex => v = c + 1)
        /\ InOrder(new, v, b, c + 1, ex)
    <3>1. Cell(rg, 1) # 0
      BY <2>5, <2>7
    <3> QED BY <2>2, <2>7, <3>1 DEF NoValue
  <2> HIDE DEF v
  <2>9. /\ ring' \in [Probes -> Ring] /\ ring'[p] = new
        /\ told' \in [Probes -> Nat] /\ told'[p] = c + 1
        /\ lastTold' \in [Probes -> Nat] /\ lastTold'[p] = v
    <3>1. c + 1 \in Nat
      BY <2>5
    <3> QED BY <1>1, <2>1, <2>4, <2>8, <3>1 DEF c
  <2>10. \A q \in Probes \ {p} :
           ring'[q] = ring[q] /\ told'[q] = told[q] /\ lastTold'[q] = lastTold[q]
    BY <1>1, <2>1
  <2>11. ASSUME NEW q \in Probes
         PROVE /\ told'[q] + Held(ring'[q]) + lost'[q] = calls'[q]
               /\ lastTold'[q] <= calls'[q]
               /\ InOrder(ring'[q], lastTold'[q], calls'[q], told'[q], lost'[q] = 0)
    <3>1. CASE q = p
      <4>1. InOrder(ring'[p], lastTold'[p], calls'[p], told'[p], lost'[p] = 0)
        BY <2>8, <2>9 DEF b, ex
      <4>2. c + Held(rg) + lost[p] = b
        BY <1>4 DEF b, c, rg
      <4>3. (c + 1) + Held(new) + lost[p] = b /\ v <= b
        BY <1>2, <2>4, <2>5, <2>8, <4>2
      <4> QED BY <2>9, <3>1, <4>1, <4>3 DEF b
    <3>2. CASE q # p
      BY <2>10, <3>2 DEF Values
    <3> QED BY <3>1, <3>2
  <2>12. \A q \in Probes : Sound(ring'[q]) /\ Room(ring'[q]) = nFrames' * buffSize'
    <3> TAKE q \in Probes
    <3>1. Sound(ring[q]) /\ Room(ring[q]) = nFrames * buffSize /\ Room(rg) = nFrames * buffSize
      BY DEF Rings, rg
    <3> QED BY <2>4, <2>9, <2>10, <3>1
  <2>13. Rings' /\ Values'
    BY <2>11, <2>12 DEF Rings, Values
  <2> QED BY <1>6, <2>8, <2>9, <2>10, <2>13 DEF v, ex, c, rg
<1> QED BY <1>5, <1>6

LEMMA PullFacts ==
  ASSUME IInv, NEW r \in Reporters, Pull(r), NEW w, w = WithValue(r, Value(Column(r)))
  PROVE /\ TypeOK' /\ Rings' /\ Values'
        /\ row' = [row EXCEPT ![r] = w]
        /\ report' = [report EXCEPT ![r] = RowsLeft(r, w)]
        /\ PullValue(Column(r))
        /\ pc # "undefined" /\ report[r] \in Nat \ {0}
        /\ UNCHANGED <<pc, mode, nFrames, buffSize, done, next, terminal, calls, lost>>
<1> DEFINE p == Column(r)
           v == Value(p)
<1>1. TypeOK /\ Inv /\ pc # "undefined"
  BY DEF IInv, Pull
<1>2. /\ row' = [row EXCEPT ![r] = w]
      /\ report' = [report EXCEPT ![r] = RowsLeft(r, w)]
      /\ PullValue(p)
      /\ report[r] > 0
      /\ UNCHANGED <<pc, mode, nFrames, buffSize, done, next, terminal, calls, lost>>
  BY DEF Pull, PullValue, Value, settings
<1>3. p \in Probes
  <2>1. 0 \in Nat
    OBVIOUS
  <2> QED BY <1>1, <2>1, RowStep
<1> HIDE DEF p
<1>4. /\ ring' \in [Probes -> Ring] /\ told' \in [Probes -> Nat] /\ lastTold' \in [Probes -> Nat]
      /\ Rings' /\ Values' /\ v \in Nat
  BY <1>1, <1>2, <1>3, PullCases DEF Inv
<1>5. w \in Seq(Nat) /\ Len(w) <= Columns /\ Len(w) \in Nat
  <2> HIDE DEF v
  <2>1. w = WithValue(r, v)
    BY DEF v, p
  <2>2. w \in Seq(Nat) /\ Len(w) = p /\ p \in 1 .. Columns
    BY <1>1, <1>4, <2>1, RowStep DEF p
  <2> QED BY <2>2, ProbeFacts
<1>6. report[r] \in Nat \ {0}
  BY <1>1, <1>2 DEF TypeOK
<1>7. RowsLeft(r, w) \in Nat
  BY <1>6 DEF RowsLeft
<1>8. row' \in [Reporters -> Seq(Nat)] /\ \A t \in Reporters : Len(row'[t]) <= Columns
  BY <1>1, <1>2, <1>5 DEF TypeOK
<1>9. report' \in [Reporters -> Nat]
  BY <1>1, <1>2, <1>7 DEF TypeOK
<1>10. TypeOK'
  BY <1>1, <1>2, <1>4, <1>8, <1>9 DEF TypeOK
<1> QED BY <1>1, <1>2, <1>4, <1>6, <1>10 DEF p

\* Who pulls, from what is left to its report.
LEMMA WhoPulls ==
  ASSUME IInv, NEW r \in Reporters, Pull(r)
  PROVE /\ r = "stage" => pc = "exec" /\ mode = "stage"
        /\ r = "terminal" => mode = "terminal" /\ (pc = "exec" \/ pc \in Ending)
        /\ r = "main" => pc = "final"
        /\ r \in {"stage", "terminal", "main"}
<1>1. Inv /\ report[r] > 0
  BY DEF IInv, Pull
<1>2. r = "terminal" => terminal = "report"
  BY <1>1 DEF Inv, Roles
<1> QED BY <1>1, <1>2 DEF Inv, Roles, Reporters

LEMMA PullDrained ==
  ASSUME IInv, NEW r \in Reporters, Pull(r)
  PROVE Drained'
<1> DEFINE p == Column(r)
           v == Value(p)
           w == WithValue(r, v)
<1>1. pc' = pc
  BY DEF Pull
<1>2. SUFFICES ASSUME pc = "final"
               PROVE /\ report'["main"] = 0 => \A q \in Probes : Held(ring'[q]) = 0
                     /\ \A q \in Probes :
                          q <= Len(row'["main"]) /\ row'["main"][q] = NoValue => Held(ring'[q]) = 0
  BY <1>1 DEF Drained
<1>3. r = "main"
  BY <1>2, WhoPulls DEF Ending
<1>4. TypeOK /\ Rings /\ Values /\ Drained
  BY <1>2 DEF IInv, Inv
<1>5. /\ row' = [row EXCEPT ![r] = w] /\ PullValue(p)
      /\ report' = [report EXCEPT ![r] = RowsLeft(r, w)]
      /\ UNCHANGED <<nFrames, buffSize, calls, lost>>
  BY PullFacts
<1>6. p \in Probes
  <2>1. 0 \in Nat
    OBVIOUS
  <2> QED BY <1>4, <2>1, RowStep
<1>7. /\ v \in Nat /\ (v = NoValue <=> Held(ring[p]) = 0)
      /\ Held(ring[p]) = 0 => Held(ring'[p]) = 0
      /\ \A q \in Probes \ {p} : ring'[q] = ring[q]
  <2> HIDE DEF p
  <2> QED BY <1>4, <1>5, <1>6, PullCases
<1> HIDE DEF v
<1>8. /\ p \in 1 .. Columns /\ Len(w) = p /\ w[p] = v
      /\ w \in Seq(Nat)
      /\ \A q \in Probes : q < p => q <= Len(row[r]) /\ w[q] = row[r][q]
  BY <1>4, <1>7, RowStep
<1> HIDE DEF w
<1>9. row'["main"] = w /\ report'["main"] = RowsLeft("main", w)
  BY <1>3, <1>4, <1>5 DEF TypeOK, Reporters
<1> HIDE DEF p
<1>10. ASSUME NEW q \in Probes, q <= Len(w), w[q] = NoValue
       PROVE Held(ring'[q]) = 0
  <2>1. CASE q = p
    BY <1>7, <1>8, <1>10, <2>1
  <2>2. CASE q # p
    <3>1. q \in Nat /\ q < p
      <4>1. q \in Nat /\ Len(w) = p /\ p \in Nat
        BY <1>6, <1>8, ProbeFacts
      <4> QED BY <1>10, <2>2, <4>1
    <3>2. q <= Len(row[r]) /\ row[r][q] = NoValue
      BY <1>8, <1>10, <3>1
    <3>3. Held(ring[q]) = 0
      BY <1>2, <1>3, <1>4, <3>2 DEF Drained
    <3> QED BY <1>7, <2>2, <3>3
  <2> QED BY <2>1, <2>2
<1>11. ASSUME RowsLeft("main", w) = 0, NEW q \in Probes
       PROVE q <= Len(w) /\ w[q] = NoValue
  <2>1. Columns \in Nat /\ Probes = 1 .. Columns /\ q \in Nat \ {0} /\ q <= Columns
    BY ProbeFacts
  <2>2. report["main"] # 0
    <3>1. report[r] \in Nat \ {0}
      BY PullFacts
    <3> QED BY <1>3, <3>1
  <2>3. ~ (Len(w) < Columns) /\ ~ CanPull(w)
    BY <1>11, <2>2 DEF RowsLeft
  <2>4. Len(w) = Columns
    BY <1>8, <2>1, <2>3
  <2>5. Range(w) = {NoValue}
    BY <2>3 DEF CanPull
  <2>6. q \in DOMAIN w
    BY <1>8, <2>1, <2>4
  <2>7. w[q] \in Range(w)
    BY <2>6 DEF Range
  <2> QED BY <2>1, <2>4, <2>5, <2>7
<1> QED BY <1>9, <1>10, <1>11

LEMMA PullRows ==
  ASSUME IInv, NEW r \in Reporters, Pull(r)
  PROVE Rows'
<1> DEFINE p == Column(r)
           v == Value(p)
           w == WithValue(r, v)
           L == LastStage
           n == report["stage"]
           t == RowsTold
<1>1. pc' = pc /\ UNCHANGED <<mode, nFrames, buffSize, done, next, calls, lost>>
  BY PullFacts
<1>2. SUFFICES ASSUME pc = "exec", mode = "stage", Roomy
               PROVE /\ lost' = Zeros
                     /\ report'["stage"] <= nFrames'
                     /\ report'["stage"] = 0 => Len(row'["stage"]) \in {0, Columns}
                     /\ report'["stage"] # 0 => next'[LastStage] = 0
                     /\ \A q \in Probes :
                          /\ told'[q] = RowsTold' + (IF InRow(q)' THEN 1 ELSE 0)
                          /\ q <= Len(row'["stage"]) => row'["stage"][q] = told'[q] /\ told'[q] > 0
  BY <1>1 DEF Rows, Roomy
<1>3. r = "stage"
  BY <1>2, WhoPulls
<1>4. TypeOK /\ Rings /\ Values /\ Rows /\ Waves /\ Distances
  BY <1>2 DEF IInv, Inv
<1>5. /\ row' = [row EXCEPT ![r] = w] /\ PullValue(p)
      /\ report' = [report EXCEPT ![r] = RowsLeft(r, w)]
      /\ n \in Nat \ {0}
  BY <1>3, PullFacts
<1>6. /\ lost = Zeros /\ n <= nFrames /\ next[L] = 0
      /\ \A q \in Probes :
           /\ told[q] = t + (IF InRow(q) THEN 1 ELSE 0)
           /\ q <= Len(row["stage"]) => row["stage"][q] = told[q] /\ told[q] > 0
  BY <1>2, <1>4, <1>5 DEF Rows
<1>7. p \in Probes
  <2>1. 0 \in Nat
    OBVIOUS
  <2> QED BY <1>4, <2>1, RowStep
<1>8. /\ v \in Nat
      /\ lost[p] = 0 /\ Held(ring[p]) # 0 => v = told[p] + 1
      /\ Held(ring[p]) # 0 => told'[p] = told[p] + 1
      /\ \A q \in Probes \ {p} : told'[q] = told[q]
  <2> HIDE DEF p
  <2> QED BY <1>1, <1>4, <1>5, <1>7, PullCases
<1> HIDE DEF v
<1>9. /\ p \in 1 .. Columns /\ Len(w) = p /\ w[p] = v
      /\ \A q \in Probes : q < p => q <= Len(row[r]) /\ w[q] = row[r][q]
      /\ \/ p = 1 /\ Len(row[r]) = Columns
         \/ p = Len(row[r]) + 1 /\ Len(row[r]) < Columns
  BY <1>4, <1>8, RowStep
<1> DEFINE k == Len(row[r])
           ln == done[L] * nFrames
<1>10. /\ row'["stage"] = w
       /\ report'["stage"] = IF Len(w) < Columns THEN n ELSE n - 1
  <2>1. row'["stage"] = w /\ report'["stage"] = RowsLeft(r, w)
    BY <1>3, <1>4, <1>5 DEF TypeOK, Reporters
  <2> QED BY <1>3, <2>1 DEF RowsLeft
<1> HIDE DEF w, p
<1>11. /\ nFrames \in Nat \ {0} /\ done[L] \in Nat /\ L \in Stages
       /\ k \in Nat /\ Columns \in Nat \ {0} /\ p \in Nat \ {0} /\ p <= Columns
       /\ \A q \in Probes : told[q] \in Nat /\ q \in Nat \ {0} /\ q <= Columns
  <2>1. L \in Stages /\ Columns \in Nat \ {0} /\ p \in Nat \ {0} /\ p <= Columns
    BY <1>7, <1>9, ProbeFacts
  <2>2. \A q \in Probes : q \in Nat \ {0} /\ q <= Columns
    BY ProbeFacts
  <2>3. nFrames \in Nat \ {0} /\ done[L] \in Nat /\ \A q \in Probes : told[q] \in Nat
    BY <1>4, <2>1 DEF TypeOK
  <2>4. k \in Nat
    BY <1>4 DEF TypeOK
  <2> QED BY <2>1, <2>2, <2>3, <2>4
<1>12. ln \in Nat /\ t = ln - n /\ t \in Int
  <2>1. ln \in Nat
    BY <1>11
  <2>2. t = ln - n
    BY DEF RowsTold
  <2> HIDE DEF ln, n, t
  <2> QED BY <1>5, <2>1, <2>2
<1>13. InRow(p) <=> FALSE
  <2>1. k = Len(row["stage"])
    BY <1>3
  <2> HIDE DEF k
  <2> QED BY <1>3, <1>9, <1>11, <2>1 DEF InRow, k
<1>14. told[p] = t
  <2> HIDE DEF t
  <2> QED BY <1>6, <1>7, <1>12, <1>13
<1>15. calls[p] >= ln
  <2> DEFINE s == StageOf[p]
             f == Rank(p) * nFrames
             x == next[s]
             part == IF x - f < 0 THEN 0 ELSE IF x - f > nFrames THEN nFrames ELSE x - f
  <2>1. s \in Stages /\ Rank(p) \in Nat
    BY <1>7, RankOf
  <2>2. x \in Nat /\ f \in Int /\ done[s] \in Nat /\ s \in Nat /\ L \in Nat /\ s <= L
    <3>1. x \in Nat /\ done[s] \in Nat
      BY <1>4, <2>1 DEF TypeOK
    <3>2. s \in Nat /\ L \in Nat /\ s <= L
      BY <2>1, ProbeFacts
    <3>3. f \in Int
      BY <1>11, <2>1
    <3> QED BY <3>1, <3>2, <3>3
  <2>3. calls[p] = done[s] * nFrames + part
    BY <1>2, <1>4, <1>7 DEF Waves, Frames
  <2>4. done[L] <= done[s]
    <3>1. CASE s = L
      BY <1>11, <3>1
    <3>2. CASE s # L
      <4>1. s < L
        BY <2>2, <3>2
      <4> QED BY <1>2, <1>4, <1>11, <2>1, <4>1 DEF Distances
    <3> QED BY <3>1, <3>2
  <2> DEFINE d == done[s]
             l == done[L]
  <2>5. part >= 0 /\ part \in Int
    <3> HIDE DEF x, f
    <3> QED BY <1>11, <2>2
  <2> HIDE DEF part, d, l
  <2>6. d \in Nat /\ l \in Nat /\ l <= d
    BY <1>11, <2>2, <2>4 DEF d, l
  <2>7. l * nFrames <= d * nFrames /\ d * nFrames \in Int /\ l * nFrames \in Int
    BY <1>11, <2>6
  <2> DEFINE dn == d * nFrames
             mn == l * nFrames
  <2>8. calls[p] = dn + part /\ ln = mn
    BY <2>3 DEF d, l
  <2> HIDE DEF dn, mn, ln
  <2>9. mn <= dn /\ dn \in Int /\ mn \in Int
    BY <2>7 DEF dn, mn
  <2> QED BY <2>5, <2>8, <2>9
<1> HIDE DEF ln, t, n, k
<1>16. Held(ring[p]) # 0 /\ lost[p] = 0
  <2>1. told[p] + Held(ring[p]) + lost[p] = calls[p]
    BY <1>4, <1>7 DEF Values
  <2>2. lost[p] = 0
    BY <1>6, <1>7 DEF Zeros
  <2>3. calls[p] \in Nat
    BY <1>4, <1>7 DEF TypeOK
  <2>4. Held(ring[p]) # 0
    <3> SUFFICES ASSUME Held(ring[p]) = 0 PROVE FALSE
      OBVIOUS
    <3> QED BY <1>5, <1>11, <1>7, <1>12, <1>14, <1>15, <2>1, <2>2, <2>3
  <2> QED BY <2>2, <2>4
<1>17. told'[p] = t + 1 /\ v = t + 1 /\ t + 1 > 0
  <2>1. told'[p] = t + 1 /\ v = t + 1
    BY <1>8, <1>14, <1>16
  <2>2. t \in Nat
    BY <1>7, <1>11, <1>14
  <2> QED BY <2>1, <2>2
<1>18. RowsTold' = IF p < Columns THEN t ELSE t + 1
  <2>1. RowsTold' = ln - report'["stage"]
    BY <1>1, <1>11 DEF RowsTold, ln
  <2> QED BY <1>5, <1>9, <1>10, <1>11, <1>12, <2>1
<1>19. \A q \in Probes : InRow(q)' <=> p < Columns /\ q <= p
  BY <1>9, <1>10 DEF InRow
<1>20. ASSUME NEW q \in Probes, q # p
       PROVE /\ told'[q] = told[q]
             /\ told[q] = t + (IF q < p THEN 1 ELSE 0)
             /\ q < p => w[q] = told[q] /\ told[q] > 0
  <2>1. told'[q] = told[q]
    BY <1>8, <1>20
  <2>2. told[q] = t + (IF k < Columns /\ q <= k THEN 1 ELSE 0)
    BY <1>3, <1>6 DEF InRow, k
  <2>3. q \in Nat \ {0} /\ q <= Columns
    BY <1>11
  <2>4. (k < Columns /\ q <= k) <=> q < p
    BY <1>9, <1>11, <1>20, <2>3 DEF k
  <2>5. q < p => w[q] = told[q] /\ told[q] > 0
    BY <1>3, <1>6, <1>9
  <2> QED BY <2>1, <2>2, <2>4, <2>5
<1>21. ASSUME NEW q \in Probes
       PROVE /\ told'[q] = RowsTold' + (IF InRow(q)' THEN 1 ELSE 0)
             /\ q <= Len(row'["stage"]) => row'["stage"][q] = told'[q] /\ told'[q] > 0
  <2>1. q \in Nat \ {0} /\ q <= Columns
    BY <1>11
  <2>2. CASE q = p
    <3>1. told'[q] = RowsTold' + (IF InRow(q)' THEN 1 ELSE 0)
      BY <1>11, <1>12, <1>17, <1>18, <1>19, <2>1, <2>2
    <3>2. row'["stage"][q] = told'[q] /\ told'[q] > 0
      BY <1>9, <1>10, <1>17, <2>2
    <3> QED BY <3>1, <3>2
  <2>3. CASE q # p
    <3>1. told'[q] = RowsTold' + (IF InRow(q)' THEN 1 ELSE 0)
      BY <1>11, <1>12, <1>18, <1>19, <1>20, <2>1, <2>3
    <3>2. q <= p => row'["stage"][q] = told'[q] /\ told'[q] > 0
      BY <1>10, <1>11, <1>20, <2>1, <2>3
    <3> QED BY <1>9, <1>10, <3>1, <3>2
  <2> QED BY <2>2, <2>3
<1>22. /\ report'["stage"] <= nFrames'
       /\ report'["stage"] = 0 => Len(row'["stage"]) \in {0, Columns}
       /\ next'[LastStage] = 0
  <2>1. report'["stage"] <= nFrames
    BY <1>5, <1>6, <1>10, <1>11
  <2>2. report'["stage"] = 0 => Len(row'["stage"]) = Columns
    BY <1>5, <1>9, <1>10, <1>11
  <2> QED BY <1>1, <1>6, <2>1, <2>2
<1> QED BY <1>1, <1>6, <1>21, <1>22

LEMMA PullFinal ==
  ASSUME IInv, NEW r \in Reporters, Pull(r)
  PROVE FinalRows'
<1> DEFINE p == Column(r)
           v == Value(p)
           w == WithValue(r, v)
           k == Len(row["main"])
<1>1. pc' = pc /\ UNCHANGED <<mode, nFrames, buffSize, calls, lost>>
  BY PullFacts
<1>2. SUFFICES ASSUME pc = "final", mode = "nobody", lost = Zeros
               PROVE \E m \in Nat \ {0} : FinalRow(m)'
  BY <1>1 DEF FinalRows
<1>3. r = "main"
  BY <1>2, WhoPulls DEF Ending
<1>4. TypeOK /\ Rings /\ Values /\ Drained /\ FinalRows
  BY <1>2 DEF IInv, Inv
<1>5. row' = [row EXCEPT ![r] = w] /\ PullValue(p)
  BY PullFacts
<1>6. PICK n \in Nat \ {0} : FinalRow(n)
  BY <1>2, <1>4 DEF FinalRows
<1>7. p \in Probes
  <2>1. 0 \in Nat
    OBVIOUS
  <2> QED BY <1>4, <2>1, RowStep
<1>8. /\ v \in Nat /\ (v = NoValue <=> Held(ring[p]) = 0)
      /\ Held(ring[p]) # 0 => v = told[p] + 1
      /\ Held(ring[p]) # 0 => told'[p] = told[p] + 1
      /\ \A q \in Probes \ {p} : ring'[q] = ring[q] /\ told'[q] = told[q]
  <2> HIDE DEF p
  <2>1. lost[p] = 0
    BY <1>2, <1>7 DEF Zeros
  <2> QED BY <1>1, <1>4, <1>5, <1>7, <2>1, PullCases
<1> HIDE DEF v
<1>9. /\ p \in 1 .. Columns /\ Len(w) = p /\ w[p] = v
      /\ \A q \in Probes : q < p => q <= k /\ w[q] = row["main"][q]
      /\ \/ p = 1 /\ k = Columns
         \/ p = k + 1 /\ k < Columns
  <2>1. /\ p \in 1 .. Columns /\ Len(w) = p /\ w[p] = v
        /\ \A q \in Probes : q < p => q <= Len(row[r]) /\ w[q] = row[r][q]
        /\ \/ p = 1 /\ Len(row[r]) = Columns
           \/ p = Len(row[r]) + 1 /\ Len(row[r]) < Columns
    BY <1>4, <1>8, RowStep
  <2> QED BY <1>3, <2>1
<1> HIDE DEF w
<1>10. row'["main"] = w
  BY <1>3, <1>4, <1>5 DEF TypeOK, Reporters
<1> HIDE DEF p
<1>11. /\ k \in Nat /\ Columns \in Nat \ {0} /\ p \in Nat \ {0} /\ p <= Columns
       /\ \A q \in Probes : told[q] \in Nat /\ q \in Nat \ {0} /\ q <= Columns
  BY <1>3, <1>4, <1>7, ProbeFacts DEF TypeOK
<1> HIDE DEF k
<1>12. PICK m \in Nat \ {0} : m = IF k = Columns THEN n + 1 ELSE n
  OBVIOUS
<1>13. \A q \in Probes :
         \/ q <= k /\ row["main"][q] = n /\ told[q] = n
         \/ q <= k /\ row["main"][q] = NoValue /\ Held(ring[q]) = 0
         \/ q > k /\ (told[q] = n - 1 \/ Held(ring[q]) = 0)
  BY <1>2, <1>4, <1>6 DEF FinalRow, Drained, k
\* The column that gives the value.
<1>14. v = NoValue \/ (v = m /\ told'[p] = m)
  <2>1. CASE Held(ring[p]) = 0
    BY <1>8, <2>1
  <2>2. CASE Held(ring[p]) # 0
    <3>1. v = told[p] + 1 /\ told'[p] = told[p] + 1
      BY <1>8, <2>2
    <3>2. told[p] + 1 = m
      <4>1. CASE k = Columns
        <5>1. p <= k /\ ~ (p > k)
          BY <1>11, <4>1
        <5>2. told[p] = n
          BY <1>7, <1>13, <2>2, <5>1
        <5> QED BY <1>12, <4>1, <5>2
      <4>2. CASE k # Columns
        <5>1. p > k /\ ~ (p <= k)
          BY <1>9, <1>11, <4>2
        <5>2. told[p] = n - 1
          BY <1>7, <1>13, <2>2, <5>1
        <5> QED BY <1>7, <1>11, <1>12, <4>2, <5>2
      <4> QED BY <4>1, <4>2
    <3> QED BY <3>1, <3>2
  <2> QED BY <2>1, <2>2
<1>15. ASSUME NEW q \in Probes, q < p
       PROVE \/ w[q] = m /\ told'[q] = m
             \/ w[q] = NoValue
  <2>1. p = k + 1 /\ k < Columns
    BY <1>9, <1>11, <1>15
  <2>2. q <= k /\ ~ (q > k) /\ m = n
    BY <1>11, <1>12, <1>15, <2>1
  <2>3. w[q] = row["main"][q]
    BY <1>9, <1>15
  <2>4. told'[q] = told[q]
    BY <1>8, <1>11, <1>15
  <2> QED BY <1>13, <2>2, <2>3, <2>4
<1>16. ASSUME NEW q \in Probes, q > p
       PROVE told'[q] = m - 1 \/ Held(ring'[q]) = 0
  <2>1. told'[q] = told[q] /\ ring'[q] = ring[q]
    BY <1>8, <1>11, <1>16
  <2>2. CASE k = Columns
    <3>1. m - 1 = n /\ ~ (q > k)
      BY <1>11, <1>12, <2>2
    <3> QED BY <1>13, <2>1, <3>1
  <2>3. CASE k # Columns
    <3>1. m = n /\ ~ (q <= k)
      BY <1>9, <1>11, <1>12, <1>16, <2>3
    <3> QED BY <1>13, <2>1, <3>1
  <2> QED BY <2>2, <2>3
<1>17. FinalRow(m)'
  <2>1. ASSUME NEW q \in Probes
        PROVE \/ q <= Len(w) /\ w[q] = m /\ told'[q] = m
              \/ q <= Len(w) /\ w[q] = NoValue
              \/ q > Len(w) /\ (told'[q] = m - 1 \/ Held(ring'[q]) = 0)
    <3>1. CASE q = p
      <4>1. q <= Len(w) /\ w[q] = v
        BY <1>9, <1>11, <3>1
      <4> QED BY <1>14, <3>1, <4>1
    <3>2. CASE q < p
      <4>1. q <= Len(w)
        BY <1>9, <1>11, <3>2
      <4> QED BY <1>15, <3>2, <4>1
    <3>3. CASE q > p
      BY <1>9, <1>16, <3>3
    <3> QED BY <1>11, <3>1, <3>2, <3>3
  <2> QED BY <1>10, <2>1 DEF FinalRow
<1> QED BY <1>17

LEMMA PullInv ==
  ASSUME IInv, NEW r \in Reporters, Pull(r)
  PROVE IInv'
<1> DEFINE w == WithValue(r, Value(Column(r)))
<1>1. /\ TypeOK' /\ Rings' /\ Values'
      /\ row' = [row EXCEPT ![r] = w]
      /\ report' = [report EXCEPT ![r] = RowsLeft(r, w)]
      /\ pc # "undefined" /\ report[r] \in Nat \ {0}
      /\ UNCHANGED <<pc, mode, nFrames, buffSize, done, next, terminal, calls, lost>>
  BY PullFacts
<1> HIDE DEF w
<1>2. TypeOK /\ Roles /\ Waves /\ Distances /\ Silent
  BY <1>1 DEF IInv, Inv
<1>3. Roles'
  <2>1. ASSUME NEW t \in Reporters, report'[t] > 0
        PROVE report[t] > 0
    <3>1. CASE t = r
      BY <1>1, <3>1
    <3>2. CASE t # r
      BY <1>1, <1>2, <2>1, <3>2 DEF TypeOK
    <3> QED BY <3>1, <3>2
  <2>2. "stage" \in Reporters /\ "terminal" \in Reporters /\ "main" \in Reporters
    BY DEF Reporters
  <2> QED BY <1>1, <1>2, <2>1, <2>2 DEF Roles
<1>4. Rested'
  <2>1. pc # "rest"
    BY WhoPulls DEF Ending
  <2> QED BY <1>1, <2>1 DEF Rested
<1>5. Silent'
  <2>1. ~ (mode = "nobody" /\ (pc = "exec" \/ pc \in Ending))
    BY WhoPulls DEF Ending
  <2> QED BY <1>1, <2>1 DEF Silent
<1>6. Waves' /\ Distances'
  BY <1>1, <1>2, WavesKept
<1> QED BY <1>1, <1>3, <1>4, <1>5, <1>6, PullDrained, PullRows, PullFinal DEF IInv, Inv

(***************************************************************************)
(* The invariant of the specification.                                     *)
(***************************************************************************)
LEMMA StutterInv ==
  ASSUME IInv, UNCHANGED vars
  PROVE IInv'
BY DEF IInv, Inv, TypeOK, Rings, Sound, Room, Held, Cell, Values, InOrder, Roles, Rested,
       Drained, Silent, Waves, Frames, Distances, Rows, Roomy, RowsTold, InRow, FinalRows,
       FinalRow, vars, settings, history

LEMMA NextInv ==
  ASSUME IInv, [Next]_vars
  PROVE IInv'
<1>1. CASE \/ \E n \in FrameCounts : SetNFrames(n)
           \/ \E b \in BufferSizes : SetBuffSize(b)
  BY <1>1, SettingsInv
<1>2. ASSUME NEW m \in {"stage", "terminal", "nobody"}, Start(m)
      PROVE IInv'
  BY <1>2, StartInv DEF Modes
<1>3. ASSUME NEW s \in Stages, Probe(s)
      PROVE IInv'
  BY <1>3, ProbeInv
<1>4. ASSUME NEW r \in Reporters, Pull(r)
      PROVE IInv'
  BY <1>4, PullInv
<1>5. CASE Reset
  BY <1>5, ResetInv
<1>6. CASE \/ TerminalTests \/ TerminalWaits \/ TerminalReports
           \/ TerminalReported \/ SpuriousWakeup
  BY <1>6, TerminalStepInv
<1>7. CASE ExecReturns \/ StopTerminal \/ Notify
  BY <1>7, EndingInv
<1>8. CASE Join
  BY <1>8, JoinInv
<1>9. CASE FinalReported
  BY <1>9, FinalReportedInv
<1>10. CASE UNCHANGED vars
  BY <1>10, StutterInv
<1> QED BY <1>1, <1>2, <1>3, <1>4, <1>5, <1>6, <1>7, <1>8, <1>9, <1>10 DEF Next

\* Every reachable state satisfies the inductive invariant: Reporter_probe, the probes
\* that push to it and the reports that pull from it keep it between two executions,
\* in one, and through its final report.
THEOREM Invariance == Spec => []IInv
<1>1. Init => IInv
  BY InitInv
<1>2. IInv /\ [Next]_vars => IInv'
  BY NextInv
<1> QED BY <1>1, <1>2, PTL DEF Spec

LEMMA ContentIsCell ==
  ASSUME NEW p \in Probes, ring[p] \in Ring
  PROVE /\ ColSize(p) = Held(ring[p])
        /\ \A i \in 1 .. ColSize(p) : Content(p)[i] = Cell(ring[p], i)
BY DEF ColSize, Content, Held, Cell, Size, Room

\* A column of Reporter_probe gives its values in the order in which its probe pushed
\* them and once, whoever reports and while the stages push: a value that was measured
\* is in the ring, was told or was refused by a full ring, and a final report
\* leaves none.
THEOREM ToldOnceCorrect == Spec => []ToldOnce
<1>1. IInv => ToldOnce
  <2> SUFFICES ASSUME IInv, pc # "undefined"
               PROVE /\ \A p \in Probes :
                          /\ told[p] + ColSize(p) + lost[p] = calls[p]
                          /\ \A i \in 1 .. ColSize(p) :
                               Content(p)[i] >
                                 (IF i = 1 THEN lastTold[p] ELSE Content(p)[i - 1])
                     /\ pc = "rest" => \A p \in Probes : ColSize(p) = 0
    BY DEF ToldOnce
  <2>1. TypeOK /\ Rings /\ Values /\ Rested
    BY DEF IInv, Inv
  <2>2. ASSUME NEW p \in Probes
        PROVE /\ ColSize(p) = Held(ring[p])
              /\ \A i \in 1 .. ColSize(p) : Content(p)[i] = Cell(ring[p], i)
    BY <2>1, ContentIsCell DEF TypeOK
  <2>3. ASSUME NEW p \in Probes
        PROVE told[p] + ColSize(p) + lost[p] = calls[p]
    BY <2>1, <2>2 DEF Values
  <2>4. ASSUME NEW p \in Probes, NEW i \in 1 .. ColSize(p)
        PROVE Content(p)[i] > (IF i = 1 THEN lastTold[p] ELSE Content(p)[i - 1])
    <3>1. ring[p] \in Ring /\ Sound(ring[p]) /\ lastTold[p] \in Nat
      BY <2>1 DEF TypeOK, Rings
    <3>2. Held(ring[p]) \in Nat
      BY <3>1, HeldBounds
    <3>3. InOrder(ring[p], lastTold[p], calls[p], told[p], lost[p] = 0)
      BY <2>1 DEF Values
    <3>4. i \in 1 .. Held(ring[p]) /\ Content(p)[i] = Cell(ring[p], i)
      BY <2>2
    <3>5. Cell(ring[p], i) \in Nat
      BY <3>1, <3>4, CellValue
    <3>6. CASE i = 1
      <4>1. lastTold[p] < Cell(ring[p], i)
        BY <3>3, <3>4 DEF InOrder
      <4> QED BY <3>1, <3>4, <3>5, <3>6, <4>1
    <3>7. CASE i # 1
      <4>1. i - 1 \in 1 .. Held(ring[p]) /\ i - 1 < i
        BY <3>2, <3>4, <3>7
      <4>2. Cell(ring[p], i - 1) < Cell(ring[p], i)
        BY <3>3, <3>4, <4>1 DEF InOrder
      <4>3. Cell(ring[p], i - 1) \in Nat
        BY <3>1, <4>1, CellValue
      <4>4. Content(p)[i - 1] = Cell(ring[p], i - 1)
        BY <2>2, <4>1
      <4> QED BY <3>4, <3>5, <3>7, <4>2, <4>3, <4>4
    <3> QED BY <3>6, <3>7
  <2>5. ASSUME pc = "rest", NEW p \in Probes
        PROVE ColSize(p) = 0
    BY <2>1, <2>2, <2>5 DEF Rested
  <2> QED BY <2>3, <2>4, <2>5
<1> QED BY <1>1, Invariance, PTL

\* A whole row whose values are all the same is that of one frame.
LEMMA OneFrame ==
  ASSUME TypeOK, NEW r \in Reporters, Len(row[r]) = Columns, NEW n,
         \A p \in Probes : row[r][p] = n
  PROVE Cardinality(Range(row[r])) = 1 /\ Range(row[r]) = {n}
<1>1. row[r] \in Seq(Nat) /\ Columns \in Nat \ {0} /\ Probes = 1 .. Columns
  BY ProbeFacts DEF TypeOK
<1>2. DOMAIN row[r] = Probes /\ 1 \in Probes
  BY <1>1
<1>3. Range(row[r]) = {n}
  BY <1>2 DEF Range
<1> QED BY <1>3, FS_Singleton

\* The rows of the reports are the frames: when the stop condition of the last stage
\* reports after each wave and the rings hold two waves more than a stage is ahead,
\* no value is dropped and every row that Reporter_probe::report has completed holds
\* the values of one frame, and so does each row of a final report unless a probe
\* found its ring full.
THEOREM AlignedCorrect == Spec => []Aligned
<1>1. IInv => Aligned
  <2>1. SUFFICES ASSUME IInv
                 PROVE Aligned
    OBVIOUS
  <2>2. ASSUME pc = "exec", mode = "stage", buffSize > Ahead * (LastStage - 1) + 1
        PROVE /\ lost = Zeros
              /\ Len(row["stage"]) = Columns =>
                   Whole("stage") /\ Cardinality(Range(row["stage"])) = 1
    <3>1. TypeOK /\ Rows /\ Roomy
      BY <2>1, <2>2 DEF IInv, Inv, Roomy
    <3>2. /\ lost = Zeros
          /\ \A p \in Probes :
               /\ told[p] = RowsTold + (IF InRow(p) THEN 1 ELSE 0)
               /\ p <= Len(row["stage"]) => row["stage"][p] = told[p] /\ told[p] > 0
      BY <2>2, <3>1 DEF Rows
    <3>3. ASSUME Len(row["stage"]) = Columns
          PROVE Whole("stage") /\ Cardinality(Range(row["stage"])) = 1
      <4>1. /\ Columns \in Nat \ {0} /\ Probes = 1 .. Columns
            /\ \A p \in Probes : p \in Nat /\ p <= Columns
        BY ProbeFacts
      <4>2. \A p \in Probes : told[p] \in Nat /\ told[p] > 0 /\ row["stage"][p] = told[p]
        <5>1. \A p \in Probes : told[p] \in Nat
          BY <3>1 DEF TypeOK
        <5> QED BY <3>2, <3>3, <4>1, <5>1
      <4>3. RowsTold \in Int
        <5> DEFINE n == report["stage"]
                   d == done[LastStage]
        <5>1. n \in Nat
          BY <3>1 DEF TypeOK, Reporters
        <5>2. d \in Nat /\ nFrames \in Nat
          BY <3>1, ProbeFacts DEF TypeOK
        <5>3. RowsTold = d * nFrames - n
          BY DEF RowsTold
        <5> HIDE DEF n, d
        <5> QED BY <5>1, <5>2, <5>3
      <4>4. \A p \in Probes : ~ InRow(p)
        BY <3>3, <4>1 DEF InRow
      <4>5. \A p \in Probes : told[p] = RowsTold
        BY <3>2, <4>3, <4>4
      <4>6. 1 \in Probes
        BY <4>1
      <4>7. RowsTold # NoValue
        BY <4>2, <4>5, <4>6 DEF NoValue
      <4>8. "stage" \in Reporters
        BY DEF Reporters
      <4>9. Cardinality(Range(row["stage"])) = 1 /\ Range(row["stage"]) = {RowsTold}
        BY <3>1, <3>3, <4>2, <4>5, <4>8, OneFrame
      <4> QED BY <3>3, <4>7, <4>9 DEF Whole
    <3> QED BY <3>2, <3>3
  <2>3. ASSUME pc = "final", mode = "nobody", lost = Zeros, Whole("main")
        PROVE Cardinality(Range(row["main"])) = 1
    <3>1. TypeOK /\ FinalRows
      BY <2>1, <2>3 DEF IInv, Inv
    <3>2. PICK n \in Nat \ {0} : FinalRow(n)
      BY <2>3, <3>1 DEF FinalRows
    <3>3. "main" \in Reporters /\ Len(row["main"]) = Columns /\ NoValue \notin Range(row["main"])
      BY <2>3 DEF Reporters, Whole
    <3>4. row["main"] \in Seq(Nat) /\ Columns \in Nat /\ Probes = 1 .. Columns
      BY <3>1, <3>3, ProbeFacts DEF TypeOK
    <3>5. ASSUME NEW p \in Probes
          PROVE row["main"][p] = n
      <4>1. p \in Nat /\ p <= Len(row["main"]) /\ ~ (p > Len(row["main"]))
        BY <3>3, <3>4
      <4>2. row["main"][p] # NoValue
        BY <3>3, <3>4 DEF Range
      <4> QED BY <3>2, <4>1, <4>2 DEF FinalRow
    <3> QED BY <3>1, <3>3, <3>5, OneFrame
  <2> QED BY <2>2, <2>3 DEF Aligned
<1> QED BY <1>1, Invariance, PTL

=============================================================================
