--------------------------- MODULE Pipeline_proofs ---------------------------
(***************************************************************************)
(* The executions of a pipeline, for any number of stages, of threads in a *)
(* stage, of slots in a channel and of calls of exec: the frames go through*)
(* every stage in their order, none is made up, a pull is only canceled in *)
(* its turn, an end at the source drains the pipeline, and from its first  *)
(* to its last stage the pipeline implements an OrderedStream.             *)
(***************************************************************************)
EXTENDS Pipeline, WellFoundedInduction, SequenceTheorems, TLAPS

(***************************************************************************)
(* The least element of a set of numbers, recursive functions, and facts   *)
(* about remainders, for the positions of the threads in the rings.        *)
(***************************************************************************)
\* A set of naturals has a least element: what holds of 0, and of n if it holds of
\* n - 1, has no least exception.
LEMMA LeastNat ==
  ASSUME NEW T \in SUBSET Nat, T # {}
  PROVE \E x \in T : \A y \in T : x <= y
<1> DEFINE R == {ss \in Nat \X Nat : ss[1] < ss[2]}
<1>1. IsWellFoundedOn(R, Nat)
  BY NatLessThanWellFounded DEF OpToRel
<1>2. \A x, y \in Nat : <<x, y>> \in R <=> x < y
  OBVIOUS
<1> HIDE DEF R
<1>3. PICK x \in T : \A y \in T : ~ (<<y, x>> \in R)
  BY <1>1, WFMin
<1>4. \A y \in T : y \in Nat /\ x \in Nat /\ ~ (y < x)
  BY <1>2, <1>3
<1> QED BY <1>4

\* What a recursive definition on 0 .. n asks for exists.
Follows(g, n, base, step) == g[0] = base /\ \A i \in 1 .. n : g[i] = step[i][g[i - 1]]

\* It exists for every base and every steps on a set that contains them.
LEMMA Recursion ==
  ASSUME NEW S, NEW n \in Nat, NEW base \in S, NEW step \in [1 .. n -> [S -> S]]
  PROVE \E g \in [0 .. n -> S] : Follows(g, n, base, step)
<1> USE DEF Follows
<1> DEFINE Solves(g, m) == Follows(g, m, base, step)
           T == {m \in 0 .. n : ~ \E g \in [0 .. m -> S] : Solves(g, m)}
<1>1. SUFFICES ASSUME T # {} PROVE FALSE
  <2>1. n \in 0 .. n /\ n \notin T
    <3>1. n \in 0 .. n
      OBVIOUS
    <3> HIDE DEF T
    <3> QED BY <1>1, <3>1
  <2>2. \E g \in [0 .. n -> S] : Solves(g, n)
    BY <2>1
  <2> QED BY <2>2
<1>2. PICK m \in T : \A i \in T : m <= i
  <2>1. T \in SUBSET Nat
    OBVIOUS
  <2> HIDE DEF T
  <2> QED BY <1>1, <2>1, LeastNat
<1>3. CASE m = 0
  <2> DEFINE g == [i \in 0 .. m |-> base]
  <2>1. g \in [0 .. m -> S] /\ Solves(g, m)
    BY <1>3
  <2> QED BY <2>1
<1>4. CASE m # 0
  <2>1. m - 1 \in 0 .. n /\ m - 1 \notin T
    BY <1>2, <1>4
  <2>2. PICK g \in [0 .. m - 1 -> S] : Solves(g, m - 1)
    BY <2>1
  <2> DEFINE h == [i \in 0 .. m |-> IF i = m THEN step[m][g[m - 1]] ELSE g[i]]
  <2>3. m - 1 \in 0 .. m - 1 /\ m \in 1 .. n /\ g[m - 1] \in S
    BY <1>4
  <2>4. step[m][g[m - 1]] \in S
    BY <2>3
  <2>5. h \in [0 .. m -> S]
    BY <2>4
  <2>6. \A i \in 1 .. m : h[i] = step[i][h[i - 1]]
    <3> TAKE i \in 1 .. m
    <3>1. h[i - 1] = g[i - 1]
      OBVIOUS
    <3>2. h[i] = IF i = m THEN step[m][g[m - 1]] ELSE g[i]
      OBVIOUS
    <3>3. i # m => i \in 1 .. m - 1
      OBVIOUS
    <3> HIDE DEF h
    <3> QED BY <2>2, <3>1, <3>2, <3>3
  <2>7. h[0] = base
    BY <2>2, <1>4
  <2>8. Solves(h, m)
    BY <2>6, <2>7
  <2> QED BY <2>5, <2>8
<1> QED BY <1>3, <1>4

\* Every integer has a quotient and a remainder.
LEMMA DivMod ==
  ASSUME NEW N \in Nat \ {0}, NEW x \in Int
  PROVE \E q \in Int, r \in 0 .. N - 1 : x = q * N + r /\ r = x % N
  OBVIOUS

\* A remainder is at most the number.
LEMMA ModBelow ==
  ASSUME NEW N \in Nat \ {0}, NEW x \in Nat
  PROVE x % N \in 0 .. N - 1 /\ x % N <= x
<1>1. PICK q \in Int, r \in 0 .. N - 1 : x = q * N + r /\ r = x % N
  <2>1. x \in Int
    OBVIOUS
  <2> QED BY ONLY <2>1, N \in Nat \ {0}, DivMod
<1>2. q >= 0
  <2> SUFFICES ASSUME q <= -1 PROVE FALSE
    BY <1>1
  <2>1. q * N <= -N
    OBVIOUS
  <2> QED BY <1>1, <2>1
<1>3. q * N >= 0
  BY <1>2
<1> QED BY <1>1, <1>3

\* The only multiple of N strictly between -N and N is zero.
LEMMA SmallMultiple ==
  ASSUME NEW N \in Nat \ {0}, NEW d \in Int, d * N < N, d * N > -N
  PROVE d = 0
<1>1. ~ (d >= 1)
  <2>1. SUFFICES ASSUME d >= 1 PROVE FALSE
    OBVIOUS
  <2>2. d * N >= N
    BY <2>1
  <2> QED BY <2>2
<1>2. ~ (d <= -1)
  <2>1. SUFFICES ASSUME d <= -1 PROVE FALSE
    OBVIOUS
  <2>2. (-d) * N >= N
    BY <2>1
  <2> QED BY <2>2
<1> QED BY <1>1, <1>2

\* Integers that differ by a multiple of N have the same remainder.
LEMMA ModCongruent ==
  ASSUME NEW N \in Nat \ {0}, NEW x \in Int, NEW y \in Int,
         \E k \in Int : x = y + k * N
  PROVE x % N = y % N
<1>0. PICK k \in Int : x = y + k * N
  OBVIOUS
<1>1. PICK p \in Int, r \in 0 .. N - 1 : x = p * N + r /\ r = x % N
  BY DivMod
<1>2. PICK q \in Int, s \in 0 .. N - 1 : y = q * N + s /\ s = y % N
  BY DivMod
<1> DEFINE d == q + k - p
<1>3. d \in Int
  OBVIOUS
<1>4. d * N = q * N + k * N - p * N
  OBVIOUS
<1>5. d * N = r - s
  <2>1. x = p * N + r /\ y = q * N + s
    BY <1>1, <1>2
  <2>2. p * N \in Int /\ q * N \in Int /\ k * N \in Int /\ d * N \in Int
    OBVIOUS
  <2> DEFINE pn == p * N  qn == q * N  kn == k * N  dn == d * N
  <2>3. x = pn + r /\ y = qn + s /\ x = y + kn /\ dn = qn + kn - pn
    BY <2>1, <1>0, <1>4
  <2>4. pn \in Int /\ qn \in Int /\ kn \in Int /\ dn \in Int
    BY <2>2
  <2> HIDE DEF pn, qn, kn, dn
  <2>5. dn = r - s
    BY <2>3, <2>4
  <2> QED BY <2>5 DEF dn
<1> HIDE DEF d
<1>6. d * N < N /\ d * N > -N
  BY <1>5
<1>7. d = 0
  BY <1>3, <1>6, SmallMultiple
<1>8. d * N = 0
  BY <1>7
<1>9. r = s
  BY ONLY <1>5, <1>8
<1> QED BY ONLY <1>1, <1>2, <1>9

IsTimes(N, d) == \E k \in Nat \ {0} : N = k * d

\* A number without remainder is a multiple.
LEMMA DivisorOf ==
  ASSUME NEW d \in Nat \ {0}, NEW N \in Nat \ {0}, N % d = 0
  PROVE \E k \in Nat \ {0} : N = k * d
<1>1. PICK q \in Int, r \in 0 .. d - 1 : N = q * d + r /\ r = N % d
  <2>1. N \in Int
    OBVIOUS
  <2> QED BY ONLY <2>1, d \in Nat \ {0}, DivMod
<1>2. N = q * d
  BY <1>1
<1>3. q > 0
  <2> SUFFICES ASSUME q <= 0 PROVE FALSE
    BY <1>1
  <2>1. q * d <= 0
    OBVIOUS
  <2> QED BY <2>1, <1>2
<1> QED BY <1>2, <1>3

\* Different numbers with the same remainder are N apart.
LEMMA AtLeastApart ==
  ASSUME NEW N \in Nat \ {0}, NEW x \in Int, NEW y \in Int, x % N = y % N, x < y
  PROVE x + N <= y
<1>1. PICK p \in Int, r \in 0 .. N - 1 : x = p * N + r /\ r = x % N
  BY DivMod
<1>2. PICK q \in Int, s \in 0 .. N - 1 : y = q * N + s /\ s = y % N
  BY DivMod
<1>3. r = s
  BY <1>1, <1>2
<1> DEFINE d == q - p
<1>4. y - x = d * N /\ d \in Int
  BY <1>1, <1>2, <1>3
<1> HIDE DEF d
<1>5. d >= 1
  <2> SUFFICES ASSUME d <= 0 PROVE FALSE
    BY <1>4
  <2>1. d * N <= 0
    BY <1>4
  <2> QED BY <2>1, <1>4
<1>6. d * N >= N
  BY <1>4, <1>5
<1> QED BY <1>4, <1>6

\* The remainder by a divisor of N can be taken from the remainder by N.
LEMMA ModMod ==
  ASSUME NEW S \in Nat \ {0}, NEW k \in Nat \ {0}, NEW N \in Nat \ {0}, N = k * S, NEW x \in Int
  PROVE x % N \in 0 .. N - 1 /\ (x % N) % S = x % S
<1>1. PICK p \in Int, r \in 0 .. N - 1 : x = p * N + r /\ r = x % N
  BY DivMod
<1> DEFINE j == p * k
<1>2. x = r + j * S /\ j \in Int
  BY ONLY <1>1, N = k * S
<1> HIDE DEF j
<1>3. r \in Int /\ \E i \in Int : x = r + i * S
  BY <1>2
<1>4. x % S = r % S
  BY ONLY <1>3, ModCongruent, S \in Nat \ {0}, x \in Int
<1> QED BY <1>1, <1>4

\* The first number from n on that has the remainder of c by N.
After(n, c, N) == n + ((c - n) % N)

\* It is one of the next N numbers, and has that remainder.
LEMMA AfterBounds ==
  ASSUME NEW N \in Nat \ {0}, NEW n \in Int, NEW c \in Int
  PROVE /\ After(n, c, N) \in Int
        /\ n <= After(n, c, N) /\ After(n, c, N) < n + N
        /\ After(n, c, N) % N = c % N
<1> DEFINE x == c - n
<1>1. PICK q \in Int, r \in 0 .. N - 1 : x = q * N + r /\ r = x % N
  <2>1. x \in Int
    OBVIOUS
  <2> HIDE DEF x
  <2> QED BY <2>1, DivMod
<1>2. After(n, c, N) = n + r
  BY <1>1 DEF After
<1> DEFINE m == n + r  j == -q
<1>3. m \in Int /\ n <= m /\ m < n + N /\ j \in Int
  OBVIOUS
<1>4. m = c + j * N
  BY <1>1
<1> HIDE DEF m, j
<1>5. m % N = c % N
  BY <1>3, <1>4, ModCongruent
<1> QED BY <1>2, <1>3, <1>5 DEF m

\* No other of the next N numbers has it.
LEMMA AfterUnique ==
  ASSUME NEW N \in Nat \ {0}, NEW n \in Int, NEW c \in Int,
         NEW m \in Int, n <= m, m < n + N, m % N = c % N
  PROVE m = After(n, c, N)
<1> DEFINE a == After(n, c, N)
<1>1. a \in Int /\ n <= a /\ a < n + N /\ a % N = m % N
  BY AfterBounds
<1> HIDE DEF a
<1>2. ~ (a < m)
  <2> SUFFICES ASSUME a < m PROVE FALSE
    OBVIOUS
  <2>1. a + N <= m
    BY <1>1, AtLeastApart
  <2> QED BY <1>1, <2>1
<1>3. ~ (m < a)
  <2> SUFFICES ASSUME m < a PROVE FALSE
    OBVIOUS
  <2>1. m + N <= a
    BY <1>1, AtLeastApart
  <2> QED BY <1>1, <2>1
<1>4. m = a
  BY <1>1, <1>2, <1>3
<1> QED BY <1>4 DEF a

GoesOn(n, S, c, N) ==
    /\ n % N # c % N => After(n + S, c, N) = After(n, c, N)
    /\ n % N = c % N => After(n, c, N) = n /\ After(n + S, c, N) = n + N

\* A thread that goes a stride further leaves the channel of its frame for a round,
\* and comes to the other channels at the same frame as before.
LEMMA AfterNext ==
  ASSUME NEW S \in Nat \ {0}, NEW N \in Nat \ {0}, IsTimes(N, S),
         NEW n \in Int, NEW c \in Int, n % S = c % S
  PROVE GoesOn(n, S, c, N)
<1>0. PICK k \in Nat \ {0} : N = k * S
  BY DEF IsTimes
<1>1. N >= S
  BY <1>0
<1> DEFINE o == n + S
<1>2. o \in Int /\ o = n + S
  OBVIOUS
<1> HIDE DEF o
<1>3. ASSUME n % N # c % N PROVE After(o, c, N) = After(n, c, N)
  <2> DEFINE a == After(n, c, N)
  <2>1. a \in Int /\ n <= a /\ a < n + N /\ a % N = c % N
    BY AfterBounds
  <2> HIDE DEF a
  <2>2. a % S = n % S
    <3>1. (a % N) % S = a % S /\ (c % N) % S = c % S
      <4>1. a \in Int /\ c \in Int /\ S \in Nat \ {0} /\ N \in Nat \ {0} /\ k \in Nat \ {0} /\ N = k * S
        BY <1>0, <2>1
      <4>2. (a % N) % S = a % S
        BY ONLY <4>1, ModMod
      <4>3. (c % N) % S = c % S
        BY ONLY <4>1, ModMod
      <4> QED BY <4>2, <4>3
    <3> QED BY <2>1, <3>1
  <2>3. n < a
    BY <1>3, <2>1
  <2>4. n + S <= a
    BY <2>1, <2>2, <2>3, AtLeastApart
  <2>5. o <= a /\ a < o + N
    BY <1>2, <2>1, <2>4
  <2>6. a = After(o, c, N)
    BY <1>2, <2>1, <2>5, AfterUnique
  <2> QED BY <2>6 DEF a
<1>4. ASSUME n % N = c % N PROVE After(n, c, N) = n /\ After(o, c, N) = n + N
  <2>1. n = After(n, c, N)
    BY <1>4, AfterUnique
  <2> DEFINE m == n + N
  <2>2. m \in Int /\ m = n + 1 * N /\ 1 \in Int
    OBVIOUS
  <2>3. o <= m /\ m < o + N
    BY <1>1, <1>2
  <2> HIDE DEF m
  <2>4. m % N = n % N
    BY <2>2, ModCongruent
  <2>5. m = After(o, c, N)
    BY <1>2, <1>4, <2>2, <2>3, <2>4, AfterUnique
  <2> QED BY <2>1, <2>5 DEF m
<1> QED BY <1>2, <1>3, <1>4 DEF GoesOn

\* A round more or less.
LEMMA Rounds ==
  ASSUME NEW N \in Int, NEW n \in Int
  PROVE /\ n * N \in Int
        /\ \A o \in Int : /\ o + n * N = (o + N) + (n - 1) * N
                          /\ o + (n + 1) * N = (o + n * N) + N
                          /\ o + n * N = (o + N) + n * N - N
<1> DEFINE p == n * N  m == (n - 1) * N  q == (n + 1) * N
<1>1. p \in Int /\ m = p - N /\ q = p + N
  OBVIOUS
<1> HIDE DEF p, m, q
<1>2. \A o \in Int : o + p = (o + N) + m /\ o + q = (o + p) + N /\ o + p = (o + N) + p - N
  BY <1>1
<1> QED BY <1>1, <1>2 DEF p, m, q

\* The numbers that a thread of a team of S comes to: its own, then S further each
\* time.
LEMMA Strides ==
  ASSUME NEW S \in Nat \ {0}, NEW t \in 0 .. S - 1, NEW n \in Int
  PROVE /\ t + n * S \in Int /\ (t + n * S) % S = t
        /\ n \in Nat => t + n * S \in Nat /\ t + n * S >= t
        /\ t + (n + 1) * S = (t + n * S) + S
        /\ t + (n - 1) * S = (t + n * S) - S
<1> DEFINE p == n * S
<1>1. p \in Int /\ (n \in Nat => p \in Nat) /\ (n + 1) * S = p + S /\ (n - 1) * S = p - S
  OBVIOUS
<1> DEFINE x == t + p
<1>2. x \in Int /\ t \in Int /\ \E k \in Int : x = t + k * S
  BY <1>1
<1>3. t % S = t
  OBVIOUS
<1>4. x % S = t
  <2> HIDE DEF x
  <2> QED BY <1>2, <1>3, ModCongruent
<1>5. /\ x \in Int
      /\ n \in Nat => x \in Nat /\ x >= t
  BY <1>1
<1>6. t + (n + 1) * S = x + S /\ t + (n - 1) * S = x - S
  <2> DEFINE pp == (n + 1) * S  pm == (n - 1) * S
  <2>1. pp = p + S /\ pm = p - S
    BY <1>1
  <2>2. t \in Int /\ S \in Int /\ p \in Int
    BY <1>1
  <2> HIDE DEF pp, pm, p
  <2>3. t + pp = (t + p) + S /\ t + pm = (t + p) - S
    BY <2>1, <2>2
  <2> QED BY <2>3 DEF pp, pm, p
<1> QED BY <1>4, <1>5, <1>6

\* They tell the thread and how often it has gone round.
LEMMA StrideUnique ==
  ASSUME NEW S \in Nat \ {0}, NEW t \in 0 .. S - 1, NEW n \in Int,
         NEW u \in 0 .. S - 1, NEW m \in Int, t + n * S = u + m * S
  PROVE t = u /\ n = m
<1>1. t = u
  <2>1. (t + n * S) % S = t
    BY Strides
  <2>2. (u + m * S) % S = u
    BY Strides
  <2> QED BY ONLY <2>1, <2>2, t + n * S = u + m * S
<1>2. n * S = m * S
  <2> DEFINE p == n * S  q == m * S
  <2>1. p \in Int /\ q \in Int /\ t + p = u + q
    OBVIOUS
  <2> HIDE DEF p, q
  <2>2. p = q
    BY <1>1, <2>1
  <2> QED BY <2>2 DEF p, q
<1>3. (n - m) * S = 0 /\ n - m \in Int
  BY <1>2
<1> DEFINE d == n - m
<1>4. d * S < S /\ d * S > -S
  BY <1>3
<1>5. d = 0
  <2> HIDE DEF d
  <2> QED BY <1>3, <1>4, SmallMultiple DEF d
<1> QED BY <1>1, <1>5

\* Further strides make larger numbers.
LEMMA StrideOrder ==
  ASSUME NEW S \in Nat \ {0}, NEW t \in Int, NEW n \in Int, NEW m \in Int
  PROVE t + n * S < t + m * S <=> n < m
<1>1. ASSUME NEW x \in Int, NEW y \in Int, x < y PROVE t + x * S < t + y * S
  <2> DEFINE d == y - x
  <2>1. d >= 1 /\ d \in Int
    BY <1>1
  <2>2. y * S = x * S + d * S
    OBVIOUS
  <2>3. d * S >= 1
    <3> HIDE DEF d
    <3> QED BY <2>1
  <2> DEFINE xs == x * S  ys == y * S  ds == d * S
  <2>4. xs \in Int /\ ys \in Int /\ ds \in Int /\ ys = xs + ds /\ ds >= 1
    BY <2>2, <2>3
  <2> HIDE DEF xs, ys, ds
  <2>5. t + xs < t + ys
    BY <2>4
  <2> QED BY <2>5 DEF xs, ys
<1>2. n < m => t + n * S < t + m * S
  BY <1>1
<1>3. m < n => t + m * S < t + n * S
  BY <1>1
<1> DEFINE a == t + n * S  b == t + m * S
<1>4. a \in Int /\ b \in Int /\ (n < m => a < b) /\ (m < n => b < a) /\ (n = m => a = b)
  BY <1>2, <1>3
<1> HIDE DEF a, b
<1>5. a < b <=> n < m
  BY <1>4
<1> QED BY <1>5 DEF a, b

\* Among the numbers with the remainder of c, those below n are those below the
\* first one from n on.
LEMMA AfterBelow ==
  ASSUME NEW N \in Nat \ {0}, NEW n \in Int, NEW c \in Int, NEW j \in Int, j % N = c % N
  PROVE j < n <=> j < After(n, c, N)
<1> DEFINE a == After(n, c, N)
<1>1. a \in Int /\ n <= a /\ a < n + N
  BY AfterBounds
<1>2. ASSUME n <= j, j < a PROVE FALSE
  <2>1. j < n + N
    BY <1>1, <1>2
  <2>2. j = a
    BY <1>2, <2>1, AfterUnique
  <2> QED BY <1>1, <1>2, <2>2
<1> HIDE DEF a
<1>3. j < n <=> j < a
  BY <1>1, <1>2
<1> QED BY <1>3 DEF a

\* The next frame of a thread, by its rank in the stream, on its two sides.
PullRank(w) == w[2] + pulled[w] * Replicas[w[1]]
PushRank(w) == w[2] + pushed[w] * Replicas[w[1]]

\* The threads that come to channel c of adaptor s, one on each side.
Pusher(s, c) == <<s, c % Replicas[s]>>
Puller(s, c) == <<s + 1, c % Replicas[s + 1]>>

\* The next rank that goes into a channel and that comes out of it.
NextIn(s, c) == After(PushRank(Pusher(s, c)), c, NChannels(s))
NextOut(s, c) == After(PullRank(Puller(s, c)), c, NChannels(s))

InHand(w) == IF frame[w] = NoFrame THEN 0 ELSE 1
IsMade(f) == f[1] \in Team(1) /\ f[2] \in Nat /\ f[2] < pushed[<<1, f[1]>>]
MiddleStages == Threads \ (FirstStage \cup LastStage)

\* There is a channel for every number of channel.
Shaped ==
    /\ DOMAIN ring = Adaptors
    /\ \A s \in Adaptors : DOMAIN ring[s] = Channels(s)
    /\ runs >= 1

\* What each thread may be doing, and with a frame in its hands or without.
Held ==
    /\ \A w \in FirstStage : frame[w] = NoFrame /\ pc[w] \in {"push", "test", "end"}
    /\ \A w \in MiddleStages : pc[w] \in {"pull", "push", "test", "end"}
    /\ \A w \in LastStage : pc[w] \in {"pull", "use", "test", "end"}
    /\ \A w \in Threads \ FirstStage :
        /\ pc[w] \in {"push", "use"} => frame[w] # NoFrame
        /\ pc[w] \in {"pull", "test"} => frame[w] = NoFrame

\* A thread passes on what it has pulled, but for the frame in its hands.
Counted ==
    /\ \A w \in MiddleStages : pulled[w] = pushed[w] + InHand(w)
    /\ \A w \in LastStage : pulled[w] = Len(used[w]) + InHand(w)

\* The frame in the hands of a thread is the last of its own turn, and those that the
\* last stage has used are all of its turns, in order.
InTurn ==
    /\ \A w \in Threads \ FirstStage :
        frame[w] # NoFrame => Rank(frame[w]) = PullRank(w) - Replicas[w[1]]
    /\ \A w \in LastStage : \A n \in 1 .. Len(used[w]) :
        Rank(used[w][n]) = w[2] + (n - 1) * Replicas[NStages]

\* The frames in a channel are those between the next one that comes out and the
\* next one that goes in, NChannels apart.
Chained ==
    \A s \in Adaptors : \A c \in Channels(s) :
        /\ NextIn(s, c) = NextOut(s, c) + Len(ring[s][c]) * NChannels(s)
        /\ \A i \in 1 .. Len(ring[s][c]) :
            Rank(ring[s][c][i]) = NextOut(s, c) + (i - 1) * NChannels(s)

\* Every frame was made by a thread of the first stage.
Genuine ==
    /\ \A s \in Adaptors : \A c \in Channels(s) :
        \A i \in 1 .. Len(ring[s][c]) : IsMade(ring[s][c][i])
    /\ \A w \in Threads : frame[w] # NoFrame => IsMade(frame[w])
    /\ \A w \in LastStage : \A n \in 1 .. Len(used[w]) : IsMade(used[w][n])

PullInstances(s) == {Instance("pull", s, t) : t \in Team(s + 1)}

\* Where the pool threads and the caller are in the end of an execution.
Controlled ==
    \A k \in Stages :
        /\ control[k] # "stage" => Returned(k)
        /\ control[k] # "cancel" => todo[k] = <<>>
        /\ control[Caller] = "end" => control[k] = "end"
        /\ k # Caller => todo[k] \in Seq(PullInstances(k))

\* An instance is canceled by the worker of its own adaptor, or by the caller.
CanceledBy ==
    AsBuilt =>
        \A i \in Instances : canceled[i] =>
            \/ control[Caller] # "stage"
            \/ \E k \in Adaptors : control[k] # "stage" /\ i \in PullInstances(k)

\* Nobody but the first stage decides to stop.
Quiet == \A s \in Stages \ {1} : limit[s] = Never

\* A thread that has ended then has nothing before it and nothing in its hands.
Drained ==
    AsBuilt /\ Quiet =>
        \A w \in Threads \ FirstStage : pc[w] = "end" =>
            /\ Returned(w[1] - 1)
            /\ ring[w[1] - 1][PullChannel(w)] = <<>>
            /\ frame[w] = NoFrame

IInv == /\ TypeOK /\ Shaped /\ Held /\ Counted /\ InTurn /\ Chained /\ Genuine
        /\ Controlled /\ CanceledBy /\ Drained

-----------------------------------------------------------------------------
(* Stages, threads and channels.                                           *)

\* A pipeline has two stages at least, and each has a thread.
LEMMA StageFacts ==
    /\ NStages \in Nat /\ NStages >= 2
    /\ 1 \in Stages /\ NStages \in Stages /\ Caller = NStages
    /\ \A s \in Stages : Replicas[s] \in Nat \ {0} /\ Replicas[s] \in Int /\ 0 \in Team(s)
    /\ \A s \in Adaptors : s \in Stages /\ s + 1 \in Stages /\ s # NStages /\ s \in Nat \ {0}
    /\ \A s \in Stages \ {1} : s - 1 \in Adaptors /\ (s - 1) + 1 = s
    /\ \A s \in Stages \ {NStages} : s \in Adaptors
    /\ BufferSize \in Nat \ {0}
<1>1. /\ Replicas \in Seq(Nat \ {0}) /\ Len(Replicas) >= 2 /\ Len(Replicas) \in Nat
      /\ BufferSize \in Nat \ {0}
  BY PipelineAssumption
<1>2. \A s \in 1 .. Len(Replicas) : Replicas[s] \in Nat \ {0}
  BY <1>1
<1> QED BY <1>1, <1>2 DEF NStages, Stages, Caller, Team, Adaptors

\* A thread is known by its stage and its number in the team.
LEMMA ThreadFacts ==
    /\ \A w \in Threads :
        /\ w[1] \in Stages /\ w[2] \in Team(w[1]) /\ w = <<w[1], w[2]>>
        /\ w[2] \in Nat /\ w[2] < Replicas[w[1]]
    /\ \A s \in Stages : \A t \in Team(s) : <<s, t>> \in Threads
    /\ \A w \in FirstStage : w \in Threads /\ w[1] = 1 /\ w \notin LastStage
    /\ \A w \in LastStage : w \in Threads /\ w[1] = NStages
    /\ \A w \in Threads : w \notin FirstStage => w[1] - 1 \in Adaptors /\ (w[1] - 1) + 1 = w[1] /\ w[1] # 1
    /\ \A w \in Threads : w \notin LastStage => w[1] \in Adaptors
    /\ \A w \in Threads : (w[1] = 1 <=> w \in FirstStage) /\ (w[1] = NStages <=> w \in LastStage)
<1>1. \A w \in Threads : \E s \in Stages : \E t \in Team(s) : w = <<s, t>>
  BY DEF Threads
<1>2. \A s \in Stages : \A t \in Team(s) : <<s, t>> \in Threads
  BY DEF Threads
<1>3. \A w \in Threads : w[1] \in Stages /\ w[2] \in Team(w[1]) /\ w = <<w[1], w[2]>>
  BY <1>1
<1>4. \A w \in Threads : w[2] \in Nat /\ w[2] < Replicas[w[1]]
  BY <1>3, StageFacts DEF Team
<1> QED BY <1>2, <1>3, <1>4, StageFacts DEF FirstStage, LastStage

\* The number of channels is a multiple of the threads on both sides.
LEMMA ChannelFacts ==
    \A s \in Adaptors :
        /\ NChannels(s) \in Nat \ {0}
        /\ \E k \in Nat \ {0} : NChannels(s) = k * Replicas[s]
        /\ \E k \in Nat \ {0} : NChannels(s) = k * Replicas[s + 1]
<1> SUFFICES ASSUME NEW s \in Adaptors
             PROVE  /\ NChannels(s) \in Nat \ {0}
                    /\ \E k \in Nat \ {0} : NChannels(s) = k * Replicas[s]
                    /\ \E k \in Nat \ {0} : NChannels(s) = k * Replicas[s + 1]
  OBVIOUS
<1> DEFINE a == Replicas[s]  b == Replicas[s + 1]
           Common(n) == IsMultiple(n, a) /\ IsMultiple(n, b)
           Least(n) == Common(n) /\ \A m \in 1 .. n - 1 : ~ Common(m)
           T == {n \in 1 .. a * b : Common(n)}
<1>1. a \in Nat \ {0} /\ b \in Nat \ {0}
  BY StageFacts
<1> DEFINE ab == a * b
<1>2. ab \in Nat \ {0} /\ ab = b * a
  BY <1>1
<1>3. Common(ab)
  <2>1. ab = 0 + b * a /\ ab = 0 + a * b /\ 0 \in Int
    BY <1>1, <1>2
  <2>2. ab % a = 0 % a /\ ab % b = 0 % b
    <3> HIDE DEF ab, a, b
    <3> QED BY <1>1, <1>2, <2>1, ModCongruent
  <2>3. 0 % a = 0 /\ 0 % b = 0
    BY <1>1
  <2> QED BY <2>2, <2>3 DEF IsMultiple
<1>4. T \in SUBSET Nat /\ ab \in T
  BY <1>2, <1>3
<1>5. PICK n \in T : \A m \in T : n <= m
  <2> HIDE DEF T
  <2> QED BY <1>4, LeastNat
<1>6. n \in 1 .. ab /\ Least(n)
  <2>1. n \in 1 .. ab /\ Common(n)
    BY <1>5
  <2>2. ASSUME NEW m \in 1 .. n - 1, Common(m) PROVE FALSE
    <3>1. m \in T
      BY <2>1, <2>2, <1>2
    <3>2. n <= m
      BY <3>1, <1>5
    <3> QED BY <3>2, <2>1
  <2> HIDE DEF Common
  <2> QED BY <2>1, <2>2
<1>7. NChannels(s) \in 1 .. ab /\ Least(NChannels(s))
  <2>1. NChannels(s) = CHOOSE m \in 1 .. ab : Least(m)
    BY DEF NChannels
  <2> HIDE DEF Least, ab
  <2> QED BY <1>6, <2>1
<1> DEFINE N == NChannels(s)
<1>8. N \in Nat \ {0} /\ N % a = 0 /\ N % b = 0
  BY <1>7, <1>2 DEF IsMultiple
<1> HIDE DEF N
<1> QED BY <1>1, <1>8, DivisorOf DEF N

-----------------------------------------------------------------------------
(* The recursive definitions of the model.                                 *)

\* What the adaptor s and the hands of stage s can hold.
Holds(s) == NChannels(s) * BufferSize + (IF s > 1 THEN Replicas[s] ELSE 0)

\* The capacity of the first adaptors.
LEMMA SumFacts ==
    /\ Sum[0] = 0
    /\ \A s \in Adaptors : /\ Sum[s] = Sum[s - 1] + Holds(s)
                           /\ Sum[s] \in Nat /\ Sum[s - 1] \in Nat /\ Holds(s) \in Nat
<1> DEFINE M == NStages - 1
           step == [i \in 1 .. M |-> [n \in Nat |-> n + Holds(i)]]
           Q(h) == h = [s \in 0 .. NStages - 1 |->
                           IF s = 0 THEN 0 ELSE h[s - 1] + NChannels(s) * BufferSize
                                                  + (IF s > 1 THEN Replicas[s] ELSE 0)]
<1>1. M \in Nat /\ 1 .. M = Adaptors /\ 0 .. NStages - 1 = {0} \cup Adaptors
  BY StageFacts DEF Adaptors
<1>2. \A s \in Adaptors : /\ NChannels(s) * BufferSize \in Nat
                          /\ (IF s > 1 THEN Replicas[s] ELSE 0) \in Nat
                          /\ Holds(s) \in Nat
  <2> TAKE s \in Adaptors
  <2>1. NChannels(s) \in Nat /\ BufferSize \in Nat /\ Replicas[s] \in Nat
    BY StageFacts, ChannelFacts
  <2>2. NChannels(s) * BufferSize \in Nat
    BY <2>1
  <2> QED BY <2>1, <2>2 DEF Holds
<1>3. step \in [1 .. M -> [Nat -> Nat]]
  <2>1. \A i \in 1 .. M : \A n \in Nat : n + Holds(i) \in Nat
    BY <1>1, <1>2
  <2> QED BY <2>1
<1>4. PICK g \in [0 .. M -> Nat] : g[0] = 0 /\ \A i \in 1 .. M : g[i] = step[i][g[i - 1]]
  <2> DEFINE S == Nat  base == 0
  <2>1. M \in Nat /\ base \in S /\ step \in [1 .. M -> [S -> S]]
    BY <1>1, <1>3
  <2> HIDE DEF step, M, S, base
  <2>2. \E g \in [0 .. M -> S] : Follows(g, M, base, step)
    BY <2>1, Recursion
  <2> QED BY <2>2 DEF S, base, Follows
<1>5. \A s \in Adaptors : g[s] = g[s - 1] + Holds(s) /\ g[s - 1] \in Nat
  <2> TAKE s \in Adaptors
  <2>1. s \in 1 .. M /\ s - 1 \in 0 .. M
    BY <1>1
  <2>2. g[s - 1] \in Nat
    BY <2>1, <1>4
  <2>3. g[s] = step[s][g[s - 1]]
    BY <2>1, <1>4
  <2> HIDE DEF M
  <2> QED BY <2>1, <2>2, <2>3
<1>6. Q(g)
  <2> DEFINE h == [s \in 0 .. NStages - 1 |->
                           IF s = 0 THEN 0 ELSE g[s - 1] + NChannels(s) * BufferSize
                                                  + (IF s > 1 THEN Replicas[s] ELSE 0)]
  <2>1. \A s \in 0 .. NStages - 1 : g[s] = h[s]
    <3> TAKE s \in 0 .. NStages - 1
    <3>1. CASE s = 0
      BY <3>1, <1>4
    <3>2. CASE s # 0
      <4>1. s \in Adaptors
        BY <1>1, <3>2
      <4> DEFINE room == NChannels(s) * BufferSize  hands == IF s > 1 THEN Replicas[s] ELSE 0
      <4>2. g[s] = g[s - 1] + (room + hands)
        BY <1>5, <4>1 DEF Holds
      <4>3. g[s - 1] \in Nat /\ room \in Nat /\ hands \in Nat
        BY <1>2, <1>5, <4>1
      <4>4. h[s] = g[s - 1] + room + hands
        BY <3>2
      <4> HIDE DEF room, hands
      <4>5. h[s] = g[s]
        BY ONLY <4>2, <4>3, <4>4
      <4> QED BY <4>5
    <3> QED BY <3>1, <3>2
  <2>2. g = h
    BY <2>1, <1>4
  <2> QED BY <2>2
<1>7. Q(Sum)
  <2>1. Sum = CHOOSE h : Q(h)
    BY DEF Sum
  <2> HIDE DEF Q
  <2> QED BY <1>6, <2>1, Zenon
<1>8. /\ Sum[0] = 0
      /\ \A s \in Adaptors : Sum[s] = Sum[s - 1] + NChannels(s) * BufferSize
                                        + (IF s > 1 THEN Replicas[s] ELSE 0)
  <2> DEFINE f == [s \in 0 .. NStages - 1 |->
                           IF s = 0 THEN 0 ELSE Sum[s - 1] + NChannels(s) * BufferSize
                                                  + (IF s > 1 THEN Replicas[s] ELSE 0)]
  <2>1. f[0] = 0
    BY <1>1
  <2>2. \A s \in Adaptors : f[s] = Sum[s - 1] + NChannels(s) * BufferSize
                                        + (IF s > 1 THEN Replicas[s] ELSE 0)
    BY <1>1
  <2>3. Sum = f
    BY <1>7, Zenon
  <2> HIDE DEF f
  <2> QED BY <2>1, <2>2, <2>3
<1> DEFINE T == {s \in 0 .. M : Sum[s] \notin Nat}
<1>9. T = {}
  <2> SUFFICES ASSUME T # {} PROVE FALSE
    OBVIOUS
  <2>1. PICK s \in T : \A i \in T : s <= i
    <3>1. T \in SUBSET Nat
      BY <1>1
    <3> HIDE DEF T
    <3> QED BY <3>1, LeastNat
  <2>2. s # 0 /\ s \in Adaptors
    BY <1>8, <1>1, <2>1
  <2>3. Sum[s - 1] \in Nat
    BY <2>1, <2>2, <1>1
  <2>4. Sum[s] \in Nat
    BY <1>2, <1>8, <2>2, <2>3
  <2> QED BY <2>1, <2>4
<1>10. \A s \in Adaptors : Sum[s] \in Nat /\ Sum[s - 1] \in Nat
  BY <1>1, <1>9
<1>11. \A s \in Adaptors : Sum[s] = Sum[s - 1] + Holds(s)
  <2> TAKE s \in Adaptors
  <2> DEFINE room == NChannels(s) * BufferSize  hands == IF s > 1 THEN Replicas[s] ELSE 0
  <2>1. Sum[s] = Sum[s - 1] + room + hands /\ Holds(s) = room + hands
    BY <1>8 DEF Holds
  <2>2. room \in Nat /\ hands \in Nat /\ Sum[s - 1] \in Nat
    BY <1>2, <1>10
  <2> HIDE DEF room, hands
  <2> QED BY ONLY <2>1, <2>2
<1> QED BY <1>2, <1>8, <1>10, <1>11

\* A recursive concatenation exists.
Concats(g, n, part) == g[0] = <<>> /\ \A i \in 1 .. n : g[i] = g[i - 1] \o part[i]

\* Sequences that are concatenated one after the other form a recursive function,
\* like the one that StageWaiting and WaitingUpTo choose.
LEMMA Concatenation ==
    ASSUME NEW S, NEW n \in Nat, NEW part \in [1 .. n -> Seq(S)]
    PROVE  \E g \in [0 .. n -> Seq(S)] : Concats(g, n, part)
<1> DEFINE Q == Seq(S)
           step == [i \in 1 .. n |-> [q \in Q |-> q \o part[i]]]
<1>1. step \in [1 .. n -> [Q -> Q]]
  <2>1. \A i \in 1 .. n : \A q \in Q : q \o part[i] \in Q
    BY ConcatProperties
  <2> QED BY <2>1
<1>2. <<>> \in Q
  BY EmptySeq
<1>3. PICK g \in [0 .. n -> Q] : Follows(g, n, <<>>, step)
  <2> HIDE DEF step, Q
  <2> QED BY <1>1, <1>2, Recursion
<1>4. \A i \in 1 .. n : g[i] = g[i - 1] \o part[i]
  <2> TAKE i \in 1 .. n
  <2>1. g[i - 1] \in Q
    BY <1>3
  <2>2. g[i] = step[i][g[i - 1]]
    BY <1>3 DEF Follows
  <2>3. step[i] = [q \in Q |-> q \o part[i]]
    OBVIOUS
  <2> QED BY <2>1, <2>2, <2>3
<1> QED BY <1>3, <1>4 DEF Concats, Follows

\* What exec cancels is the list of the waiting modules of the stages before the
\* last one: instances of adaptors.
LEMMA WaitingFacts ==
    ASSUME NEW s \in Adaptors, NEW t \in Team(s)
    PROVE  Waiting(s, t) \in Seq(Instances)
<1>1. Instance("push", s, t) \in Instances
  BY DEF Instances
<1>2. <<Instance("push", s, t)>> \in Seq(Instances)
  BY <1>1
<1>3. CASE s > 1 /\ t > 0
  <2>1. s - 1 \in Adaptors /\ (s - 1) + 1 = s
    BY <1>3, StageFacts
  <2>2. Instance("pull", s - 1, t) \in Instances
    BY <2>1 DEF Instances
  <2>3. <<Instance("pull", s - 1, t)>> \in Seq(Instances)
    BY <2>2
  <2>4. Waiting(s, t) = <<Instance("pull", s - 1, t)>> \o <<Instance("push", s, t)>>
    BY <1>3 DEF Waiting
  <2> QED BY <1>2, <2>3, <2>4, ConcatProperties
<1>4. CASE ~ (s > 1 /\ t > 0)
  <2>1. Waiting(s, t) = <<>> \o <<Instance("push", s, t)>>
    BY <1>4 DEF Waiting
  <2> QED BY <1>2, <2>1, EmptySeq, ConcatProperties
<1> QED BY <1>3, <1>4

\* The waiting modules of a stage, thread by thread, are a sequence of instances.
LEMMA StageWaitingFacts ==
    ASSUME NEW s \in Adaptors
    PROVE  StageWaiting(s) \in Seq(Instances)
<1> DEFINE R == Replicas[s]
           part == [i \in 1 .. R |-> Waiting(s, i - 1)]
           Q(h) == h = [n \in 0 .. R |-> IF n = 0 THEN <<>> ELSE h[n - 1] \o Waiting(s, n - 1)]
           f == CHOOSE h : Q(h)
           T == {n \in 0 .. R : f[n] \notin Seq(Instances)}
<1>1. R \in Nat /\ R \in 0 .. R
  BY StageFacts
<1>2. \A i \in 1 .. R : i - 1 \in Team(s) /\ Waiting(s, i - 1) \in Seq(Instances)
  BY <1>1, WaitingFacts DEF Team
<1>3. part \in [1 .. R -> Seq(Instances)] /\ <<>> \in Seq(Instances)
  BY <1>2, EmptySeq
<1> HIDE DEF R
<1>4. PICK g \in [0 .. R -> Seq(Instances)] : Concats(g, R, part)
  <2> HIDE DEF part
  <2> QED BY <1>1, <1>3, Concatenation
<1>5. Q(g)
  <2> DEFINE h == [n \in 0 .. R |-> IF n = 0 THEN <<>> ELSE g[n - 1] \o Waiting(s, n - 1)]
  <2>1. \A n \in 0 .. R : g[n] = h[n]
    <3> TAKE n \in 0 .. R
    <3>1. CASE n = 0
      BY <1>4, <3>1 DEF Concats
    <3>2. CASE n # 0
      <4>1. n \in 1 .. R
        BY <1>1, <3>2
      <4>2. g[n] = g[n - 1] \o part[n]
        BY <1>4, <4>1 DEF Concats
      <4>3. part[n] = Waiting(s, n - 1) /\ h[n] = g[n - 1] \o Waiting(s, n - 1)
        BY <4>1, <3>2
      <4> HIDE DEF h, part
      <4> QED BY <4>2, <4>3
    <3> QED BY <3>1, <3>2
  <2>2. g = h
    BY <2>1, <1>4
  <2> QED BY <2>2
<1>6. Q(f)
  <2> HIDE DEF Q
  <2> QED BY <1>5, Zenon
<1>7. f[0] = <<>> /\ \A n \in 1 .. R : f[n] = f[n - 1] \o Waiting(s, n - 1)
  <2> DEFINE h == [n \in 0 .. R |-> IF n = 0 THEN <<>> ELSE f[n - 1] \o Waiting(s, n - 1)]
  <2> HIDE DEF f
  <2>1. h[0] = <<>> /\ \A n \in 1 .. R : h[n] = f[n - 1] \o Waiting(s, n - 1)
    <3>1. 0 \in 0 .. R /\ \A n \in 1 .. R : n \in 0 .. R /\ n # 0
      BY <1>1
    <3> QED BY <3>1
  <2>2. f = h
    BY <1>6, Zenon
  <2> HIDE DEF h
  <2> QED BY <2>1, <2>2
<1> HIDE DEF f
<1>8. T = {}
  <2> SUFFICES ASSUME T # {} PROVE FALSE
    OBVIOUS
  <2>1. PICK n \in T : \A i \in T : n <= i
    <3>1. T \in SUBSET Nat
      OBVIOUS
    <3> HIDE DEF T
    <3> QED BY <3>1, LeastNat
  <2>2. n \in 1 .. R
    <3>1. n \in 0 .. R /\ f[n] \notin Seq(Instances)
      BY <2>1
    <3>2. n # 0
      <4>1. <<>> \in Seq(Instances) /\ f[0] = <<>>
        BY <1>3, <1>7
      <4> QED BY ONLY <3>1, <4>1
    <3> QED BY <1>1, <3>1, <3>2
  <2>3. f[n - 1] \in Seq(Instances)
    <3>1. n - 1 \in 0 .. R /\ n - 1 < n
      BY <1>1, <2>2
    <3>2. n - 1 \notin T
      BY <1>1, <2>1, <2>2, <3>1
    <3> QED BY <3>1, <3>2
  <2>4. f[n] \in Seq(Instances)
    <3>1. f[n] = f[n - 1] \o Waiting(s, n - 1) /\ Waiting(s, n - 1) \in Seq(Instances)
      BY <1>2, <1>7, <2>2
    <3> QED BY ONLY <2>3, <3>1, ConcatProperties
  <2> QED BY <2>1, <2>4
<1>9. f[R] \in Seq(Instances)
  BY <1>1, <1>8
<1> QED BY <1>9 DEF StageWaiting, f, R

\* A worker cancels pull instances of its own adaptor only; the caller, instances.
LEMMA CancelListFacts ==
    ASSUME NEW k \in Stages
    PROVE  /\ CancelList(k) \in Seq(Instances)
           /\ k # Caller => CancelList(k) \in Seq(PullInstances(k))
<1>1. CASE k # Caller
  <2>1. k \in Adaptors /\ k + 1 \in Stages
    BY <1>1, StageFacts
  <2>2. \A i \in 1 .. Replicas[k + 1] : i - 1 \in Team(k + 1)
    BY <2>1, StageFacts DEF Team
  <2>3. \A i \in 1 .. Replicas[k + 1] : Instance("pull", k, i - 1) \in PullInstances(k)
    BY <2>2 DEF PullInstances
  <2>4. CancelList(k) \in Seq(PullInstances(k))
    <3> DEFINE R == Replicas[k + 1]  P == PullInstances(k)
    <3>1. CancelList(k) = [i \in 1 .. R |-> Instance("pull", k, i - 1)]
      BY <1>1 DEF CancelList, PullSide
    <3>2. R \in Nat
      BY <2>1, StageFacts
    <3> HIDE DEF R, P
    <3>3. [i \in 1 .. R |-> Instance("pull", k, i - 1)] \in [1 .. R -> P]
      BY <2>3 DEF R, P
    <3>4. [1 .. R -> P] \subseteq Seq(P)
      BY <3>2, SeqDef
    <3> QED BY <3>1, <3>3, <3>4 DEF P
  <2>5. PullInstances(k) \subseteq Instances
    BY <2>1 DEF PullInstances, Instances
  <2> QED BY <1>1, <2>4, <2>5, SeqMonotonic
<1>2. CASE k = Caller
  <2> DEFINE M == NStages - 1
             part == [i \in 1 .. M |-> StageWaiting(i)]
             Q(h) == h = [s \in 0 .. NStages - 1 |->
                             IF s = 0 THEN <<>> ELSE h[s - 1] \o StageWaiting(s)]
             T == {s \in 0 .. M : WaitingUpTo[s] \notin Seq(Instances)}
  <2>1. M \in Nat /\ M \in 0 .. M /\ 1 .. M = Adaptors
    BY StageFacts DEF Adaptors
  <2>2. part \in [1 .. M -> Seq(Instances)]
    BY <2>1, StageWaitingFacts
  <2>3. PICK g \in [0 .. M -> Seq(Instances)] : Concats(g, M, part)
    <3> HIDE DEF part, M
    <3> QED BY <2>1, <2>2, Concatenation
  <2>4. Q(g)
    <3> DEFINE h == [s \in 0 .. NStages - 1 |->
                        IF s = 0 THEN <<>> ELSE g[s - 1] \o StageWaiting(s)]
    <3>1. \A n \in 0 .. M : g[n] = h[n]
      BY <2>3 DEF Concats
    <3>2. g = h
      BY <3>1, <2>3
    <3> QED BY <3>2
  <2>5. Q(WaitingUpTo)
    <3>1. WaitingUpTo = CHOOSE h : Q(h)
      BY DEF WaitingUpTo
    <3> HIDE DEF Q
    <3> QED BY <2>4, <3>1, Zenon
  <2>6. WaitingUpTo[0] = <<>> /\ \A n \in 1 .. M : WaitingUpTo[n] = WaitingUpTo[n - 1] \o StageWaiting(n)
    <3> DEFINE h == [s \in 0 .. NStages - 1 |->
                        IF s = 0 THEN <<>> ELSE WaitingUpTo[s - 1] \o StageWaiting(s)]
    <3>1. h[0] = <<>> /\ \A n \in 1 .. M : h[n] = WaitingUpTo[n - 1] \o StageWaiting(n)
      BY <2>1
    <3>2. WaitingUpTo = h
      BY <2>5, Zenon
    <3> HIDE DEF h
    <3> QED BY <3>1, <3>2
  <2>7. T = {}
    <3> SUFFICES ASSUME T # {} PROVE FALSE
      OBVIOUS
    <3>1. PICK n \in T : \A i \in T : n <= i
      <4>1. T \in SUBSET Nat
        BY <2>1
      <4> HIDE DEF T
      <4> QED BY <4>1, LeastNat
    <3>2. n \in 1 .. M
      <4>1. n \in 0 .. M /\ WaitingUpTo[n] \notin Seq(Instances)
        BY <3>1
      <4>2. <<>> \in Seq(Instances)
        BY EmptySeq
      <4>3. WaitingUpTo[0] = <<>>
        BY <2>6
      <4>4. n # 0
        BY ONLY <4>1, <4>2, <4>3
      <4> QED BY <2>1, <4>1, <4>4
    <3>3. WaitingUpTo[n - 1] \in Seq(Instances)
      <4>1. n - 1 \in 0 .. M /\ n - 1 < n
        BY <2>1, <3>2
      <4>2. n - 1 \notin T
        BY <2>1, <3>1, <3>2, <4>1
      <4> QED BY <4>1, <4>2
    <3>4. WaitingUpTo[n] \in Seq(Instances)
      <4>1. WaitingUpTo[n] = WaitingUpTo[n - 1] \o StageWaiting(n)
        BY <2>6, <3>2
      <4>2. StageWaiting(n) \in Seq(Instances)
        BY <2>1, <3>2, StageWaitingFacts
      <4> QED BY ONLY <3>3, <4>1, <4>2, ConcatProperties
    <3> QED BY <3>1, <3>4
  <2>8. WaitingUpTo[M] \in Seq(Instances)
    BY <2>1, <2>7
  <2> QED BY <1>2, <2>8 DEF CancelList
<1> QED BY <1>1, <1>2
-----------------------------------------------------------------------------
(* The ranks of the threads, and the channels that they come to.           *)

\* The frames of a thread come in its turn, and its pull and push tasks have the
\* channels of these frames.
LEMMA RankFacts ==
    ASSUME TypeOK, NEW w \in Threads
    PROVE  /\ PullRank(w) \in Nat /\ PullRank(w) >= w[2] /\ PullRank(w) % Replicas[w[1]] = w[2]
           /\ PushRank(w) \in Nat /\ PushRank(w) >= w[2] /\ PushRank(w) % Replicas[w[1]] = w[2]
           /\ pulled[w] \in Nat /\ pushed[w] \in Nat
           /\ w[2] \in 0 .. Replicas[w[1]] - 1 /\ Replicas[w[1]] \in Nat \ {0}
<1> DEFINE R == Replicas[w[1]]  t == w[2]  n == pulled[w]  m == pushed[w]
<1>1. R \in Nat \ {0} /\ t \in 0 .. R - 1
  BY StageFacts, ThreadFacts DEF Team
<1>2. n \in Nat /\ m \in Nat /\ n \in Int /\ m \in Int
  BY DEF TypeOK
<1>3. PullRank(w) = t + n * R /\ PushRank(w) = t + m * R
  BY DEF PullRank, PushRank
<1> HIDE DEF R, t, n, m
<1>4. t + n * R \in Nat /\ t + n * R >= t /\ (t + n * R) % R = t
  BY <1>1, <1>2, Strides
<1>5. t + m * R \in Nat /\ t + m * R >= t /\ (t + m * R) % R = t
  BY <1>1, <1>2, Strides
<1> QED BY <1>1, <1>2, <1>3, <1>4, <1>5 DEF R, t, n, m

\* The team, the multiples and the thread of a channel.
LEMMA SideFacts ==
    ASSUME NEW s \in Adaptors, NEW j \in Int
    PROVE  LET N == NChannels(s)  c == j % NChannels(s)  a == Replicas[s]  b == Replicas[s + 1]
           IN  /\ N \in Nat \ {0} /\ a \in Nat \ {0} /\ b \in Nat \ {0}
               /\ c \in Channels(s) /\ c \in Int /\ c % N = c
               /\ j % a \in Team(s) /\ j % b \in Team(s + 1)
               /\ c % a = j % a /\ c % b = j % b
               /\ Pusher(s, c) = <<s, j % a>> /\ Puller(s, c) = <<s + 1, j % b>>
               /\ Pusher(s, c) \in Threads /\ Puller(s, c) \in Threads
<1> DEFINE N == NChannels(s)  c == j % N  a == Replicas[s]  b == Replicas[s + 1]
<1>1. /\ N \in Nat \ {0}
      /\ a \in Nat \ {0} /\ b \in Nat \ {0}
      /\ s \in Stages /\ s + 1 \in Stages
  BY StageFacts, ChannelFacts
<1>2. PICK k \in Nat \ {0} : N = k * a
  BY ChannelFacts
<1>3. PICK l \in Nat \ {0} : N = l * b
  BY ChannelFacts
<1>4. Team(s) = 0 .. a - 1 /\ Team(s + 1) = 0 .. b - 1 /\ Channels(s) = 0 .. N - 1
  BY DEF Team, Channels
<1>5. Pusher(s, c) = <<s, c % a>> /\ Puller(s, c) = <<s + 1, c % b>>
  BY DEF Pusher, Puller
<1> HIDE DEF N, a, b
<1>6. j % N \in 0 .. N - 1 /\ (j % N) % a = j % a
  BY <1>1, <1>2, ModMod
<1>7. (j % N) % b = j % b
  BY <1>1, <1>3, ModMod
<1>8. (j % N) % N = j % N
  BY <1>1, <1>6
<1>9. j % a \in 0 .. a - 1 /\ j % b \in 0 .. b - 1
  BY <1>1
<1>10. <<s, j % a>> \in Threads /\ <<s + 1, j % b>> \in Threads
  BY <1>1, <1>4, <1>9, ThreadFacts
<1>11. c \in Int
  BY <1>1, <1>6
<1> QED BY <1>1, <1>4, <1>5, <1>6, <1>7, <1>8, <1>9, <1>10, <1>11 DEF N, a, b

\* cur_pull_id and cur_push_id are the channels of the next frame.
LEMMA PullSideFacts ==
    ASSUME TypeOK, NEW w \in Threads \ FirstStage
    PROVE  /\ w[1] - 1 \in Adaptors
           /\ PullChannel(w) = PullRank(w) % NChannels(w[1] - 1)
           /\ PullChannel(w) \in Channels(w[1] - 1)
           /\ PullChannel(w) % NChannels(w[1] - 1) = PullChannel(w)
           /\ Puller(w[1] - 1, PullChannel(w)) = w
<1> DEFINE s == w[1] - 1
<1>1. s \in Adaptors /\ s + 1 = w[1] /\ w \in Threads /\ w = <<w[1], w[2]>>
  BY ThreadFacts
<1>2. PullRank(w) \in Int /\ PullRank(w) % Replicas[s + 1] = w[2]
  BY <1>1, RankFacts
<1>3. PullChannel(w) = PullRank(w) % NChannels(s)
  BY DEF PullChannel, PullRank
<1> HIDE DEF s
<1>4. /\ PullChannel(w) \in Channels(s)
      /\ PullChannel(w) % NChannels(s) = PullChannel(w)
      /\ Puller(s, PullChannel(w)) = <<s + 1, PullRank(w) % Replicas[s + 1]>>
  BY <1>1, <1>2, <1>3, SideFacts
<1> QED BY <1>1, <1>2, <1>3, <1>4 DEF s

\* The channel that a thread pushes into is one of its adaptor, and its own turn.
LEMMA PushSideFacts ==
    ASSUME TypeOK, NEW w \in Threads \ LastStage
    PROVE  /\ w[1] \in Adaptors
           /\ PushChannel(w) = PushRank(w) % NChannels(w[1])
           /\ PushChannel(w) \in Channels(w[1])
           /\ PushChannel(w) % NChannels(w[1]) = PushChannel(w)
           /\ Pusher(w[1], PushChannel(w)) = w
<1> DEFINE s == w[1]
<1>1. s \in Adaptors /\ w \in Threads /\ w = <<w[1], w[2]>>
  BY ThreadFacts
<1>2. PushRank(w) \in Int /\ PushRank(w) % Replicas[s] = w[2]
  BY <1>1, RankFacts
<1>3. PushChannel(w) = PushRank(w) % NChannels(s)
  BY DEF PushChannel, PushRank
<1> HIDE DEF s
<1>4. /\ PushChannel(w) \in Channels(s)
      /\ PushChannel(w) % NChannels(s) = PushChannel(w)
      /\ Pusher(s, PushChannel(w)) = <<s, PushRank(w) % Replicas[s]>>
  BY <1>1, <1>2, <1>3, SideFacts
<1> QED BY <1>1, <1>2, <1>3, <1>4 DEF s

\* The threads of a channel, and what they come to next in it.
LEMMA NextFacts ==
    ASSUME TypeOK, NEW s \in Adaptors, NEW c \in Channels(s)
    PROVE  /\ NChannels(s) \in Nat \ {0} /\ c \in Nat /\ c % NChannels(s) = c
           /\ Pusher(s, c) \in Threads \ LastStage /\ Puller(s, c) \in Threads \ FirstStage
           /\ Pusher(s, c)[1] = s /\ Pusher(s, c)[2] = c % Replicas[s]
           /\ Puller(s, c)[1] = s + 1 /\ Puller(s, c)[2] = c % Replicas[s + 1]
           /\ NextIn(s, c) \in Int /\ NextOut(s, c) \in Int
           /\ NextIn(s, c) % NChannels(s) = c /\ NextOut(s, c) % NChannels(s) = c
           /\ NextIn(s, c) >= PushRank(Pusher(s, c)) /\ NextOut(s, c) >= PullRank(Puller(s, c))
<1> DEFINE N == NChannels(s)
<1>1. N \in Nat \ {0} /\ c \in 0 .. N - 1 /\ s # NStages /\ s \in Nat \ {0}
  BY StageFacts, ChannelFacts DEF Channels
<1>2. c \in Nat /\ c \in Int /\ c % N = c
  BY <1>1
<1>3. /\ Pusher(s, c) \in Threads /\ Puller(s, c) \in Threads
      /\ Pusher(s, c)[1] = s /\ Pusher(s, c)[2] = c % Replicas[s]
      /\ Puller(s, c)[1] = s + 1 /\ Puller(s, c)[2] = c % Replicas[s + 1]
  BY <1>2, SideFacts DEF Pusher, Puller
<1>4. Pusher(s, c) \notin LastStage /\ Puller(s, c) \notin FirstStage
  BY <1>1, <1>3, ThreadFacts
<1>5. PushRank(Pusher(s, c)) \in Int /\ PullRank(Puller(s, c)) \in Int
  BY <1>3, RankFacts
<1> HIDE DEF N
<1>6. /\ NextIn(s, c) \in Int /\ NextIn(s, c) % N = c % N
      /\ NextIn(s, c) >= PushRank(Pusher(s, c))
  BY <1>1, <1>2, <1>5, AfterBounds DEF NextIn, N
<1>7. /\ NextOut(s, c) \in Int /\ NextOut(s, c) % N = c % N
      /\ NextOut(s, c) >= PullRank(Puller(s, c))
  BY <1>1, <1>2, <1>5, AfterBounds DEF NextOut, N
<1> QED BY <1>1, <1>2, <1>3, <1>4, <1>6, <1>7 DEF N

\* A pull moves the end of one channel by a round, and no other.
LEMMA PullMoves ==
    ASSUME TypeOK, NEW w \in Threads \ FirstStage,
           pulled' = [pulled EXCEPT ![w] = @ + 1],
           NEW s \in Adaptors, NEW c \in Channels(s)
    PROVE  IF s = w[1] - 1 /\ c = PullChannel(w)
             THEN NextOut(s, c) = PullRank(w) /\ NextOut(s, c)' = PullRank(w) + NChannels(s)
             ELSE NextOut(s, c)' = NextOut(s, c)
<1> DEFINE v == Puller(s, c)  N == NChannels(s)  R == Replicas[s + 1]  n == PullRank(v)
<1>1. /\ N \in Nat \ {0} /\ c \in Nat /\ c \in Int /\ c % N = c /\ R \in Nat \ {0}
      /\ v \in Threads \ FirstStage /\ v[1] = s + 1 /\ v[2] = c % R
  BY NextFacts, StageFacts
<1>2. NextOut(s, c) = After(n, c, N) /\ NextOut(s, c)' = After(PullRank(v)', c, N)
  BY DEF NextOut
<1>3. CASE v # w
  <2>1. pulled'[v] = pulled[v]
    BY <1>1, <1>3 DEF TypeOK
  <2>2. PullRank(v)' = n
    BY <2>1 DEF PullRank
  <2>3. ~ (s = w[1] - 1 /\ c = PullChannel(w))
    BY <1>3, PullSideFacts
  <2> QED BY <1>2, <2>2, <2>3
<1>4. CASE v = w
  <2>1. pulled'[v] = pulled[v] + 1 /\ pulled[v] \in Nat
    BY <1>1, <1>4 DEF TypeOK
  <2>2. n \in Int /\ n % R = c % R
    BY <1>1, RankFacts
  <2>3. PullRank(v)' = n + R
    <3> DEFINE t == v[2]  i == pulled[v]
    <3>1. PullRank(v)' = t + (i + 1) * R /\ n = t + i * R
      BY <1>1, <2>1 DEF PullRank
    <3>2. t \in 0 .. R - 1 /\ i \in Int
      BY <1>1, <2>1, RankFacts
    <3> HIDE DEF t, i, R, n
    <3> QED BY <3>1, <3>2, <1>1, Strides
  <2>4. IsTimes(N, R)
    BY ChannelFacts DEF IsTimes
  <2>5. s = w[1] - 1 /\ PullChannel(w) = n % N
    BY <1>1, <1>4, PullSideFacts, StageFacts
  <2> HIDE DEF v, N, R, n
  <2>6. /\ n % N # c % N => After(n + R, c, N) = After(n, c, N)
        /\ n % N = c % N => After(n, c, N) = n /\ After(n + R, c, N) = n + N
    <3>1. R \in Nat \ {0} /\ N \in Nat \ {0} /\ n \in Int /\ c \in Int /\ n % R = c % R
      BY <1>1, <2>2
    <3>2. GoesOn(n, R, c, N)
      BY ONLY <2>4, <3>1, AfterNext
    <3> QED BY <3>2 DEF GoesOn
  <2> QED BY <1>1, <1>2, <1>4, <2>3, <2>5, <2>6 DEF n, N
<1> QED BY <1>3, <1>4

\* So does a push.
LEMMA PushMoves ==
    ASSUME TypeOK, NEW w \in Threads \ LastStage,
           pushed' = [pushed EXCEPT ![w] = @ + 1],
           NEW s \in Adaptors, NEW c \in Channels(s)
    PROVE  IF s = w[1] /\ c = PushChannel(w)
             THEN NextIn(s, c) = PushRank(w) /\ NextIn(s, c)' = PushRank(w) + NChannels(s)
             ELSE NextIn(s, c)' = NextIn(s, c)
<1> DEFINE v == Pusher(s, c)  N == NChannels(s)  R == Replicas[s]  n == PushRank(v)
<1>1. /\ N \in Nat \ {0} /\ c \in Nat /\ c \in Int /\ c % N = c /\ R \in Nat \ {0}
      /\ v \in Threads \ LastStage /\ v[1] = s /\ v[2] = c % R
  BY NextFacts, StageFacts
<1>2. NextIn(s, c) = After(n, c, N) /\ NextIn(s, c)' = After(PushRank(v)', c, N)
  BY DEF NextIn
<1>3. CASE v # w
  <2>1. pushed'[v] = pushed[v]
    BY <1>1, <1>3 DEF TypeOK
  <2>2. PushRank(v)' = n
    BY <2>1 DEF PushRank
  <2>3. ~ (s = w[1] /\ c = PushChannel(w))
    BY <1>3, PushSideFacts
  <2> QED BY <1>2, <2>2, <2>3
<1>4. CASE v = w
  <2>1. pushed'[v] = pushed[v] + 1 /\ pushed[v] \in Nat
    BY <1>1, <1>4 DEF TypeOK
  <2>2. n \in Int /\ n % R = c % R
    BY <1>1, RankFacts
  <2>3. PushRank(v)' = n + R
    <3> DEFINE t == v[2]  i == pushed[v]
    <3>1. PushRank(v)' = t + (i + 1) * R /\ n = t + i * R
      BY <1>1, <2>1 DEF PushRank
    <3>2. t \in 0 .. R - 1 /\ i \in Int
      BY <1>1, <2>1, RankFacts
    <3> HIDE DEF t, i, R, n
    <3> QED BY <3>1, <3>2, <1>1, Strides
  <2>4. IsTimes(N, R)
    BY ChannelFacts DEF IsTimes
  <2>5. s = w[1] /\ PushChannel(w) = n % N
    BY <1>1, <1>4, PushSideFacts
  <2> HIDE DEF v, N, R, n
  <2>6. /\ n % N # c % N => After(n + R, c, N) = After(n, c, N)
        /\ n % N = c % N => After(n, c, N) = n /\ After(n + R, c, N) = n + N
    <3>1. R \in Nat \ {0} /\ N \in Nat \ {0} /\ n \in Int /\ c \in Int /\ n % R = c % R
      BY <1>1, <2>2
    <3>2. GoesOn(n, R, c, N)
      BY ONLY <2>4, <3>1, AfterNext
    <3> QED BY <3>2 DEF GoesOn
  <2> QED BY <1>1, <1>2, <1>4, <2>3, <2>5, <2>6 DEF n, N
<1> QED BY <1>3, <1>4
-----------------------------------------------------------------------------
(* The beginning of an execution.                                          *)

\* What Init and ExecAgain have in common.
Fresh ==
    /\ Start
    /\ canceled \in [Instances -> BOOLEAN]
    /\ AsBuilt => \A i \in Instances : ~ canceled[i]
    /\ limit \in [Stages -> Nat]
    /\ runs \in Nat \ {0}

\* The limits of the stages are numbers.
LEMMA LimitFacts ==
    ASSUME NEW l \in [Stages -> UNION {Limits[s] : s \in Stages}]
    PROVE  l \in [Stages -> Nat]
<1>1. \A s \in Stages : Limits[s] \in SUBSET Nat
  <2>1. Limits \in Seq(SUBSET Nat) /\ Stages = 1 .. Len(Limits)
    BY PipelineAssumption DEF Stages, NStages
  <2> QED BY <2>1
<1> QED BY <1>1

\* The initial states are fresh.
LEMMA InitFresh ==
    Init => Fresh
<1> SUFFICES ASSUME Init PROVE Fresh
  OBVIOUS
<1>1. limit \in [Stages -> Nat]
  BY LimitFacts DEF Init
<1> QED BY <1>1 DEF Init, Fresh

\* The invariant holds when an execution begins.
LEMMA FreshIInv ==
    Fresh => IInv
<1> SUFFICES ASSUME Fresh PROVE IInv
  OBVIOUS
<1>1. /\ \A w \in Threads : /\ pc[w] = FirstPc(w) /\ frame[w] = NoFrame
                            /\ pushed[w] = 0 /\ pulled[w] = 0
      /\ \A w \in LastStage : used[w] = <<>>
      /\ \A s \in Adaptors : \A c \in Channels(s) : ring[s][c] = <<>>
      /\ \A k \in Stages : control[k] = "stage" /\ todo[k] = <<>>
  BY DEF Fresh, Start
<1>2. TypeOK
  <2>1. pc \in [Threads -> {"pull", "push", "use", "test", "end"}]
    BY DEF Fresh, Start, FirstPc
  <2>2. \A s \in Adaptors : \A c \in Channels(s) :
            ring[s][c] \in Seq(Nat \X Nat) /\ Len(ring[s][c]) <= BufferSize
    <3>1. <<>> \in Seq(Nat \X Nat) /\ Len(<<>>) = 0 /\ 0 <= BufferSize
      BY StageFacts, EmptySeq
    <3> QED BY <1>1, <3>1
  <2>3. used \in [LastStage -> Seq(Nat \X Nat)] /\ todo \in [Stages -> Seq(Instances)]
    BY EmptySeq DEF Fresh, Start
  <2> QED BY <2>1, <2>2, <2>3 DEF Fresh, Start, TypeOK
<1>3. Shaped
  BY DEF Fresh, Start, Shaped
<1>4. Held
  <2>1. \A w \in FirstStage : pc[w] = "push" /\ frame[w] = NoFrame
    BY <1>1, ThreadFacts DEF FirstPc
  <2>2. \A w \in Threads \ FirstStage : pc[w] = "pull" /\ frame[w] = NoFrame
    BY <1>1, ThreadFacts DEF FirstPc
  <2>3. MiddleStages \subseteq Threads \ FirstStage /\ LastStage \subseteq Threads \ FirstStage
    BY ThreadFacts DEF MiddleStages
  <2> QED BY <2>1, <2>2, <2>3 DEF Held
<1>5. Counted
  <2>1. \A w \in Threads : InHand(w) = 0
    BY <1>1 DEF InHand
  <2>2. \A w \in LastStage : w \in Threads /\ Len(used[w]) = 0
    BY <1>1, ThreadFacts, EmptySeq
  <2> QED BY <1>1, <2>1, <2>2 DEF Counted, MiddleStages
<1>6. \A w \in LastStage : Len(used[w]) = 0 /\ 1 .. Len(used[w]) = {}
  BY <1>1, EmptySeq
<1>7. \A s \in Adaptors : \A c \in Channels(s) : Len(ring[s][c]) = 0 /\ 1 .. Len(ring[s][c]) = {}
  BY <1>1, EmptySeq
<1>8. InTurn
  BY <1>1, <1>6 DEF InTurn
<1>9. Chained
  <2> SUFFICES ASSUME NEW s \in Adaptors, NEW c \in Channels(s)
               PROVE  NextIn(s, c) = NextOut(s, c) + Len(ring[s][c]) * NChannels(s)
    BY <1>7 DEF Chained
  <2> DEFINE N == NChannels(s)  a == Replicas[s]  b == Replicas[s + 1]
             v == Pusher(s, c)  w == Puller(s, c)
  <2>1. /\ N \in Nat \ {0} /\ c \in Nat /\ c < N /\ a \in Nat \ {0} /\ b \in Nat \ {0}
        /\ v \in Threads /\ v[1] = s /\ v[2] = c % a
        /\ w \in Threads /\ w[1] = s + 1 /\ w[2] = c % b
    BY <1>2, NextFacts, StageFacts DEF Channels
  <2>2. PushRank(v) = (c % a) + 0 * a /\ PullRank(w) = (c % b) + 0 * b
    BY <1>1, <2>1 DEF PushRank, PullRank
  <2> HIDE DEF N, a, b, v, w
  <2>3. PushRank(v) = c % a /\ PullRank(w) = c % b
    BY <2>1, <2>2
  <2>4. c % a \in Int /\ c % a <= c /\ c < (c % a) + N
    <3>1. c % a \in 0 .. a - 1 /\ c % a <= c
      BY <2>1, ModBelow
    <3> QED BY <2>1, <3>1
  <2>5. c % b \in Int /\ c % b <= c /\ c < (c % b) + N
    <3>1. c % b \in 0 .. b - 1 /\ c % b <= c
      BY <2>1, ModBelow
    <3> QED BY <2>1, <3>1
  <2>6. c = After(c % a, c, N)
    BY <2>1, <2>4, AfterUnique
  <2>7. c = After(c % b, c, N)
    BY <2>1, <2>5, AfterUnique
  <2>8. NextIn(s, c) = c /\ NextOut(s, c) = c
    BY <2>3, <2>6, <2>7 DEF NextIn, NextOut, v, w, N
  <2>9. c = c + 0 * N
    BY <2>1
  <2> QED BY <1>7, <2>8, <2>9 DEF N
<1>10. Genuine
  BY <1>1, <1>6, <1>7 DEF Genuine
<1>11. Controlled
  <2>1. \A k \in Stages : todo[k] \in Seq(PullInstances(k))
    BY <1>1, EmptySeq
  <2> QED BY <1>1, <2>1, StageFacts DEF Controlled
<1>12. CanceledBy
  BY DEF Fresh, CanceledBy
<1>13. Drained
  BY <1>1, ThreadFacts DEF Drained, FirstPc
<1> QED BY <1>2, <1>3, <1>4, <1>5, <1>8, <1>9, <1>10, <1>11, <1>12, <1>13 DEF IInv

\* A later execution begins as the first one, but for the flags of the clones.
LEMMA ExecAgainFresh ==
    ASSUME IInv, ExecAgain PROVE Fresh'
<1>1. TypeOK /\ Controlled /\ Shaped
  BY DEF IInv
<1>2. \A k \in Stages : control[k] = "end" /\ todo[k] = <<>>
  BY <1>1 DEF Controlled, ExecAgain
<1>3. todo' = [k \in Stages |-> <<>>]
  BY <1>1, <1>2 DEF TypeOK, ExecAgain
<1>4. Start'
  BY <1>3 DEF ExecAgain, ResetRings, Start
<1>5. canceled' = [i \in Instances |-> canceled[i] /\ ~ IsOriginal(i)]
  BY DEF ExecAgain
<1>6. canceled' \in [Instances -> BOOLEAN]
  BY <1>1, <1>5 DEF TypeOK
<1>7. runs \in Nat /\ runs >= 1 /\ runs' = runs + 1
  BY <1>1 DEF TypeOK, Shaped, ExecAgain
<1>8. ASSUME AsBuilt' PROVE \A i \in Instances : ~ canceled'[i]
  <2>1. \A s \in Stages : Replicas[s] = 1
    BY <1>7, <1>8 DEF AsBuilt
  <2>2. \A s \in Stages : Team(s) = {0}
    BY <2>1 DEF Team
  <2>3. \A i \in Instances : \E s \in Adaptors : i = <<"adp", s, 0>>
    BY <2>2, StageFacts DEF Instances, Instance
  <2>4. \A i \in Instances : IsOriginal(i)
    BY <2>3 DEF IsOriginal
  <2> QED BY <1>5, <2>4
<1>9. limit' \in [Stages -> Nat]
  BY LimitFacts DEF ExecAgain
<1> QED BY <1>4, <1>6, <1>7, <1>8, <1>9 DEF Fresh
-----------------------------------------------------------------------------
(* What the loops of the stages keep.                                      *)

\* Taking the oldest frame from a channel.
LEMMA PopFacts ==
    ASSUME NEW S, NEW q \in Seq(S), q # <<>>
    PROVE  /\ Len(q) \in Nat \ {0} /\ Head(q) \in S /\ Head(q) = q[1] /\ 1 \in 1 .. Len(q)
           /\ Tail(q) \in Seq(S) /\ Len(Tail(q)) = Len(q) - 1
           /\ \A i \in 1 .. Len(Tail(q)) : Tail(q)[i] = q[i + 1] /\ i + 1 \in 1 .. Len(q)
  OBVIOUS

\* Adding the newest frame to a channel.
LEMMA AppendFacts ==
    ASSUME NEW S, NEW q \in Seq(S), NEW x \in S
    PROVE  /\ Len(q) \in Nat /\ Append(q, x) \in Seq(S) /\ Len(Append(q, x)) = Len(q) + 1
           /\ \A i \in 1 .. Len(q) + 1 :
                Append(q, x)[i] = IF i = Len(q) + 1 THEN x ELSE q[i]
  OBVIOUS

\* The pull instances of an adaptor are its own, and only the original is a push
\* instance as well.
LEMMA InstanceFacts ==
    ASSUME NEW k, NEW s, NEW t
    PROVE  /\ Instance("pull", s, t) \in PullInstances(k) => k = s
           /\ Instance("push", s, t) \in PullInstances(k) => k = s /\ t = 0
  BY DEF Instance, PullInstances

\* The threads that have ended have ended, whatever another one does.
LEMMA LoopKeeps ==
    ASSUME IInv, NEW w \in Threads, pc[w] # "end", NEW l, pc' = [pc EXCEPT ![w] = l],
           UNCHANGED <<canceled, limit, control, todo, runs>>
    PROVE  /\ \A v \in Threads : pc'[v] = IF v = w THEN l ELSE pc[v]
           /\ \A s \in Stages : Returned(s) => Returned(s)'
           /\ Controlled' /\ CanceledBy' /\ (AsBuilt' <=> AsBuilt) /\ (Quiet' <=> Quiet)
<1>1. \A v \in Threads : pc'[v] = IF v = w THEN l ELSE pc[v]
  BY DEF IInv, TypeOK
<1>2. ASSUME NEW s \in Stages, Returned(s) PROVE Returned(s)'
  <2>1. \A t \in Team(s) : <<s, t>> \in Threads /\ pc[<<s, t>>] = "end"
    BY <1>2, ThreadFacts DEF Returned
  <2>2. \A t \in Team(s) : <<s, t>> # w
    BY <2>1
  <2> QED BY <1>1, <2>1, <2>2 DEF Returned
<1>3. Controlled'
  BY <1>2 DEF IInv, Controlled
<1>4. (AsBuilt' <=> AsBuilt) /\ (Quiet' <=> Quiet)
  BY DEF AsBuilt, Quiet
<1>5. CanceledBy'
  BY <1>4 DEF IInv, CanceledBy
<1> QED BY <1>1, <1>2, <1>3, <1>4, <1>5

\* A stage only returns in its turn when nobody but the first one stops.
LEMMA DrainedDown ==
    ASSUME IInv, AsBuilt, Quiet, NEW s \in Stages, Returned(s), NEW j \in 1 .. s
    PROVE  Returned(j)
<1> DEFINE T == {i \in Nat : i <= s - 1 /\ ~ Returned(s - i)}
<1>1. SUFFICES ASSUME ~ Returned(j) PROVE FALSE
  OBVIOUS
<1>2. s \in Nat /\ j \in Nat /\ Stages = 1 .. NStages /\ NStages \in Nat /\ s <= NStages
  BY StageFacts DEF Stages
<1>3. s - j \in T
  <2>1. s - (s - j) = j /\ s - j \in Nat /\ s - j <= s - 1
    BY <1>2
  <2> QED BY <1>1, <2>1
<1>4. PICK i \in T : \A n \in T : i <= n
  <2>1. T \in SUBSET Nat
    OBVIOUS
  <2> HIDE DEF T
  <2> QED BY <1>3, <2>1, LeastNat
<1>5. i # 0
  <2>1. s - 0 = s
    BY <1>2
  <2> QED BY <1>4, <2>1
<1> DEFINE k == (s - i) + 1
<1>6. k \in Stages /\ k # 1 /\ k - 1 = s - i /\ k = s - (i - 1) /\ i - 1 \in Nat /\ i - 1 <= s - 1
  BY <1>2, <1>4, <1>5
<1>7. Returned(k)
  <2>1. i - 1 \notin T
    BY <1>4, <1>6
  <2> QED BY <1>6, <2>1
<1>8. <<k, 0>> \in Threads \ FirstStage /\ pc[<<k, 0>>] = "end"
  <2>1. k \in Stages /\ 0 \in Team(k)
    BY <1>6, StageFacts
  <2>2. <<k, 0>> \in Threads /\ <<k, 0>>[1] = k
    BY <2>1, ThreadFacts
  <2> QED BY <1>6, <1>7, <2>1, <2>2, ThreadFacts DEF Returned
<1>9. Returned(k - 1)
  <2>1. <<k, 0>>[1] = k
    OBVIOUS
  <2> HIDE DEF k
  <2> QED BY <1>8, <2>1 DEF IInv, Drained
<1> QED BY <1>4, <1>6, <1>9

\* As long as only the first stage decides to stop, and the caller is past its own
\* stage, every stage has returned.
LEMMA EndOfAll ==
    ASSUME IInv, AsBuilt, Quiet, control[Caller] # "stage", NEW s \in Stages
    PROVE  Returned(s)
<1>1. Returned(NStages) /\ NStages \in Stages
  BY StageFacts DEF IInv, Controlled
<1>2. s \in 1 .. NStages
  BY DEF Stages
<1> QED BY <1>1, <1>2, DrainedDown

\* A pull is canceled when the stage before has returned or the last one has.
LEMMA PullCanceledBy ==
    ASSUME IInv, AsBuilt, NEW s \in Adaptors, NEW t \in Team(s + 1),
           canceled[Instance("pull", s, t)]
    PROVE  Returned(s) \/ control[Caller] # "stage"
<1>1. Instance("pull", s, t) \in Instances
  BY DEF Instances
<1>2. CASE control[Caller] # "stage"
  BY <1>2
<1>3. CASE \E k \in Adaptors : control[k] # "stage" /\ Instance("pull", s, t) \in PullInstances(k)
  <2>1. control[s] # "stage"
    BY <1>3, InstanceFacts
  <2>2. s \in Stages
    BY StageFacts
  <2> QED BY <2>1, <2>2 DEF IInv, Controlled
<1> QED BY <1>1, <1>2, <1>3 DEF IInv, CanceledBy

\* A push is canceled when its own stage has returned, if the stages end in turn.
LEMMA PushCanceledBy ==
    ASSUME IInv, AsBuilt, Quiet, NEW w \in Threads, w \notin LastStage, PushCanceled(w)
    PROVE  Returned(w[1])
<1>1. w[1] \in Adaptors /\ w[1] \in Stages /\ w[2] \in Team(w[1])
  BY ThreadFacts
<1>2. Instance("push", w[1], w[2]) \in Instances
  BY <1>1 DEF Instances
<1>3. CASE control[Caller] # "stage"
  BY <1>1, <1>3, EndOfAll
<1>4. CASE \E k \in Adaptors : control[k] # "stage" /\ Instance("push", w[1], w[2]) \in PullInstances(k)
  <2>1. control[w[1]] # "stage"
    BY <1>4, InstanceFacts
  <2> QED BY <1>1, <2>1 DEF IInv, Controlled
<1> QED BY <1>2, <1>3, <1>4 DEF IInv, CanceledBy, PushCanceled
-----------------------------------------------------------------------------
(* The steps of a loop.                                                    *)

\* The stages that a thread can be in at each label.
LEMMA WhereFacts ==
    ASSUME Held, NEW w \in Threads
    PROVE  /\ w \in FirstStage \/ w \in LastStage \/ w \in MiddleStages
           /\ pc[w] \in {"pull", "use"} => w \in Threads \ FirstStage
           /\ pc[w] = "push" => w \notin LastStage
           /\ pc[w] = "use" => w \in LastStage
  BY ThreadFacts DEF Held, MiddleStages

\* pull: the frame at the end of the channel is the next one of this thread.
LEMMA PullFacts ==
    ASSUME IInv, NEW w \in Threads, Pull(w)
    PROVE  LET s == w[1] - 1  c == PullChannel(w)  q == ring[s][c]
           IN  /\ w \in Threads \ FirstStage /\ s \in Adaptors /\ c \in Channels(s)
               /\ q \in Seq(Nat \X Nat) /\ q # <<>>
               /\ frame[w] = NoFrame /\ IsMade(Head(q))
               /\ Rank(Head(q)) = PullRank(w)
               /\ \A r \in Adaptors : \A d \in Channels(r) :
                    ring'[r][d] = IF r = s /\ d = c THEN Tail(q) ELSE ring[r][d]
<1> DEFINE s == w[1] - 1  c == PullChannel(w)  q == ring[s][c]
<1>1. TypeOK /\ Held /\ Shaped /\ Chained /\ Genuine
  BY DEF IInv
<1>2. w \in Threads \ FirstStage
  BY <1>1, WhereFacts DEF Pull
<1>3. s \in Adaptors /\ c \in Channels(s)
  BY <1>1, <1>2, PullSideFacts
<1>4. q \in Seq(Nat \X Nat) /\ q # <<>>
  BY <1>1, <1>3 DEF TypeOK, Pull
<1>5. frame[w] = NoFrame
  BY <1>1, <1>2 DEF Held, Pull
<1>6. Head(q) = q[1] /\ 1 \in 1 .. Len(q)
  BY <1>4, PopFacts
<1>7. IsMade(Head(q))
  BY <1>1, <1>3, <1>6 DEF Genuine
<1>8. Rank(Head(q)) = PullRank(w)
  <2>1. Rank(q[1]) = NextOut(s, c) + (1 - 1) * NChannels(s)
    BY <1>1, <1>3, <1>6 DEF Chained
  <2>2. NextOut(s, c) = PullRank(w)
    BY <1>1, <1>2, <1>3, PullMoves DEF Pull
  <2>3. PullRank(w) \in Nat /\ NChannels(s) \in Nat
    BY <1>1, <1>3, RankFacts, ChannelFacts
  <2> HIDE DEF s, c, q
  <2> QED BY <1>6, <2>1, <2>2, <2>3
<1>9. ring' = [ring EXCEPT ![s][c] = Tail(@)]
  BY DEF Pull
<1>10. \A r \in Adaptors : \A d \in Channels(r) :
         ring'[r][d] = IF r = s /\ d = c THEN Tail(q) ELSE ring[r][d]
  BY <1>1, <1>9 DEF Shaped
<1> QED BY <1>2, <1>3, <1>4, <1>5, <1>7, <1>8, <1>10

\* A pull takes the frame whose turn it is out of a channel.
LEMMA PullInv ==
    ASSUME IInv, NEW w \in Threads, Pull(w),
           UNCHANGED <<canceled, limit, control, todo, runs>>
    PROVE  IInv'
<1> DEFINE s == w[1] - 1  c == PullChannel(w)  q == ring[s][c]
           l == IF w \in LastStage THEN "use" ELSE "push"
<1>1. TypeOK /\ Held /\ Shaped /\ Counted /\ InTurn /\ Chained /\ Genuine /\ Drained
  BY DEF IInv
<1>2. /\ w \in Threads \ FirstStage /\ s \in Adaptors /\ c \in Channels(s)
      /\ q \in Seq(Nat \X Nat) /\ q # <<>>
      /\ frame[w] = NoFrame /\ IsMade(Head(q))
      /\ Rank(Head(q)) = PullRank(w)
      /\ \A r \in Adaptors : \A d \in Channels(r) :
            ring'[r][d] = IF r = s /\ d = c THEN Tail(q) ELSE ring[r][d]
  BY PullFacts
<1>3. /\ pc[w] = "pull" /\ pc' = [pc EXCEPT ![w] = l]
      /\ frame' = [frame EXCEPT ![w] = Head(q)]
      /\ pulled' = [pulled EXCEPT ![w] = @ + 1]
      /\ ring' = [ring EXCEPT ![s][c] = Tail(@)]
      /\ pushed' = pushed /\ used' = used /\ calls' = calls
  BY DEF Pull, Goto
<1>4. /\ Len(q) \in Nat \ {0} /\ Head(q) \in Nat \X Nat
      /\ Tail(q) \in Seq(Nat \X Nat) /\ Len(Tail(q)) = Len(q) - 1
      /\ \A i \in 1 .. Len(Tail(q)) : Tail(q)[i] = q[i + 1] /\ i + 1 \in 1 .. Len(q)
  BY <1>2, PopFacts
<1>5. Head(q) # NoFrame
  BY <1>4 DEF NoFrame
<1> HIDE DEF s, c, q, l
<1>6. /\ \A v \in Threads : pc'[v] = IF v = w THEN l ELSE pc[v]
      /\ \A v \in Threads : frame'[v] = IF v = w THEN Head(q) ELSE frame[v]
      /\ \A v \in Threads : pulled'[v] = IF v = w THEN pulled[w] + 1 ELSE pulled[v]
  BY <1>1, <1>3 DEF TypeOK
<1>7. /\ \A r \in Stages : Returned(r) => Returned(r)'
      /\ Controlled' /\ CanceledBy' /\ (AsBuilt' <=> AsBuilt) /\ (Quiet' <=> Quiet)
  <2>1. pc[w] # "end"
    BY <1>3
  <2> QED BY <1>3, <2>1, LoopKeeps
<1>8. TypeOK'
  <2>1. pc' \in [Threads -> {"pull", "push", "use", "test", "end"}]
    BY <1>1, <1>3 DEF TypeOK, l
  <2>2. frame' \in [Threads -> Nat \X Nat \cup {NoFrame}] /\ pulled' \in [Threads -> Nat]
    BY <1>1, <1>3, <1>4 DEF TypeOK
  <2>3. \A r \in Adaptors : \A d \in Channels(r) :
            ring'[r][d] \in Seq(Nat \X Nat) /\ Len(ring'[r][d]) <= BufferSize
    <3>1. Len(q) <= BufferSize
      BY <1>1, <1>2 DEF TypeOK, q
    <3>2. Len(Tail(q)) <= BufferSize
      BY <1>4, <3>1, StageFacts
    <3>3. \A r \in Adaptors : \A d \in Channels(r) :
            ring[r][d] \in Seq(Nat \X Nat) /\ Len(ring[r][d]) <= BufferSize
      BY <1>1 DEF TypeOK
    <3> TAKE r \in Adaptors
    <3> TAKE d \in Channels(r)
    <3>4. ring'[r][d] = Tail(q) \/ ring'[r][d] = ring[r][d]
      BY <1>2
    <3> QED BY <1>4, <3>2, <3>3, <3>4
  <2> QED BY <1>1, <1>3, <2>1, <2>2, <2>3 DEF TypeOK
<1>9. Shaped'
  BY <1>1, <1>3 DEF Shaped
<1>10. Held'
  <2>1. \A v \in FirstStage : v # w
    BY <1>2
  <2>2. \A v \in MiddleStages : v = w => l = "push"
    BY DEF MiddleStages, l
  <2>3. \A v \in LastStage : v = w => l = "use"
    BY DEF l
  <2>4. FirstStage \subseteq Threads /\ LastStage \subseteq Threads /\ MiddleStages \subseteq Threads
    BY ThreadFacts DEF MiddleStages
  <2>5. l \in {"use", "push"}
    BY DEF l
  <2>6. \A v \in FirstStage : frame'[v] = NoFrame /\ pc'[v] \in {"push", "test", "end"}
    BY <1>1, <1>6, <2>1, <2>4 DEF Held
  <2>7. \A v \in MiddleStages : pc'[v] \in {"pull", "push", "test", "end"}
    BY <1>1, <1>6, <2>2, <2>4 DEF Held
  <2>8. \A v \in LastStage : pc'[v] \in {"pull", "use", "test", "end"}
    BY <1>1, <1>6, <2>3, <2>4 DEF Held
  <2>9. \A v \in Threads \ FirstStage :
            /\ pc'[v] \in {"push", "use"} => frame'[v] # NoFrame
            /\ pc'[v] \in {"pull", "test"} => frame'[v] = NoFrame
    BY <1>1, <1>5, <1>6, <2>5 DEF Held
  <2> QED BY <2>6, <2>7, <2>8, <2>9 DEF Held
<1>11. Counted'
  <2>1. \A v \in Threads : InHand(v)' = IF v = w THEN 1 ELSE InHand(v)
    BY <1>5, <1>6 DEF InHand
  <2>2. InHand(w) = 0
    BY <1>2 DEF InHand
  <2>3. MiddleStages \subseteq Threads /\ LastStage \subseteq Threads
    BY ThreadFacts DEF MiddleStages
  <2>4. \A v \in Threads : pushed[v] \in Nat /\ pulled[v] \in Nat
    BY <1>1 DEF TypeOK
  <2>5. \A v \in LastStage : Len(used[v]) \in Nat
    BY <1>1 DEF TypeOK
  <2>6. \A v \in MiddleStages : pulled'[v] = pushed'[v] + InHand(v)'
    <3> TAKE v \in MiddleStages
    <3>1. v \in Threads /\ pulled[v] = pushed[v] + InHand(v)
      BY <1>1, <2>3 DEF Counted
    <3>2. CASE v = w
      BY <1>3, <1>6, <2>1, <2>2, <2>4, <3>1, <3>2
    <3>3. CASE v # w
      BY <1>3, <1>6, <2>1, <3>1, <3>3
    <3> QED BY <3>2, <3>3
  <2>7. \A v \in LastStage : pulled'[v] = Len(used'[v]) + InHand(v)'
    <3> TAKE v \in LastStage
    <3>1. v \in Threads /\ pulled[v] = Len(used[v]) + InHand(v)
      BY <1>1, <2>3 DEF Counted
    <3>2. CASE v = w
      BY <1>3, <1>6, <2>1, <2>2, <2>5, <3>1, <3>2
    <3>3. CASE v # w
      BY <1>3, <1>6, <2>1, <3>1, <3>3
    <3> QED BY <3>2, <3>3
  <2> QED BY <2>6, <2>7 DEF Counted
<1>12. PullRank(w)' = PullRank(w) + Replicas[w[1]]
  <2> DEFINE t == w[2]  R == Replicas[w[1]]  n == pulled[w]
  <2>1. R \in Nat \ {0} /\ t \in 0 .. R - 1 /\ n \in Int
    BY <1>1, <1>2, RankFacts
  <2>2. PullRank(w)' = t + (n + 1) * R /\ PullRank(w) = t + n * R
    BY <1>2, <1>6 DEF PullRank
  <2> HIDE DEF t, R, n
  <2>3. PullRank(w)' = PullRank(w) + R
    BY <2>1, <2>2, Strides
  <2> QED BY <2>3 DEF R
<1>13. \A v \in Threads : v # w => PullRank(v)' = PullRank(v)
  BY <1>6 DEF PullRank
<1>14. InTurn'
  <2>1. \A v \in Threads \ FirstStage :
            frame'[v] # NoFrame => Rank(frame'[v]) = PullRank(v)' - Replicas[v[1]]
    <3> TAKE v \in Threads \ FirstStage
    <3>1. CASE v = w
      <4>1. PullRank(w) \in Nat /\ Replicas[w[1]] \in Nat
        BY <1>1, <1>2, RankFacts
      <4> QED BY <1>2, <1>6, <1>12, <3>1, <4>1 DEF q
    <3>2. CASE v # w
      BY <1>1, <1>6, <1>13, <3>2 DEF InTurn
    <3> QED BY <3>1, <3>2
  <2>2. \A v \in Threads : Rank(frame[v])' = Rank(frame'[v])
    BY DEF Rank
  <2> QED BY <1>1, <1>3, <2>1, <2>2 DEF InTurn, Rank
<1>15. Chained'
  <2> SUFFICES ASSUME NEW r \in Adaptors, NEW d \in Channels(r)
               PROVE  /\ NextIn(r, d)' = NextOut(r, d)' + Len(ring'[r][d]) * NChannels(r)
                      /\ \A i \in 1 .. Len(ring'[r][d]) :
                            Rank(ring'[r][d][i]) = NextOut(r, d)' + (i - 1) * NChannels(r)
    BY DEF Chained, Rank
  <2>1. NextIn(r, d)' = NextIn(r, d)
    BY <1>3 DEF NextIn, PushRank
  <2>2. /\ NextIn(r, d) = NextOut(r, d) + Len(ring[r][d]) * NChannels(r)
        /\ \A i \in 1 .. Len(ring[r][d]) :
                Rank(ring[r][d][i]) = NextOut(r, d) + (i - 1) * NChannels(r)
    BY <1>1 DEF Chained
  <2>3. CASE ~ (r = s /\ d = c)
    <3>1. NextOut(r, d)' = NextOut(r, d)
      <4>1. ~ (r = w[1] - 1 /\ d = PullChannel(w))
        BY <2>3 DEF s, c
      <4> QED BY <1>1, <1>2, <1>3, <4>1, PullMoves
    <3>2. ring'[r][d] = ring[r][d]
      BY <1>2, <2>3
    <3> QED BY <2>1, <2>2, <3>1, <3>2
  <2>4. CASE r = s /\ d = c
    <3> DEFINE N == NChannels(r)  o == NextOut(r, d)  n == Len(q)
    <3>1. NextOut(r, d)' = o + N
      BY <1>1, <1>2, <1>3, <2>4, PullMoves DEF s, c
    <3>2. ring'[r][d] = Tail(q) /\ ring[r][d] = q
      BY <1>2, <2>4 DEF q
    <3>3. N \in Int /\ o \in Int /\ n \in Int
      BY <1>1, <1>4, NextFacts
    <3>4. NextIn(r, d) = o + n * N /\ \A i \in 1 .. n : Rank(q[i]) = o + (i - 1) * N
      BY <2>2, <3>2
    <3> HIDE DEF N, o
    <3>5. NextIn(r, d)' = (o + N) + (n - 1) * N
      <4> HIDE DEF n
      <4> QED BY <2>1, <3>3, <3>4, Rounds
    <3>6. \A i \in 1 .. n - 1 : Rank(Tail(q)[i]) = (o + N) + (i - 1) * N
      <4> TAKE i \in 1 .. n - 1
      <4>1. Tail(q)[i] = q[i + 1] /\ i + 1 \in 1 .. n
        BY <1>4
      <4>2. Rank(Tail(q)[i]) = o + ((i + 1) - 1) * N
        BY <3>4, <4>1
      <4>3. i \in Int /\ (i + 1) - 1 = i
        BY <3>3
      <4> HIDE DEF n
      <4>4. o + i * N = (o + N) + (i - 1) * N
        BY <3>3, <4>3, Rounds
      <4> QED BY <4>2, <4>3, <4>4
    <3> QED BY <1>4, <3>1, <3>2, <3>5, <3>6 DEF N, o
  <2> QED BY <2>3, <2>4
<1>16. Genuine'
  <2>1. \A f : IsMade(f)' <=> IsMade(f)
    BY <1>3 DEF IsMade
  <2>2. \A r \in Adaptors : \A d \in Channels(r) :
            \A i \in 1 .. Len(ring'[r][d]) : IsMade(ring'[r][d][i])
    <3> TAKE r \in Adaptors
    <3> TAKE d \in Channels(r)
    <3> TAKE i \in 1 .. Len(ring'[r][d])
    <3>1. CASE ~ (r = s /\ d = c)
      BY <1>1, <1>2, <3>1 DEF Genuine
    <3>2. CASE r = s /\ d = c
      <4>1. ring'[r][d] = Tail(q)
        BY <1>2, <3>2
      <4>2. Tail(q)[i] = q[i + 1] /\ i + 1 \in 1 .. Len(q)
        BY <1>4, <4>1
      <4>3. IsMade(q[i + 1])
        BY <1>1, <1>2, <4>2 DEF Genuine, q
      <4> QED BY <4>1, <4>2, <4>3
    <3> QED BY <3>1, <3>2
  <2>3. \A v \in Threads : frame'[v] # NoFrame => IsMade(frame'[v])
    BY <1>1, <1>2, <1>6 DEF Genuine, q
  <2>4. \A v \in LastStage : \A n \in 1 .. Len(used'[v]) : IsMade(used'[v][n])
    BY <1>1, <1>3 DEF Genuine
  <2> QED BY <2>1, <2>2, <2>3, <2>4, <1>3 DEF Genuine, IsMade
<1>17. Drained'
  <2> SUFFICES ASSUME AsBuilt', Quiet', NEW v \in Threads \ FirstStage, pc'[v] = "end"
               PROVE  /\ Returned(v[1] - 1)'
                      /\ ring'[v[1] - 1][PullChannel(v)'] = <<>>
                      /\ frame'[v] = NoFrame
    BY DEF Drained
  <2>1. v # w /\ pc[v] = "end"
    BY <1>6 DEF l
  <2>2. Returned(v[1] - 1) /\ ring[v[1] - 1][PullChannel(v)] = <<>> /\ frame[v] = NoFrame
    BY <1>1, <1>7, <2>1 DEF Drained
  <2>3. PullChannel(v)' = PullChannel(v)
    BY <1>6, <2>1 DEF PullChannel
  <2>4. v[1] - 1 \in Adaptors /\ PullChannel(v) \in Channels(v[1] - 1) /\ v[1] - 1 \in Stages
    BY <1>1, PullSideFacts, StageFacts
  <2>5. ring'[v[1] - 1][PullChannel(v)] = <<>>
    BY <1>2, <2>2, <2>4 DEF q
  <2> QED BY <1>6, <1>7, <2>1, <2>2, <2>3, <2>4, <2>5
<1> QED BY <1>7, <1>8, <1>9, <1>10, <1>11, <1>14, <1>15, <1>16, <1>17 DEF IInv

\* A step that takes a thread to the end of its loop or to the beginning of the
\* next turn, and moves no frame.
Turn(w, l) ==
    /\ pc[w] \in {"pull", "push", "test"} /\ pc' = [pc EXCEPT ![w] = l]
    /\ \/ l = "end"
       \/ l = FirstPc(w) /\ pc[w] = "test"
    /\ UNCHANGED <<frame, pushed, pulled, ring, used>> /\ calls' \in [Stages -> Nat]
    /\ l = "end" /\ AsBuilt /\ Quiet /\ w \notin FirstStage =>
            /\ Returned(w[1] - 1)
            /\ ring[w[1] - 1][PullChannel(w)] = <<>>
            /\ frame[w] = NoFrame

\* Such a step preserves the invariant.
LEMMA TurnInv ==
    ASSUME IInv, NEW w \in Threads, NEW l,
           Turn(w, l), UNCHANGED <<canceled, limit, control, todo, runs>>
    PROVE  IInv'
<1> USE DEF Turn
<1>1. TypeOK /\ Held /\ Shaped /\ Counted /\ InTurn /\ Chained /\ Genuine /\ Drained
  BY DEF IInv
<1>2. /\ \A v \in Threads : pc'[v] = IF v = w THEN l ELSE pc[v]
      /\ \A r \in Stages : Returned(r) => Returned(r)'
      /\ Controlled' /\ CanceledBy' /\ (AsBuilt' <=> AsBuilt) /\ (Quiet' <=> Quiet)
  <2>1. pc[w] # "end"
    OBVIOUS
  <2> QED BY <2>1, LoopKeeps
<1>3. TypeOK'
  <2>1. l \in {"pull", "push", "use", "test", "end"}
    BY DEF FirstPc
  <2>2. pc' \in [Threads -> {"pull", "push", "use", "test", "end"}]
    BY <1>1, <2>1 DEF TypeOK
  <2> QED BY <1>1, <2>2 DEF TypeOK
<1>4. Shaped'
  BY <1>1 DEF Shaped
<1>5. Held'
  <2>1. FirstStage \subseteq Threads /\ LastStage \subseteq Threads /\ MiddleStages \subseteq Threads
    BY ThreadFacts DEF MiddleStages
  <2>2. \A v \in FirstStage : frame'[v] = NoFrame /\ pc'[v] \in {"push", "test", "end"}
    <3> TAKE v \in FirstStage
    <3>1. v \in Threads /\ FirstPc(v) = "push"
      BY <2>1, ThreadFacts DEF FirstPc
    <3> QED BY <1>1, <1>2, <3>1 DEF Held
  <2>3. \A v \in MiddleStages : pc'[v] \in {"pull", "push", "test", "end"}
    BY <1>1, <1>2, <2>1 DEF Held, FirstPc
  <2>4. \A v \in LastStage : pc'[v] \in {"pull", "use", "test", "end"}
    <3> TAKE v \in LastStage
    <3>1. v \in Threads /\ FirstPc(v) = "pull"
      BY <2>1, ThreadFacts DEF FirstPc
    <3> QED BY <1>1, <1>2, <3>1 DEF Held
  <2>5. \A v \in Threads \ FirstStage :
            /\ pc'[v] \in {"push", "use"} => frame'[v] # NoFrame
            /\ pc'[v] \in {"pull", "test"} => frame'[v] = NoFrame
    <3> TAKE v \in Threads \ FirstStage
    <3>1. v \in Threads /\ FirstPc(v) = "pull"
      BY ThreadFacts DEF FirstPc
    <3> QED BY <1>1, <1>2, <3>1 DEF Held
  <2> QED BY <2>2, <2>3, <2>4, <2>5 DEF Held
<1>6. Counted'
  BY <1>1 DEF Counted, InHand
<1>7. InTurn'
  BY <1>1 DEF InTurn, PullRank, Rank
<1>8. Chained'
  BY <1>1 DEF Chained, NextIn, NextOut, PullRank, PushRank, Rank
<1>9. Genuine'
  BY <1>1 DEF Genuine, IsMade
<1>10. Drained'
  <2> SUFFICES ASSUME AsBuilt', Quiet', NEW v \in Threads \ FirstStage, pc'[v] = "end"
               PROVE  /\ Returned(v[1] - 1)'
                      /\ ring'[v[1] - 1][PullChannel(v)'] = <<>>
                      /\ frame'[v] = NoFrame
    BY DEF Drained
  <2>1. PullChannel(v)' = PullChannel(v) /\ v[1] - 1 \in Stages
    BY ThreadFacts, StageFacts DEF PullChannel
  <2>2. Returned(v[1] - 1) /\ ring[v[1] - 1][PullChannel(v)] = <<>> /\ frame[v] = NoFrame
    <3>1. CASE v = w
      <4>1. l = "end"
        BY <1>2, <3>1
      <4> QED BY <1>2, <3>1, <4>1
    <3>2. CASE v # w
      <4>1. pc[v] = "end"
        BY <1>2, <3>2
      <4> QED BY <1>1, <1>2, <4>1 DEF Drained
    <3> QED BY <3>1, <3>2
  <2> QED BY <1>2, <2>1, <2>2
<1> QED BY <1>2, <1>3, <1>4, <1>5, <1>6, <1>7, <1>8, <1>9, <1>10 DEF IInv

\* The pull that ends a loop found its channel empty and its stage canceled: the
\* stage before has returned, so that nothing will come.
LEMMA PullEndInv ==
    ASSUME IInv, NEW w \in Threads, PullEnd(w),
           UNCHANGED <<canceled, limit, control, todo, runs>>
    PROVE  IInv'
<1>1. /\ pc[w] = "pull" /\ ring[w[1] - 1][PullChannel(w)] = <<>> /\ PullCanceled(w)
      /\ pc' = [pc EXCEPT ![w] = "end"]
      /\ UNCHANGED <<frame, pushed, pulled, ring, used, calls>>
  BY DEF PullEnd, Goto
<1>2. w \in Threads \ FirstStage /\ frame[w] = NoFrame /\ calls \in [Stages -> Nat]
  BY <1>1, WhereFacts DEF IInv, Held, TypeOK
<1>3. ASSUME AsBuilt, Quiet PROVE Returned(w[1] - 1)
  <2>1. w[1] - 1 \in Adaptors /\ (w[1] - 1) + 1 = w[1] /\ w[2] \in Team(w[1]) /\ w[1] - 1 \in Stages
    BY <1>2, ThreadFacts, StageFacts
  <2>2. Returned(w[1] - 1) \/ control[Caller] # "stage"
    BY <1>1, <1>3, <2>1, PullCanceledBy DEF PullCanceled
  <2> QED BY <1>3, <2>1, <2>2, EndOfAll
<1>4. Turn(w, "end")
  BY <1>1, <1>2, <1>3 DEF Turn
<1> QED BY <1>4, TurnInv

\* A push that gives up was canceled by the caller, which does not happen before
\* every stage has returned when only the first stage decides to stop.
LEMMA PushEndInv ==
    ASSUME IInv, NEW w \in Threads, PushEnd(w),
           UNCHANGED <<canceled, limit, control, todo, runs>>
    PROVE  IInv'
<1>1. /\ pc[w] = "push" /\ PushCanceled(w)
      /\ pc' = [pc EXCEPT ![w] = "end"]
      /\ UNCHANGED <<frame, pushed, pulled, ring, used, calls>>
  BY DEF PushEnd, Goto
<1>2. w \notin LastStage /\ calls \in [Stages -> Nat]
  BY <1>1, WhereFacts DEF IInv, TypeOK
<1>3. ~ (AsBuilt /\ Quiet)
  <2> SUFFICES ASSUME AsBuilt, Quiet PROVE FALSE
    OBVIOUS
  <2>1. Returned(w[1])
    BY <1>1, <1>2, PushCanceledBy
  <2>2. w[2] \in Team(w[1]) /\ w = <<w[1], w[2]>>
    BY ThreadFacts
  <2>3. pc[w] = "end"
    BY <2>1, <2>2 DEF Returned
  <2> QED BY <1>1, <2>3
<1>4. Turn(w, "end")
  BY <1>1, <1>2, <1>3 DEF Turn
<1> QED BY <1>4, TurnInv

\* The stop condition takes a thread to its end or to its next turn.
LEMMA TestInv ==
    ASSUME IInv, NEW w \in Threads, Test(w),
           UNCHANGED <<canceled, limit, control, todo, runs>>
    PROVE  IInv'
<1> DEFINE s == w[1]
           l == IF limit[s] # Never /\ calls[s] + 1 >= limit[s] THEN "end" ELSE FirstPc(w)
<1>1. s \in Stages /\ calls \in [Stages -> Nat] /\ limit \in [Stages -> Nat]
  BY ThreadFacts DEF IInv, TypeOK
<1>2. /\ pc[w] = "test" /\ pc' = [pc EXCEPT ![w] = l]
      /\ UNCHANGED <<frame, pushed, pulled, ring, used>>
  BY DEF Test, Goto
<1>3. calls' \in [Stages -> Nat]
  <2>1. calls[s] + 1 \in Nat
    BY <1>1
  <2>2. calls' = calls \/ calls' = [calls EXCEPT ![s] = calls[s] + 1]
    BY DEF Test
  <2> QED BY <1>1, <2>1, <2>2
<1>4. l = "end" /\ Quiet => w \in FirstStage
  <2> SUFFICES ASSUME Quiet, w \notin FirstStage PROVE l # "end"
    OBVIOUS
  <2>1. limit[s] = Never
    BY <1>1, ThreadFacts DEF Quiet
  <2> QED BY <2>1 DEF FirstPc
<1>5. l = "end" \/ l = FirstPc(w)
  OBVIOUS
<1> HIDE DEF l
<1>6. Turn(w, l)
  BY <1>2, <1>3, <1>4, <1>5 DEF Turn
<1> QED BY <1>6, TurnInv
\* use: the frame in the hand is the next one of this thread.
LEMMA UseInv ==
    ASSUME IInv, NEW w \in Threads, Use(w),
           UNCHANGED <<canceled, limit, control, todo, runs>>
    PROVE  IInv'
<1> DEFINE f == frame[w]  q == used[w]
<1>1. TypeOK /\ Held /\ Shaped /\ Counted /\ InTurn /\ Chained /\ Genuine /\ Drained
  BY DEF IInv
<1>2. /\ pc[w] = "use" /\ pc' = [pc EXCEPT ![w] = "test"]
      /\ used' = [used EXCEPT ![w] = Append(@, frame[w])]
      /\ frame' = [frame EXCEPT ![w] = NoFrame]
      /\ pushed' = pushed /\ pulled' = pulled /\ ring' = ring /\ calls' = calls
  BY DEF Use, Goto
<1>3. w \in LastStage /\ w \in Threads \ FirstStage /\ w[1] = NStages
  BY <1>1, <1>2, WhereFacts, ThreadFacts
<1>4. f # NoFrame /\ f \in Nat \X Nat
  BY <1>1, <1>2, <1>3 DEF Held, TypeOK
<1>5. /\ q \in Seq(Nat \X Nat) /\ Len(q) \in Nat
      /\ Append(q, f) \in Seq(Nat \X Nat) /\ Len(Append(q, f)) = Len(q) + 1
      /\ \A i \in 1 .. Len(q) + 1 : Append(q, f)[i] = IF i = Len(q) + 1 THEN f ELSE q[i]
  <2>1. q \in Seq(Nat \X Nat)
    BY <1>1, <1>3 DEF TypeOK
  <2> HIDE DEF q, f
  <2> QED BY <1>4, <2>1, AppendFacts
<1>6. /\ \A v \in Threads : pc'[v] = IF v = w THEN "test" ELSE pc[v]
      /\ \A v \in Threads : frame'[v] = IF v = w THEN NoFrame ELSE frame[v]
      /\ \A v \in LastStage : used'[v] = IF v = w THEN Append(q, f) ELSE used[v]
  BY <1>1, <1>2 DEF TypeOK
<1> HIDE DEF f, q
<1>7. /\ \A r \in Stages : Returned(r) => Returned(r)'
      /\ Controlled' /\ CanceledBy' /\ (AsBuilt' <=> AsBuilt) /\ (Quiet' <=> Quiet)
  <2>1. pc[w] # "end"
    BY <1>2
  <2> QED BY <1>2, <2>1, LoopKeeps
<1>8. FirstStage \subseteq Threads /\ LastStage \subseteq Threads /\ MiddleStages \subseteq Threads
  BY ThreadFacts DEF MiddleStages
<1>9. TypeOK'
  <2>1. pc' \in [Threads -> {"pull", "push", "use", "test", "end"}]
    BY <1>1, <1>2 DEF TypeOK
  <2>2. frame' \in [Threads -> Nat \X Nat \cup {NoFrame}]
    BY <1>1, <1>2 DEF TypeOK
  <2>3. used' \in [LastStage -> Seq(Nat \X Nat)]
    BY <1>1, <1>2, <1>3, <1>5 DEF TypeOK, q, f
  <2> QED BY <1>1, <1>2, <2>1, <2>2, <2>3 DEF TypeOK
<1>10. Shaped'
  BY <1>1, <1>2 DEF Shaped
<1>11. Held'
  <2>1. \A v \in FirstStage \cup MiddleStages : v # w
    BY <1>3 DEF MiddleStages
  <2>2. \A v \in FirstStage : frame'[v] = NoFrame /\ pc'[v] \in {"push", "test", "end"}
    BY <1>1, <1>6, <1>8, <2>1 DEF Held
  <2>3. \A v \in MiddleStages : pc'[v] \in {"pull", "push", "test", "end"}
    BY <1>1, <1>6, <1>8, <2>1 DEF Held
  <2>4. \A v \in LastStage : pc'[v] \in {"pull", "use", "test", "end"}
    BY <1>1, <1>6, <1>8 DEF Held
  <2>5. \A v \in Threads \ FirstStage :
            /\ pc'[v] \in {"push", "use"} => frame'[v] # NoFrame
            /\ pc'[v] \in {"pull", "test"} => frame'[v] = NoFrame
    BY <1>1, <1>6 DEF Held
  <2> QED BY <2>2, <2>3, <2>4, <2>5 DEF Held
<1>12. pulled[w] = Len(q) + 1
  <2>1. InHand(w) = 1
    BY <1>4 DEF InHand, f
  <2> QED BY <1>1, <1>3, <2>1 DEF Counted, q
<1>13. Counted'
  <2>1. \A v \in Threads : InHand(v)' = IF v = w THEN 0 ELSE InHand(v)
    BY <1>6 DEF InHand
  <2>2. \A v \in MiddleStages : pulled'[v] = pushed'[v] + InHand(v)'
    BY <1>1, <1>2, <1>3, <1>8, <2>1 DEF Counted, MiddleStages
  <2>3. \A v \in LastStage : pulled'[v] = Len(used'[v]) + InHand(v)'
    <3> TAKE v \in LastStage
    <3>1. CASE v = w
      <4>1. Len(used'[v]) = Len(q) + 1 /\ pulled'[v] = Len(q) + 1
        BY <1>2, <1>5, <1>6, <1>12, <3>1
      <4>2. InHand(v)' = 0 /\ Len(q) \in Nat
        BY <1>5, <1>8, <2>1, <3>1
      <4> QED BY <4>1, <4>2
    <3>2. CASE v # w
      BY <1>1, <1>2, <1>6, <1>8, <2>1, <3>2 DEF Counted
    <3> QED BY <3>1, <3>2
  <2> QED BY <2>2, <2>3 DEF Counted
<1>14. \A v \in Threads : PullRank(v)' = PullRank(v)
  BY <1>2 DEF PullRank
<1>15. Rank(f) = w[2] + ((Len(q) + 1) - 1) * Replicas[NStages]
  <2> DEFINE t == w[2]  R == Replicas[NStages]  n == Len(q)
  <2>1. Rank(f) = PullRank(w) - R
    BY <1>1, <1>3, <1>4 DEF InTurn, f
  <2>2. PullRank(w) = t + (n + 1) * R
    BY <1>3, <1>12 DEF PullRank
  <2>3. R \in Nat \ {0} /\ t \in 0 .. R - 1 /\ n \in Int
    BY <1>1, <1>3, <1>5, RankFacts
  <2> HIDE DEF t, R, n
  <2>4. t + (n + 1) * R = (t + n * R) + R /\ t + n * R \in Int
    BY <2>3, Strides
  <2>5. Rank(f) = t + n * R
    BY <2>1, <2>2, <2>3, <2>4
  <2>6. (n + 1) - 1 = n
    BY <2>3
  <2> QED BY <2>5, <2>6 DEF t, R, n
<1>16. InTurn'
  <2>1. \A v \in Threads \ FirstStage :
            frame'[v] # NoFrame => Rank(frame'[v]) = PullRank(v)' - Replicas[v[1]]
    BY <1>1, <1>6, <1>14 DEF InTurn
  <2>2. \A v \in LastStage : \A n \in 1 .. Len(used'[v]) :
            Rank(used'[v][n]) = v[2] + (n - 1) * Replicas[NStages]
    <3> TAKE v \in LastStage
    <3> TAKE n \in 1 .. Len(used'[v])
    <3>1. CASE v # w
      BY <1>1, <1>6, <3>1 DEF InTurn
    <3>2. CASE v = w
      <4>1. used'[v] = Append(q, f) /\ n \in 1 .. Len(q) + 1
        BY <1>5, <1>6, <3>2
      <4>2. used'[v][n] = IF n = Len(q) + 1 THEN f ELSE q[n]
        BY <1>5, <4>1
      <4>3. CASE n = Len(q) + 1
        BY <1>15, <3>2, <4>2, <4>3
      <4>4. CASE n # Len(q) + 1
        <5>1. n \in 1 .. Len(q)
          BY <1>5, <4>1, <4>4
        <5> QED BY <1>1, <3>2, <4>2, <4>4, <5>1 DEF InTurn, q
      <4> QED BY <4>3, <4>4
    <3> QED BY <3>1, <3>2
  <2> QED BY <2>1, <2>2 DEF InTurn, Rank
<1>17. Chained'
  BY <1>1, <1>2 DEF Chained, NextIn, NextOut, PullRank, PushRank, Rank
<1>18. Genuine'
  <2>1. \A v \in Threads : frame'[v] # NoFrame => IsMade(frame'[v])
    BY <1>1, <1>6 DEF Genuine
  <2>2. \A v \in LastStage : \A n \in 1 .. Len(used'[v]) : IsMade(used'[v][n])
    <3> TAKE v \in LastStage
    <3> TAKE n \in 1 .. Len(used'[v])
    <3>1. CASE v # w
      BY <1>1, <1>6, <3>1 DEF Genuine
    <3>2. CASE v = w
      <4>1. used'[v] = Append(q, f) /\ n \in 1 .. Len(q) + 1
        BY <1>5, <1>6, <3>2
      <4>2. used'[v][n] = IF n = Len(q) + 1 THEN f ELSE q[n]
        BY <1>5, <4>1
      <4>3. IsMade(f)
        BY <1>1, <1>4 DEF Genuine, f
      <4>4. n # Len(q) + 1 => n \in 1 .. Len(q)
        BY <1>5, <4>1
      <4>5. \A i \in 1 .. Len(q) : IsMade(q[i])
        BY <1>1, <1>3 DEF Genuine, q
      <4> QED BY <4>2, <4>3, <4>4, <4>5
    <3> QED BY <3>1, <3>2
  <2> QED BY <1>1, <1>2, <2>1, <2>2 DEF Genuine, IsMade
<1>19. Drained'
  <2> SUFFICES ASSUME AsBuilt', Quiet', NEW v \in Threads \ FirstStage, pc'[v] = "end"
               PROVE  /\ Returned(v[1] - 1)'
                      /\ ring'[v[1] - 1][PullChannel(v)'] = <<>>
                      /\ frame'[v] = NoFrame
    BY DEF Drained
  <2>1. v # w /\ pc[v] = "end"
    BY <1>6
  <2>2. Returned(v[1] - 1) /\ ring[v[1] - 1][PullChannel(v)] = <<>> /\ frame[v] = NoFrame
    BY <1>1, <1>7, <2>1 DEF Drained
  <2>3. PullChannel(v)' = PullChannel(v) /\ v[1] - 1 \in Stages
    BY <1>2, ThreadFacts, StageFacts DEF PullChannel
  <2> QED BY <1>2, <1>6, <1>7, <2>1, <2>2, <2>3
<1> QED BY <1>7, <1>9, <1>10, <1>11, <1>13, <1>16, <1>17, <1>18, <1>19 DEF IInv
\* push: the frame that the thread has in its hands, or makes, is the next one of
\* the channel.
LEMMA PushFacts ==
    ASSUME IInv, NEW w \in Threads, Push(w)
    PROVE  LET s == w[1]  c == PushChannel(w)  q == ring[s][c]
           IN  /\ w \in Threads \ LastStage /\ s \in Adaptors /\ c \in Channels(s)
               /\ q \in Seq(Nat \X Nat) /\ Len(q) < BufferSize
               /\ Made(w) \in Nat \X Nat
               /\ Rank(Made(w)) = PushRank(w)
               /\ IF w \in FirstStage THEN Made(w) = <<w[2], pushed[w]>>
                  ELSE Made(w) = frame[w] /\ frame[w] # NoFrame /\ IsMade(frame[w])
                        /\ pulled[w] = pushed[w] + 1
               /\ \A r \in Adaptors : \A d \in Channels(r) :
                    ring'[r][d] = IF r = s /\ d = c THEN Append(q, Made(w)) ELSE ring[r][d]
<1> DEFINE s == w[1]  c == PushChannel(w)  q == ring[s][c]
<1>1. TypeOK /\ Held /\ Shaped /\ Counted /\ InTurn /\ Genuine
  BY DEF IInv
<1>2. w \in Threads \ LastStage /\ pc[w] = "push"
  BY <1>1, WhereFacts DEF Push
<1>3. s \in Adaptors /\ c \in Channels(s)
  BY <1>1, <1>2, PushSideFacts
<1>4. q \in Seq(Nat \X Nat) /\ Len(q) < BufferSize
  BY <1>1, <1>3 DEF TypeOK, Push, HasRoom
<1>5. ring' = [ring EXCEPT ![s][c] = Append(@, Made(w))]
  BY DEF Push
<1>6. \A r \in Adaptors : \A d \in Channels(r) :
         ring'[r][d] = IF r = s /\ d = c THEN Append(q, Made(w)) ELSE ring[r][d]
  BY <1>1, <1>5 DEF Shaped
<1>7. ASSUME w \in FirstStage
      PROVE  Made(w) = <<w[2], pushed[w]>> /\ Made(w) \in Nat \X Nat /\ Rank(Made(w)) = PushRank(w)
  <2>1. Made(w) = <<w[2], pushed[w]>> /\ w[1] = 1
    BY <1>7, ThreadFacts DEF Made
  <2>2. w[2] \in Nat /\ pushed[w] \in Nat
    BY <1>1, ThreadFacts DEF TypeOK
  <2> QED BY <2>1, <2>2 DEF Rank, PushRank
<1>8. ASSUME w \notin FirstStage
      PROVE  /\ Made(w) = frame[w] /\ frame[w] # NoFrame /\ IsMade(frame[w])
             /\ pulled[w] = pushed[w] + 1
             /\ Made(w) \in Nat \X Nat /\ Rank(Made(w)) = PushRank(w)
  <2>1. Made(w) = frame[w] /\ frame[w] # NoFrame
    BY <1>1, <1>2, <1>8 DEF Made, Held
  <2>2. IsMade(frame[w]) /\ frame[w] \in Nat \X Nat
    BY <1>1, <2>1 DEF Genuine, TypeOK
  <2>3. pulled[w] = pushed[w] + 1
    <3>1. w \in MiddleStages /\ InHand(w) = 1
      BY <1>2, <1>8, <2>1 DEF MiddleStages, InHand
    <3> QED BY <1>1, <3>1 DEF Counted
  <2>4. Rank(frame[w]) = PullRank(w) - Replicas[w[1]]
    BY <1>1, <1>2, <1>8, <2>1 DEF InTurn
  <2>5. PullRank(w) - Replicas[w[1]] = PushRank(w)
    <3> DEFINE t == w[2]  R == Replicas[w[1]]  n == pushed[w]
    <3>1. PullRank(w) = t + (n + 1) * R /\ PushRank(w) = t + n * R
      BY <2>3 DEF PullRank, PushRank
    <3>2. R \in Nat \ {0} /\ t \in 0 .. R - 1 /\ n \in Int
      BY <1>1, RankFacts
    <3> HIDE DEF t, R, n
    <3>3. t + (n + 1) * R = (t + n * R) + R /\ t + n * R \in Int
      BY <3>2, Strides
    <3>4. PullRank(w) - R = PushRank(w)
      BY <3>1, <3>2, <3>3
    <3> QED BY <3>4 DEF R
  <2> QED BY <2>1, <2>2, <2>3, <2>4, <2>5
<1> QED BY <1>2, <1>3, <1>4, <1>6, <1>7, <1>8

\* A push adds, to the channel whose turn it is, the frame that comes next there.
LEMMA PushInv ==
    ASSUME IInv, NEW w \in Threads, Push(w),
           UNCHANGED <<canceled, limit, control, todo, runs>>
    PROVE  IInv'
<1> DEFINE s == w[1]  c == PushChannel(w)  q == ring[s][c]  f == Made(w)
<1>1. TypeOK /\ Held /\ Shaped /\ Counted /\ InTurn /\ Chained /\ Genuine /\ Drained
  BY DEF IInv
<1>2. /\ w \in Threads \ LastStage /\ s \in Adaptors /\ c \in Channels(s)
      /\ q \in Seq(Nat \X Nat) /\ Len(q) < BufferSize
      /\ f \in Nat \X Nat /\ Rank(f) = PushRank(w)
      /\ IF w \in FirstStage THEN f = <<w[2], pushed[w]>>
         ELSE f = frame[w] /\ frame[w] # NoFrame /\ IsMade(frame[w]) /\ pulled[w] = pushed[w] + 1
      /\ \A r \in Adaptors : \A d \in Channels(r) :
            ring'[r][d] = IF r = s /\ d = c THEN Append(q, f) ELSE ring[r][d]
  BY PushFacts
<1>3. /\ pc[w] = "push" /\ pc' = [pc EXCEPT ![w] = "test"]
      /\ frame' = [frame EXCEPT ![w] = NoFrame]
      /\ pushed' = [pushed EXCEPT ![w] = @ + 1]
      /\ ring' = [ring EXCEPT ![s][c] = Append(@, f)]
      /\ pulled' = pulled /\ used' = used /\ calls' = calls
  BY DEF Push, Goto
<1> HIDE DEF f
<1>4. /\ Len(q) \in Nat
      /\ Append(q, f) \in Seq(Nat \X Nat) /\ Len(Append(q, f)) = Len(q) + 1
      /\ \A i \in 1 .. Len(q) + 1 : Append(q, f)[i] = IF i = Len(q) + 1 THEN f ELSE q[i]
  <2> HIDE DEF q
  <2> QED BY <1>2, AppendFacts
<1> HIDE DEF s, c, q
<1>5. /\ \A v \in Threads : pc'[v] = IF v = w THEN "test" ELSE pc[v]
      /\ \A v \in Threads : frame'[v] = IF v = w THEN NoFrame ELSE frame[v]
      /\ \A v \in Threads : pushed'[v] = IF v = w THEN pushed[w] + 1 ELSE pushed[v]
  BY <1>1, <1>3 DEF TypeOK
<1>6. /\ \A r \in Stages : Returned(r) => Returned(r)'
      /\ Controlled' /\ CanceledBy' /\ (AsBuilt' <=> AsBuilt) /\ (Quiet' <=> Quiet)
  <2>1. pc[w] # "end"
    BY <1>3
  <2> QED BY <1>3, <2>1, LoopKeeps
<1>7. FirstStage \subseteq Threads /\ LastStage \subseteq Threads /\ MiddleStages \subseteq Threads
  BY ThreadFacts DEF MiddleStages
<1>8. \A v \in Threads : pushed[v] \in Nat /\ pulled[v] \in Nat
  BY <1>1 DEF TypeOK
<1>9. TypeOK'
  <2>1. pc' \in [Threads -> {"pull", "push", "use", "test", "end"}]
    BY <1>1, <1>3 DEF TypeOK
  <2>2. frame' \in [Threads -> Nat \X Nat \cup {NoFrame}] /\ pushed' \in [Threads -> Nat]
    BY <1>1, <1>3 DEF TypeOK
  <2>3. \A r \in Adaptors : \A d \in Channels(r) :
            ring'[r][d] \in Seq(Nat \X Nat) /\ Len(ring'[r][d]) <= BufferSize
    <3>1. Len(Append(q, f)) <= BufferSize
      BY <1>2, <1>4, StageFacts
    <3>2. \A r \in Adaptors : \A d \in Channels(r) :
            ring[r][d] \in Seq(Nat \X Nat) /\ Len(ring[r][d]) <= BufferSize
      BY <1>1 DEF TypeOK
    <3> TAKE r \in Adaptors
    <3> TAKE d \in Channels(r)
    <3>3. ring'[r][d] = Append(q, f) \/ ring'[r][d] = ring[r][d]
      BY <1>2
    <3> QED BY <1>4, <3>1, <3>2, <3>3
  <2> QED BY <1>1, <1>3, <2>1, <2>2, <2>3 DEF TypeOK
<1>10. Shaped'
  BY <1>1, <1>3 DEF Shaped
<1>11. Held'
  <2>1. \A v \in LastStage : v # w
    BY <1>2
  <2>2. \A v \in FirstStage : frame'[v] = NoFrame /\ pc'[v] \in {"push", "test", "end"}
    BY <1>1, <1>5, <1>7 DEF Held
  <2>3. \A v \in MiddleStages : pc'[v] \in {"pull", "push", "test", "end"}
    BY <1>1, <1>5, <1>7 DEF Held
  <2>4. \A v \in LastStage : pc'[v] \in {"pull", "use", "test", "end"}
    BY <1>1, <1>5, <1>7, <2>1 DEF Held
  <2>5. \A v \in Threads \ FirstStage :
            /\ pc'[v] \in {"push", "use"} => frame'[v] # NoFrame
            /\ pc'[v] \in {"pull", "test"} => frame'[v] = NoFrame
    BY <1>1, <1>5 DEF Held
  <2> QED BY <2>2, <2>3, <2>4, <2>5 DEF Held
<1>12. Counted'
  <2>1. \A v \in Threads : InHand(v)' = IF v = w THEN 0 ELSE InHand(v)
    BY <1>5 DEF InHand
  <2>2. \A v \in MiddleStages : pulled'[v] = pushed'[v] + InHand(v)'
    <3> TAKE v \in MiddleStages
    <3>1. CASE v = w
      <4>1. pulled[w] = pushed[w] + 1
        BY <1>2, <3>1 DEF MiddleStages
      <4> QED BY <1>3, <1>5, <1>7, <1>8, <2>1, <3>1, <4>1
    <3>2. CASE v # w
      BY <1>1, <1>3, <1>5, <1>7, <2>1, <3>2 DEF Counted
    <3> QED BY <3>1, <3>2
  <2>3. \A v \in LastStage : pulled'[v] = Len(used'[v]) + InHand(v)'
    BY <1>1, <1>2, <1>3, <1>7, <2>1 DEF Counted
  <2> QED BY <2>2, <2>3 DEF Counted
<1>13. \A v \in Threads : PullRank(v)' = PullRank(v)
  BY <1>3 DEF PullRank
<1>14. InTurn'
  <2>1. \A v \in Threads \ FirstStage :
            frame'[v] # NoFrame => Rank(frame'[v]) = PullRank(v)' - Replicas[v[1]]
    BY <1>1, <1>5, <1>13 DEF InTurn
  <2> QED BY <1>1, <1>3, <2>1 DEF InTurn, Rank
<1>15. Chained'
  <2> SUFFICES ASSUME NEW r \in Adaptors, NEW d \in Channels(r)
               PROVE  /\ NextIn(r, d)' = NextOut(r, d)' + Len(ring'[r][d]) * NChannels(r)
                      /\ \A i \in 1 .. Len(ring'[r][d]) :
                            Rank(ring'[r][d][i]) = NextOut(r, d)' + (i - 1) * NChannels(r)
    BY DEF Chained, Rank
  <2>1. NextOut(r, d)' = NextOut(r, d)
    BY <1>3 DEF NextOut, PullRank
  <2>2. /\ NextIn(r, d) = NextOut(r, d) + Len(ring[r][d]) * NChannels(r)
        /\ \A i \in 1 .. Len(ring[r][d]) :
                Rank(ring[r][d][i]) = NextOut(r, d) + (i - 1) * NChannels(r)
    BY <1>1 DEF Chained
  <2>3. CASE ~ (r = s /\ d = c)
    <3>1. NextIn(r, d)' = NextIn(r, d)
      <4>1. ~ (r = w[1] /\ d = PushChannel(w))
        BY <2>3 DEF s, c
      <4> QED BY <1>1, <1>2, <1>3, <4>1, PushMoves
    <3>2. ring'[r][d] = ring[r][d]
      BY <1>2, <2>3
    <3> QED BY <2>1, <2>2, <3>1, <3>2
  <2>4. CASE r = s /\ d = c
    <3> DEFINE N == NChannels(r)  o == NextOut(r, d)  n == Len(q)
    <3>1. NextIn(r, d) = PushRank(w) /\ NextIn(r, d)' = PushRank(w) + N
      BY <1>1, <1>2, <1>3, <2>4, PushMoves DEF s, c
    <3>2. ring'[r][d] = Append(q, f) /\ ring[r][d] = q
      BY <1>2, <2>4 DEF q
    <3>3. N \in Int /\ o \in Int /\ n \in Int
      BY <1>1, <1>4, NextFacts
    <3>4. NextIn(r, d) = o + n * N /\ \A i \in 1 .. n : Rank(q[i]) = o + (i - 1) * N
      BY <2>2, <3>2
    <3> HIDE DEF N, o
    <3>5. NextIn(r, d)' = o + (n + 1) * N
      <4> HIDE DEF n
      <4> QED BY <3>1, <3>3, <3>4, Rounds
    <3>6. \A i \in 1 .. n + 1 : Rank(Append(q, f)[i]) = o + (i - 1) * N
      <4> TAKE i \in 1 .. n + 1
      <4>1. Append(q, f)[i] = IF i = n + 1 THEN f ELSE q[i]
        BY <1>4
      <4>2. CASE i = n + 1
        <5>1. i - 1 = n
          BY <3>3, <4>2
        <5>2. Rank(f) = o + n * N
          BY <1>2, <3>1, <3>4
        <5> QED BY <4>1, <4>2, <5>1, <5>2
      <4>3. CASE i # n + 1
        <5>1. i \in 1 .. n
          BY <1>4, <4>3
        <5> QED BY <3>4, <4>1, <4>3, <5>1
      <4> QED BY <4>2, <4>3
    <3> QED BY <1>4, <2>1, <3>2, <3>5, <3>6 DEF N, o
  <2> QED BY <2>3, <2>4
<1>16. Genuine'
  <2> DEFINE MadeThen(g) == g[1] \in Team(1) /\ g[2] \in Nat /\ g[2] < pushed'[<<1, g[1]>>]
  <2>1. \A g : IsMade(g) => MadeThen(g)
    <3>1. \A t \in Team(1) : <<1, t>> \in Threads
      BY StageFacts, ThreadFacts
    <3>2. \A t \in Team(1) : pushed[<<1, t>>] \in Nat /\ pushed'[<<1, t>>] \in Nat
                                /\ pushed[<<1, t>>] <= pushed'[<<1, t>>]
      <4>1. \A v \in Threads : pushed'[v] \in Nat /\ pushed[v] <= pushed'[v]
        BY <1>5, <1>8
      <4> QED BY <1>8, <3>1, <4>1
    <3> QED BY <3>2 DEF IsMade
  <2>2. MadeThen(f)
    <3>1. CASE w \in FirstStage
      <4>1. f = <<w[2], pushed[w]>> /\ w = <<1, w[2]>> /\ w[2] \in Team(1)
        BY <1>2, <3>1, ThreadFacts
      <4>2. pushed'[w] = pushed[w] + 1 /\ pushed[w] \in Nat
        BY <1>5, <1>8
      <4>3. f[1] = w[2] /\ f[2] = pushed[w]
        BY <4>1
      <4>4. <<1, f[1]>> = w /\ f[1] \in Team(1)
        BY <4>1, <4>3
      <4> QED BY <4>2, <4>3, <4>4
    <3>2. CASE w \notin FirstStage
      BY <1>2, <2>1, <3>2
    <3> QED BY <3>1, <3>2
  <2> HIDE DEF MadeThen
  <2>3. \A r \in Adaptors : \A d \in Channels(r) :
            \A i \in 1 .. Len(ring'[r][d]) : MadeThen(ring'[r][d][i])
    <3> TAKE r \in Adaptors
    <3> TAKE d \in Channels(r)
    <3> TAKE i \in 1 .. Len(ring'[r][d])
    <3>1. CASE ~ (r = s /\ d = c)
      <4>1. ring'[r][d] = ring[r][d]
        BY <1>2, <3>1
      <4>2. IsMade(ring[r][d][i])
        BY <1>1, <4>1 DEF Genuine
      <4> QED BY <2>1, <4>1, <4>2
    <3>2. CASE r = s /\ d = c
      <4>1. ring'[r][d] = Append(q, f) /\ i \in 1 .. Len(q) + 1
        BY <1>2, <1>4, <3>2
      <4>2. ring'[r][d][i] = IF i = Len(q) + 1 THEN f ELSE q[i]
        BY <1>4, <4>1
      <4>3. i # Len(q) + 1 => i \in 1 .. Len(q)
        BY <1>4, <4>1
      <4>4. \A k \in 1 .. Len(q) : IsMade(q[k])
        BY <1>1, <1>2 DEF Genuine, q
      <4> QED BY <2>1, <2>2, <4>2, <4>3, <4>4
    <3> QED BY <3>1, <3>2
  <2>4. \A v \in Threads : frame'[v] # NoFrame => MadeThen(frame'[v])
    BY <1>1, <1>5, <2>1 DEF Genuine
  <2>5. \A v \in LastStage : \A n \in 1 .. Len(used'[v]) : MadeThen(used'[v][n])
    BY <1>1, <1>3, <2>1 DEF Genuine
  <2> QED BY <2>3, <2>4, <2>5 DEF Genuine, IsMade, MadeThen
<1>17. Drained'
  <2> SUFFICES ASSUME AsBuilt', Quiet', NEW v \in Threads \ FirstStage, pc'[v] = "end"
               PROVE  /\ Returned(v[1] - 1)'
                      /\ ring'[v[1] - 1][PullChannel(v)'] = <<>>
                      /\ frame'[v] = NoFrame
    BY DEF Drained
  <2>1. v # w /\ pc[v] = "end"
    BY <1>5
  <2>2. Returned(v[1] - 1) /\ ring[v[1] - 1][PullChannel(v)] = <<>> /\ frame[v] = NoFrame
    BY <1>1, <1>6, <2>1 DEF Drained
  <2>3. PullChannel(v)' = PullChannel(v)
    BY <1>3 DEF PullChannel
  <2>4. v[1] - 1 \in Adaptors /\ PullChannel(v) \in Channels(v[1] - 1) /\ v[1] - 1 \in Stages
    BY <1>1, PullSideFacts, StageFacts
  <2>5. v[1] - 1 # s
    <3> SUFFICES ASSUME v[1] - 1 = s PROVE FALSE
      OBVIOUS
    <3>1. w[2] \in Team(w[1]) /\ w = <<w[1], w[2]>> /\ Returned(w[1])
      BY <2>2, ThreadFacts DEF s
    <3>2. pc[w] = "end"
      BY <3>1 DEF Returned
    <3> QED BY <1>3, <3>2
  <2>6. ring'[v[1] - 1][PullChannel(v)] = <<>>
    BY <1>2, <2>2, <2>4, <2>5
  <2> QED BY <1>5, <1>6, <2>1, <2>2, <2>3, <2>4, <2>6
<1> QED BY <1>6, <1>9, <1>10, <1>11, <1>12, <1>14, <1>15, <1>16, <1>17 DEF IInv
-----------------------------------------------------------------------------
(* The pool threads and the caller.                                        *)

\* A step of a pool thread or of the caller moves no frame.
LEMMA ControlKeeps ==
    ASSUME IInv, UNCHANGED loops, UNCHANGED <<limit, runs>>,
           canceled' \in [Instances -> BOOLEAN],
           control' \in [Stages -> {"stage", "cancel", "end"}],
           todo' \in [Stages -> Seq(Instances)],
           Controlled', CanceledBy'
    PROVE  IInv'
<1> USE DEF loops
<1>1. TypeOK /\ Held /\ Shaped /\ Counted /\ InTurn /\ Chained /\ Genuine /\ Drained
  BY DEF IInv
<1>2. TypeOK'
  BY <1>1 DEF TypeOK
<1>3. Shaped' /\ Held' /\ Counted'
  BY <1>1 DEF Shaped, Held, Counted, InHand
<1>4. InTurn'
  BY <1>1 DEF InTurn, PullRank, Rank
<1>5. Chained'
  BY <1>1 DEF Chained, NextIn, NextOut, PullRank, PushRank, Rank
<1>6. Genuine'
  BY <1>1 DEF Genuine, IsMade
<1>7. Drained'
  BY <1>1 DEF Drained, AsBuilt, Quiet, Returned, PullChannel
<1> QED BY <1>2, <1>3, <1>4, <1>5, <1>6, <1>7 DEF IInv

\* A pool thread that has something to cancel has returned from its stage.
LEMMA StageReturnsInv ==
    ASSUME IInv, NEW k \in Stages, StageReturns(k)
    PROVE  IInv'
<1>1. TypeOK /\ Controlled /\ CanceledBy
  BY DEF IInv
<1>2. /\ control[k] = "stage" /\ Returned(k)
      /\ control' = [control EXCEPT ![k] = "cancel"]
      /\ todo' = [todo EXCEPT ![k] = CancelList(k)]
      /\ UNCHANGED loops /\ UNCHANGED <<canceled, limit, runs>>
  BY DEF StageReturns
<1>3. CancelList(k) \in Seq(Instances) /\ (k # Caller => CancelList(k) \in Seq(PullInstances(k)))
  BY CancelListFacts
<1>4. /\ \A j \in Stages : control'[j] = IF j = k THEN "cancel" ELSE control[j]
      /\ \A j \in Stages : todo'[j] = IF j = k THEN CancelList(k) ELSE todo[j]
  BY <1>1, <1>2 DEF TypeOK
<1>5. /\ control' \in [Stages -> {"stage", "cancel", "end"}]
      /\ todo' \in [Stages -> Seq(Instances)]
  BY <1>1, <1>2, <1>3 DEF TypeOK
<1>6. Caller \in Stages /\ \A j \in Adaptors : j \in Stages
  BY StageFacts
<1>7. Controlled'
  <2> SUFFICES ASSUME NEW j \in Stages
               PROVE  /\ control'[j] # "stage" => Returned(j)'
                      /\ control'[j] # "cancel" => todo'[j] = <<>>
                      /\ control'[Caller] = "end" => control'[j] = "end"
                      /\ j # Caller => todo'[j] \in Seq(PullInstances(j))
    BY DEF Controlled
  <2>1. Returned(j)' <=> Returned(j)
    BY <1>2 DEF Returned, loops
  <2>2. control'[Caller] = "end" => control[Caller] = "end" /\ k # Caller
    BY <1>4, <1>6
  <2>3. control[Caller] # "end"
    BY <1>1, <1>2 DEF Controlled
  <2> QED BY <1>1, <1>2, <1>3, <1>4, <2>1, <2>2, <2>3 DEF Controlled
<1>8. CanceledBy'
  <2> SUFFICES ASSUME AsBuilt', NEW i \in Instances, canceled'[i]
               PROVE  \/ control'[Caller] # "stage"
                      \/ \E j \in Adaptors : control'[j] # "stage" /\ i \in PullInstances(j)
    BY DEF CanceledBy
  <2>1. AsBuilt /\ canceled[i]
    BY <1>2 DEF AsBuilt
  <2>2. \A j \in Stages : control[j] # "stage" => control'[j] # "stage"
    BY <1>4
  <2> QED BY <1>1, <1>6, <2>1, <2>2 DEF CanceledBy
<1>9. canceled' \in [Instances -> BOOLEAN]
  BY <1>1, <1>2 DEF TypeOK
<1> QED BY <1>2, <1>5, <1>7, <1>8, <1>9, ControlKeeps

\* Canceling one instance: the worker of stage k has seen its stage return.
LEMMA CancelWaitingInv ==
    ASSUME IInv, NEW k \in Stages, CancelWaiting(k)
    PROVE  IInv'
<1> DEFINE q == todo[k]  h == Head(todo[k])
<1>1. TypeOK /\ Controlled /\ CanceledBy
  BY DEF IInv
<1>2. /\ control[k] = "cancel" /\ q # <<>>
      /\ canceled' = [canceled EXCEPT ![h] = TRUE]
      /\ todo' = [todo EXCEPT ![k] = Tail(q)]
      /\ UNCHANGED loops /\ UNCHANGED <<limit, control, runs>>
  BY DEF CancelWaiting
<1>3. h \in Instances /\ Tail(q) \in Seq(Instances)
  <2>1. q \in Seq(Instances)
    BY <1>1 DEF TypeOK
  <2> QED BY <1>2, <2>1, PopFacts
<1>4. k # Caller => h \in PullInstances(k) /\ Tail(q) \in Seq(PullInstances(k))
  <2>1. k # Caller => q \in Seq(PullInstances(k))
    BY <1>1 DEF Controlled
  <2> QED BY <1>2, <2>1, PopFacts
<1> HIDE DEF q, h
<1>5. \A j \in Stages : todo'[j] = IF j = k THEN Tail(q) ELSE todo[j]
  BY <1>1, <1>2 DEF TypeOK
<1>6. /\ canceled' \in [Instances -> BOOLEAN]
      /\ control' \in [Stages -> {"stage", "cancel", "end"}]
      /\ todo' \in [Stages -> Seq(Instances)]
  BY <1>1, <1>2, <1>3 DEF TypeOK
<1>7. Controlled'
  <2> SUFFICES ASSUME NEW j \in Stages
               PROVE  /\ control[j] # "stage" => Returned(j)'
                      /\ control[j] # "cancel" => todo'[j] = <<>>
                      /\ control[Caller] = "end" => control[j] = "end"
                      /\ j # Caller => todo'[j] \in Seq(PullInstances(j))
    BY <1>2 DEF Controlled
  <2>1. Returned(j)' <=> Returned(j)
    BY <1>2 DEF Returned, loops
  <2> QED BY <1>1, <1>2, <1>4, <1>5, <2>1 DEF Controlled
<1>8. CanceledBy'
  <2> SUFFICES ASSUME AsBuilt', NEW i \in Instances, canceled'[i]
               PROVE  \/ control[Caller] # "stage"
                      \/ \E j \in Adaptors : control[j] # "stage" /\ i \in PullInstances(j)
    BY <1>2 DEF CanceledBy
  <2>1. AsBuilt
    BY <1>2 DEF AsBuilt
  <2>2. CASE i = h
    <3>1. k # Caller => k \in Adaptors
      BY StageFacts
    <3> QED BY <1>2, <1>4, <2>2, <3>1
  <2>3. CASE i # h
    <3>1. canceled[i]
      BY <1>1, <1>2, <2>3 DEF TypeOK
    <3> QED BY <1>1, <2>1, <3>1 DEF CanceledBy
  <2> QED BY <2>2, <2>3
<1> QED BY <1>2, <1>6, <1>7, <1>8, ControlKeeps

\* The end of a worker, and of the caller after the barrier.
LEMMA CancelEndsInv ==
    ASSUME IInv, NEW k \in Stages, CancelEnds(k)
    PROVE  IInv'
<1>1. TypeOK /\ Controlled /\ CanceledBy
  BY DEF IInv
<1>2. /\ control[k] = "cancel" /\ todo[k] = <<>>
      /\ k = Caller => \A j \in Adaptors : control[j] = "end"
      /\ control' = [control EXCEPT ![k] = "end"]
      /\ UNCHANGED loops /\ UNCHANGED <<canceled, limit, todo, runs>>
  BY DEF CancelEnds
<1>3. \A j \in Stages : control'[j] = IF j = k THEN "end" ELSE control[j]
  BY <1>1, <1>2 DEF TypeOK
<1>4. /\ canceled' \in [Instances -> BOOLEAN]
      /\ control' \in [Stages -> {"stage", "cancel", "end"}]
      /\ todo' \in [Stages -> Seq(Instances)]
  BY <1>1, <1>2 DEF TypeOK
<1>5. Caller \in Stages /\ \A j \in Adaptors : j \in Stages
  BY StageFacts
<1>6. Controlled'
  <2> SUFFICES ASSUME NEW j \in Stages
               PROVE  /\ control'[j] # "stage" => Returned(j)'
                      /\ control'[j] # "cancel" => todo[j] = <<>>
                      /\ control'[Caller] = "end" => control'[j] = "end"
                      /\ j # Caller => todo[j] \in Seq(PullInstances(j))
    BY <1>2 DEF Controlled
  <2>1. Returned(j)' <=> Returned(j)
    BY <1>2 DEF Returned, loops
  <2>2. control'[j] # "stage" => control[j] # "stage"
    BY <1>2, <1>3
  <2>3. control'[j] # "cancel" => todo[j] = <<>>
    BY <1>1, <1>2, <1>3 DEF Controlled
  <2>4. control'[Caller] = "end" => control'[j] = "end"
    <3>1. CASE k = Caller
      <4>1. j = Caller \/ j \in Adaptors
        BY StageFacts
      <4> QED BY <1>2, <1>3, <3>1, <4>1
    <3>2. CASE k # Caller
      BY <1>1, <1>3, <1>5, <3>2 DEF Controlled
    <3> QED BY <3>1, <3>2
  <2> QED BY <1>1, <2>1, <2>2, <2>3, <2>4 DEF Controlled
<1>7. CanceledBy'
  <2> SUFFICES ASSUME AsBuilt', NEW i \in Instances, canceled[i]
               PROVE  \/ control'[Caller] # "stage"
                      \/ \E j \in Adaptors : control'[j] # "stage" /\ i \in PullInstances(j)
    BY <1>2 DEF CanceledBy
  <2>1. AsBuilt
    BY <1>2 DEF AsBuilt
  <2>2. \A j \in Stages : control[j] # "stage" => control'[j] # "stage"
    BY <1>3
  <2> QED BY <1>1, <1>5, <2>1, <2>2 DEF CanceledBy
<1> QED BY <1>2, <1>4, <1>6, <1>7, ControlKeeps

-----------------------------------------------------------------------------
(* The invariant.                                                          *)

\* A step that changes nothing.
LEMMA StutterInv ==
    ASSUME IInv, UNCHANGED vars PROVE IInv'
<1>1. UNCHANGED loops /\ UNCHANGED <<canceled, limit, control, todo, runs>>
  BY DEF vars, loops
<1>2. Controlled' /\ CanceledBy'
  BY <1>1 DEF IInv, Controlled, CanceledBy, Returned, AsBuilt, loops
<1> QED BY <1>1, <1>2, ControlKeeps DEF IInv, TypeOK

\* Every step within one execution preserves the invariant; ExecAgain begins
\* another one (ExecAgainFresh).
LEMMA NextInv ==
    ASSUME IInv, [Next]_vars, ~ ExecAgain PROVE IInv'
<1>1. ASSUME NEW w \in Threads, Loop(w) PROVE IInv'
  <2>1. UNCHANGED <<canceled, limit, control, todo, runs>>
    BY <1>1 DEF Loop
  <2>2. CASE Pull(w)
    BY <2>1, <2>2, PullInv
  <2>3. CASE PullEnd(w)
    BY <2>1, <2>3, PullEndInv
  <2>4. CASE Push(w)
    BY <2>1, <2>4, PushInv
  <2>5. CASE PushEnd(w)
    BY <2>1, <2>5, PushEndInv
  <2>6. CASE Use(w)
    BY <2>1, <2>6, UseInv
  <2>7. CASE Test(w)
    BY <2>1, <2>7, TestInv
  <2> QED BY <1>1, <2>2, <2>3, <2>4, <2>5, <2>6, <2>7 DEF Loop
<1>2. ASSUME NEW k \in Stages, Control(k) PROVE IInv'
  BY <1>2, StageReturnsInv, CancelWaitingInv, CancelEndsInv DEF Control
<1>3. CASE Finished \/ UNCHANGED vars
  BY <1>3, StutterInv DEF Finished
<1> QED BY <1>1, <1>2, <1>3 DEF Next

\* The frames of a pipeline go through every stage in their order, whatever the
\* stages, their threads and the sizes of the channels.
THEOREM Invariance == Spec => []IInv
<1>1. Init => IInv
  BY InitFresh, FreshIInv
<1>2. IInv /\ [Next]_vars => IInv'
  <2>1. IInv /\ ExecAgain => IInv'
    <3>1. IInv /\ ExecAgain => Fresh'
      BY ExecAgainFresh
    <3>2. Fresh' => IInv'
      BY FreshIInv, PTL
    <3> QED BY <3>1, <3>2
  <2> QED BY <2>1, NextInv
<1> QED BY <1>1, <1>2, PTL DEF Spec

\* The variables of a pipeline keep their types, and no channel holds more than
\* its slots.
THEOREM TypeCorrect == Spec => []TypeOK
<1>1. IInv => TypeOK
  BY DEF IInv
<1> QED BY <1>1, Invariance, PTL

\* A pull is only canceled when nothing more will come or everything stops.
THEOREM CanceledCorrect == Spec => []CanceledInTurn
<1>1. IInv => CanceledInTurn
  BY PullCanceledBy DEF CanceledInTurn
<1> QED BY <1>1, Invariance, PTL
-----------------------------------------------------------------------------
(* From stage to stage.                                                    *)

\* The frame of rank j has come out of, or gone into, the channels of stage s.
WasPulled(s, j) == j < PullRank(<<s, j % Replicas[s]>>)
WasPushed(s, j) == j < PushRank(<<s, j % Replicas[s]>>)

\* That shows on the two sides of its channel.
LEMMA ChannelTurn ==
    ASSUME TypeOK, NEW s \in Adaptors, NEW j \in Int
    PROVE  LET c == j % NChannels(s)
           IN  /\ c \in Channels(s)
               /\ WasPushed(s, j) <=> j < NextIn(s, c)
               /\ WasPulled(s + 1, j) <=> j < NextOut(s, c)
<1> DEFINE N == NChannels(s)  c == j % N
           v == <<s, j % Replicas[s]>>  w == <<s + 1, j % Replicas[s + 1]>>
<1>1. /\ N \in Nat \ {0} /\ c \in Channels(s) /\ c \in Int /\ c % N = j % N
      /\ Pusher(s, c) = v /\ Puller(s, c) = w /\ v \in Threads /\ w \in Threads
  BY SideFacts
<1>2. PushRank(v) \in Int /\ PullRank(w) \in Int
  BY <1>1, RankFacts
<1>3. NextIn(s, c) = After(PushRank(v), c, N) /\ NextOut(s, c) = After(PullRank(w), c, N)
  BY <1>1 DEF NextIn, NextOut
<1> HIDE DEF N, c, v, w
<1>4. /\ j < PushRank(v) <=> j < After(PushRank(v), c, N)
      /\ j < PullRank(w) <=> j < After(PullRank(w), c, N)
  BY <1>1, <1>2, AfterBelow
<1> QED BY <1>1, <1>3, <1>4 DEF WasPushed, WasPulled, N, c, v, w

\* What comes out of a channel has gone into it, and what goes into it waits for
\* the frame that was in its slot.
LEMMA ChannelFlow ==
    ASSUME IInv, NEW s \in Adaptors, NEW j \in Int
    PROVE  /\ NChannels(s) * BufferSize \in Nat
           /\ WasPulled(s + 1, j) => WasPushed(s, j)
           /\ WasPushed(s, j) => WasPulled(s + 1, j - NChannels(s) * BufferSize)
<1> DEFINE N == NChannels(s)  c == j % N  n == Len(ring[s][c])
           o == NextOut(s, c)  B == BufferSize
<1>1. TypeOK /\ Chained
  BY DEF IInv
<1>2. c \in Channels(s) /\ (WasPushed(s, j) <=> j < NextIn(s, c)) /\ (WasPulled(s + 1, j) <=> j < o)
  BY <1>1, ChannelTurn
<1>3. N \in Nat \ {0} /\ B \in Nat \ {0} /\ n \in Nat /\ n <= B /\ o \in Int
  <2>1. ring[s][c] \in Seq(Nat \X Nat) /\ Len(ring[s][c]) <= BufferSize
    BY <1>1, <1>2 DEF TypeOK
  <2>2. n \in Nat
    BY <2>1
  <2>3. NChannels(s) \in Nat \ {0} /\ NextOut(s, c) \in Int
    BY <1>1, <1>2, NextFacts
  <2> QED BY <2>1, <2>2, <2>3, StageFacts
<1>4. NextIn(s, c) = o + n * N
  BY <1>1, <1>2 DEF Chained
<1> DEFINE nN == n * N  NB == N * B
<1>5. nN \in Nat /\ NB \in Nat /\ nN <= NB
  <2> DEFINE e == B - n
  <2>1. e \in Nat /\ B = n + e
    BY <1>3
  <2> HIDE DEF e, N, B, n
  <2>2. N * (n + e) = n * N + e * N /\ n * N \in Nat /\ e * N \in Nat
    BY <1>3, <2>1
  <2>3. NB = n * N + e * N
    BY <2>1, <2>2
  <2> QED BY <2>2, <2>3
<1>6. (j - NB) % N = j % N /\ j - NB \in Int
  <2> DEFINE i == j - NB  k == -B
  <2>1. i = j + k * N /\ k \in Int /\ i \in Int
    BY <1>3, <1>5
  <2> HIDE DEF i, k, N
  <2>2. i % N = j % N
    BY <1>3, <2>1, ModCongruent
  <2> QED BY <2>1, <2>2 DEF i
<1>7. WasPulled(s + 1, j - NB) <=> j - NB < o
  <2> DEFINE i == j - NB
  <2>1. i \in Int /\ i % N = c
    BY <1>6
  <2> HIDE DEF i, c
  <2>2. WasPulled(s + 1, i) <=> i < NextOut(s, i % NChannels(s))
    BY <1>1, <2>1, ChannelTurn
  <2> QED BY <2>1, <2>2 DEF i
<1> HIDE DEF N, c, n, o, nN, NB
<1>8. NextIn(s, c) = o + nN
  BY <1>4 DEF nN
<1>9. WasPulled(s + 1, j) => WasPushed(s, j)
  BY <1>2, <1>3, <1>5, <1>8
<1>10. WasPushed(s, j) => WasPulled(s + 1, j - NB)
  BY <1>2, <1>3, <1>5, <1>7, <1>8
<1> QED BY <1>5, <1>9, <1>10 DEF NB, N

\* A thread between two stages has pushed what it has pulled, but for the frame in
\* its hands.
LEMMA HandRanks ==
    ASSUME IInv, NEW w \in MiddleStages
    PROVE  PullRank(w) = IF frame[w] = NoFrame THEN PushRank(w) ELSE PushRank(w) + Replicas[w[1]]
<1> DEFINE t == w[2]  R == Replicas[w[1]]  n == pushed[w]
<1>1. TypeOK /\ Counted /\ w \in Threads
  BY DEF IInv, MiddleStages
<1>2. R \in Nat \ {0} /\ t \in 0 .. R - 1 /\ n \in Int
  BY <1>1, RankFacts
<1>3. pulled[w] = IF frame[w] = NoFrame THEN n ELSE n + 1
  BY <1>1, <1>2 DEF Counted, InHand
<1>4. PullRank(w) = t + pulled[w] * R /\ PushRank(w) = t + n * R
  BY DEF PullRank, PushRank
<1> HIDE DEF t, R, n
<1>5. t + (n + 1) * R = (t + n * R) + R
  BY <1>2, Strides
<1>6. PullRank(w) = IF frame[w] = NoFrame THEN PushRank(w) ELSE PushRank(w) + R
  BY <1>3, <1>4, <1>5
<1> QED BY <1>6 DEF R

\* So a stage between two others has pulled what it has pushed, and pushed what it
\* has pulled but for one frame of each thread.
LEMMA HandsFlow ==
    ASSUME IInv, NEW s \in Adaptors, s # 1, NEW j \in Int
    PROVE  /\ Replicas[s] \in Nat
           /\ WasPushed(s, j) => WasPulled(s, j)
           /\ WasPulled(s, j) => WasPushed(s, j - Replicas[s])
<1> DEFINE R == Replicas[s]  w == <<s, j % R>>  i == j - R
<1>1. TypeOK
  BY DEF IInv
<1>2. R \in Nat \ {0} /\ s \in Stages /\ s # NStages
  BY StageFacts
<1>3. w \in MiddleStages /\ w \in Threads /\ w[1] = s
  <2>1. w \in Threads /\ w[1] = s
    BY SideFacts, ThreadFacts, <1>2
  <2> QED BY <1>2, <2>1, ThreadFacts DEF MiddleStages
<1>4. i \in Int /\ i % R = j % R
  <2>1. i \in Int /\ i = j + (-1) * R /\ -1 \in Int
    BY <1>2
  <2> HIDE DEF i, R
  <2> QED BY <1>2, <2>1, ModCongruent
<1>5. PullRank(w) = IF frame[w] = NoFrame THEN PushRank(w) ELSE PushRank(w) + R
  BY <1>3, HandRanks
<1>6. PullRank(w) \in Int /\ PushRank(w) \in Int
  BY <1>1, <1>3, RankFacts
<1>7. /\ WasPushed(s, j) <=> j < PushRank(w)
      /\ WasPulled(s, j) <=> j < PullRank(w)
      /\ WasPushed(s, i) <=> i < PushRank(w)
  BY <1>4 DEF WasPushed, WasPulled
<1> HIDE DEF w, R
<1>8. (j < PushRank(w) => j < PullRank(w)) /\ (j < PullRank(w) => i < PushRank(w))
  BY <1>2, <1>5, <1>6
<1> QED BY <1>2, <1>7, <1>8 DEF R

-----------------------------------------------------------------------------
(* The end of an execution that its source decides.                        *)

\* When stage s has pushed the frames before K, and the channels after it are
\* empty, the next stage has pulled these frames.
LEMMA FlushedStep ==
    ASSUME IInv, NEW s \in Adaptors, NEW K \in Int,
           \A t \in Team(s) : K <= PushRank(<<s, t>>) /\ PushRank(<<s, t>>) < K + Replicas[s],
           NEW t \in Team(s + 1), ring[s][PullChannel(<<s + 1, t>>)] = <<>>
    PROVE  K <= PullRank(<<s + 1, t>>) /\ PullRank(<<s + 1, t>>) < K + Replicas[s + 1]
<1> DEFINE w == <<s + 1, t>>  x == PullRank(w)  N == NChannels(s)  c == x % N
           R == Replicas[s]  Q == Replicas[s + 1]
<1>1. TypeOK /\ Chained
  BY DEF IInv
<1>2. s + 1 \in Stages /\ s + 1 # 1 /\ s \in Stages /\ R \in Nat \ {0} /\ Q \in Nat \ {0}
  BY StageFacts
<1>3. w \in Threads \ FirstStage /\ w[1] = s + 1 /\ w[1] - 1 = s
  BY <1>2, ThreadFacts, StageFacts
<1>4. x \in Nat /\ x % Q = t
  BY <1>1, <1>3, RankFacts
<1>5. c = PullChannel(w) /\ c \in Channels(s) /\ c % N = c /\ Puller(s, c) = w
  BY <1>1, <1>3, PullSideFacts
<1>6. N \in Nat \ {0} /\ c \in Int /\ x % N = c % N
  BY <1>1, <1>5, NextFacts
<1>7. NextOut(s, c) = x
  <2>1. NextOut(s, c) = After(x, c, N)
    BY <1>5 DEF NextOut
  <2>2. x \in Int /\ x <= x /\ x < x + N
    <3> HIDE DEF x, c, N
    <3> QED BY <1>4, <1>6
  <2> HIDE DEF x, c, N
  <2>3. x \in Int /\ N \in Nat \ {0} /\ c \in Int /\ x % N = c % N
    BY <1>6, <2>2
  <2> QED BY ONLY <2>1, <2>2, <2>3, AfterUnique, Zenon
<1>8. NextIn(s, c) = x
  <2>1. Len(ring[s][c]) = 0
    BY <1>5
  <2>2. NextIn(s, c) = x + 0 * N
    BY <1>1, <1>5, <1>7, <2>1 DEF Chained
  <2> HIDE DEF x, N
  <2> QED BY <1>4, <1>6, <2>2
<1>9. K <= x
  <2>1. NextIn(s, c) >= PushRank(Pusher(s, c))
    BY <1>1, <1>5, NextFacts
  <2>2. Pusher(s, c) = <<s, x % R>> /\ x % R \in Team(s) /\ Pusher(s, c) \in Threads
    BY <1>4, SideFacts
  <2>3. K <= PushRank(Pusher(s, c)) /\ PushRank(Pusher(s, c)) \in Int
    BY <1>1, <2>2, RankFacts
  <2> HIDE DEF x, c
  <2> QED BY <1>4, <1>8, <2>1, <2>3
<1>10. x < K + Q
  <2> SUFFICES ASSUME x >= K + Q PROVE FALSE
    BY <1>2, <1>4
  <2> DEFINE j == x - Q  v == <<s, j % R>>
  <2>1. j \in Int /\ j % Q = t /\ j < x /\ K <= j
    <3>1. j \in Int /\ j = x + (-1) * Q /\ -1 \in Int /\ x \in Int /\ j < x /\ K <= j
      BY <1>2, <1>4
    <3> HIDE DEF j, x, Q
    <3>2. j % Q = x % Q
      BY <1>2, <3>1, ModCongruent
    <3> QED BY <1>4, <3>1, <3>2
  <2>2. WasPulled(s + 1, j)
    BY <2>1 DEF WasPulled
  <2>3. WasPushed(s, j)
    BY <2>1, <2>2, ChannelFlow
  <2>4. j < PushRank(v)
    BY <2>3 DEF WasPushed
  <2>5. v \in Threads /\ v[1] = s /\ v[2] = j % R /\ j % R \in Team(s)
    BY <2>1, SideFacts
  <2>6. PushRank(v) \in Int /\ PushRank(v) % R = j % R
    BY <1>1, <2>5, RankFacts
  <2>7. PushRank(v) < K + R
    BY <2>5
  <2> HIDE DEF j, v, R
  <2>8. j + R <= PushRank(v)
    BY <1>2, <2>1, <2>4, <2>6, AtLeastApart
  <2> QED BY <1>2, <2>1, <2>6, <2>7, <2>8
<1> QED BY <1>9, <1>10
\* When every stage has returned in its turn, all stages have stopped at the same
\* frame.
LEMMA FlushedUpTo ==
    ASSUME IInv, AsBuilt, Quiet, control[Caller] = "end", NEW K \in Int,
           \A t \in Team(1) : K <= PushRank(<<1, t>>) /\ PushRank(<<1, t>>) < K + Replicas[1]
    PROVE  \A s \in Adaptors : \A t \in Team(s + 1) :
              /\ K <= PullRank(<<s + 1, t>>)
              /\ PullRank(<<s + 1, t>>) < K + Replicas[s + 1]
              /\ frame[<<s + 1, t>>] = NoFrame
<1> DEFINE Reached(s, t) == /\ K <= PullRank(<<s + 1, t>>)
                            /\ PullRank(<<s + 1, t>>) < K + Replicas[s + 1]
           T == {s \in Adaptors : ~ \A t \in Team(s + 1) : Reached(s, t)}
<1>1. ASSUME NEW s \in Adaptors, NEW t \in Team(s + 1)
      PROVE  ring[s][PullChannel(<<s + 1, t>>)] = <<>> /\ frame[<<s + 1, t>>] = NoFrame
  <2> DEFINE w == <<s + 1, t>>
  <2>1. s + 1 \in Stages /\ s + 1 # 1 /\ (s + 1) - 1 = s /\ w[1] = s + 1
    BY StageFacts
  <2>2. w \in Threads \ FirstStage
    BY <2>1, ThreadFacts
  <2>3. pc[w] = "end"
    <3>1. Returned(s + 1)
      BY <2>1, EndOfAll
    <3> QED BY <3>1 DEF Returned
  <2> QED BY <2>1, <2>2, <2>3 DEF IInv, Drained
<1>2. T = {}
  <2> SUFFICES ASSUME T # {} PROVE FALSE
    OBVIOUS
  <2>1. PICK s \in T : \A i \in T : s <= i
    <3>1. T \in SUBSET Nat
      BY StageFacts
    <3> HIDE DEF T
    <3> QED BY <3>1, LeastNat
  <2>2. s \in Adaptors /\ s \in Stages /\ s \in Nat \ {0} /\ s # NStages
    BY <2>1, StageFacts
  <2>3. \A t \in Team(s) : K <= PushRank(<<s, t>>) /\ PushRank(<<s, t>>) < K + Replicas[s]
    <3>1. CASE s = 1
      BY <3>1
    <3>2. CASE s # 1
      <4>1. s - 1 \in Adaptors /\ (s - 1) + 1 = s /\ s - 1 < s
        BY <2>2, <3>2, StageFacts
      <4>2. s - 1 \notin T
        BY <2>1, <2>2, <4>1
      <4>3. \A t \in Team(s) : K <= PullRank(<<s, t>>) /\ PullRank(<<s, t>>) < K + Replicas[s]
        BY <4>1, <4>2
      <4>4. ASSUME NEW t \in Team(s) PROVE PushRank(<<s, t>>) = PullRank(<<s, t>>)
        <5>1. <<s, t>> \in Threads /\ <<s, t>>[1] = s
          BY <2>2, ThreadFacts
        <5>2. <<s, t>> \in MiddleStages
          BY <2>2, <3>2, <5>1, ThreadFacts DEF MiddleStages
        <5>3. frame[<<s, t>>] = NoFrame
          BY <1>1, <4>1
        <5> QED BY <5>2, <5>3, HandRanks
      <4> QED BY <4>3, <4>4
    <3> QED BY <3>1, <3>2
  <2>4. \A t \in Team(s + 1) : Reached(s, t)
    BY <1>1, <2>2, <2>3, FlushedStep
  <2> QED BY <2>1, <2>4
<1> QED BY <1>1, <1>2

\* A frame is known by its rank.
LEMMA FrameOfRank ==
    ASSUME TypeOK, NEW f \in Nat \X Nat, NEW g \in Nat \X Nat, IsMade(f), IsMade(g), Rank(f) = Rank(g)
    PROVE  f = g
<1> DEFINE R == Replicas[1]
<1>1. R \in Nat \ {0} /\ Team(1) = 0 .. R - 1
  BY StageFacts DEF Team
<1>2. /\ f[1] \in 0 .. R - 1 /\ g[1] \in 0 .. R - 1 /\ f[2] \in Int /\ g[2] \in Int
      /\ f[1] + f[2] * R = g[1] + g[2] * R
  BY <1>1 DEF IsMade, Rank
<1> DEFINE t == f[1]  n == f[2]  u == g[1]  m == g[2]
<1>3. f = <<t, n>> /\ g = <<u, m>>
  OBVIOUS
<1> HIDE DEF R, t, n, u, m
<1>4. t \in 0 .. R - 1 /\ u \in 0 .. R - 1 /\ n \in Int /\ m \in Int /\ t + n * R = u + m * R
  BY <1>2 DEF t, n, u, m
<1>5. t = u /\ n = m
  BY <1>1, <1>4, StrideUnique
<1> QED BY <1>3, <1>5

\* The frames before the next one of a thread of the last stage have been used, if
\* they are in its turn and it has none in its hands.
LEMMA UsedBefore ==
    ASSUME IInv, NEW j \in Nat, NEW w \in LastStage, w[2] = j % Replicas[NStages],
           j < PullRank(w), frame[w] = NoFrame
    PROVE  \E n \in 1 .. Len(used[w]) : Rank(used[w][n]) = j
<1> DEFINE R == Replicas[NStages]  t == w[2]  m == pulled[w]
<1>1. TypeOK /\ Counted /\ InTurn /\ w \in Threads /\ w[1] = NStages
  BY ThreadFacts DEF IInv
<1>2. R \in Nat \ {0} /\ t \in 0 .. R - 1 /\ m \in Nat
  BY <1>1, RankFacts
<1>3. PICK q \in Int, r \in 0 .. R - 1 : j = q * R + r /\ r = j % R
  <2>1. j \in Int
    OBVIOUS
  <2> HIDE DEF R
  <2> QED BY ONLY <1>2, <2>1, DivMod
<1>4. j = t + q * R /\ j < t + m * R
  <2>1. r = t /\ q * R \in Int
    BY <1>2, <1>3
  <2>2. j = t + q * R
    <3> DEFINE qR == q * R
    <3>1. j = qR + r /\ qR \in Int
      BY <1>3, <2>1
    <3> HIDE DEF qR, t, R
    <3>2. j = t + qR
      BY <2>1, <3>1
    <3> QED BY <3>2 DEF qR
  <2>3. PullRank(w) = t + m * R
    BY <1>1 DEF PullRank
  <2> QED BY <2>2, <2>3
<1> HIDE DEF R, t, m
<1>5. q < m
  <2>1. t + q * R < t + m * R
    BY <1>4
  <2>2. t \in Int /\ m \in Int
    BY <1>2
  <2> QED BY ONLY <1>2, <2>1, <2>2, q \in Int, StrideOrder
<1>6. q >= 0
  <2> SUFFICES ASSUME q < 0 PROVE FALSE
    OBVIOUS
  <2>1. q * R <= -R
    <3>1. (-1 - q) * R >= 0
      BY <1>2
    <3>2. (-1 - q) * R = -R - q * R
      BY <1>2
    <3> DEFINE qR == q * R  e == (-1 - q) * R
    <3>3. e >= 0 /\ e = -R - qR /\ qR \in Int
      BY <1>2, <3>1, <3>2
    <3> HIDE DEF qR, e
    <3>4. qR <= -R
      BY <1>2, <3>3
    <3> QED BY <3>4 DEF qR
  <2> DEFINE qR == q * R
  <2>2. j = t + qR /\ qR <= -R /\ qR \in Int /\ t < R
    BY <1>2, <1>4, <2>1
  <2> HIDE DEF qR
  <2> QED BY <1>2, <2>2
<1>7. m = Len(used[w])
  <2>1. InHand(w) = 0 /\ Len(used[w]) \in Nat
    BY <1>1 DEF InHand, TypeOK
  <2> QED BY <1>1, <2>1 DEF Counted, m
<1>8. q + 1 \in 1 .. Len(used[w])
  BY <1>2, <1>5, <1>6, <1>7
<1>9. Rank(used[w][q + 1]) = t + ((q + 1) - 1) * R
  BY <1>1, <1>8 DEF InTurn, t, R
<1>10. (q + 1) - 1 = q
  OBVIOUS
<1> QED BY <1>4, <1>8, <1>9, <1>10

\* An end that only the first stage decides, and at the same frame in all its
\* threads, leaves no frame behind.
THEOREM FlushedCorrect == Spec => []Flushed
<1>1. IInv => Flushed
  <2> SUFFICES ASSUME IInv, AsBuilt, control[Caller] = "end", Quiet, Unbroken,
                      NEW f \in InFlight
               PROVE  FALSE
    BY DEF Flushed, Quiet
  <2> DEFINE R == Replicas[1]  Ranks == {PushRank(w) : w \in FirstStage}
  <2>1. TypeOK /\ Genuine
    BY DEF IInv
  <2>2. R \in Nat \ {0} /\ 1 \in Stages /\ 0 \in Team(1) /\ NStages \in Stages
        /\ NStages - 1 \in Adaptors /\ (NStages - 1) + 1 = NStages
    BY StageFacts
  <2>3. \A w \in FirstStage : /\ w \in Threads /\ w[1] = 1
                              /\ PushRank(w) \in Nat /\ PushRank(w) % R = w[2]
                              /\ w[2] \in 0 .. R - 1 /\ pushed[w] \in Nat
    BY <2>1, ThreadFacts, RankFacts
  <2>4. \A t \in Team(1) : <<1, t>> \in FirstStage
    BY <2>2, ThreadFacts
  <2>5. PICK K \in Ranks : \A n \in Ranks : K <= n
    <3>1. Ranks \in SUBSET Nat /\ Ranks # {}
      BY <2>2, <2>3, <2>4
    <3> HIDE DEF Ranks
    <3> QED BY <3>1, LeastNat
  <2>6. K \in Nat
    BY <2>3, <2>5
  <2>7. \A w \in FirstStage : K <= PushRank(w) /\ PushRank(w) < K + R
    <3> TAKE w \in FirstStage
    <3>1. PICK v \in FirstStage : K = PushRank(v)
      BY <2>5
    <3>2. PushRank(w) < v[2] + (pushed[v] + 1) * R
      BY <2>3 DEF Unbroken, PushRank
    <3>3. v[2] + (pushed[v] + 1) * R = PushRank(v) + R
      <4> DEFINE t == v[2]  n == pushed[v]
      <4>1. PushRank(v) = t + n * R
        BY <2>3 DEF PushRank
      <4>2. t \in 0 .. R - 1 /\ n \in Int
        BY <2>3
      <4> HIDE DEF t, n, R
      <4>3. t + (n + 1) * R = PushRank(v) + R
        BY <2>2, <4>1, <4>2, Strides
      <4> QED BY <4>3 DEF t, n
    <3> QED BY <2>5, <3>1, <3>2, <3>3
  <2>8. PICK w \in FirstStage : \E n \in 0 .. pushed[w] - 1 : f = <<w[2], n>>
    BY DEF InFlight
  <2>9. PICK n \in 0 .. pushed[w] - 1 : f = <<w[2], n>>
    BY <2>8
  <2> DEFINE j == w[2] + n * R
  <2>10. IsMade(f) /\ f \in Nat \X Nat /\ Rank(f) = j
    <3>1. f[1] = w[2] /\ f[2] = n /\ w = <<1, w[2]>> /\ w[2] \in Team(1) /\ w[2] \in Nat
      BY <2>3, <2>9, ThreadFacts
    <3>2. n \in Nat /\ n < pushed[w]
      BY <2>3
    <3> QED BY <2>9, <3>1, <3>2 DEF IsMade, Rank
  <2>11. j \in Nat /\ j < K
    <3> DEFINE t == w[2]  m == pushed[w]
    <3>1. t \in 0 .. R - 1 /\ n \in Nat /\ m \in Nat /\ n < m
      BY <2>3
    <3>2. PushRank(w) = t + m * R
      BY <2>3 DEF PushRank
    <3> HIDE DEF t, m, R
    <3>3. t + n * R \in Nat /\ (t + n * R) % R = t
      BY <2>2, <3>1, Strides
    <3>4. t + n * R < t + m * R
      <4>1. t \in Int /\ n \in Int /\ m \in Int
        BY <2>2, <3>1
      <4> QED BY ONLY <2>2, <3>1, <4>1, StrideOrder
    <3> DEFINE i == t + n * R
    <3>5. i \in Nat /\ i % R = t /\ i < PushRank(w) /\ PushRank(w) \in Nat /\ PushRank(w) % R = t
      BY <2>3, <3>2, <3>3, <3>4 DEF t, R
    <3> HIDE DEF i
    <3>6. i + R <= PushRank(w)
      BY <2>2, <3>5, AtLeastApart
    <3>7. PushRank(w) < K + R
      BY <2>7 DEF R
    <3>8. i < K
      BY <2>2, <2>6, <3>5, <3>6, <3>7
    <3> QED BY <3>5, <3>8 DEF i, t
  <2> HIDE DEF j
  <2> DEFINE v == <<NStages, j % Replicas[NStages]>>
  <2>12. v \in LastStage /\ v[2] = j % Replicas[NStages] /\ j % Replicas[NStages] \in Team(NStages)
    <3>1. j % Replicas[NStages] \in Team(NStages)
      BY <2>2, <2>11, SideFacts
    <3> QED BY <2>2, <3>1, ThreadFacts
  <2>13. K <= PullRank(v) /\ frame[v] = NoFrame
    <3>1. \A t \in Team(1) : K <= PushRank(<<1, t>>) /\ PushRank(<<1, t>>) < K + R
      BY <2>4, <2>7
    <3>2. K \in Int
      BY <2>6
    <3> HIDE DEF v
    <3>3. \A t \in Team(NStages) : K <= PullRank(<<NStages, t>>) /\ frame[<<NStages, t>>] = NoFrame
      BY <2>2, <3>1, <3>2, FlushedUpTo
    <3> QED BY <2>12, <3>3 DEF v
  <2>14. PullRank(v) \in Nat
    BY <2>1, <2>12, ThreadFacts, RankFacts
  <2> HIDE DEF v
  <2>15. PICK i \in 1 .. Len(used[v]) : Rank(used[v][i]) = j
    <3>1. j < PullRank(v)
      BY <2>6, <2>11, <2>13, <2>14
    <3> QED BY <2>11, <2>12, <2>13, <3>1, UsedBefore
  <2>16. used[v] \in Seq(Nat \X Nat)
    BY <2>1, <2>12 DEF TypeOK
  <2>17. used[v][i] \in Nat \X Nat /\ IsMade(used[v][i]) /\ i \in DOMAIN used[v]
    BY <2>1, <2>12, <2>16 DEF Genuine
  <2>18. used[v][i] = f
    BY <2>1, <2>10, <2>15, <2>17, FrameOfRank
  <2> QED BY <2>12, <2>17, <2>18 DEF InFlight
<1> QED BY <1>1, Invariance, PTL
-----------------------------------------------------------------------------
(* A pipeline is an ordered stream.                                        *)

\* What the pipeline shows of itself as a stream.
StreamPushed == [t \in Team(1) |-> pushed[<<1, t>>]]
StreamPulled == [t \in Team(NStages) |-> pulled[<<NStages, t>>]]
RanksOf(u) == [n \in DOMAIN u |-> Rank(u[n])]
StreamReceived == [t \in Team(NStages) |-> RanksOf(used[<<NStages, t>>])]

\* The operators of the abstract stream, said of the first and the last stage.
LEMMA StreamFacts ==
    /\ Stream!Pushers = Team(1) /\ Stream!Pullers = Team(NStages)
    /\ Stream!vars = <<StreamPushed, StreamPulled, StreamReceived>>
    /\ \A p \in Team(1) : Stream!NextPush(p) = PushRank(<<1, p>>)
    /\ \A q \in Team(NStages) : Stream!NextPull(q) = PullRank(<<NStages, q>>)
    /\ \A j \in Int : (Stream!IsPushed(j) <=> WasPushed(1, j)) /\ (Stream!IsPulled(j) <=> WasPulled(NStages, j))
<1>1. Stream!Pushers = Team(1) /\ Stream!Pullers = Team(NStages)
  BY DEF Stream!Pushers, Stream!Pullers, Team
<1>2. Stream!vars = <<StreamPushed, StreamPulled, StreamReceived>>
  BY DEF Stream!vars, StreamPushed, StreamPulled, StreamReceived, RanksOf
<1>3. \A p \in Team(1) : Stream!NextPush(p) = PushRank(<<1, p>>)
  BY DEF Stream!NextPush, PushRank
<1>4. \A q \in Team(NStages) : Stream!NextPull(q) = PullRank(<<NStages, q>>)
  BY DEF Stream!NextPull, PullRank
<1>5. ASSUME NEW j \in Int
      PROVE  (Stream!IsPushed(j) <=> WasPushed(1, j)) /\ (Stream!IsPulled(j) <=> WasPulled(NStages, j))
  <2>1. /\ 1 \in Adaptors /\ NStages - 1 \in Adaptors /\ (NStages - 1) + 1 = NStages
    BY StageFacts
  <2>2. j % Replicas[1] \in Team(1) /\ j % Replicas[NStages] \in Team(NStages)
    BY <2>1, SideFacts
  <2> QED BY <1>3, <1>4, <2>2 DEF Stream!IsPushed, Stream!IsPulled, WasPushed, WasPulled
<1> QED BY <1>1, <1>2, <1>3, <1>4, <1>5

\* The first frame that finds room pushes the frame before it, as far away as the
\* channels and the hands can hold, out of the last stage.
LEMMA ChainFlow ==
    ASSUME IInv, NEW j \in Int, WasPulled(2, j - Sum[1])
    PROVE  WasPulled(NStages, j - Sum[NStages - 1])
<1> DEFINE T == {s \in Adaptors : ~ WasPulled(s + 1, j - Sum[s])}
<1>1. T = {}
  <2> SUFFICES ASSUME T # {} PROVE FALSE
    OBVIOUS
  <2>1. PICK s \in T : \A i \in T : s <= i
    <3>1. T \in SUBSET Nat
      BY StageFacts
    <3> HIDE DEF T
    <3> QED BY <3>1, LeastNat
  <2>2. s \in Adaptors /\ s \in Nat \ {0} /\ s # 1
    <3>1. s \in Adaptors /\ ~ WasPulled(s + 1, j - Sum[s])
      BY <2>1
    <3>2. s # 1
      BY <3>1
    <3> QED BY <3>1, <3>2, StageFacts
  <2>3. s - 1 \in Adaptors /\ (s - 1) + 1 = s /\ s - 1 < s
    BY <2>2, StageFacts
  <2>4. WasPulled(s, j - Sum[s - 1])
    <3>1. s - 1 \notin T
      BY <2>1, <2>2, <2>3
    <3> QED BY <2>3, <3>1
  <2> DEFINE i == j - Sum[s - 1]  R == Replicas[s]  NB == NChannels(s) * BufferSize  k == i - R
  <2>5. Sum[s] \in Nat /\ Sum[s - 1] \in Nat /\ Sum[s] = Sum[s - 1] + (NB + R)
    BY <2>2, SumFacts DEF Holds
  <2>6. i \in Int /\ R \in Nat /\ NB \in Nat /\ k \in Int
    <3>1. i \in Int
      BY <2>5
    <3>2. R \in Nat /\ NB \in Nat
      BY <2>2, <3>1, HandsFlow, ChannelFlow
    <3> QED BY <3>1, <3>2
  <2>7. k - NB = j - Sum[s]
    <3> HIDE DEF NB, R
    <3> QED BY <2>5, <2>6
  <2>8. WasPushed(s, k)
    BY <2>2, <2>4, <2>6, HandsFlow
  <2>9. WasPulled(s + 1, k - NB)
    <3> HIDE DEF k
    <3> QED BY <2>2, <2>6, <2>8, ChannelFlow
  <2> QED BY <2>1, <2>7, <2>9
<1>2. NStages - 1 \in Adaptors /\ (NStages - 1) + 1 = NStages
  BY StageFacts
<1> QED BY <1>1, <1>2

\* Push of the first stage.
LEMMA PushStream ==
    ASSUME IInv, NEW w \in FirstStage, Push(w)
    PROVE  Stream!Push(w[2])
<1> DEFINE p == w[2]  c == PushChannel(w)  j == PushRank(w)
           N == NChannels(1)  B == BufferSize  n == Len(ring[1][c])
<1>1. TypeOK /\ Chained
  BY DEF IInv
<1>2. w \in Threads \ LastStage /\ w = <<1, p>> /\ w[1] = 1 /\ p \in Team(1) /\ 1 \in Adaptors
  BY ThreadFacts, StageFacts
<1>3. /\ c \in Channels(1) /\ c = j % N /\ n \in Nat /\ n < B
  <2>1. c \in Channels(1) /\ c = j % N
    BY <1>1, <1>2, PushSideFacts
  <2>2. ring[1][c] \in Seq(Nat \X Nat)
    BY <1>1, <1>2, <2>1 DEF TypeOK
  <2>3. n < B
    BY <1>2 DEF Push, HasRoom
  <2> QED BY <2>1, <2>2, <2>3
<1>4. NextIn(1, c) = j
  BY <1>1, <1>2, <1>3, PushMoves DEF Push
<1> DEFINE o == NextOut(1, c)  NB == N * B
<1>5. j = o + n * N
  BY <1>1, <1>2, <1>3, <1>4 DEF Chained
<1>6. o \in Int /\ N \in Nat \ {0} /\ B \in Nat \ {0} /\ j \in Nat /\ NB \in Nat
  BY <1>1, <1>2, <1>3, NextFacts, StageFacts, RankFacts, ChannelFlow
<1>7. j - NB < o
  <2> HIDE DEF N, B, n, o, j
  <2> DEFINE e == B - n
  <2>1. e \in Nat \ {0} /\ B = n + e
    BY <1>3, <1>6
  <2> HIDE DEF e
  <2>2. N * (n + e) = n * N + e * N /\ n * N \in Nat /\ e * N \in Nat \ {0}
    BY <1>3, <1>6, <2>1
  <2> DEFINE nN == n * N  eN == e * N
  <2>3. NB = nN + eN /\ nN \in Nat /\ eN \in Nat \ {0} /\ j = o + nN
    BY <1>5, <2>1, <2>2
  <2> HIDE DEF nN, eN, NB
  <2> QED BY <1>6, <2>3
<1>8. WasPulled(2, j - NB)
  <2> DEFINE i == j - NB  k == -B
  <2>1. i \in Int /\ i = j + k * N /\ k \in Int /\ j \in Int
    BY <1>6
  <2> HIDE DEF i, k, N, NB, j
  <2>2. i % N = j % N
    BY <1>6, <2>1, ModCongruent
  <2>3. WasPulled(1 + 1, i) <=> i < NextOut(1, i % NChannels(1))
    BY <1>1, <1>2, <2>1, ChannelTurn
  <2> QED BY <1>3, <1>7, <2>2, <2>3 DEF i, N
<1>9. Sum[1] = NB
  <2>1. Sum[1] = Sum[1 - 1] + Holds(1) /\ Sum[0] = 0 /\ Holds(1) \in Nat
    BY <1>2, SumFacts
  <2>2. Holds(1) = NB + 0
    BY DEF Holds
  <2> HIDE DEF NB
  <2> QED BY <1>6, <2>1, <2>2
<1>10. WasPulled(NStages, j - Sum[NStages - 1])
  <2> HIDE DEF j, NB
  <2> QED BY <1>6, <1>8, <1>9, ChainFlow
<1>11. Stream!IsPulled(j - Sum[NStages - 1])
  <2>1. Sum[NStages - 1] \in Nat
    BY StageFacts, SumFacts
  <2>2. j - Sum[NStages - 1] \in Int
    BY <1>6, <2>1
  <2> QED BY <1>10, <2>2, StreamFacts
<1>12. Stream!NextPush(p) = j
  BY <1>2, StreamFacts
<1>13. StreamPushed' = [StreamPushed EXCEPT ![p] = @ + 1]
  <2>1. pushed' = [pushed EXCEPT ![w] = @ + 1] /\ \A t \in Team(1) : <<1, t>> \in Threads
    BY <1>2, ThreadFacts, StageFacts DEF Push
  <2>2. \A t \in Team(1) : pushed'[<<1, t>>] = IF t = p THEN pushed[<<1, p>>] + 1 ELSE pushed[<<1, t>>]
    <3>1. \A v \in Threads : pushed'[v] = IF v = w THEN pushed[w] + 1 ELSE pushed[v]
      BY <1>1, <2>1 DEF TypeOK
    <3>2. \A t \in Team(1) : <<1, t>> \in Threads /\ (<<1, t>> = w <=> t = p)
      <4>1. w = <<1, p>>
        BY <1>2
      <4> HIDE DEF p
      <4> QED BY <2>1, <4>1, ThreadFacts
    <3> HIDE DEF p
    <3> QED BY <1>2, <3>1, <3>2
  <2>3. StreamPushed' = [t \in Team(1) |-> pushed'[<<1, t>>]]
    BY DEF StreamPushed
  <2> HIDE DEF p
  <2> QED BY <1>2, <2>2, <2>3 DEF StreamPushed
<1>14. UNCHANGED <<pulled, used>>
  BY DEF Push
<1> QED BY <1>11, <1>12, <1>13, <1>14 DEF Stream!Push, StreamPushed

\* Pull of the last stage.
LEMMA PullStream ==
    ASSUME IInv, NEW w \in LastStage, Pull(w)
    PROVE  Stream!Pull(w[2])
<1> DEFINE q == w[2]  k == PullRank(w)  f == Head(ring[w[1] - 1][PullChannel(w)])  R == Replicas[1]
<1>1. TypeOK /\ Counted /\ Shaped
  BY DEF IInv
<1>2. w \in Threads /\ w = <<NStages, q>> /\ q \in Team(NStages) /\ w[1] = NStages
  BY ThreadFacts
<1>3. IsMade(f) /\ f \in Nat \X Nat /\ Rank(f) = k /\ frame[w] = NoFrame
  <2>1. /\ IsMade(f) /\ Rank(f) = k /\ frame[w] = NoFrame
        /\ ring[w[1] - 1][PullChannel(w)] \in Seq(Nat \X Nat) /\ ring[w[1] - 1][PullChannel(w)] # <<>>
    BY <1>2, PullFacts
  <2> QED BY <2>1, PopFacts
<1>4. WasPushed(1, k)
  <2> DEFINE t == f[1]  n == f[2]  v == <<1, t>>  m == pushed[v]
  <2>1. R \in Nat \ {0} /\ t \in Team(1) /\ n \in Nat /\ n < m /\ v \in Threads
    BY <1>3, StageFacts, ThreadFacts DEF IsMade
  <2>2. t \in 0 .. R - 1 /\ m \in Nat
    BY <1>1, <2>1 DEF Team, TypeOK
  <2>3. k = t + n * R
    BY <1>3 DEF Rank
  <2>4. PushRank(v) = t + m * R
    BY DEF PushRank
  <2> HIDE DEF t, n, m, R
  <2>5. (t + n * R) % R = t
    BY <2>1, <2>2, Strides
  <2>6. t + n * R < t + m * R
    <3>1. t \in Int /\ n \in Int /\ m \in Int
      BY <2>1, <2>2
    <3> QED BY ONLY <2>1, <3>1, StrideOrder
  <2>7. k % R = t /\ k < PushRank(v)
    BY <2>3, <2>4, <2>5, <2>6
  <2> QED BY <2>7 DEF WasPushed, R
<1>5. Stream!IsPushed(Stream!NextPull(q))
  <2>1. k \in Int /\ Stream!NextPull(q) = k
    BY <1>1, <1>2, RankFacts, StreamFacts
  <2> QED BY <1>4, <2>1, StreamFacts
<1>6. Len(RanksOf(used[w])) = pulled[w]
  <2>1. used[w] \in Seq(Nat \X Nat)
    BY <1>1 DEF TypeOK
  <2>2. RanksOf(used[w]) = [n \in 1 .. Len(used[w]) |-> Rank(used[w][n])] /\ Len(used[w]) \in Nat
    BY <2>1 DEF RanksOf
  <2>3. Len(RanksOf(used[w])) = Len(used[w])
    BY <2>2
  <2>4. InHand(w) = 0
    BY <1>3 DEF InHand
  <2> QED BY <1>1, <2>2, <2>3, <2>4 DEF Counted
<1>7. Len(StreamReceived[q]) = StreamPulled[q]
  BY <1>2, <1>6 DEF StreamReceived, StreamPulled
<1>8. StreamPulled' = [StreamPulled EXCEPT ![q] = @ + 1]
  <2>1. pulled' = [pulled EXCEPT ![w] = @ + 1] /\ \A t \in Team(NStages) : <<NStages, t>> \in Threads
    BY <1>2, ThreadFacts, StageFacts DEF Pull
  <2>2. \A t \in Team(NStages) :
            pulled'[<<NStages, t>>] = IF t = q THEN pulled[<<NStages, q>>] + 1 ELSE pulled[<<NStages, t>>]
    <3>1. \A v \in Threads : pulled'[v] = IF v = w THEN pulled[w] + 1 ELSE pulled[v]
      BY <1>1, <2>1 DEF TypeOK
    <3>2. \A t \in Team(NStages) : <<NStages, t>> \in Threads /\ (<<NStages, t>> = w <=> t = q)
      <4>1. w = <<NStages, q>>
        BY <1>2
      <4> HIDE DEF q
      <4> QED BY <2>1, <4>1, ThreadFacts
    <3> HIDE DEF q
    <3> QED BY <1>2, <3>1, <3>2
  <2>3. StreamPulled' = [t \in Team(NStages) |-> pulled'[<<NStages, t>>]]
    BY DEF StreamPulled
  <2> HIDE DEF q
  <2> QED BY <1>2, <2>2, <2>3 DEF StreamPulled
<1>9. UNCHANGED <<pushed, used>>
  BY DEF Pull
<1> QED BY <1>5, <1>7, <1>8, <1>9 DEF Stream!Pull, StreamReceived, StreamPulled, RanksOf

\* Use in the last stage: the frame is the one expected.
LEMMA UseStream ==
    ASSUME IInv, NEW w \in LastStage, Use(w)
    PROVE  Stream!Consume(w[2])
<1> DEFINE q == w[2]  u == used[w]  f == frame[w]  R == Replicas[NStages]
<1>1. TypeOK /\ Counted /\ InTurn /\ Held
  BY DEF IInv
<1>2. w \in Threads \ FirstStage /\ w = <<NStages, q>> /\ q \in Team(NStages) /\ w[1] = NStages
  BY ThreadFacts
<1>3. f # NoFrame /\ pc[w] = "use" /\ f \in Nat \X Nat
  BY <1>1, <1>2 DEF Held, Use, TypeOK
<1>4. u \in Seq(Nat \X Nat) /\ Len(u) \in Nat
  BY <1>1 DEF TypeOK
<1>5. pulled[w] = Len(u) + 1
  BY <1>1, <1>3 DEF Counted, InHand
<1>6. Rank(f) = q + Len(u) * R
  <2> DEFINE n == Len(u)
  <2>1. Rank(f) = PullRank(w) - R
    BY <1>1, <1>2, <1>3 DEF InTurn
  <2>2. PullRank(w) = q + (n + 1) * R
    BY <1>2, <1>5 DEF PullRank
  <2>3. R \in Nat \ {0} /\ q \in 0 .. R - 1 /\ n \in Int
    BY <1>1, <1>2, <1>4, RankFacts
  <2> HIDE DEF q, R, n, f
  <2>4. q + (n + 1) * R = (q + n * R) + R /\ q + n * R \in Int
    BY <2>3, Strides
  <2>5. Rank(f) = q + n * R
    BY <2>1, <2>2, <2>3, <2>4
  <2> QED BY <2>5 DEF n
<1>7. RanksOf(u) = [n \in 1 .. Len(u) |-> Rank(u[n])] /\ Len(RanksOf(u)) = Len(u)
  BY <1>4 DEF RanksOf
<1>8. RanksOf(Append(u, f)) = Append(RanksOf(u), Rank(f))
  <2> HIDE DEF u, f
  <2>1. /\ Append(u, f) \in Seq(Nat \X Nat) /\ Len(Append(u, f)) = Len(u) + 1
        /\ \A i \in 1 .. Len(u) + 1 : Append(u, f)[i] = IF i = Len(u) + 1 THEN f ELSE u[i]
    BY <1>3, <1>4, AppendFacts
  <2>2. RanksOf(Append(u, f)) = [n \in 1 .. Len(u) + 1 |-> Rank(Append(u, f)[n])]
    BY <2>1 DEF RanksOf
  <2>3. Append(RanksOf(u), Rank(f)) = [n \in 1 .. Len(u) + 1 |-> IF n = Len(u) + 1 THEN Rank(f) ELSE RanksOf(u)[n]]
    BY <1>4, <1>7
  <2>4. \A n \in 1 .. Len(u) + 1 :
            Rank(Append(u, f)[n]) = IF n = Len(u) + 1 THEN Rank(f) ELSE RanksOf(u)[n]
    <3> TAKE n \in 1 .. Len(u) + 1
    <3>1. n # Len(u) + 1 => n \in 1 .. Len(u)
      BY <1>4
    <3>2. n # Len(u) + 1 => RanksOf(u)[n] = Rank(u[n])
      BY <1>7, <3>1
    <3> QED BY <2>1, <3>2
  <2> QED BY <2>2, <2>3, <2>4
<1>9. StreamReceived' = [StreamReceived EXCEPT ![q] = Append(@, q + Len(@) * R)]
  <2>1. used' = [used EXCEPT ![w] = Append(u, f)] /\ \A t \in Team(NStages) : <<NStages, t>> \in LastStage
    BY <1>2, ThreadFacts, StageFacts DEF Use
  <2>2. \A t \in Team(NStages) : used'[<<NStages, t>>] = IF t = q THEN Append(u, f) ELSE used[<<NStages, t>>]
    BY <1>1, <1>2, <2>1 DEF TypeOK
  <2>3. StreamReceived[q] = RanksOf(u)
    BY <1>2 DEF StreamReceived
  <2>4. RanksOf(Append(u, f)) = Append(StreamReceived[q], q + Len(StreamReceived[q]) * R)
    BY <1>6, <1>7, <1>8, <2>3
  <2>5. \A t \in Team(NStages) : StreamReceived'[t] =
            IF t = q THEN Append(StreamReceived[q], q + Len(StreamReceived[q]) * R) ELSE StreamReceived[t]
    <3>1. \A x : RanksOf(x)' = RanksOf(x)
      BY DEF RanksOf, Rank
    <3>2. \A t \in Team(NStages) : StreamReceived'[t] = RanksOf(used'[<<NStages, t>>])
      BY DEF StreamReceived, RanksOf, Rank
    <3>3. \A t \in Team(NStages) : StreamReceived[t] = RanksOf(used[<<NStages, t>>])
      BY DEF StreamReceived
    <3> HIDE DEF q, u, f, R
    <3> QED BY <2>2, <2>4, <3>2, <3>3
  <2>6. StreamReceived' = [t \in Team(NStages) |-> StreamReceived'[t]]
    BY DEF StreamReceived
  <2> HIDE DEF q, u, f, R
  <2> QED BY <2>5, <2>6 DEF StreamReceived
<1>10. Len(StreamReceived[q]) < StreamPulled[q]
  <2>1. StreamReceived[q] = RanksOf(u) /\ StreamPulled[q] = pulled[w]
    BY <1>2 DEF StreamReceived, StreamPulled
  <2> QED BY <1>4, <1>5, <1>7, <2>1
<1>11. UNCHANGED <<pushed, pulled>>
  BY DEF Use
<1> QED BY <1>9, <1>10, <1>11 DEF Stream!Consume, StreamReceived, StreamPulled, RanksOf

\* A fresh pipeline is an empty stream.
LEMMA FreshStream ==
    Fresh => Stream!Init
<1> SUFFICES ASSUME Fresh PROVE Stream!Init
  OBVIOUS
<1>1. StreamPushed = [p \in Team(1) |-> 0]
  BY StageFacts, ThreadFacts DEF Fresh, Start, StreamPushed
<1>2. StreamPulled = [q \in Team(NStages) |-> 0]
  BY StageFacts, ThreadFacts DEF Fresh, Start, StreamPulled
<1>3. StreamReceived = [q \in Team(NStages) |-> <<>>]
  <2>1. \A t \in Team(NStages) : used[<<NStages, t>>] = <<>>
    BY StageFacts, ThreadFacts DEF Fresh, Start
  <2>2. RanksOf(<<>>) = <<>>
    BY DEF RanksOf
  <2>3. \A t \in Team(NStages) : RanksOf(used[<<NStages, t>>]) = <<>>
    BY <2>1, <2>2
  <2> QED BY <2>3 DEF StreamReceived
<1> QED BY <1>1, <1>2, <1>3, StreamFacts
        DEF Stream!Init, StreamPushed, StreamPulled, StreamReceived, RanksOf

\* Every other step of a thread is none of the stream.
LEMMA LoopStream ==
    ASSUME IInv, NEW w \in Threads, Loop(w)
    PROVE  Stream!Next \/ UNCHANGED Stream!vars
<1>1. Held
  BY DEF IInv
<1>2. w = <<w[1], w[2]>> /\ w[2] \in Team(w[1])
  BY ThreadFacts
<1>3. CASE Pull(w)
  <2>1. CASE w \in LastStage
    <3>1. w[2] \in Stream!Pullers
      BY <1>2, <2>1, ThreadFacts, StreamFacts
    <3> QED BY <1>3, <2>1, <3>1, PullStream DEF Stream!Next
  <2>2. CASE w \notin LastStage
    <3>1. \A t \in Team(NStages) : <<NStages, t>> # w
      BY <2>2, StageFacts, ThreadFacts
    <3>2. StreamPulled' = StreamPulled
      <4>1. \A t \in Team(NStages) : pulled'[<<NStages, t>>] = pulled[<<NStages, t>>]
        BY <1>3, <3>1, StageFacts, ThreadFacts DEF Pull, IInv, TypeOK
      <4> QED BY <4>1 DEF StreamPulled
    <3>3. StreamPushed' = StreamPushed /\ StreamReceived' = StreamReceived
      BY <1>3 DEF Pull, StreamPushed, StreamReceived, RanksOf, Rank
    <3> QED BY <3>2, <3>3, StreamFacts DEF Stream!vars, StreamPushed, StreamPulled, StreamReceived, RanksOf
  <2> QED BY <2>1, <2>2
<1>4. CASE Push(w)
  <2>1. CASE w \in FirstStage
    <3>1. w[2] \in Stream!Pushers
      BY <1>2, <2>1, ThreadFacts, StreamFacts
    <3> QED BY <1>4, <2>1, <3>1, PushStream DEF Stream!Next
  <2>2. CASE w \notin FirstStage
    <3>1. \A t \in Team(1) : <<1, t>> # w
      BY <2>2, StageFacts, ThreadFacts
    <3>2. StreamPushed' = StreamPushed
      <4>1. \A t \in Team(1) : pushed'[<<1, t>>] = pushed[<<1, t>>]
        BY <1>4, <3>1, StageFacts, ThreadFacts DEF Push, IInv, TypeOK
      <4> QED BY <4>1 DEF StreamPushed
    <3>3. StreamPulled' = StreamPulled /\ StreamReceived' = StreamReceived
      BY <1>4 DEF Push, StreamPulled, StreamReceived, RanksOf, Rank
    <3> QED BY <3>2, <3>3 DEF Stream!vars, StreamPushed, StreamPulled, StreamReceived, RanksOf
  <2> QED BY <2>1, <2>2
<1>5. CASE Use(w)
  <2>1. w \in LastStage /\ w[2] \in Stream!Pullers
    BY <1>1, <1>2, <1>5, WhereFacts, ThreadFacts, StreamFacts DEF Use
  <2> QED BY <1>5, <2>1, UseStream DEF Stream!Next
<1>6. CASE PullEnd(w) \/ PushEnd(w) \/ Test(w)
  <2>1. UNCHANGED <<pushed, pulled, used>>
    BY <1>6 DEF PullEnd, PushEnd, Test
  <2> QED BY <2>1 DEF Stream!vars, Rank
<1> QED BY <1>3, <1>4, <1>5, <1>6 DEF Loop

\* From its first stage to its last one, a pipeline of any stages, whatever the
\* threads of each, is one ordered stream, with as many frames on the way as the
\* channels and the hands between them hold.
THEOREM PipelineImplementsStream == Spec => ImplementsStream
<1>1. Init => Stream!Init
  BY InitFresh, FreshStream
<1>2. IInv /\ [Next]_vars => [Stream!Next]_(Stream!vars)
  <2> SUFFICES ASSUME IInv, [Next]_vars PROVE Stream!Next \/ UNCHANGED Stream!vars
    OBVIOUS
  <2>1. ASSUME NEW w \in Threads, Loop(w) PROVE Stream!Next \/ UNCHANGED Stream!vars
    BY <2>1, LoopStream
  <2>2. ASSUME NEW k \in Stages, Control(k) PROVE UNCHANGED Stream!vars
    <3>1. UNCHANGED <<pushed, pulled, used>>
      BY <2>2 DEF Control, StageReturns, CancelWaiting, CancelEnds, loops
    <3> QED BY <3>1 DEF Stream!vars, Rank
  <2>3. CASE ExecAgain
    <3>1. Stream!Init'
      <4>1. Fresh'
        BY <2>3, ExecAgainFresh
      <4>2. Fresh' => Stream!Init'
        BY FreshStream, PTL
      <4> QED BY <4>1, <4>2
    <3>2. Stream!Restart
      BY <3>1 DEF Stream!Init, Stream!Restart
    <3> QED BY <3>2 DEF Stream!Next
  <2>4. CASE Finished \/ UNCHANGED vars
    <3>1. UNCHANGED <<pushed, pulled, used>>
      BY <2>4 DEF Finished, vars
    <3> QED BY <3>1 DEF Stream!vars, Rank
  <2> QED BY <2>1, <2>2, <2>3, <2>4 DEF Next
<1> QED BY <1>1, <1>2, Invariance, PTL DEF Spec, ImplementsStream, Stream!Spec
=============================================================================
