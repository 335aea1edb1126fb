--------------------------- MODULE Adaptor_proofs ---------------------------
(***************************************************************************)
(* Proofs about Adaptor, for any number of pushers, pullers and slots, and *)
(* any number of executions of the pipeline.  The inductive invariant is   *)
(* IInv /\ RingConsistent: a thread stays on the channels of its residue   *)
(* class, so a channel has one thread of each side; what a thread has read *)
(* of the counter therefore stays true until it moves the counter itself;  *)
(* and then the counter and the two indices describe the same ring.        *)
(***************************************************************************)
EXTENDS Adaptor, TLAPS

(***************************************************************************)
(* Facts about remainders, for the positions of the threads in the rings.  *)
(***************************************************************************)
\* Below twice the modulus, the remainder is one subtraction away.
LEMMA ModSmall ==
  ASSUME NEW M \in Nat \ {0}, NEW x \in 0 .. 2 * M - 1
  PROVE x % M = IF x < M THEN x ELSE x - M
  OBVIOUS

\* Every integer has a quotient and a remainder.
LEMMA DivMod ==
  ASSUME NEW N \in Nat \ {0}, NEW x \in Int
  PROVE \E q \in Int, r \in 0 .. N - 1 : x = q * N + r /\ r = x % N
  OBVIOUS

\* A remainder is at most the number.
LEMMA ModBelow ==
  ASSUME NEW N \in Nat \ {0}, NEW x \in Nat
  PROVE x % N \in 0 .. N - 1 /\ x % N <= x
<1>1. PICK q \in Int, r \in 0 .. N - 1 : x = q * N + r /\ r = x % N
  <2>1. x \in Int
    OBVIOUS
  <2> QED BY ONLY <2>1, N \in Nat \ {0}, DivMod
<1>2. q >= 0
  <2> SUFFICES ASSUME q <= -1 PROVE FALSE
    BY <1>1
  <2>1. q * N <= -N
    OBVIOUS
  <2> QED BY <1>1, <2>1
<1>3. q * N >= 0
  BY <1>2
<1> QED BY <1>1, <1>3

\* The only multiple of N strictly between -N and N is zero.
LEMMA SmallMultiple ==
  ASSUME NEW N \in Nat \ {0}, NEW d \in Int, d * N < N, d * N > -N
  PROVE d = 0
<1>1. ~ (d >= 1)
  <2>1. SUFFICES ASSUME d >= 1 PROVE FALSE
    OBVIOUS
  <2>2. d * N >= N
    BY <2>1
  <2> QED BY <2>2
<1>2. ~ (d <= -1)
  <2>1. SUFFICES ASSUME d <= -1 PROVE FALSE
    OBVIOUS
  <2>2. (-d) * N >= N
    BY <2>1
  <2> QED BY <2>2
<1> QED BY <1>1, <1>2

\* Integers that differ by a multiple of N have the same remainder.
LEMMA ModCongruent ==
  ASSUME NEW N \in Nat \ {0}, NEW x \in Int, NEW y \in Int,
         \E k \in Int : x = y + k * N
  PROVE x % N = y % N
<1>0. PICK k \in Int : x = y + k * N
  OBVIOUS
<1>1. PICK p \in Int, r \in 0 .. N - 1 : x = p * N + r /\ r = x % N
  BY DivMod
<1>2. PICK q \in Int, s \in 0 .. N - 1 : y = q * N + s /\ s = y % N
  BY DivMod
<1> DEFINE d == q + k - p
<1>3. d \in Int
  OBVIOUS
<1>4. d * N = q * N + k * N - p * N
  OBVIOUS
<1>5. d * N = r - s
  <2>1. x = p * N + r /\ y = q * N + s
    BY <1>1, <1>2
  <2>2. p * N \in Int /\ q * N \in Int /\ k * N \in Int /\ d * N \in Int
    OBVIOUS
  <2> DEFINE pn == p * N  qn == q * N  kn == k * N  dn == d * N
  <2>3. x = pn + r /\ y = qn + s /\ x = y + kn /\ dn = qn + kn - pn
    BY <2>1, <1>0, <1>4
  <2>4. pn \in Int /\ qn \in Int /\ kn \in Int /\ dn \in Int
    BY <2>2
  <2> HIDE DEF pn, qn, kn, dn
  <2>5. dn = r - s
    BY <2>3, <2>4
  <2> QED BY <2>5 DEF dn
<1> HIDE DEF d
<1>6. d * N < N /\ d * N > -N
  BY <1>5
<1>7. d = 0
  BY <1>3, <1>6, SmallMultiple
<1>8. d * N = 0
  BY <1>7
<1>9. r = s
  BY ONLY <1>5, <1>8
<1> QED BY ONLY <1>1, <1>2, <1>9

\* Going round M positions by steps of N, when N divides M, stays on the
\* positions that have the same remainder by N.
LEMMA ModStep ==
  ASSUME NEW N \in Nat \ {0}, NEW k \in Nat \ {0}, NEW M \in Nat, M = k * N,
         NEW c \in 0 .. M - 1
  PROVE /\ (c + N) % M \in 0 .. M - 1
        /\ ((c + N) % M) % N = c % N
<1>1. M \in Nat \ {0} /\ N <= M
  OBVIOUS
<1> DEFINE x == c + N
           y == c + N - M
<1>2. x \in 0 .. 2 * M - 1
  BY <1>1
<1>3. x % M = IF x < M THEN x ELSE x - M
  BY <1>1, <1>2, ModSmall
<1>4. x % N = c % N
  <2>1. \E e \in Int : x = c + e * N
    <3>1. x = c + 1 * N
      OBVIOUS
    <3> QED BY <3>1
  <2>2. x \in Int /\ c \in Int
    OBVIOUS
  <2> HIDE DEF x
  <2> QED BY <2>1, <2>2, ModCongruent
<1>5. y % N = c % N
  <2>1. \E e \in Int : y = c + e * N
    <3>1. y = c + (1 - k) * N
      OBVIOUS
    <3>2. 1 - k \in Int
      OBVIOUS
    <3> HIDE DEF y
    <3> WITNESS 1 - k \in Int
    <3> QED BY <3>1
  <2>2. y \in Int /\ c \in Int
    OBVIOUS
  <2> HIDE DEF y
  <2> QED BY <2>1, <2>2, ModCongruent
<1> QED BY <1>1, <1>2, <1>3, <1>4, <1>5

\* The threads of the two sides are told apart by their names.
LEMMA ThreadFacts ==
    /\ \A t \in Threads : t \in Pushers <=> t \notin Pullers
    /\ \A t \in Pushers : t[1] = "push" /\ t[2] \in 0 .. NPushers - 1
    /\ \A t \in Pullers : t[1] = "pull" /\ t[2] \in 0 .. NPullers - 1
    /\ \A t, u \in Threads : t[1] = u[1] /\ t[2] = u[2] => t = u
    /\ \A t, u \in Threads : t[1] = u[1] <=> (t \in Pushers <=> u \in Pushers)
BY DEF Threads, Pushers, Pullers

\* A thread numbers below its stride, which divides the number of channels.
LEMMA StrideFacts ==
    \A t \in Threads :
        /\ Stride(t) \in Nat \ {0}
        /\ t[2] \in 0 .. Stride(t) - 1
        /\ \E k \in Nat \ {0} : NChannels = k * Stride(t)
        /\ Stride(t) <= NChannels
BY SizeAssumption, ChannelAssumption, ThreadFacts
   DEF Stride, Divides, Threads

\* The position of a thread stays in its residue class.
LEMMA AdvanceFacts ==
    ASSUME NEW t \in Threads, NEW c \in Channels
    PROVE  /\ (c + Stride(t)) % NChannels \in Channels
           /\ ((c + Stride(t)) % NChannels) % Stride(t) = c % Stride(t)
<1>1. NChannels \in Nat /\ Channels = 0 .. NChannels - 1
  BY SizeAssumption DEF Channels
<1>2. Stride(t) \in Nat \ {0}
  BY StrideFacts
<1>3. PICK k \in Nat \ {0} : NChannels = k * Stride(t)
  BY StrideFacts
<1>4. c \in 0 .. NChannels - 1
  BY <1>1
<1> QED BY ONLY <1>1, <1>2, <1>3, <1>4, ModStep, Zenon

\* Two threads of a side in the same class would be the same thread.
LEMMA LaneExclusive ==
    ASSUME Lane PROVE OnePerSide
BY ThreadFacts DEF Lane, OnePerSide, Stride

\* The object a thread calls is one of the instances.
LEMMA InstanceFacts ==
    \A t \in Threads : Instance(t) \in Instances
BY DEF Instances

\* The inductive invariant holds of a pipeline that has not started.
LEMMA InitIInv == Init => IInv
<1> SUFFICES ASSUME Init PROVE IInv
  OBVIOUS
<1>1. TypeOK
  <2>1. pc \in [Threads -> {"use", "test"}]
    BY DEF Init, FirstPc
  <2>2. cur \in [Threads -> Channels]
    BY StrideFacts DEF Init, Channels
  <2>3. /\ counter \in [Channels -> 0 .. BufferSize]
        /\ first \in [Channels -> Slots] /\ last \in [Channels -> Slots]
    BY SizeAssumption DEF Init, Slots
  <2>4. slot \in [Channels -> [Slots -> Buffers]]
    BY DEF Init, HomeSlots, Buffers
  <2>5. hand \in [Threads -> Buffers]
    BY DEF Init, HomeHands, Buffers
  <2>6. content \in [Buffers -> Frames]
    BY DEF Init, Frames
  <2>7. /\ canceled \in [Instances -> BOOLEAN]
        /\ mtx \in [Conditions -> Threads \cup {Free}]
        /\ handled \in [Threads -> Nat]
        /\ received \in [Pullers -> Seq(Frames)]
    BY DEF Init
  <2>8. toPush \in Nat /\ toPull \in Nat
    BY EnvironmentAssumption DEF Init
  <2>9. /\ todo \in [Controls -> Seq(Instances)]
        /\ waking \in [Controls -> -1 .. 2 * NChannels - 1]
        /\ begun \subseteq Controls
        /\ runs \in Nat /\ spurious \in Nat
    BY SizeAssumption DEF Init
  <2> QED
    BY <2>1, <2>2, <2>3, <2>4, <2>5, <2>6, <2>7, <2>8, <2>9
       DEF TypeOK, Labels
<1>2. Lane
  <2> SUFFICES ASSUME NEW t \in Threads PROVE t[2] % Stride(t) = t[2]
    BY DEF Lane, Init
  <2> QED BY StrideFacts, ModSmall
<1>3. Ready
  BY DEF Ready, Init, FirstPc
<1>4. Working
  BY DEF Working, Init
<1> QED BY <1>1, <1>2, <1>3, <1>4 DEF IInv

-----------------------------------------------------------------------------
(* The steps of a thread preserve the inductive invariant.                 *)

\* A thread that moves to its next channel leaves the others in place.
LEMMA AdvanceMoves ==
    ASSUME IInv, NEW t \in Threads, Advance(t)
    PROVE  /\ cur' \in [Threads -> Channels]
           /\ handled' \in [Threads -> Nat]
           /\ Lane'
           /\ \A u \in Threads : u # t => cur'[u] = cur[u]
<1>1. cur \in [Threads -> Channels] /\ handled \in [Threads -> Nat] /\ Lane
  BY DEF IInv, TypeOK
<1>2. cur' \in [Threads -> Channels] /\ handled' \in [Threads -> Nat]
  BY <1>1, AdvanceFacts DEF Advance
<1>3. \A u \in Threads : cur'[u] % Stride(u) = u[2]
  <2> TAKE u \in Threads
  <2>1. CASE u = t
    <3>1. cur'[t] = (cur[t] + Stride(t)) % NChannels
      BY <1>1 DEF Advance
    <3>2. cur[t] % Stride(t) = t[2] /\ cur[t] \in Channels
      BY <1>1 DEF Lane
    <3> QED BY <2>1, <3>1, <3>2, AdvanceFacts
  <2>2. CASE u # t
    BY <1>1, <2>2 DEF Advance, Lane
  <2> QED BY <2>1, <2>2
<1>4. \A u \in Threads : Stride(u)' = Stride(u)
  BY DEF Stride
<1>5. Lane'
  BY <1>3, <1>4 DEF Lane
<1> QED BY <1>1, <1>2, <1>5 DEF Advance

\* A jump leads to a label.
LEMMA GotoTyped ==
    ASSUME IInv, NEW t \in Threads, NEW l \in Labels, Goto(t, l)
    PROVE  pc' \in [Threads -> Labels]
BY DEF IInv, TypeOK, Goto, Labels

\* The frame written in the buffer is a frame.
LEMMA ProduceTypeOK ==
    ASSUME IInv, NEW t \in Threads, Produce(t)
    PROVE  TypeOK'
<1>1. content' \in [Buffers -> Frames]
  <2>1. NextFrame(t) \in Frames
    <3>1. handled[t] \in Nat /\ Stride(t) \in Nat /\ t[2] \in Nat
      BY StrideFacts DEF IInv, TypeOK
    <3> QED BY <3>1 DEF NextFrame, Frames
  <2> QED BY <2>1 DEF IInv, TypeOK, Produce
<1>2. pc' \in [Threads -> Labels]
  BY GotoTyped DEF Produce, Labels
<1> QED BY <1>1, <1>2 DEF IInv, TypeOK, Produce, data, control, Labels

\* What the downstream stage uses is what a buffer can hold.
LEMMA ConsumeTypeOK ==
    ASSUME IInv, NEW t \in Threads, Consume(t)
    PROVE  TypeOK'
<1>1. received' \in [Pullers -> Seq(Frames)]
  <2>1. /\ content[hand[t]] \in Frames
        /\ t \in Pullers
        /\ received \in [Pullers -> Seq(Frames)]
    BY DEF IInv, TypeOK, Consume
  <2>2. Append(received[t], content[hand[t]]) \in Seq(Frames)
    BY <2>1
  <2> QED BY <2>1, <2>2 DEF Consume
<1>2. pc' \in [Threads -> Labels]
  BY GotoTyped DEF Consume, Labels
<1> QED BY <1>1, <1>2 DEF IInv, TypeOK, Consume, data, control, Labels

\* A spurious wakeup only moves the thread to the lock.
LEMMA SpuriousWakeupTypeOK ==
    ASSUME IInv, NEW t \in Threads, SpuriousWakeup(t)
    PROVE  TypeOK'
<1>1. spurious' \in Nat
  BY DEF IInv, TypeOK, SpuriousWakeup
<1>2. pc' \in [Threads -> Labels]
  BY GotoTyped DEF SpuriousWakeup, Labels
<1> QED BY <1>1, <1>2 DEF IInv, TypeOK, SpuriousWakeup, data, control, Labels

\* A pusher exchanges buffers within the slots of its channel.
LEMMA SwapPushTypeOK ==
    ASSUME IInv, NEW t \in Threads, SwapPush(t)
    PROVE  TypeOK'
<1>1. pc' \in [Threads -> Labels]
  BY GotoTyped DEF SwapPush, Labels
<1>2. /\ cur[t] \in Channels
      /\ last[cur[t]] \in Slots
      /\ slot[cur[t]][last[cur[t]]] \in Buffers
      /\ hand[t] \in Buffers
      /\ content[hand[t]] \in Frames
  BY DEF IInv, TypeOK
<1>3. last' \in [Channels -> Slots]
  <2>1. (last[cur[t]] + 1) % BufferSize \in Slots
    BY <1>2, SizeAssumption DEF Slots
  <2> QED BY <2>1 DEF IInv, TypeOK, SwapPush
<1>4. slot' \in [Channels -> [Slots -> Buffers]]
  <2> DEFINE row == [slot[cur[t]] EXCEPT ![last[cur[t]]] = hand[t]]
  <2>1. row \in [Slots -> Buffers]
    <3>1. slot[cur[t]] \in [Slots -> Buffers]
      BY <1>2 DEF IInv, TypeOK
    <3> QED BY <1>2, <3>1
  <2>2. CASE NoCopy
    <3>1. slot' = [slot EXCEPT ![cur[t]] = row]
      BY <2>2 DEF Exchange, SwapPush
    <3> HIDE DEF row
    <3> QED BY <2>1, <3>1 DEF IInv, TypeOK
  <2>3. CASE ~ NoCopy
    BY <2>3 DEF IInv, TypeOK, SwapPush
  <2> QED BY <2>2, <2>3
<1>5. hand' \in [Threads -> Buffers] /\ content' \in [Buffers -> Frames]
  BY <1>2 DEF Exchange, IInv, TypeOK, SwapPush
<1> QED BY <1>1, <1>3, <1>4, <1>5 DEF IInv, TypeOK, SwapPush, control, Labels

\* A puller exchanges buffers within the slots of its channel.
LEMMA SwapPullTypeOK ==
    ASSUME IInv, NEW t \in Threads, SwapPull(t)
    PROVE  TypeOK'
<1>1. pc' \in [Threads -> Labels]
  BY GotoTyped DEF SwapPull, Labels
<1>2. /\ cur[t] \in Channels
      /\ first[cur[t]] \in Slots
      /\ slot[cur[t]][first[cur[t]]] \in Buffers
      /\ hand[t] \in Buffers
      /\ content[slot[cur[t]][first[cur[t]]]] \in Frames
  BY DEF IInv, TypeOK
<1>3. first' \in [Channels -> Slots]
  <2>1. (first[cur[t]] + 1) % BufferSize \in Slots
    BY <1>2, SizeAssumption DEF Slots
  <2> QED BY <2>1 DEF IInv, TypeOK, SwapPull
<1>4. slot' \in [Channels -> [Slots -> Buffers]]
  <2> DEFINE row == [slot[cur[t]] EXCEPT ![first[cur[t]]] = hand[t]]
  <2>1. row \in [Slots -> Buffers]
    <3>1. slot[cur[t]] \in [Slots -> Buffers]
      BY <1>2 DEF IInv, TypeOK
    <3> QED BY <1>2, <3>1
  <2>2. CASE NoCopy
    <3>1. slot' = [slot EXCEPT ![cur[t]] = row]
      BY <2>2 DEF Exchange, SwapPull
    <3> HIDE DEF row
    <3> QED BY <2>1, <3>1 DEF IInv, TypeOK
  <2>3. CASE ~ NoCopy
    BY <2>3 DEF IInv, TypeOK, SwapPull
  <2> QED BY <2>2, <2>3
<1>5. hand' \in [Threads -> Buffers] /\ content' \in [Buffers -> Frames]
  BY <1>2 DEF Exchange, IInv, TypeOK, SwapPull
<1> QED BY <1>1, <1>3, <1>4, <1>5 DEF IInv, TypeOK, SwapPull, control, Labels

\* The counter stays within its bounds: the thread moves it only when the
\* wait has shown room or data, which nobody else can have used since.
LEMMA PublishTypeOK ==
    ASSUME IInv, NEW t \in Threads, Publish(t)
    PROVE  TypeOK' /\ Lane'
<1>1. /\ cur' \in [Threads -> Channels]
      /\ handled' \in [Threads -> Nat]
      /\ Lane'
  BY AdvanceMoves DEF Publish, IInv, TypeOK, Lane, Stride
<1>2. pc' \in [Threads -> Labels]
  BY GotoTyped DEF Publish, Labels
<1>3. counter' \in [Channels -> 0 .. BufferSize]
  <2>1. /\ counter \in [Channels -> 0 .. BufferSize] /\ cur[t] \in Channels
        /\ ~ Stuck(t) 
    BY DEF IInv, TypeOK, Ready, Publish
  <2>2. (IF t \in Pushers THEN counter[cur[t]] - 1 ELSE counter[cur[t]] + 1)
            \in 0 .. BufferSize
    BY <2>1, SizeAssumption DEF Stuck, IsFull, IsEmpty
  <2> QED BY <2>1, <2>2 DEF Publish
<1> QED BY <1>1, <1>2, <1>3 DEF IInv, TypeOK, Publish, data, control, Labels

\* Without a peer to wake, the thread moves on.
LEMMA CheckTypeOK ==
    ASSUME IInv, NEW t \in Threads, Check(t)
    PROVE  TypeOK' /\ Lane'
<1>1. /\ cur' \in [Threads -> Channels]
      /\ handled' \in [Threads -> Nat]
      /\ Lane'
  BY AdvanceMoves DEF Check, IInv, TypeOK, Lane, Stride
<1>2. pc' \in [Threads -> Labels]
  BY GotoTyped DEF Check, Labels
<1> QED BY <1>1, <1>2 DEF IInv, TypeOK, Check, data, control, Labels

\* notify_one wakes a thread, or nobody.
LEMMA NotifyTypeOK ==
    ASSUME IInv, NEW t \in Threads, Notify(t)
    PROVE  TypeOK'
<1>1. pc' \in [Threads -> Labels]
  <2>1. pc \in [Threads -> Labels] /\ "use" \in Labels /\ "lock" \in Labels
    BY DEF IInv, TypeOK, Labels
  <2>2. CASE Sleepers(PeerCondition(t)) = {}
    BY <2>1, <2>2 DEF Notify, Goto
  <2>3. CASE Sleepers(PeerCondition(t)) # {}
    <3>1. PICK u \in Sleepers(PeerCondition(t)) :
                pc' = [pc EXCEPT ![t] = "use", ![u] = "lock"]
      BY <2>3 DEF Notify
    <3> QED BY <2>1, <3>1
  <2> QED BY <2>2, <2>3
<1>2. /\ cur' \in [Threads -> Channels] /\ handled' \in [Threads -> Nat]
  BY AdvanceMoves DEF Notify
<1> QED BY <1>1, <1>2 DEF IInv, TypeOK, Notify, data, control, Labels

\* Every step of a thread keeps the types.
LEMMA StepTypeOK ==
    ASSUME IInv, NEW t \in Threads, Step(t) \/ SpuriousWakeup(t)
    PROVE  TypeOK'
<1>1. CASE Produce(t)
  BY <1>1, ProduceTypeOK
<1>2. CASE StopPushing(t)
  BY <1>2 DEF IInv, TypeOK, StopPushing, Goto, Labels, data, control
<1>3. CASE Consume(t)
  BY <1>3, ConsumeTypeOK
<1>4. CASE Test(t)
  BY <1>4 DEF IInv, TypeOK, Test, Goto, Labels, data, control
<1>5. CASE TestCancel(t)
  BY <1>5 DEF IInv, TypeOK, TestCancel, Goto, Labels, data, control
<1>6. CASE Lock(t)
  BY <1>6 DEF IInv, TypeOK, Lock, Goto, Labels, data, control
<1>7. CASE Pred(t)
  BY <1>7 DEF IInv, TypeOK, Pred, Goto, Labels, data, control
<1>8. CASE PredCancel(t)
  BY <1>8 DEF IInv, TypeOK, PredCancel, Goto, Labels, data, control
<1>9. CASE SpuriousWakeup(t)
  BY <1>9, SpuriousWakeupTypeOK
<1>10. CASE Final(t)
  BY <1>10 DEF IInv, TypeOK, Final, Goto, Labels, data, control
<1>11. CASE FinalCancel(t)
  BY <1>11 DEF IInv, TypeOK, FinalCancel, Goto, Labels, data, control
<1>12. CASE SwapPush(t)
  BY <1>12, SwapPushTypeOK
<1>13. CASE SwapPull(t)
  BY <1>13, SwapPullTypeOK
<1>14. CASE Publish(t)
  BY <1>14, PublishTypeOK
<1>15. CASE Check(t)
  BY <1>15, CheckTypeOK
<1>16. CASE Notify(t)
  BY <1>16, NotifyTypeOK
<1> QED
  BY <1>1, <1>2, <1>3, <1>4, <1>5, <1>6, <1>7, <1>8, <1>9, <1>10, <1>11,
     <1>12, <1>13, <1>14, <1>15, <1>16
     DEF Step

\* Every step of a thread keeps the threads on their channels.
LEMMA StepLane ==
    ASSUME IInv, NEW t \in Threads, Step(t) \/ SpuriousWakeup(t)
    PROVE  Lane'
<1>1. CASE Produce(t)
  BY <1>1 DEF IInv, Lane, Produce, Stride
<1>2. CASE StopPushing(t)
  BY <1>2 DEF IInv, Lane, StopPushing, Stride
<1>3. CASE Consume(t)
  BY <1>3 DEF IInv, Lane, Consume, Stride
<1>4. CASE Test(t)
  BY <1>4 DEF IInv, Lane, Test, Stride
<1>5. CASE TestCancel(t)
  BY <1>5 DEF IInv, Lane, TestCancel, Stride
<1>6. CASE Lock(t)
  BY <1>6 DEF IInv, Lane, Lock, Stride
<1>7. CASE Pred(t)
  BY <1>7 DEF IInv, Lane, Pred, Stride
<1>8. CASE PredCancel(t)
  BY <1>8 DEF IInv, Lane, PredCancel, Stride
<1>9. CASE SpuriousWakeup(t)
  BY <1>9 DEF IInv, Lane, SpuriousWakeup, Stride
<1>10. CASE Final(t)
  BY <1>10 DEF IInv, Lane, Final, Stride
<1>11. CASE FinalCancel(t)
  BY <1>11 DEF IInv, Lane, FinalCancel, Stride
<1>12. CASE SwapPush(t)
  BY <1>12 DEF IInv, Lane, SwapPush, Stride
<1>13. CASE SwapPull(t)
  BY <1>13 DEF IInv, Lane, SwapPull, Stride
<1>14. CASE Publish(t)
  BY <1>14, PublishTypeOK
<1>15. CASE Check(t)
  BY <1>15, CheckTypeOK
<1>16. CASE Notify(t)
  BY <1>16, AdvanceMoves DEF Notify
<1> QED
  BY <1>1, <1>2, <1>3, <1>4, <1>5, <1>6, <1>7, <1>8, <1>9, <1>10, <1>11,
     <1>12, <1>13, <1>14, <1>15, <1>16
     DEF Step

\* What the others have read of the counter is still true once a thread has
\* moved it: there are no two threads of a side on a channel, and the peer
\* only makes room for a pusher, or data for a puller.
LEMMA PublishReady ==
    ASSUME IInv, NEW t \in Threads, Publish(t)
    PROVE  Ready'
<1>1. \A u \in Threads : u # t => cur'[u] = cur[u] /\ pc'[u] = pc[u]
  BY AdvanceMoves DEF Publish, IInv, TypeOK, Goto
<1>2. pc'[t] \in {"use", "check"}
  BY DEF Publish, IInv, TypeOK, Goto
<1>3. canceled' = canceled
  BY DEF Publish
<1>4. \A u \in Threads : u # t /\ ~ Stuck(u) => ~ Stuck(u)'
  <2> TAKE u \in Threads
  <2> HAVE u # t /\ ~ Stuck(u)
  <2>1. cur'[u] = cur[u] /\ cur[t] \in Channels /\ cur[u] \in Channels
    BY <1>1 DEF IInv, TypeOK
  <2>2. CASE cur[u] # cur[t]
    <3>1. counter'[cur[u]] = counter[cur[u]]
      BY <2>1, <2>2 DEF Publish, IInv, TypeOK
    <3> QED BY <2>1, <3>1 DEF Stuck, IsFull, IsEmpty
  <2>3. CASE cur[u] = cur[t]
    <3>1. u \in Pushers <=> t \notin Pushers
      BY <2>3, LaneExclusive, ThreadFacts DEF OnePerSide, IInv
    <3>2. counter'[cur[t]] = IF t \in Pushers THEN counter[cur[t]] - 1
                                              ELSE counter[cur[t]] + 1
      BY DEF Publish, IInv, TypeOK
    <3>3. counter[cur[t]] \in 0 .. BufferSize
      BY DEF IInv, TypeOK
    <3> QED BY <2>1, <2>3, <3>1, <3>2, <3>3 DEF Stuck, IsFull, IsEmpty
  <2> QED BY <2>2, <2>3
<1>5. \A u \in Threads : IsCanceled(u)' = IsCanceled(u)
  BY <1>3 DEF IsCanceled
<1>6. Ready
  BY DEF IInv
<1> SUFFICES ASSUME NEW u \in Threads
             PROVE  /\ pc'[u] = "final" => (~ Stuck(u) \/ IsCanceled(u))'
                    /\ pc'[u] = "finalCancel" =>
                            u \in Pullers /\ IsCanceled(u)'
                    /\ pc'[u] \in {"swap", "publish"} => (~ Stuck(u))'
  BY DEF Ready
<1>7. CASE u = t
  BY <1>2, <1>7
<1>8. CASE u # t
  BY <1>1, <1>4, <1>5, <1>6, <1>8 DEF Ready
<1> QED BY <1>7, <1>8

\* A thread that moves to its next channel has nothing to keep true.
LEMMA CheckReady ==
    ASSUME IInv, NEW t \in Threads, Check(t)
    PROVE  Ready'
<1>1. \A u \in Threads : u # t => cur'[u] = cur[u] /\ pc'[u] = pc[u]
  BY AdvanceMoves DEF Check, IInv, TypeOK, Goto
<1>2. pc'[t] \in {"use", "notify"}
  BY DEF Check, IInv, TypeOK, Goto
<1>3. counter' = counter /\ canceled' = canceled
  BY DEF Check
<1> QED
  BY <1>1, <1>2, <1>3
     DEF IInv, Ready, Stuck, IsFull, IsEmpty, IsCanceled

\* Nor has one that notifies; those it wakes have to take the mutex again.
LEMMA NotifyReady ==
    ASSUME IInv, NEW t \in Threads, Notify(t)
    PROVE  Ready'
<1>1. \A u \in Threads : u # t => cur'[u] = cur[u]
  BY AdvanceMoves DEF Notify, IInv, TypeOK
<1>2. /\ pc'[t] = "use"
      /\ \A u \in Threads : u # t => pc'[u] = pc[u] \/ pc'[u] = "lock"
  BY DEF Notify, Sleepers, IInv, TypeOK, Goto
<1>3. counter' = counter /\ canceled' = canceled
  BY DEF Notify
<1> QED
  BY <1>1, <1>2, <1>3
     DEF IInv, Ready, Stuck, IsFull, IsEmpty, IsCanceled

\* Every step of a thread keeps true what the others have read.
LEMMA StepReady ==
    ASSUME IInv, NEW t \in Threads, Step(t) \/ SpuriousWakeup(t)
    PROVE  Ready'
<1>1. CASE Produce(t)
  BY <1>1, ThreadFacts
     DEF IInv, TypeOK, Ready, Stuck, IsFull, IsEmpty, IsCanceled, Produce,
         Goto, data, control
<1>2. CASE StopPushing(t)
  BY <1>2, ThreadFacts
     DEF IInv, TypeOK, Ready, Stuck, IsFull, IsEmpty, IsCanceled,
         StopPushing, Goto, data, control
<1>3. CASE Consume(t)
  BY <1>3, ThreadFacts
     DEF IInv, TypeOK, Ready, Stuck, IsFull, IsEmpty, IsCanceled, Consume,
         Goto, data, control
<1>4. CASE Test(t)
  BY <1>4, ThreadFacts
     DEF IInv, TypeOK, Ready, Stuck, IsFull, IsEmpty, IsCanceled, Test,
         Goto, data, control
<1>5. CASE TestCancel(t)
  BY <1>5, ThreadFacts
     DEF IInv, TypeOK, Ready, Stuck, IsFull, IsEmpty, IsCanceled,
         TestCancel, Goto, data, control
<1>6. CASE Lock(t)
  BY <1>6, ThreadFacts
     DEF IInv, TypeOK, Ready, Stuck, IsFull, IsEmpty, IsCanceled, Lock,
         Goto, data, control
<1>7. CASE Pred(t)
  BY <1>7, ThreadFacts
     DEF IInv, TypeOK, Ready, Stuck, IsFull, IsEmpty, IsCanceled, Pred,
         Goto, data, control
<1>8. CASE PredCancel(t)
  BY <1>8, ThreadFacts
     DEF IInv, TypeOK, Ready, Stuck, IsFull, IsEmpty, IsCanceled,
         PredCancel, Goto, data, control
<1>9. CASE SpuriousWakeup(t)
  BY <1>9, ThreadFacts
     DEF IInv, TypeOK, Ready, Stuck, IsFull, IsEmpty, IsCanceled,
         SpuriousWakeup, Goto, data, control
<1>10. CASE Final(t)
  BY <1>10, ThreadFacts
     DEF IInv, TypeOK, Ready, Stuck, IsFull, IsEmpty, IsCanceled, Final,
         Goto, data, control
<1>11. CASE FinalCancel(t)
  BY <1>11, ThreadFacts
     DEF IInv, TypeOK, Ready, Stuck, IsFull, IsEmpty, IsCanceled,
         FinalCancel, Goto, data, control
<1>12. CASE SwapPush(t)
  BY <1>12, ThreadFacts
     DEF IInv, TypeOK, Ready, Stuck, IsFull, IsEmpty, IsCanceled, SwapPush,
         Goto, data, control
<1>13. CASE SwapPull(t)
  BY <1>13, ThreadFacts
     DEF IInv, TypeOK, Ready, Stuck, IsFull, IsEmpty, IsCanceled, SwapPull,
         Goto, data, control
<1>14. CASE Publish(t)
  BY <1>14, PublishReady
<1>15. CASE Check(t)
  BY <1>15, CheckReady
<1>16. CASE Notify(t)
  BY <1>16, NotifyReady
<1> QED
  BY <1>1, <1>2, <1>3, <1>4, <1>5, <1>6, <1>7, <1>8, <1>9, <1>10, <1>11,
     <1>12, <1>13, <1>14, <1>15, <1>16
     DEF Step

\* The steps of a thread do not concern the control threads.
LEMMA StepWorking ==
    ASSUME IInv, NEW t \in Threads, Step(t) \/ SpuriousWakeup(t)
    PROVE  Working'
BY DEF IInv, Working, Step, Produce, StopPushing, Consume, Test, TestCancel,
       Lock, Pred, PredCancel, SpuriousWakeup, Final, FinalCancel, SwapPush,
       SwapPull, Publish, Check, Notify, control

-----------------------------------------------------------------------------
(* So do the steps of the control threads and the reset.                   *)

\* The upstream stage has returned.
LEMMA BeginUpstreamIInv ==
    ASSUME IInv, BeginUpstream
    PROVE  IInv'
<1>1. todo' \in [Controls -> Seq(Instances)]
  <2>1. Clones("pull", NPullers) \in Seq(Instances)
    BY SizeAssumption DEF Clones, Instances, Threads, Pullers
  <2> QED BY <2>1 DEF IInv, TypeOK, BeginUpstream
<1>2. begun' \subseteq Controls
  BY DEF BeginUpstream, Controls, IInv, TypeOK
<1>3. TypeOK'
  BY <1>1, <1>2 DEF IInv, TypeOK, BeginUpstream, data
<1>4. Lane' /\ Ready'
  BY DEF IInv, BeginUpstream, Lane, Ready, Stuck, IsFull, IsEmpty, IsCanceled
<1>5. Working'
  <2>1. Clones("pull", NPullers) # << >>
      BY SizeAssumption DEF Clones
  <2> QED BY <2>1 DEF IInv, TypeOK, Working, BeginUpstream
<1> QED BY <1>3, <1>4, <1>5 DEF IInv

\* The last stage has returned.
LEMMA BeginMainIInv ==
    ASSUME IInv, BeginMain
    PROVE  IInv'
<1>1. todo' \in [Controls -> Seq(Instances)]
  <2>1. /\ Clones("pull", NPullers) \in Seq(Instances)
        /\ Clones("push", NPushers) \in Seq(Instances)
    BY SizeAssumption DEF Clones, Instances, Threads, Pullers, Pushers
  <2>2. Clones("pull", NPullers) # << >>
    BY SizeAssumption DEF Clones
  <2>3. Clones("push", NPushers) \o Tail(Clones("pull", NPullers))
            \in Seq(Instances)
    BY <2>1, <2>2
  <2> QED BY <2>3 DEF IInv, TypeOK, BeginMain
<1>2. begun' \subseteq Controls
  BY DEF BeginMain, Controls, IInv, TypeOK
<1>3. TypeOK'
  BY <1>1, <1>2 DEF IInv, TypeOK, BeginMain, data
<1>4. Lane' /\ Ready'
  BY DEF IInv, BeginMain, Lane, Ready, Stuck, IsFull, IsEmpty, IsCanceled
<1>5. Working'
  <2> DEFINE new == Clones("push", NPushers) \o Tail(Clones("pull", NPullers))
  <2>1. /\ Clones("pull", NPullers) \in Seq(Instances)
        /\ Clones("push", NPushers) \in Seq(Instances)
      BY SizeAssumption DEF Clones, Instances, Threads, Pullers, Pushers
  <2>2. Clones("pull", NPullers) # << >> /\ Clones("push", NPushers) # << >>
      BY SizeAssumption DEF Clones
  <2>3. new # << >>
    BY <2>1, <2>2
  <2>4. todo' = [todo EXCEPT !["main"] = new] /\ waking' = waking
    BY DEF BeginMain
  <2> HIDE DEF new
  <2> QED BY <2>3, <2>4 DEF IInv, TypeOK, Working
<1> QED BY <1>3, <1>4, <1>5 DEF IInv

\* Setting the flag of an instance only lets its thread go.
LEMMA SendCancelSignalIInv ==
    ASSUME IInv, NEW k \in Controls, SendCancelSignal(k)
    PROVE  IInv'
<1>1. canceled' \in [Instances -> BOOLEAN]
  BY DEF SendCancelSignal, IInv, TypeOK
<1>2. todo' \in [Controls -> Seq(Instances)]
  <2>1. Tail(todo[k]) \in Seq(Instances)
    BY DEF SendCancelSignal, IInv, TypeOK
  <2> QED BY <2>1 DEF SendCancelSignal, IInv, TypeOK
<1>3. waking' \in [Controls -> -1 .. 2 * NChannels - 1]
  <2>1. 0 \in -1 .. 2 * NChannels - 1
    BY SizeAssumption
  <2> QED BY <2>1 DEF SendCancelSignal, IInv, TypeOK
<1>4. TypeOK'
  BY <1>1, <1>2, <1>3 DEF IInv, TypeOK, SendCancelSignal, data
<1>5. Lane'
  BY DEF IInv, SendCancelSignal, Lane
<1>6. \A t \in Threads : /\ IsCanceled(t) => IsCanceled(t)'
                         /\ Stuck(t)' = Stuck(t)
  BY InstanceFacts DEF SendCancelSignal, IInv, TypeOK, IsCanceled, Stuck,
                       IsFull, IsEmpty
<1>7. Ready'
  BY <1>6 DEF IInv, Ready, SendCancelSignal
<1>8. Working'
  <2>0. /\ todo \in [Controls -> Seq(Instances)]
        /\ waking \in [Controls -> -1 .. 2 * NChannels - 1]
        /\ Working
    BY DEF IInv, TypeOK
  <2>1. CASE ActiveWaiting
    <3>1. /\ todo' = [todo EXCEPT ![k] = Tail(@)]
          /\ waking' = waking
          /\ waking[k] = -1
      BY <2>1 DEF SendCancelSignal
    <3>2. todo' = [todo EXCEPT ![k] = Tail(todo[k])]
      BY <3>1
    <3> QED BY <2>0, <3>1, <3>2 DEF Working
  <2>2. CASE ~ ActiveWaiting
    BY <2>0, <2>2 DEF Working, SendCancelSignal
  <2> QED BY <2>1, <2>2
<1> QED BY <1>4, <1>5, <1>7, <1>8 DEF IInv

\* wake_up sends the sleepers back to the mutex of their condition.
LEMMA WakeUpIInv ==
    ASSUME IInv, NEW k \in Controls, WakeUp(k)
    PROVE  IInv'
<1>1. /\ pc' \in [Threads -> Labels]
      /\ \A t \in Threads : pc'[t] \in {pc[t], "lock"}
  BY DEF WakeUp, IInv, TypeOK, Labels
<1>2. todo' \in [Controls -> Seq(Instances)]
  <2>1. Tail(todo[k]) \in Seq(Instances)
    BY DEF IInv, TypeOK, Working, WakeUp
  <2> QED BY <2>1 DEF WakeUp, IInv, TypeOK
<1>3. waking' \in [Controls -> -1 .. 2 * NChannels - 1]
  <2>1. waking[k] \in 0 .. 2 * NChannels - 1 /\ NChannels \in Nat
    BY SizeAssumption DEF WakeUp, IInv, TypeOK
  <2> QED BY <2>1 DEF WakeUp, IInv, TypeOK
<1>4. TypeOK'
  BY <1>1, <1>2, <1>3 DEF IInv, TypeOK, WakeUp, data
<1>5. Lane'
  BY DEF IInv, WakeUp, Lane
<1>6. \A t \in Threads :
          IsCanceled(t)' = IsCanceled(t) /\ Stuck(t)' = Stuck(t)
  BY DEF WakeUp, IsCanceled, Stuck, IsFull, IsEmpty
<1>7. Ready'
  BY <1>1, <1>6 DEF IInv, Ready
<1>8. Working'
  BY DEF IInv, TypeOK, Working, WakeUp
<1> QED BY <1>4, <1>5, <1>7, <1>8 DEF IInv

\* The reset puts every thread and ring where they were.
LEMMA ResetIInv ==
    ASSUME IInv, Reset
    PROVE  IInv'
<1>1. /\ pc' \in [Threads -> {"use", "test"}]
      /\ cur' \in [Threads -> Channels]
  BY StrideFacts DEF Reset, FirstPc, Channels
<1>2. /\ counter' \in [Channels -> 0 .. BufferSize]
      /\ first' \in [Channels -> Slots] /\ last' \in [Channels -> Slots]
  BY SizeAssumption DEF ResetRings, ResetNoCopy, Reset, Slots
<1>3. /\ slot' \in [Channels -> [Slots -> Buffers]]
      /\ hand' \in [Threads -> Buffers]
  BY DEF ResetRings, ResetNoCopy, Reset, HomeSlots, HomeHands, Buffers
<1>4. /\ canceled' \in [Instances -> BOOLEAN]
      /\ handled' \in [Threads -> Nat]
  BY DEF Reset, IInv, TypeOK
<1>5. received' \in [Pullers -> Seq(Frames)]
  BY DEF Reset
<1>6. /\ toPush' \in Nat
      /\ toPull' \in Nat
      /\ runs' \in Nat
      /\ begun' \subseteq Controls
  BY EnvironmentAssumption DEF Reset, IInv, TypeOK
<1>7. TypeOK'
  BY <1>1, <1>2, <1>3, <1>4, <1>5, <1>6 DEF IInv, TypeOK, Reset, Labels
<1>8. Lane'
  <2>1. \A t \in Threads : t[2] % Stride(t) = t[2]
    BY StrideFacts, ModSmall
  <2> QED BY <2>1 DEF Lane, Reset, Stride
<1>9. Ready'
  BY <1>1 DEF Ready
<1>10. Working'
  BY DEF IInv, TypeOK, Working, Reset
<1> QED BY <1>7, <1>8, <1>9, <1>10 DEF IInv

\* Every step of the system preserves the inductive invariant.
LEMMA NextIInv ==
    ASSUME IInv, [Next]_vars PROVE IInv'
<1>1. ASSUME NEW t \in Threads, Step(t) \/ SpuriousWakeup(t)
      PROVE  IInv'
  BY <1>1, StepTypeOK, StepLane, StepReady, StepWorking DEF IInv
<1>2. ASSUME NEW k \in Controls, Cancel(k)
      PROVE  IInv'
  BY <1>2, SendCancelSignalIInv, WakeUpIInv DEF Cancel
<1>3. CASE UNCHANGED vars
  BY <1>3 DEF vars, IInv, TypeOK, Lane, Stride, Ready, Stuck, IsFull,
              IsEmpty, IsCanceled, Working
<1> QED
  BY <1>1, <1>2, <1>3, BeginUpstreamIInv, BeginMainIInv, ResetIInv
     DEF Next, Finished

-----------------------------------------------------------------------------
(* The rings.                                                              *)

\* One more slot is filled when last moves.
LEMMA RingPush ==
    ASSUME NEW B \in Nat \ {0}, NEW f \in 0 .. B - 1, NEW n \in 0 .. B - 1
    PROVE  (((f + n) % B) + 1) % B = (f + (n + 1)) % B
<1> DEFINE x == f + n
<1>1. x \in 0 .. 2 * B - 2
  OBVIOUS
<1> HIDE DEF x
<1>2. ((x % B) + 1) % B = (x + 1) % B
  <2>1. x % B = IF x < B THEN x ELSE x - B
    <3>1. x \in 0 .. 2 * B - 1
      BY <1>1
    <3> QED BY <3>1, ModSmall
  <2> DEFINE y == x + 1
  <2>2. y \in 0 .. 2 * B - 1
    BY <1>1
  <2>3. y % B = IF y < B THEN y ELSE y - B
    <3> HIDE DEF y
    <3> QED BY <2>2, ModSmall
  <2> DEFINE z == (x % B) + 1
  <2>4. z \in 0 .. 2 * B - 1
    BY <2>1, <1>1
  <2>5. z % B = IF z < B THEN z ELSE z - B
    <3> HIDE DEF z
    <3> QED BY <2>4, ModSmall
  <2> QED BY <2>1, <2>3, <2>5, <1>1
<1> QED BY <1>2 DEF x

\* One slot less is filled when first moves.
LEMMA RingPull ==
    ASSUME NEW B \in Nat \ {0}, NEW f \in 0 .. B - 1, NEW n \in 1 .. B
    PROVE  (f + n) % B = (((f + 1) % B) + (n - 1)) % B
<1> DEFINE g == f + 1
           x == f + n
           h == (IF g < B THEN g ELSE g - B) + (n - 1)
<1>1. g % B = IF g < B THEN g ELSE g - B
  <2>1. g \in 0 .. 2 * B - 1
    OBVIOUS
  <2> HIDE DEF g
  <2> QED BY <2>1, ModSmall
<1>2. x % B = IF x < B THEN x ELSE x - B
  <2>1. x \in 0 .. 2 * B - 1
    OBVIOUS
  <2> HIDE DEF x
  <2> QED BY <2>1, ModSmall
<1>3. h % B = IF h < B THEN h ELSE h - B
  <2>1. h \in 0 .. 2 * B - 1
    OBVIOUS
  <2> HIDE DEF h
  <2> QED BY <2>1, ModSmall
<1>4. x % B = h % B
  BY <1>2, <1>3
<1> QED BY <1>1, <1>4

\* Only the steps into and out of "publish" change who has moved its index.
LEMMA MovedSame ==
    ASSUME IInv,
           \A t \in Threads : pc'[t] = "publish" <=> pc[t] = "publish",
           \A t \in Threads : pc[t] = "publish" => cur'[t] = cur[t]
    PROVE  \A c \in Channels : /\ Moved(Pushers, c)' = Moved(Pushers, c)
                               /\ Moved(Pullers, c)' = Moved(Pullers, c)
BY DEF Moved, Threads

\* A side counts for one slot at most.
LEMMA MovedType ==
    \A c \in Channels : /\ Moved(Pushers, c) \in 0 .. 1
                        /\ Moved(Pullers, c) \in 0 .. 1
BY DEF Moved

\* On a channel, a side is its only thread.
LEMMA MovedOne ==
    ASSUME IInv, NEW t \in Threads
    PROVE  /\ t \in Pushers =>
                Moved(Pushers, cur[t]) = IF pc[t] = "publish" THEN 1 ELSE 0
           /\ t \in Pullers =>
                Moved(Pullers, cur[t]) = IF pc[t] = "publish" THEN 1 ELSE 0
<1>1. OnePerSide
  BY LaneExclusive DEF IInv
<1>2. ASSUME t \in Pushers, NEW u \in Pushers, cur[u] = cur[t] PROVE u = t
  BY <1>1, <1>2, ThreadFacts DEF OnePerSide, Threads
<1>3. ASSUME t \in Pullers, NEW u \in Pullers, cur[u] = cur[t] PROVE u = t
  BY <1>1, <1>3, ThreadFacts DEF OnePerSide, Threads
<1> QED BY <1>2, <1>3 DEF Moved

\* With the ring consistent, the thread that fills a slot and the one that
\* empties a slot are not in the same one.
LEMMA ConsistentExclusive ==
    ASSUME IInv, RingConsistent
    PROVE  SlotExclusive
<1> SUFFICES ASSUME NEW t \in Pushers, NEW u \in Pullers, cur[t] = cur[u],
                    pc[t] = "swap", pc[u] = "swap"
             PROVE  last[cur[t]] # first[cur[t]]
  BY DEF SlotExclusive
<1> DEFINE c == cur[t]
<1>1. t \in Threads /\ u \in Threads /\ c \in Channels
  BY DEF Threads, IInv, TypeOK
<1>2. Moved(Pushers, c) = 0 /\ Moved(Pullers, c) = 0
  BY <1>1, MovedOne
<1>3. counter[c] \in 1 .. BufferSize - 1
  <2>1. counter[c] \in 0 .. BufferSize /\ ~ Stuck(t) /\ ~ Stuck(u)
    BY <1>1 DEF IInv, TypeOK, Ready
  <2> QED
    BY <2>1, <1>1, ThreadFacts, SizeAssumption DEF Stuck, IsFull, IsEmpty
<1>4. Filled(c) \in 1 .. BufferSize - 1
  BY <1>2, <1>3, SizeAssumption DEF Filled
<1>5. first[c] \in 0 .. BufferSize - 1
  BY <1>1 DEF IInv, TypeOK, Slots
<1>6. last[c] = (first[c] + Filled(c)) % BufferSize
  BY <1>1 DEF RingConsistent
<1> DEFINE x == first[c] + Filled(c)
<1>7. x \in 0 .. 2 * BufferSize - 1
  BY <1>4, <1>5, SizeAssumption
<1>8. x % BufferSize = IF x < BufferSize THEN x ELSE x - BufferSize
  <2> HIDE DEF x
  <2> QED BY <1>7, ModSmall, SizeAssumption
<1> QED BY <1>4, <1>5, <1>6, <1>8, SizeAssumption

\* A step that moves no index and no counter leaves the ring consistent.
LEMMA RingSame ==
    ASSUME IInv, RingConsistent,
           counter' = counter, first' = first, last' = last,
           \A t \in Threads : pc'[t] = "publish" <=> pc[t] = "publish",
           \A t \in Threads : pc[t] = "publish" => cur'[t] = cur[t]
    PROVE  RingConsistent'
BY MovedSame DEF RingConsistent, Filled

\* The pusher moves last before the counter.
LEMMA RingSwapPush ==
    ASSUME IInv, RingConsistent, IInv', NEW t \in Threads, SwapPush(t)
    PROVE  /\ RingConsistent'
           /\ \A c \in Channels : Filled(c)' = Filled(c) + (IF c = cur[t] THEN 1 ELSE 0)
           /\ Filled(cur[t]) < BufferSize
<1> SUFFICES ASSUME NEW c \in Channels
             PROVE  /\ Filled(c)' \in 0 .. BufferSize
                    /\ last'[c] = (first'[c] + Filled(c)') % BufferSize
                    /\ Filled(c)' = Filled(c) + (IF c = cur[t] THEN 1 ELSE 0)
                    /\ c = cur[t] => Filled(c) < BufferSize
  BY DEF RingConsistent, IInv, TypeOK
<1>1. /\ t \in Pushers
      /\ t \notin Pullers
      /\ cur[t] \in Channels
      /\ cur' = cur
      /\ counter' = counter
      /\ first' = first
  BY ThreadFacts DEF SwapPush, IInv, TypeOK
<1>2. /\ pc[t] = "swap"
      /\ pc'[t] = "publish"
      /\ \A u \in Threads : u # t => pc'[u] = pc[u]
  BY DEF SwapPush, Goto, IInv, TypeOK
<1>3. Moved(Pullers, c)' = Moved(Pullers, c)
  BY <1>1, <1>2 DEF Moved, Threads
<1>4. /\ last[c] = (first[c] + Filled(c)) % BufferSize
      /\ Filled(c) \in 0 .. BufferSize
  BY DEF RingConsistent
<1>5. CASE c # cur[t]
  <2>1. last'[c] = last[c]
    BY <1>5 DEF SwapPush, IInv, TypeOK
  <2>2. Moved(Pushers, c)' = Moved(Pushers, c)
    BY <1>1, <1>2, <1>5 DEF Moved, Threads
  <2>3. Filled(c)' = Filled(c)
    BY <1>1, <1>3, <2>2 DEF Filled
  <2> QED BY <1>5, <1>1, <1>4, <2>1, <2>3
<1>6. CASE c = cur[t]
  <2>1. Moved(Pushers, c) = 0
    BY <1>1, <1>2, <1>6, MovedOne
  <2>2. Moved(Pushers, c)' = 1
    BY <1>1, <1>2, <1>6 DEF Moved
  <2>3. last'[c] = (last[c] + 1) % BufferSize
    BY <1>1, <1>6 DEF SwapPush, IInv, TypeOK
  <2>4. counter[c] \in 1 .. BufferSize
    BY <1>1, <1>2, <1>6, SizeAssumption DEF IInv, TypeOK, Ready, Stuck, IsFull
  <2>5. Filled(c)' = Filled(c) + 1 /\ Filled(c) \in 0 .. BufferSize - 1
    BY <1>1, <1>3, <1>4, <2>1, <2>2, <2>4, MovedType, SizeAssumption
       DEF Filled
  <2>6. first[c] \in 0 .. BufferSize - 1
    BY DEF IInv, TypeOK, Slots
  <2>7. (((first[c] + Filled(c)) % BufferSize) + 1) % BufferSize
            = (first[c] + (Filled(c) + 1)) % BufferSize
    BY <2>5, <2>6, RingPush, SizeAssumption
  <2> QED BY <1>6, <1>1, <1>4, <2>3, <2>5, <2>7, SizeAssumption
<1> QED BY <1>5, <1>6

\* The puller moves first before the counter.
LEMMA RingSwapPull ==
    ASSUME IInv, RingConsistent, IInv', NEW t \in Threads, SwapPull(t)
    PROVE  /\ RingConsistent'
           /\ \A c \in Channels : Filled(c)' = Filled(c) - (IF c = cur[t] THEN 1 ELSE 0)
           /\ Filled(cur[t]) > 0
<1> SUFFICES ASSUME NEW c \in Channels
             PROVE  /\ Filled(c)' \in 0 .. BufferSize
                    /\ last'[c] = (first'[c] + Filled(c)') % BufferSize
                    /\ Filled(c)' = Filled(c) - (IF c = cur[t] THEN 1 ELSE 0)
                    /\ c = cur[t] => Filled(c) > 0
  BY DEF RingConsistent, IInv, TypeOK
<1>1. /\ t \in Pullers
      /\ t \notin Pushers
      /\ cur[t] \in Channels
      /\ cur' = cur
      /\ counter' = counter
      /\ last' = last
  BY ThreadFacts DEF SwapPull, IInv, TypeOK
<1>2. /\ pc[t] = "swap"
      /\ pc'[t] = "publish"
      /\ \A u \in Threads : u # t => pc'[u] = pc[u]
  BY DEF SwapPull, Goto, IInv, TypeOK
<1>3. Moved(Pushers, c)' = Moved(Pushers, c)
  BY <1>1, <1>2 DEF Moved, Threads
<1>4. /\ last[c] = (first[c] + Filled(c)) % BufferSize
      /\ Filled(c) \in 0 .. BufferSize
  BY DEF RingConsistent
<1>5. CASE c # cur[t]
  <2>1. first'[c] = first[c]
    BY <1>5 DEF SwapPull, IInv, TypeOK
  <2>2. Moved(Pullers, c)' = Moved(Pullers, c)
    BY <1>1, <1>2, <1>5 DEF Moved, Threads
  <2>3. Filled(c)' = Filled(c)
    BY <1>1, <1>3, <2>2 DEF Filled
  <2> QED BY <1>5, <1>1, <1>4, <2>1, <2>3
<1>6. CASE c = cur[t]
  <2>1. Moved(Pullers, c) = 0
    BY <1>1, <1>2, <1>6, MovedOne
  <2>2. Moved(Pullers, c)' = 1
    BY <1>1, <1>2, <1>6 DEF Moved
  <2>3. first'[c] = (first[c] + 1) % BufferSize
    BY <1>1, <1>6 DEF SwapPull, IInv, TypeOK
  <2>4. counter[c] \in 0 .. BufferSize - 1
    BY <1>1, <1>2, <1>6, SizeAssumption
       DEF IInv, TypeOK, Ready, Stuck, IsEmpty
  <2>5. Filled(c)' = Filled(c) - 1 /\ Filled(c) \in 1 .. BufferSize
    BY <1>1, <1>3, <1>4, <2>1, <2>2, <2>4, MovedType, SizeAssumption
       DEF Filled
  <2>6. first[c] \in 0 .. BufferSize - 1
    BY DEF IInv, TypeOK, Slots
  <2>7. (first[c] + Filled(c)) % BufferSize
            = (((first[c] + 1) % BufferSize) + (Filled(c) - 1)) % BufferSize
    BY <2>5, <2>6, RingPull, SizeAssumption
  <2> QED BY <1>6, <1>1, <1>4, <2>3, <2>5, <2>7, SizeAssumption
<1> QED BY <1>5, <1>6

\* Moving the counter ends the exchange.
LEMMA RingPublish ==
    ASSUME IInv, RingConsistent, IInv', NEW t \in Threads, Publish(t)
    PROVE  RingConsistent' /\ \A c \in Channels : Filled(c)' = Filled(c)
<1>1. /\ pc[t] = "publish"
      /\ pc'[t] # "publish"
      /\ \A u \in Threads : u # t => pc'[u] = pc[u] /\ cur'[u] = cur[u]
  <2>1. pc[t] = "publish" /\ (Advance(t) \/ cur' = cur)
    BY DEF Publish
  <2>2. \A u \in Threads : u # t => cur'[u] = cur[u]
    BY <2>1, AdvanceMoves
  <2>3. pc'[t] # "publish" /\ \A u \in Threads : u # t => pc'[u] = pc[u]
    BY DEF Publish, Goto, IInv, TypeOK
  <2> QED BY <2>1, <2>2, <2>3
<1>2. first' = first /\ last' = last
  BY DEF Publish, data
<1> SUFFICES ASSUME NEW c \in Channels PROVE Filled(c)' = Filled(c)
  BY <1>2 DEF RingConsistent
<1>3. cur[t] \in Channels /\ counter \in [Channels -> 0 .. BufferSize]
  BY DEF IInv, TypeOK
<1>4. CASE c # cur[t]
  <2>1. counter'[c] = counter[c]
    BY <1>3, <1>4 DEF Publish
  <2>2. /\ Moved(Pushers, c)' = Moved(Pushers, c)
        /\ Moved(Pullers, c)' = Moved(Pullers, c)
    BY <1>1, <1>4 DEF Moved, Threads
  <2> QED BY <2>1, <2>2 DEF Filled
<1>5. CASE c = cur[t] /\ t \in Pushers
  <2>1. counter'[c] = counter[c] - 1
    BY <1>3, <1>5 DEF Publish
  <2>2. Moved(Pushers, c) = 1
    BY <1>1, <1>5, MovedOne
  <2>3. Moved(Pushers, c)' = 0
    <3>1. \A u \in Pushers : u # t => cur[u] # cur[t]
      BY <1>5, LaneExclusive, ThreadFacts DEF IInv, OnePerSide, Threads
    <3> QED BY <1>1, <1>5, <3>1 DEF Moved, Threads
  <2>4. Moved(Pullers, c)' = Moved(Pullers, c)
    BY <1>1, <1>5, ThreadFacts DEF Moved, Threads
  <2> QED
    BY <2>1, <2>2, <2>3, <2>4, <1>3, MovedType, SizeAssumption DEF Filled
<1>6. CASE c = cur[t] /\ t \notin Pushers
  <2>1. counter'[c] = counter[c] + 1
    BY <1>3, <1>6 DEF Publish
  <2>2. Moved(Pullers, c) = 1
    BY <1>1, <1>6, MovedOne DEF Threads
  <2>3. Moved(Pullers, c)' = 0
    <3>1. \A u \in Pullers : u # t => cur[u] # cur[t]
      BY <1>6, LaneExclusive, ThreadFacts DEF IInv, OnePerSide, Threads
    <3> QED BY <1>1, <1>6, <3>1 DEF Moved, Threads
  <2>4. Moved(Pushers, c)' = Moved(Pushers, c)
    BY <1>1, <1>6 DEF Moved, Threads
  <2> QED
    BY <2>1, <2>2, <2>3, <2>4, <1>3, MovedType, SizeAssumption DEF Filled
<1> QED BY <1>4, <1>5, <1>6

\* The reset empties the rings.
LEMMA RingReset ==
    ASSUME IInv, Reset PROVE RingConsistent'
<1>1. \A t \in Threads : pc'[t] # "publish"
  BY DEF Reset, FirstPc
<1>2. \A c \in Channels : Moved(Pushers, c)' = 0 /\ Moved(Pullers, c)' = 0
  BY <1>1 DEF Moved, Threads
<1>3. \A c \in Channels : /\ counter'[c] = BufferSize
                          /\ first'[c] = 0 /\ last'[c] = 0
  BY DEF ResetRings, Reset
<1>4. \A c \in Channels : Filled(c)' = 0
  BY <1>2, <1>3, SizeAssumption DEF Filled
<1>5. 0 % BufferSize = 0
  BY ModSmall, SizeAssumption
<1> QED BY <1>3, <1>4, <1>5, SizeAssumption DEF RingConsistent

\* A pipeline that has not started has empty rings.
LEMMA InitRing == Init => RingConsistent
<1> SUFFICES ASSUME Init PROVE RingConsistent
  OBVIOUS
<1>1. \A c \in Channels : Moved(Pushers, c) = 0 /\ Moved(Pullers, c) = 0
  BY DEF Init, FirstPc, Moved, Threads
<1>2. \A c \in Channels : Filled(c) = 0
  BY <1>1, SizeAssumption DEF Init, Filled
<1>3. 0 % BufferSize = 0
  BY ModSmall, SizeAssumption
<1> QED BY <1>2, <1>3, SizeAssumption DEF RingConsistent, Init

\* Every step of a thread keeps the rings consistent.
LEMMA StepRing ==
    ASSUME IInv, RingConsistent, IInv',
           NEW t \in Threads, Step(t) \/ SpuriousWakeup(t)
    PROVE  RingConsistent'
<1>1. CASE Produce(t)
  BY <1>1, RingSame DEF IInv, TypeOK, Produce, Goto, data
<1>2. CASE StopPushing(t)
  BY <1>2, RingSame DEF IInv, TypeOK, StopPushing, Goto, data
<1>3. CASE Consume(t)
  BY <1>3, RingSame DEF IInv, TypeOK, Consume, Goto, data
<1>4. CASE Test(t)
  BY <1>4, RingSame DEF IInv, TypeOK, Test, Goto, data
<1>5. CASE TestCancel(t)
  BY <1>5, RingSame DEF IInv, TypeOK, TestCancel, Goto, data
<1>6. CASE Lock(t)
  BY <1>6, RingSame DEF IInv, TypeOK, Lock, Goto, data
<1>7. CASE Pred(t)
  BY <1>7, RingSame DEF IInv, TypeOK, Pred, Goto, data
<1>8. CASE PredCancel(t)
  BY <1>8, RingSame DEF IInv, TypeOK, PredCancel, Goto, data
<1>9. CASE SpuriousWakeup(t)
  BY <1>9, RingSame DEF IInv, TypeOK, SpuriousWakeup, Goto, data
<1>10. CASE Final(t)
  BY <1>10, RingSame DEF IInv, TypeOK, Final, Goto, data
<1>11. CASE FinalCancel(t)
  BY <1>11, RingSame DEF IInv, TypeOK, FinalCancel, Goto, data
<1>12. CASE SwapPush(t)
  BY <1>12, RingSwapPush
<1>13. CASE SwapPull(t)
  BY <1>13, RingSwapPull
<1>14. CASE Publish(t)
  BY <1>14, RingPublish
<1>15. CASE Check(t)
  <2>1. pc[t] = "check" /\ pc'[t] # "publish"
    BY <1>15 DEF Check, Goto, IInv, TypeOK
  <2>2. \A u \in Threads : u # t => pc'[u] = pc[u] /\ cur'[u] = cur[u]
    BY <1>15, AdvanceMoves DEF Check, Goto, IInv, TypeOK
  <2> QED BY <1>15, <2>1, <2>2, RingSame DEF Check, data
<1>16. CASE Notify(t)
  <2>1. pc[t] = "notify" /\ pc'[t] # "publish"
    BY <1>16 DEF Notify, Goto, IInv, TypeOK
  <2>2. \A u \in Threads : u # t =>
            (pc'[u] = "publish" <=> pc[u] = "publish") /\ cur'[u] = cur[u]
    BY <1>16, AdvanceMoves
       DEF Notify, Goto, IInv, TypeOK, Sleepers
  <2> QED BY <1>16, <2>1, <2>2, RingSame DEF Notify, data
<1> QED
  BY <1>1, <1>2, <1>3, <1>4, <1>5, <1>6, <1>7, <1>8, <1>9, <1>10, <1>11,
     <1>12, <1>13, <1>14, <1>15, <1>16
     DEF Step

\* Every step of the system keeps the rings consistent.
LEMMA NextRing ==
    ASSUME IInv, RingConsistent, [Next]_vars PROVE RingConsistent'
<1>0. IInv'
  BY NextIInv
<1>1. ASSUME NEW t \in Threads, Step(t) \/ SpuriousWakeup(t)
      PROVE  RingConsistent'
  BY <1>0, <1>1, StepRing
<1>2. CASE BeginUpstream \/ BeginMain
  BY <1>2, RingSame DEF BeginUpstream, BeginMain, data
<1>3. ASSUME NEW k \in Controls, SendCancelSignal(k)
      PROVE  RingConsistent'
  BY <1>3, RingSame DEF SendCancelSignal, data
<1>4. ASSUME NEW k \in Controls, WakeUp(k)
      PROVE  RingConsistent'
  <2>1. \A t \in Threads : pc'[t] = "publish" <=> pc[t] = "publish"
    BY <1>4 DEF WakeUp, Sleepers
  <2> QED BY <1>4, <2>1, RingSame DEF WakeUp, data
<1>5. CASE UNCHANGED vars
  BY <1>5, RingSame DEF vars
<1> QED
  BY <1>1, <1>2, <1>3, <1>4, <1>5, RingReset DEF Next, Cancel, Finished

-----------------------------------------------------------------------------
(* The buffers.                                                            *)

\* Every buffer starts, and starts again, where it belongs.
LEMMA HomesDistinct ==
    /\ \A c, d \in Channels, i, j \in Slots :
            HomeSlots[c][i] = HomeSlots[d][j] => c = d /\ i = j
    /\ \A t, u \in Threads : HomeHands[t] = HomeHands[u] => t = u
    /\ \A t \in Threads, c \in Channels, i \in Slots :
            HomeHands[t] # HomeSlots[c][i]
<1>1. \A c \in Channels, i \in Slots : HomeSlots[c][i] = <<"slot", c, i>>
  BY DEF HomeSlots, SlotHome
<1>2. \A t \in Threads : HomeHands[t] = <<t[1], t[2], 0>>
  BY DEF HomeHands, TaskHome
<1>3. \A t \in Threads : t[1] # "slot"
  BY ThreadFacts DEF Threads
<1> QED BY <1>1, <1>2, <1>3, ThreadFacts

\* The exchange is a transposition.
LEMMA ExchangeDistinct ==
    ASSUME TypeOK, BuffersDistinct,
           NEW t \in Threads, NEW c \in Channels, NEW i \in Slots,
           Exchange(t, c, i)
    PROVE  BuffersDistinct'
<1>1. /\ slot \in [Channels -> [Slots -> Buffers]]
      /\ hand \in [Threads -> Buffers]
  BY DEF TypeOK
<1>2. \A d \in Channels, j \in Slots :
          slot'[d][j] = IF d = c /\ j = i THEN hand[t] ELSE slot[d][j]
  BY <1>1 DEF Exchange
<1>3. \A u \in Threads :
          hand'[u] = IF u = t THEN slot[c][i] ELSE hand[u]
  BY <1>1 DEF Exchange
<1>4. \A d, e \in Channels, j, k \in Slots :
          slot'[d][j] = slot'[e][k] => d = e /\ j = k
  BY <1>2 DEF BuffersDistinct
<1>5. \A u, v \in Threads : hand'[u] = hand'[v] => u = v
  BY <1>3 DEF BuffersDistinct
<1>6. \A u \in Threads, d \in Channels, j \in Slots : hand'[u] # slot'[d][j]
  BY <1>2, <1>3 DEF BuffersDistinct
<1> QED BY <1>4, <1>5, <1>6 DEF BuffersDistinct

\* Every step of the system keeps the buffers apart.
LEMMA NextDistinct ==
    ASSUME IInv, BuffersDistinct, [Next]_vars PROVE BuffersDistinct'
<1>1. ASSUME slot' = slot, hand' = hand PROVE BuffersDistinct'
  BY <1>1 DEF BuffersDistinct
<1>2. TypeOK
  BY DEF IInv
<1>3. ASSUME NEW t \in Threads, SwapPush(t) PROVE BuffersDistinct'
  <2>1. cur[t] \in Channels /\ last[cur[t]] \in Slots
    BY <1>2 DEF TypeOK
  <2> QED BY <1>1, <1>2, <1>3, <2>1, ExchangeDistinct DEF SwapPush
<1>4. ASSUME NEW t \in Threads, SwapPull(t) PROVE BuffersDistinct'
  <2>1. cur[t] \in Channels /\ first[cur[t]] \in Slots
    BY <1>2 DEF TypeOK
  <2> QED BY <1>1, <1>2, <1>4, <2>1, ExchangeDistinct DEF SwapPull
<1>5. ASSUME NEW t \in Threads, Step(t) \/ SpuriousWakeup(t),
             ~ SwapPush(t), ~ SwapPull(t)
      PROVE  BuffersDistinct'
  BY <1>1, <1>5
     DEF Step, SpuriousWakeup, Produce, StopPushing, Consume, Test,
         TestCancel, Lock, Pred, PredCancel, Final, FinalCancel, Publish,
         Check, Notify, data
<1>6. ASSUME NEW k \in Controls, Cancel(k) PROVE BuffersDistinct'
  BY <1>1, <1>6 DEF Cancel, SendCancelSignal, WakeUp, data
<1>7. CASE BeginUpstream \/ BeginMain \/ UNCHANGED vars
  BY <1>1, <1>7 DEF BeginUpstream, BeginMain, vars, data
<1>8. CASE Reset
  <2>1. slot' = HomeSlots /\ hand' = HomeHands
    BY <1>8 DEF Reset, ResetRings, ResetNoCopy
  <2> QED BY <2>1, HomesDistinct DEF BuffersDistinct
<1> QED
  BY <1>3, <1>4, <1>5, <1>6, <1>7, <1>8 DEF Next, Finished

-----------------------------------------------------------------------------
(* The theorems.                                                           *)

\* The inductive invariant holds in every behaviour.
LEMMA Inductive == Spec => [](IInv /\ RingConsistent)
<1>1. Init => IInv /\ RingConsistent
  BY InitIInv, InitRing
<1>2. (IInv /\ RingConsistent) /\ [Next]_vars => (IInv /\ RingConsistent)'
  BY NextIInv, NextRing
<1> QED BY <1>1, <1>2, PTL DEF Spec

\* Every variable keeps its type: the atomic counter of a channel never
\* leaves 0 .. BufferSize, although it is moved without any lock, and the
\* positions stay within the arrays.
THEOREM TypeCorrect == Spec => []TypeOK
<1>1. IInv => TypeOK
  BY DEF IInv
<1> QED BY <1>1, Inductive, PTL

\* Two threads of the same stage are never on the same channel, although
\* nothing but the arithmetic of their positions keeps them apart.
THEOREM ChannelExclusive == Spec => []OnePerSide
<1>1. IInv => OnePerSide
  BY LaneExclusive DEF IInv
<1> QED BY <1>1, Inductive, PTL

\* The counter and the two indices of a ring, of which only the first is
\* atomic, always describe the same ring.
THEOREM RingCorrect == Spec => []RingConsistent
BY Inductive, PTL

\* The pusher and the puller of a channel never exchange buffers in the same
\* slot at the same time: the exchange needs no lock.
THEOREM SlotCorrect == Spec => []SlotExclusive
<1>1. IInv /\ RingConsistent => SlotExclusive
  BY ConsistentExclusive
<1> QED BY <1>1, Inductive, PTL

\* However the pushers and the pullers interleave, no buffer is ever in two
\* places: exchanging pointers without a lock neither loses nor shares one.
THEOREM BuffersCorrect == Spec => []BuffersDistinct
<1>1. Init => BuffersDistinct
  BY HomesDistinct DEF Init, BuffersDistinct
<1>2. IInv /\ BuffersDistinct /\ [Next]_vars => BuffersDistinct'
  BY NextDistinct
<1> QED BY <1>1, <1>2, Inductive, PTL DEF Spec

-----------------------------------------------------------------------------
(* No wakeup is lost.  A thread reads the counter and its flag under its   *)
(* mutex, but the other side moves the counter and a control thread sets   *)
(* the flag without it: the proof follows what each of them still has to   *)
(* do from then on.                                                        *)

\* Only the thread that waits on a condition holds its mutex for more than a step.
Holders ==
    \A t \in Threads : pc[t] \in {"pred", "predCancel"} => mtx[Condition(t)] = t

\* An active wait never sleeps.
Passive ==
    ActiveWaiting => \A t \in Threads : pc[t] \notin {"lock", "pred", "predCancel", "asleep"}

\* Somebody on the other side is about to notify the condition of t; a control
\* thread is about to.
PeerPending(t) ==
    \E u \in Threads : pc[u] \in {"check", "notify"} /\ PeerCondition(u) = Condition(t)
ControlPending(t) ==
    \E k \in Controls : \E i \in waking[k] .. 2 * NChannels - 1 :
        waking[k] >= 0 /\ WakeOrder(i) = Condition(t)

\* From the moment it has read the counter, a thread hears of what moves it; of
\* its flag it only has to hear once it sleeps.
Heard(t) ==
    /\ pc[t] \in {"predCancel", "asleep"} /\ ~Stuck(t) => PeerPending(t) \/ ControlPending(t)
    /\ pc[t] = "asleep" /\ IsCanceled(t) => ControlPending(t)

WakeInv == Holders /\ Passive /\ \A t \in Threads : Heard(t)

\* A thread is never the free owner, and the condition it waits on is among those
\* that a control thread goes through.
LEMMA ConditionFacts ==
    /\ \A t \in Threads : t # Free
    /\ TypeOK =>
        \A t \in Threads :
            /\ Condition(t) \in Conditions
            /\ \E i \in 0 .. 2 * NChannels - 1 : WakeOrder(i) = Condition(t)
<1>1. \A t \in Threads : t # Free
  BY DEF Threads, Pushers, Pullers, Free
<1>2. ASSUME TypeOK, NEW t \in Threads
      PROVE  /\ Condition(t) \in Conditions
             /\ \E i \in 0 .. 2 * NChannels - 1 : WakeOrder(i) = Condition(t)
  <2>1. cur[t] \in Channels /\ t[1] \in {"push", "pull"}
    BY <1>2, ThreadFacts DEF TypeOK, Threads
  <2>2. CASE t[1] = "push"
    <3>1. cur[t] \in 0 .. 2 * NChannels - 1 /\ WakeOrder(cur[t]) = Condition(t)
      BY <2>1, <2>2, SizeAssumption DEF WakeOrder, Condition, Channels
    <3> QED BY <2>1, <3>1 DEF Condition, Conditions
  <2>3. CASE t[1] = "pull"
    <3>1. cur[t] + NChannels \in 0 .. 2 * NChannels - 1 /\ WakeOrder(cur[t] + NChannels) = Condition(t)
      BY <2>1, <2>3, SizeAssumption DEF WakeOrder, Condition, Channels
    <3> QED BY <2>1, <3>1 DEF Condition, Conditions
  <2> QED BY <2>1, <2>2, <2>3
<1> QED BY <1>1, <1>2

\* What a step of t leaves to the other threads.
LEMMA StepFrame ==
    ASSUME IInv, NEW t \in Threads, Step(t) \/ SpuriousWakeup(t)
    PROVE  /\ UNCHANGED <<canceled, waking>>
           /\ pc[t] # "publish" => counter' = counter
           /\ pc[t] \notin {"publish", "check", "notify"} => cur' = cur
           /\ \A u \in Threads \ {t} :
                /\ cur'[u] = cur[u]
                /\ pc'[u] = pc[u] \/ (pc[t] = "notify" /\ pc[u] = "asleep" /\ pc'[u] = "lock")
           /\ pc'[t] = "pred" => pc[t] = "lock"
           /\ pc'[t] = "predCancel" => pc[t] = "pred" /\ Stuck(t)
           /\ pc'[t] = "asleep" => pc[t] = "predCancel" /\ ~IsCanceled(t)
           /\ pc'[t] = "lock" => pc[t] = "asleep" \/ (pc[t] = "testCancel" /\ ~ActiveWaiting)
<1> USE DEF IInv, TypeOK, Goto
<1>1. CASE SpuriousWakeup(t) \/ Produce(t) \/ StopPushing(t) \/ Consume(t)
  BY <1>1 DEF SpuriousWakeup, Produce, StopPushing, Consume, data, control
<1>2. CASE Test(t) \/ TestCancel(t) \/ Lock(t)
  BY <1>2 DEF Test, TestCancel, Lock, data, control
<1>3. CASE Pred(t) \/ PredCancel(t)
  BY <1>3 DEF Pred, PredCancel, data, control
<1>4. CASE Final(t) \/ FinalCancel(t)
  BY <1>4 DEF Final, FinalCancel, data, control
<1>5. CASE SwapPush(t) \/ SwapPull(t)
  BY <1>5 DEF SwapPush, SwapPull, control
<1>6. CASE Publish(t)
  BY <1>6, AdvanceMoves DEF Publish, data, control
<1>7. CASE Check(t)
  BY <1>7, AdvanceMoves DEF Check, data, control
<1>8. CASE Notify(t)
  BY <1>8, AdvanceMoves DEF Notify, Sleepers, data, control
<1> QED BY <1>1, <1>2, <1>3, <1>4, <1>5, <1>6, <1>7, <1>8 DEF Step

\* A step of t takes and releases the mutex of its own condition only.
LEMMA StepHolders ==
    ASSUME IInv, Holders, NEW t \in Threads, Step(t) \/ SpuriousWakeup(t)
    PROVE  Holders'
<1> USE DEF IInv, TypeOK
<1>1. TypeOK /\ \A u \in Threads : u # Free /\ Condition(u) \in Conditions
  BY ConditionFacts
<1>2. ASSUME NEW u \in Threads, u # t, pc'[u] \in {"pred", "predCancel"}
      PROVE  mtx'[Condition(u)'] = u
  <2>1. pc[u] = pc'[u] /\ Condition(u)' = Condition(u) /\ mtx[Condition(u)] = u
    BY <1>2, StepFrame DEF Condition, Holders
  <2>2. mtx'[Condition(u)] = mtx[Condition(u)]
    <3>1. CASE Lock(t)
      BY <3>1, <2>1, <1>1 DEF Lock
    <3>2. CASE Pred(t) \/ PredCancel(t)
      <4>1. mtx[Condition(t)] = t
        BY <3>2 DEF Pred, PredCancel, Holders
      <4>2. Condition(t) # Condition(u)
        BY <4>1, <2>1, <1>2
      <4> QED BY <3>2, <4>2, <1>1 DEF Pred, PredCancel
    <3>3. CASE ~Lock(t) /\ ~Pred(t) /\ ~PredCancel(t)
      BY <3>3 DEF Step, SpuriousWakeup, Produce, StopPushing, Consume, Test, TestCancel, Final,
                  FinalCancel, SwapPush, SwapPull, Publish, Check, Notify
    <3> QED BY <3>1, <3>2, <3>3
  <2> QED BY <2>1, <2>2
<1>3. ASSUME pc'[t] \in {"pred", "predCancel"}
      PROVE  mtx'[Condition(t)'] = t
  <2>1. pc[t] \in {"lock", "pred"} /\ Condition(t)' = Condition(t)
    BY <1>3, StepFrame DEF Condition
  <2>2. CASE pc[t] = "lock"
    <3>1. Lock(t)
      BY <2>2 DEF Step, SpuriousWakeup, Produce, StopPushing, Consume, Test, TestCancel, Pred, PredCancel,
                  Final, FinalCancel, SwapPush, SwapPull, Publish, Check, Notify
    <3> QED BY <3>1, <2>1, <1>1 DEF Lock
  <2>3. CASE pc[t] = "pred"
    <3>1. Pred(t)
      BY <2>3 DEF Step, SpuriousWakeup, Produce, StopPushing, Consume, Test, TestCancel, Lock, PredCancel,
                  Final, FinalCancel, SwapPush, SwapPull, Publish, Check, Notify
    <3>2. mtx' = mtx
      BY <3>1, <1>3 DEF Pred, Goto
    <3> QED BY <3>2, <2>1, <2>3 DEF Holders
  <2> QED BY <2>1, <2>2, <2>3
<1>4. ASSUME NEW u \in Threads, pc'[u] \in {"pred", "predCancel"}
      PROVE  mtx'[Condition(u)'] = u
  BY <1>2, <1>3, <1>4
<1> QED BY <1>4 DEF Holders

\* No step leads a thread that waits actively to the mutex.
LEMMA StepPassive ==
    ASSUME IInv, Passive, NEW t \in Threads, Step(t) \/ SpuriousWakeup(t)
    PROVE  Passive'
<1> SUFFICES ASSUME ActiveWaiting, NEW u \in Threads
             PROVE  pc'[u] \notin {"lock", "pred", "predCancel", "asleep"}
  BY DEF Passive
<1>1. \A v \in Threads : pc[v] \notin {"lock", "pred", "predCancel", "asleep"}
  BY DEF Passive
<1> QED BY <1>1, StepFrame

\* The step of another thread: a thread that moves the counter owes a notification,
\* which it gives up only when the ring is again as the waiting thread has read it,
\* and sends to the only thread that sleeps on the condition.
LEMMA StepHeardOther ==
    ASSUME IInv, WakeInv, NEW t \in Threads, Step(t) \/ SpuriousWakeup(t),
           NEW u \in Threads, u # t
    PROVE  Heard(u)'
<1> USE DEF IInv, TypeOK
<1>0. OnePerSide
  BY LaneExclusive
<1>1. SUFFICES ASSUME pc'[u] \in {"predCancel", "asleep"} PROVE Heard(u)'
  BY DEF Heard
<1>2. pc[u] = pc'[u] /\ cur'[u] = cur[u] /\ canceled' = canceled /\ waking' = waking
  BY <1>1, StepFrame
<1>3. ~ActiveWaiting
  BY <1>1, <1>2 DEF WakeInv, Passive
<1>4. Heard(u) /\ Condition(u)' = Condition(u) /\ (ControlPending(u)' <=> ControlPending(u))
      /\ (IsCanceled(u)' <=> IsCanceled(u))
  BY <1>2 DEF WakeInv, Condition, ControlPending, IsCanceled
<1>5. SUFFICES ASSUME ~Stuck(u)', ~ControlPending(u) PROVE PeerPending(u)'
  BY <1>2, <1>4 DEF Heard
<1>6. \A w \in Threads \ {t} : pc[w] \in {"check", "notify"} =>
        pc'[w] = pc[w] /\ PeerCondition(w)' = PeerCondition(w)
  BY StepFrame DEF PeerCondition
<1>7. ASSUME ~Stuck(u), PeerCondition(t) # Condition(u) \/ pc[t] \notin {"check", "notify"}
      PROVE  PeerPending(u)'
  <2>1. PICK w \in Threads : pc[w] \in {"check", "notify"} /\ PeerCondition(w) = Condition(u)
    BY <1>2, <1>1, <1>4, <1>5, <1>7 DEF Heard, PeerPending
  <2>2. w # t
    BY <2>1, <1>7
  <2> QED BY <2>1, <2>2, <1>4, <1>6 DEF PeerPending
<1>8. CASE pc[t] \notin {"publish", "check", "notify"}
  <2>1. Stuck(u)' <=> Stuck(u)
    BY <1>8, <1>2, StepFrame DEF Stuck, IsFull, IsEmpty
  <2> QED BY <1>5, <1>7, <1>8, <2>1
<1>9. CASE pc[t] = "publish"
  <2>1. Publish(t)
    BY <1>9 DEF Step, SpuriousWakeup, Produce, StopPushing, Consume, Test, TestCancel, Lock, Pred,
                PredCancel, Final, FinalCancel, SwapPush, SwapPull, Check, Notify
  <2>2. pc'[t] = "check" /\ cur' = cur
    BY <2>1, <1>3 DEF Publish, Goto
  <2>3. CASE cur[u] = cur[t]
    <3>1. t[1] # u[1]
      BY <2>3, <1>0 DEF OnePerSide
    <3>2. PeerCondition(t)' = Condition(u)'
      BY <2>2, <2>3, <3>1, ThreadFacts DEF PeerCondition, Condition, Threads
    <3> QED BY <2>2, <3>2 DEF PeerPending
  <2>4. CASE cur[u] # cur[t]
    <3>1. counter'[cur[u]] = counter[cur[u]]
      BY <2>1, <2>4 DEF Publish
    <3>2. Stuck(u)' <=> Stuck(u)
      BY <3>1, <1>2 DEF Stuck, IsFull, IsEmpty
    <3> QED BY <3>2, <1>5, <1>7, <1>9
  <2> QED BY <2>3, <2>4
<1>10. CASE pc[t] = "check"
  <2>1. Check(t)
    BY <1>10 DEF Step, SpuriousWakeup, Produce, StopPushing, Consume, Test, TestCancel, Lock, Pred,
                PredCancel, Final, FinalCancel, SwapPush, SwapPull, Publish, Notify
  <2>2. ~Stuck(u)
    BY <1>2, <1>5, <1>10, StepFrame DEF Stuck, IsFull, IsEmpty
  <2>3. CASE PeerCondition(t) = Condition(u)
    <3>1. cur[t] = cur[u] /\ (t \in Pushers <=> u \in Pullers)
      BY <2>3, ThreadFacts DEF PeerCondition, Condition, Threads
    <3>2. ~NothingToTell(t)
      BY <3>1, <2>2, ThreadFacts DEF NothingToTell, Stuck, Threads
    <3>3. pc'[t] = "notify" /\ cur' = cur
      BY <2>1, <3>2 DEF Check, Goto
    <3>4. PeerCondition(t)' = Condition(u)'
      BY <3>3, <2>3, <1>4 DEF PeerCondition
    <3> QED BY <3>3, <3>4 DEF PeerPending
  <2> QED BY <2>2, <2>3, <1>7
<1>11. CASE pc[t] = "notify"
  <2>1. Notify(t)
    BY <1>11 DEF Step, SpuriousWakeup, Produce, StopPushing, Consume, Test, TestCancel, Lock, Pred,
                PredCancel, Final, FinalCancel, SwapPush, SwapPull, Publish, Check
  <2>2. ~Stuck(u)
    BY <1>2, <1>5, <1>11, StepFrame DEF Stuck, IsFull, IsEmpty
  <2>3. PeerCondition(t) # Condition(u)
    <3> SUFFICES ASSUME PeerCondition(t) = Condition(u) PROVE FALSE
      OBVIOUS
    <3>1. CASE pc[u] = "predCancel"
      BY <3>1, <2>1, ConditionFacts DEF Notify, WakeInv, Holders
    <3>2. CASE pc[u] = "asleep"
      <4>1. Sleepers(PeerCondition(t)) = {u}
        <5>1. ASSUME NEW w \in Threads, Condition(w) = Condition(u) PROVE w = u
          BY <5>1, <1>0 DEF Condition, OnePerSide
        <5> QED BY <3>2, <5>1 DEF Sleepers
      <4>2. pc'[u] = "lock"
        BY <2>1, <4>1 DEF Notify
      <4> QED BY <4>2, <1>1
    <3> QED BY <3>1, <3>2, <1>1, <1>2
  <2> QED BY <2>2, <2>3, <1>7
<1> QED BY <1>8, <1>9, <1>10, <1>11

\* The thread itself: it decides to wait when it is stuck, and sleeps only if its
\* flag is clear.
LEMMA StepHeardSelf ==
    ASSUME IInv, WakeInv, NEW t \in Threads, Step(t) \/ SpuriousWakeup(t)
    PROVE  Heard(t)'
<1>1. SUFFICES ASSUME pc'[t] \in {"predCancel", "asleep"} PROVE Heard(t)'
  BY DEF Heard
<1>2. pc[t] \in {"pred", "predCancel"}
  BY <1>1, StepFrame
<1>3. UNCHANGED <<cur, counter, canceled, waking>>
  BY <1>2, StepFrame
<1>4. (Stuck(t)' <=> Stuck(t)) /\ (IsCanceled(t)' <=> IsCanceled(t)) /\ (ControlPending(t)' <=> ControlPending(t))
  BY <1>3 DEF Stuck, IsFull, IsEmpty, IsCanceled, ControlPending, Condition
<1>5. CASE pc'[t] = "predCancel"
  BY <1>4, <1>5, StepFrame DEF Heard
<1>6. CASE pc'[t] = "asleep"
  <2>1. pc[t] = "predCancel" /\ ~IsCanceled(t) /\ Heard(t)
    BY <1>6, StepFrame DEF WakeInv
  <2>2. PeerPending(t) => PeerPending(t)'
    <3> SUFFICES ASSUME PeerPending(t) PROVE PeerPending(t)'
      OBVIOUS
    <3>1. PICK w \in Threads : pc[w] \in {"check", "notify"} /\ PeerCondition(w) = Condition(t)
      BY DEF PeerPending
    <3>2. w # t
      BY <3>1, <2>1
    <3>3. pc'[w] = pc[w]
      BY <3>1, <3>2, StepFrame
    <3> QED BY <3>1, <3>3, <1>3 DEF PeerPending, PeerCondition, Condition
  <2> QED BY <2>1, <2>2, <1>4, <1>6 DEF Heard
<1> QED BY <1>1, <1>5, <1>6

-----------------------------------------------------------------------------
(* The control threads.                                                    *)

\* The flag is set before the first condition is notified, so that all of them are
\* still to come.
LEMMA SendCancelSignalWakeInv ==
    ASSUME IInv, WakeInv, NEW k \in Controls, SendCancelSignal(k)
    PROVE  WakeInv'
<1> USE DEF IInv, TypeOK
<1>1. UNCHANGED <<pc, cur, counter, mtx>>
  BY DEF SendCancelSignal, data
<1>2. Holders' /\ Passive'
  BY <1>1 DEF WakeInv, Holders, Passive, Condition
<1>3. ASSUME NEW t \in Threads, pc[t] \in {"predCancel", "asleep"} PROVE ControlPending(t)'
  <2>1. waking' = [waking EXCEPT ![k] = 0]
    BY <1>3 DEF WakeInv, Passive, SendCancelSignal
  <2>2. PICK i \in 0 .. 2 * NChannels - 1 : WakeOrder(i) = Condition(t)
    BY ConditionFacts
  <2>3. waking'[k] = 0
    BY <2>1
  <2>4. Condition(t)' = Condition(t)
    BY <1>1 DEF Condition
  <2> QED BY <2>2, <2>3, <2>4 DEF ControlPending
<1>4. \A t \in Threads : Heard(t)'
  BY <1>1, <1>3 DEF Heard
<1> QED BY <1>2, <1>4 DEF WakeInv

\* Notifying a condition takes its mutex: the thread that waits for it is either
\* asleep, and wakes, or has not read its flag yet.
LEMMA WakeUpWakeInv ==
    ASSUME IInv, WakeInv, NEW k \in Controls, WakeUp(k)
    PROVE  WakeInv'
<1> USE DEF IInv, TypeOK
<1> DEFINE v == WakeOrder(waking[k])
<1>1. /\ UNCHANGED <<cur, counter, mtx, canceled>>
      /\ mtx[v] = Free /\ waking[k] >= 0
      /\ \A t \in Threads : pc'[t] = IF pc[t] = "asleep" /\ Condition(t) = v THEN "lock" ELSE pc[t]
  BY DEF WakeUp, Sleepers
<1>2. \A t \in Threads : Condition(t)' = Condition(t) /\ PeerCondition(t)' = PeerCondition(t)
  BY <1>1 DEF Condition, PeerCondition
<1>3. Holders' /\ Passive'
  BY <1>1, <1>2 DEF WakeInv, Holders, Passive
<1>4. ASSUME NEW t \in Threads, pc'[t] \in {"predCancel", "asleep"} PROVE Heard(t)'
  <2>1. pc'[t] = pc[t] /\ Heard(t)
    BY <1>1, <1>4 DEF WakeInv
  <2>2. Condition(t) # v
    BY <1>1, <1>4, <2>1, ConditionFacts DEF WakeInv, Holders
  <2>3. ControlPending(t) => ControlPending(t)'
    <3> SUFFICES ASSUME ControlPending(t) PROVE ControlPending(t)'
      OBVIOUS
    <3>1. PICK l \in Controls : \E i \in waking[l] .. 2 * NChannels - 1 :
                waking[l] >= 0 /\ WakeOrder(i) = Condition(t)
      BY DEF ControlPending
    <3>2. PICK i \in waking[l] .. 2 * NChannels - 1 : waking[l] >= 0 /\ WakeOrder(i) = Condition(t)
      BY <3>1
    <3>3. CASE l # k
      <4>1. waking'[l] = waking[l]
        BY <3>3 DEF WakeUp
      <4> QED BY <3>2, <4>1, <1>2 DEF ControlPending
    <3>4. CASE l = k
      <4>1. i # waking[k]
        BY <3>2, <2>2
      <4>2. waking[k] \in Int /\ i \in Int /\ NChannels \in Nat
        BY SizeAssumption
      <4>3. waking[k] + 1 # 2 * NChannels
        BY <4>1, <4>2, <3>2, <3>4
      <4>4. waking'[k] = waking[k] + 1
        BY <4>3 DEF WakeUp
      <4>5. i \in waking'[k] .. 2 * NChannels - 1 /\ waking'[k] >= 0
        BY <3>2, <3>4, <4>1, <4>2, <4>4, <1>1
      <4> QED BY <3>2, <4>5, <1>2 DEF ControlPending
    <3> QED BY <3>3, <3>4
  <2>4. PeerPending(t) => PeerPending(t)'
    BY <1>1, <1>2 DEF PeerPending
  <2>5. (Stuck(t)' <=> Stuck(t)) /\ (IsCanceled(t)' <=> IsCanceled(t))
    BY <1>1 DEF Stuck, IsFull, IsEmpty, IsCanceled
  <2> QED BY <2>1, <2>3, <2>4, <2>5 DEF Heard
<1>5. \A t \in Threads : Heard(t)'
  BY <1>4 DEF Heard
<1> QED BY <1>3, <1>5 DEF WakeInv

-----------------------------------------------------------------------------
(* The theorem.                                                            *)

\* At first no thread is in a wait.
LEMMA InitWakeInv == Init => WakeInv
<1> SUFFICES ASSUME Init PROVE WakeInv
  OBVIOUS
<1>1. \A t \in Threads : pc[t] \in {"use", "test"}
  BY DEF Init, FirstPc
<1> QED BY <1>1 DEF WakeInv, Holders, Passive, Heard

\* Every step of the adaptor keeps the invariant.
LEMMA NextWakeInv ==
    ASSUME IInv, WakeInv, [Next]_vars PROVE WakeInv'
<1>1. ASSUME NEW t \in Threads, Step(t) \/ SpuriousWakeup(t) PROVE WakeInv'
  <2>1. Holders' /\ Passive'
    BY <1>1, StepHolders, StepPassive DEF WakeInv
  <2>2. \A u \in Threads : Heard(u)'
    BY <1>1, StepHeardSelf, StepHeardOther
  <2> QED BY <2>1, <2>2 DEF WakeInv
<1>2. ASSUME NEW k \in Controls, Cancel(k) PROVE WakeInv'
  BY <1>2, SendCancelSignalWakeInv, WakeUpWakeInv DEF Cancel
<1>3. CASE Reset
  <2>1. \A t \in Threads : pc'[t] \in {"use", "test"}
    BY <1>3 DEF Reset, FirstPc
  <2> QED BY <2>1 DEF WakeInv, Holders, Passive, Heard
<1>4. CASE BeginUpstream \/ BeginMain \/ UNCHANGED vars
  <2>1. UNCHANGED <<pc, cur, counter, canceled, mtx, waking>>
    BY <1>4 DEF BeginUpstream, BeginMain, vars
  <2>2. Holders' /\ Passive'
    BY <2>1 DEF WakeInv, Holders, Passive, Condition
  <2>3. \A t \in Threads : Heard(t)'
    BY <2>1 DEF WakeInv, Heard, Stuck, IsFull, IsEmpty, IsCanceled, PeerPending, ControlPending,
                PeerCondition, Condition
  <2> QED BY <2>2, <2>3 DEF WakeInv
<1> QED BY <1>1, <1>2, <1>3, <1>4 DEF Next, Finished

\* However the two sides and the control threads interleave, a thread of an adaptor
\* that sleeps although it could go on, or is canceled, is about to be woken.
THEOREM WakeupCorrect == Spec => []NoLostWakeup
<1>1. Init => WakeInv
  BY InitWakeInv
<1>2. IInv /\ WakeInv /\ [Next]_vars => WakeInv'
  BY NextWakeInv
<1>3. WakeInv => NoLostWakeup
  <2> SUFFICES ASSUME WakeInv, NEW t \in Threads, pc[t] = "asleep", ~Stuck(t) \/ IsCanceled(t)
               PROVE  WakeupPending(t)
    BY DEF NoLostWakeup
  <2>1. PeerPending(t) \/ ControlPending(t)
    BY DEF WakeInv, Heard
  <2> QED BY <2>1 DEF WakeupPending, PeerPending, ControlPending
<1> QED BY <1>1, <1>2, <1>3, Inductive, PTL DEF Spec

(***************************************************************************)
(* The order of the stream.  What each puller uses is its share of the     *)
(* frames, in order, although each thread chooses its next channel alone;  *)
(* the adaptor implements an OrderedStream; and its end loses nothing.     *)
(***************************************************************************)

\* The channels that a thread comes to.
OnLane(t, c) == c % Stride(t) = t[2]

\* The frame of channel c that t handles next.
Gap(t, c) == IF cur[t] <= c THEN c - cur[t] ELSE c - cur[t] + NChannels
NextOn(t, c) == NextFrame(t) + Gap(t, c)

\* A thread has moved its index, and not yet gone on to its next channel.
Exchanged == {"publish", "check", "notify"}

\* The first frame of channel c that has not gone through the index of t.
Extra(t, c) == IF cur[t] = c /\ pc[t] \in Exchanged THEN NChannels ELSE 0
Taken(t, c) == NextOn(t, c) + Extra(t, c)

\* A thread is on the channel of its frame.
Exact == \A t \in Threads : \E j \in Nat : NextFrame(t) = cur[t] + j * NChannels

\* Both sides of a channel have counted the same frames.
Agree ==
    \A t \in Pushers, u \in Pullers, c \in Channels :
        OnLane(t, c) /\ OnLane(u, c) =>
            Taken(t, c) = Taken(u, c) + Filled(c) * NChannels

\* Between first and last of a channel are the next frames of its puller.
Stored ==
    \A u \in Pullers, c \in Channels : OnLane(u, c) =>
        \A k \in 0 .. Filled(c) - 1 :
            content[slot[c][(first[c] + k) % BufferSize]] = Taken(u, c) + k * NChannels

\* A pusher carries its frame to the slot, a puller takes its own away.
Carrying == {"test", "testCancel", "lock", "pred", "predCancel", "asleep", "final", "swap"}
Carried == \A t \in Pushers : pc[t] \in Carrying => content[hand[t]] = NextFrame(t)
InUse(u) == IF pc[u] = "use" THEN 1 ELSE 0
Fetched ==
    \A u \in Pullers :
        /\ handled[u] = Len(received[u]) + InUse(u)
        /\ pc[u] \in Exchanged \cup {"use"} =>
             content[hand[u]] = u[2] + Len(received[u]) * NPullers

OrderInv == Exact /\ Agree /\ Stored /\ Carried /\ Fetched /\ InOrder

\* What the rings have established.
Rings == IInv /\ RingConsistent /\ BuffersDistinct

-----------------------------------------------------------------------------
(* Going round the channels.                                               *)

\* Two positions of a thread are at least its stride apart.
LEMMA StridesApart ==
    ASSUME NEW S \in Nat \ {0}, NEW m \in Nat \ {0}, NEW N \in Nat, N = m * S,
           NEW a \in 0 .. N - 1, NEW b \in 0 .. N - 1, a % S = b % S, a < b
    PROVE  b - a >= S /\ a - b + N >= S
<1>0. a \in Int /\ b \in Int
  OBVIOUS
<1>1. PICK p \in Int, r \in 0 .. S - 1 : a = p * S + r /\ r = a % S
  BY <1>0, DivMod
<1>2. PICK q \in Int, s \in 0 .. S - 1 : b = q * S + s /\ s = b % S
  BY <1>0, DivMod
<1>3. r = s
  BY <1>1, <1>2
<1> DEFINE d == q - p
<1>4. b - a = d * S /\ d \in Int
  BY <1>1, <1>2, <1>3
<1>5. d >= 1
  <2> SUFFICES ASSUME d <= 0 PROVE FALSE
    BY <1>4
  <2>1. d * S <= 0
    BY <1>4
  <2> QED BY <2>1, <1>4
<1>6. m - d >= 1
  <2> SUFFICES ASSUME m - d <= 0 PROVE FALSE
    BY <1>4
  <2>1. (m - d) * S <= 0
    BY <1>4
  <2>2. (m - d) * S = N - d * S
    BY <1>4
  <2>3. d * S >= N
    BY <2>1, <2>2, <1>4
  <2> QED BY <2>3, <1>4
<1>7. d * S >= S
  BY <1>4, <1>5
<1>8. (m - d) * S >= S
  BY <1>4, <1>6
<1>9. (m - d) * S = N - d * S
  BY <1>4
<1> HIDE DEF d
<1> QED BY <1>4, <1>7, <1>8, <1>9

\* A stride forward, the position wraps at most once.
LEMMA RoundTrip ==
    ASSUME NEW N \in Nat \ {0}, NEW a \in 0 .. N - 1, NEW S \in 0 .. N
    PROVE  (a + S) % N = IF a + S < N THEN a + S ELSE a + S - N
<1> DEFINE x == a + S
<1>1. x \in 0 .. 2 * N - 1
  OBVIOUS
<1> HIDE DEF x
<1>2. x % N = IF x < N THEN x ELSE x - N
  BY <1>1, ModSmall
<1> QED BY <1>2 DEF x

\* A thread that goes on has the frame and the position a stride further.
LEMMA AdvanceFrame ==
    ASSUME IInv, NEW t \in Threads, Advance(t)
    PROVE  /\ cur'[t] = IF cur[t] + Stride(t) < NChannels
                          THEN cur[t] + Stride(t) ELSE cur[t] + Stride(t) - NChannels
           /\ NextFrame(t) \in Nat
           /\ NextFrame(t)' = NextFrame(t) + Stride(t)
           /\ cur[t] \in 0 .. NChannels - 1
<1> DEFINE N == NChannels
           S == Stride(t)
           a == cur[t]
<1>1. N \in Nat \ {0} /\ S \in Nat \ {0} /\ S <= N /\ a \in 0 .. N - 1
  BY StrideFacts, SizeAssumption DEF IInv, TypeOK, Channels
<1>2. cur'[t] = (a + S) % N
  BY DEF IInv, TypeOK, Advance
<1>3. S \in 0 .. N
  BY <1>1
<1>4. (a + S) % N = IF a + S < N THEN a + S ELSE a + S - N
  BY <1>1, <1>3, RoundTrip
<1>5. handled'[t] = handled[t] + 1 /\ handled[t] \in Nat /\ t[2] \in Nat
  BY StrideFacts DEF IInv, TypeOK, Advance
<1>6. (handled[t] + 1) * S = handled[t] * S + S /\ handled[t] * S \in Nat
  BY <1>5, <1>1
<1>7. NextFrame(t)' = t[2] + (handled[t] + 1) * S
  BY <1>5 DEF NextFrame, Stride
<1>8. NextFrame(t) = t[2] + handled[t] * S
  BY DEF NextFrame
<1>9. NextFrame(t) \in Nat /\ NextFrame(t)' = NextFrame(t) + S
  <2> HIDE DEF S
  <2> QED BY <1>1, <1>5, <1>6, <1>7, <1>8
<1> QED BY <1>1, <1>2, <1>4, <1>9

\* On the channels of its lane, a thread that goes on has the same frames before it:
\* those of its old channel a round later, which Taken has counted already.
LEMMA AdvanceTaken ==
    ASSUME IInv, NEW t \in Threads, Advance(t), pc[t] \in Exchanged, pc'[t] = "use",
           NEW c \in Channels, OnLane(t, c)
    PROVE  Taken(t, c)' = Taken(t, c)
<1> DEFINE N == NChannels
           S == Stride(t)
           a == cur[t]
           b == cur'[t]
<1>1. N \in Nat \ {0} /\ S \in Nat \ {0} /\ S <= N /\ a \in 0 .. N - 1 /\ c \in 0 .. N - 1
  BY StrideFacts, SizeAssumption DEF IInv, TypeOK, Channels
<1>2. b = IF a + S < N THEN a + S ELSE a + S - N
  BY AdvanceFrame
<1>3. NextFrame(t)' = NextFrame(t) + S /\ NextFrame(t) \in Int
  BY AdvanceFrame
<1>4. Extra(t, c)' = 0 /\ Extra(t, c) = IF a = c THEN N ELSE 0
  BY DEF Extra, Exchanged
<1>5. a # c => Gap(t, c) >= S
  <2>1. a % S = c % S
    BY DEF IInv, Lane, OnLane
  <2>2. PICK m \in Nat \ {0} : N = m * S
    BY StrideFacts
  <2>3. a < c => c - a >= S
    BY <1>1, <2>1, <2>2, StridesApart
  <2>4. c < a => c - a + N >= S
    BY <1>1, <2>1, <2>2, StridesApart
  <2> QED BY <1>1, <2>3, <2>4 DEF Gap
<1>6. Gap(t, c)' = IF b <= c THEN c - b ELSE c - b + N
  BY DEF Gap
<1>7. Gap(t, c) = IF a <= c THEN c - a ELSE c - a + N
  BY DEF Gap
<1>8. Gap(t, c)' + S = Gap(t, c) + Extra(t, c)
  <2> HIDE DEF N, S, a, b
  <2> QED BY <1>1, <1>2, <1>4, <1>5, <1>6, <1>7
<1>9. Gap(t, c) \in Int /\ Gap(t, c)' \in Int /\ Extra(t, c) \in Int
  <2> HIDE DEF N, S, a, b
  <2> QED BY <1>1, <1>2, <1>4, <1>6, <1>7
<1> QED BY <1>1, <1>3, <1>4, <1>8, <1>9 DEF Taken, NextOn

\* What an exchange adds, on the channel of the thread.
LEMMA SwapTaken ==
    ASSUME IInv, NEW t \in Threads, pc[t] = "swap", pc'[t] = "publish",
           cur'[t] = cur[t], handled'[t] = handled[t], NEW c \in Channels
    PROVE  Taken(t, c)' = Taken(t, c) + (IF c = cur[t] THEN NChannels ELSE 0)
<1>1. NextOn(t, c)' = NextOn(t, c)
  BY DEF NextOn, NextFrame, Gap, Stride
<1>2. Extra(t, c) = 0 /\ Extra(t, c)' = IF c = cur[t] THEN NChannels ELSE 0
  BY DEF Extra, Exchanged
<1>3. NextOn(t, c) \in Int
  <2>1. NextFrame(t) \in Int
    BY StrideFacts DEF IInv, TypeOK, NextFrame
  <2>2. Gap(t, c) \in Int
    BY SizeAssumption DEF IInv, TypeOK, Gap, Channels
  <2> QED BY <2>1, <2>2 DEF NextOn
<1> QED BY <1>1, <1>2, <1>3, SizeAssumption DEF Taken

\* A thread keeps its frames as long as it keeps its position, and is on the same
\* side of its exchange.
LEMMA SameTaken ==
    ASSUME NEW t, cur'[t] = cur[t], handled'[t] = handled[t],
           pc'[t] \in Exchanged <=> pc[t] \in Exchanged
    PROVE  /\ NextFrame(t)' = NextFrame(t)
           /\ \A c \in Channels : Taken(t, c)' = Taken(t, c)
BY DEF Taken, NextOn, NextFrame, Gap, Stride, Extra

\* Taken counts frames; on its own channel a thread that has not exchanged takes
\* the frame it comes to.
LEMMA TakenFacts ==
    ASSUME IInv, NEW t \in Threads
    PROVE  /\ NextFrame(t) \in Nat
           /\ \A c \in Channels : Taken(t, c) \in Nat
           /\ pc[t] \notin Exchanged => Taken(t, cur[t]) = NextFrame(t)
           /\ pc[t] \in Exchanged => Taken(t, cur[t]) = NextFrame(t) + NChannels
<1>1. NextFrame(t) \in Nat
  <2>1. handled[t] \in Nat /\ t[2] \in Nat /\ Stride(t) \in Nat
    BY StrideFacts DEF IInv, TypeOK
  <2> QED BY <2>1 DEF NextFrame
<1>2. \A c \in Channels : Gap(t, c) \in Nat /\ Extra(t, c) \in Nat
  BY SizeAssumption DEF IInv, TypeOK, Gap, Extra, Channels
<1>3. cur[t] \in Channels /\ Gap(t, cur[t]) = 0
  BY SizeAssumption DEF IInv, TypeOK, Gap, Channels
<1>4. Extra(t, cur[t]) = IF pc[t] \in Exchanged THEN NChannels ELSE 0
  BY DEF Extra
<1> QED BY <1>1, <1>2, <1>3, <1>4, SizeAssumption DEF Taken, NextOn

-----------------------------------------------------------------------------
(* Steps.                                                                  *)

\* What a step of t does to the positions and the places of the threads.
LEMMA Moves ==
    ASSUME IInv, NEW t \in Threads, Step(t) \/ SpuriousWakeup(t)
    PROVE  /\ \A u \in Threads \ {t} :
                /\ cur'[u] = cur[u] /\ handled'[u] = handled[u]
                /\ pc'[u] = pc[u] \/ (pc[u] = "asleep" /\ pc'[u] = "lock")
           /\ pc[t] \in Exchanged =>
                \/ pc'[t] \in {"check", "notify"} /\ cur'[t] = cur[t] /\ handled'[t] = handled[t]
                \/ pc'[t] = "use" /\ Advance(t)
           /\ pc[t] \notin Exchanged => cur'[t] = cur[t] /\ handled'[t] = handled[t]
           /\ pc[t] \notin Exchanged /\ pc[t] # "swap" => pc'[t] \notin Exchanged
           /\ pc[t] = "swap" => pc'[t] = "publish"
<1> USE DEF IInv, TypeOK, Goto, Exchanged
<1>1. CASE SpuriousWakeup(t) \/ Produce(t) \/ StopPushing(t) \/ Consume(t)
  BY <1>1 DEF SpuriousWakeup, Produce, StopPushing, Consume, data, control
<1>2. CASE Test(t) \/ TestCancel(t) \/ Lock(t)
  BY <1>2 DEF Test, TestCancel, Lock, data, control
<1>3. CASE Pred(t) \/ PredCancel(t)
  BY <1>3 DEF Pred, PredCancel, data, control
<1>4. CASE Final(t) \/ FinalCancel(t)
  BY <1>4, ThreadFacts DEF Final, FinalCancel, Ready, data, control
<1>5. CASE SwapPush(t) \/ SwapPull(t)
  BY <1>5 DEF SwapPush, SwapPull, control
<1>6. CASE Publish(t)
  BY <1>6 DEF Publish, Advance, data, control
<1>7. CASE Check(t)
  BY <1>7 DEF Check, Advance, data, control
<1>8. CASE Notify(t)
  BY <1>8 DEF Notify, Sleepers, Advance, data, control
<1> QED BY <1>1, <1>2, <1>3, <1>4, <1>5, <1>6, <1>7, <1>8 DEF Step

\* Every thread stays on the channel of its frame.
LEMMA StepExact ==
    ASSUME IInv, Exact, NEW t \in Threads, Step(t) \/ SpuriousWakeup(t)
    PROVE  Exact'
<1> SUFFICES ASSUME NEW u \in Threads PROVE \E j \in Nat : NextFrame(u)' = cur'[u] + j * NChannels
  BY DEF Exact
<1>1. PICK j \in Nat : NextFrame(u) = cur[u] + j * NChannels
  BY DEF Exact
<1>2. CASE cur'[u] = cur[u] /\ handled'[u] = handled[u]
  BY <1>1, <1>2 DEF NextFrame, Stride
<1>3. CASE u = t /\ Advance(t)
  <2> DEFINE N == NChannels  S == Stride(t)
  <2>1. N \in Nat \ {0} /\ S \in Nat \ {0} /\ cur[t] \in 0 .. N - 1
    BY StrideFacts, AdvanceFrame, <1>3, SizeAssumption
  <2>2. NextFrame(t)' = cur[t] + j * N + S
    BY <1>1, <1>3, AdvanceFrame
  <2>3. CASE cur[t] + S < N
    <3>1. cur'[t] = cur[t] + S
      BY <1>3, <2>3, AdvanceFrame
    <3>2. NextFrame(t)' = cur'[t] + j * N
      BY <2>1, <2>2, <3>1
    <3> QED BY <3>2, <1>3
  <2>4. CASE ~(cur[t] + S < N)
    <3>1. cur'[t] = cur[t] + S - N
      BY <1>3, <2>4, AdvanceFrame
    <3>2. (j + 1) * N = j * N + N /\ j + 1 \in Nat
      BY <2>1
    <3>3. j * N \in Int
      BY <2>1
    <3>4. NextFrame(t)' = cur'[t] + (j + 1) * N
      <4> HIDE DEF S
      <4> QED BY <2>1, <2>2, <3>1, <3>2, <3>3
    <3> QED BY <3>2, <3>4, <1>3
  <2> QED BY <2>3, <2>4
<1> QED BY <1>2, <1>3, Moves

\* Between two exchanges the rings and the frames before them stay.
LEMMA StepFrames ==
    ASSUME IInv, RingConsistent, IInv',
           NEW t \in Threads, Step(t) \/ SpuriousWakeup(t), pc[t] # "swap"
    PROVE  /\ UNCHANGED <<first, slot, hand>>
           /\ \A c \in Channels : Filled(c)' = Filled(c)
           /\ \A u \in Threads, c \in Channels : OnLane(u, c) => Taken(u, c)' = Taken(u, c)
<1>1. UNCHANGED <<first, slot, hand>>
  BY DEF Step, SpuriousWakeup, Produce, StopPushing, Consume, Test, TestCancel, Lock, Pred, PredCancel,
         Final, FinalCancel, SwapPush, SwapPull, Publish, Check, Notify, data
<1>4. \A c \in Channels : Filled(c)' = Filled(c)
  <2>1. CASE pc[t] = "publish"
    <3>1. Publish(t)
      BY <2>1 DEF Step, SpuriousWakeup, Produce, StopPushing, Consume, Test, TestCancel, Lock, Pred,
                  PredCancel, Final, FinalCancel, SwapPush, SwapPull, Check, Notify
    <3> QED BY <3>1, RingPublish
  <2>2. CASE pc[t] # "publish"
    <3>1. counter' = counter
      BY <2>2 DEF Step, SpuriousWakeup, Produce, StopPushing, Consume, Test, TestCancel, Lock, Pred,
                  PredCancel, Final, FinalCancel, SwapPush, SwapPull, Publish, Check, Notify
    <3>2. \A u \in Threads : (pc'[u] = "publish" <=> pc[u] = "publish")
                             /\ (pc[u] = "publish" => cur'[u] = cur[u])
      BY <2>2, Moves DEF Exchanged
    <3> QED BY <3>1, <3>2, MovedSame DEF Filled
  <2> QED BY <2>1, <2>2
<1>5. ASSUME NEW u \in Threads, NEW c \in Channels, OnLane(u, c) PROVE Taken(u, c)' = Taken(u, c)
  <2>1. CASE u # t
    <3>1. cur'[u] = cur[u] /\ handled'[u] = handled[u] /\ (pc'[u] \in Exchanged <=> pc[u] \in Exchanged)
      BY <2>1, Moves DEF Exchanged
    <3> QED BY <3>1, SameTaken
  <2>2. CASE u = t /\ pc[t] \notin Exchanged
    <3>1. cur'[u] = cur[u] /\ handled'[u] = handled[u] /\ (pc'[u] \in Exchanged <=> pc[u] \in Exchanged)
      BY <2>2, Moves
    <3> QED BY <3>1, SameTaken
  <2>3. CASE u = t /\ pc[t] \in Exchanged
    <3>1. CASE pc'[t] \in {"check", "notify"} /\ cur'[t] = cur[t] /\ handled'[t] = handled[t]
      <4>1. pc'[t] \in Exchanged
        BY <3>1 DEF Exchanged
      <4> QED BY <2>3, <3>1, <4>1, SameTaken
    <3>2. CASE pc'[t] = "use" /\ Advance(t)
      BY <2>3, <3>2, <1>5, AdvanceTaken
    <3> QED BY <2>3, <3>1, <3>2, Moves
  <2> QED BY <2>1, <2>2, <2>3
<1> QED BY <1>1, <1>4, <1>5

\* The pushers of a step without exchange: the frame in their hands is their next.
LEMMA StepCarried ==
    ASSUME Rings, Carried, NEW t \in Threads, Step(t) \/ SpuriousWakeup(t), pc[t] # "swap"
    PROVE  Carried'
<1> USE DEF IInv, TypeOK
<1>1. hand' = hand /\ \A u, v \in Threads : hand[u] = hand[v] => u = v
  BY DEF Rings, BuffersDistinct, Step, SpuriousWakeup, Produce, StopPushing, Consume, Test, TestCancel, Lock,
         Pred, PredCancel, Final, FinalCancel, SwapPush, SwapPull, Publish, Check, Notify, data
<1>2. TypeOK /\ IInv
  BY DEF Rings
<1> SUFFICES ASSUME NEW u \in Pushers, pc'[u] \in Carrying PROVE content'[hand[u]] = NextFrame(u)'
  BY <1>1 DEF Carried
<1>3. u \in Threads
  BY DEF Threads
<1>4. CASE Produce(t) /\ u = t
  <2>1. content'[hand[t]] = NextFrame(t)
    BY <1>2, <1>4 DEF Produce
  <2>2. NextFrame(t)' = NextFrame(t)
    BY <1>4 DEF Produce, NextFrame, Stride
  <2> QED BY <1>4, <2>1, <2>2
<1>5. CASE ~(Produce(t) /\ u = t)
  <2>1. content'[hand[u]] = content[hand[u]]
    <3>1. CASE Produce(t)
      BY <3>1, <1>1, <1>2, <1>3, <1>5 DEF Produce
    <3>2. CASE ~Produce(t)
      BY <3>2 DEF Step, SpuriousWakeup, StopPushing, Consume, Test, TestCancel, Lock,
         Pred, PredCancel, Final, FinalCancel, SwapPush, SwapPull, Publish, Check, Notify, data
    <3> QED BY <3>1, <3>2
  <2>2. pc[u] \in Carrying /\ cur'[u] = cur[u] /\ handled'[u] = handled[u]
    <3>1. CASE u # t
      BY <3>1, <1>2, <1>3, Moves DEF Carrying
    <3>2. CASE u = t
      <4>1. pc[t] \in Carrying
        BY <3>2, <1>2, <1>5, ThreadFacts, <1>3
           DEF Step, SpuriousWakeup, StopPushing, Consume, Test, TestCancel, Lock, Pred, PredCancel, Final,
               FinalCancel, SwapPush, SwapPull, Publish, Check, Notify, Goto, Carrying, Sleepers, Ready
      <4>2. pc[t] \notin Exchanged
        BY <4>1 DEF Carrying, Exchanged
      <4> QED BY <3>2, <4>1, <4>2, <1>2, Moves
    <3> QED BY <3>1, <3>2
  <2> QED BY <2>1, <2>2 DEF Carried, NextFrame, Stride
<1> QED BY <1>4, <1>5

\* Between two exchanges only a pusher writes, in its own buffer, and only a
\* puller that consumes has more received.
LEMMA StepContent ==
    ASSUME IInv, BuffersDistinct, NEW t \in Threads, Step(t) \/ SpuriousWakeup(t), pc[t] # "swap"
    PROVE  /\ \A u \in Pullers : content'[hand[u]] = content[hand[u]]
           /\ \A c \in Channels, i \in Slots : content'[slot[c][i]] = content[slot[c][i]]
           /\ \A u \in Pullers : ~(Consume(t) /\ u = t) => received'[u] = received[u]
<1>1. CASE Produce(t)
  <2>1. content' = [content EXCEPT ![hand[t]] = NextFrame(t)] /\ received' = received
    BY <1>1 DEF Produce
  <2>2. \A u \in Pullers : hand[u] # hand[t]
    BY <1>1, ThreadFacts DEF Produce, BuffersDistinct, Threads
  <2>3. \A c \in Channels, i \in Slots : hand[t] # slot[c][i]
    BY DEF BuffersDistinct
  <2>4. content \in [Buffers -> Frames]
    BY DEF IInv, TypeOK
  <2> QED BY <2>1, <2>2, <2>3, <2>4
<1>2. CASE Consume(t)
  <2>1. content' = content /\ received' = [received EXCEPT ![t] = Append(@, content[hand[t]])]
    BY <1>2 DEF Consume, data
  <2>2. received \in [Pullers -> Seq(Frames)]
    BY DEF IInv, TypeOK
  <2> QED BY <1>2, <2>1, <2>2
<1>3. CASE ~Produce(t) /\ ~Consume(t)
  <2>1. content' = content /\ received' = received
    BY <1>3 DEF Step, SpuriousWakeup, StopPushing, Test, TestCancel, Lock,
         Pred, PredCancel, Final, FinalCancel, SwapPush, SwapPull, Publish, Check, Notify, data
  <2> QED BY <2>1
<1> QED BY <1>1, <1>2, <1>3

\* The pullers: between its exchange and its use a puller holds its frame, which is
\* then the next one of what it has received.
LEMMA StepFetched ==
    ASSUME Rings, Fetched, InOrder, NEW t \in Threads, Step(t) \/ SpuriousWakeup(t), pc[t] # "swap"
    PROVE  Fetched' /\ InOrder'
<1>0. BuffersDistinct /\ IInv
  BY DEF Rings
<1>1. /\ pc \in [Threads -> Labels] /\ hand \in [Threads -> Buffers]
      /\ handled \in [Threads -> Nat] /\ received \in [Pullers -> Seq(Frames)]
      /\ content \in [Buffers -> Frames]
  BY <1>0 DEF IInv, TypeOK
<1>8. hand' = hand
  BY DEF Step, SpuriousWakeup, Produce, StopPushing, Consume, Test, TestCancel, Lock,
         Pred, PredCancel, Final, FinalCancel, SwapPush, SwapPull, Publish, Check, Notify, data
<1>2. \A u \in Pullers : u \in Threads /\ u \notin Pushers /\ Stride(u) = NPullers /\ u[2] \in Nat
  BY ThreadFacts DEF Threads, Stride
<1>3. \A u \in Pullers : received[u] \in Seq(Frames) /\ Len(received[u]) \in Nat
  BY <1>1
<1>4. ASSUME NEW u \in Pullers, ~(Consume(t) /\ u = t)
      PROVE  received'[u] = received[u] /\ content'[hand[u]] = content[hand[u]]
  BY <1>0, <1>1, <1>2, <1>4, StepContent
<1>5. ASSUME NEW u \in Pullers
      PROVE  /\ handled'[u] = Len(received'[u]) + InUse(u)'
             /\ pc'[u] \in Exchanged \cup {"use"} =>
                  content'[hand[u]] = u[2] + Len(received'[u]) * NPullers
             /\ \A n \in DOMAIN received'[u] : received'[u][n] = u[2] + (n - 1) * NPullers
  <2>1. CASE u # t
    <3>1. handled'[u] = handled[u] /\ (pc'[u] = "use" <=> pc[u] = "use")
          /\ (pc'[u] \in Exchanged <=> pc[u] \in Exchanged)
      BY <2>1, <1>0, <1>2, Moves DEF Exchanged
    <3>2. received'[u] = received[u] /\ content'[hand[u]] = content[hand[u]]
      BY <2>1, <1>4
    <3> QED BY <3>1, <3>2 DEF Fetched, InOrder, InUse
  <2>2. CASE u = t /\ pc[t] \in Exchanged
    <3>1. ~Consume(t)
      BY <2>2 DEF Consume, Exchanged
    <3>2. handled[t] = Len(received[t]) /\ content[hand[t]] = t[2] + Len(received[t]) * NPullers
      <4>1. InUse(t) = 0 /\ pc[t] \in Exchanged \cup {"use"}
        BY <2>2 DEF InUse, Exchanged
      <4>2. handled[t] = Len(received[t]) + InUse(t)
            /\ (pc[t] \in Exchanged \cup {"use"} =>
                  content[hand[t]] = t[2] + Len(received[t]) * NPullers)
        BY <2>2 DEF Fetched
      <4>3. Len(received[t]) \in Nat
        BY <2>2, <1>3
      <4>4. handled[t] = Len(received[t])
        BY ONLY <4>1, <4>2, <4>3
      <4> QED BY ONLY <4>1, <4>2, <4>4
    <3>3. Advance(t) => handled'[t] = handled[t] + 1
      BY <1>1 DEF Advance
    <3>4. \/ pc'[t] # "use" /\ handled'[t] = handled[t]
          \/ pc'[t] = "use" /\ handled'[t] = handled[t] + 1
      BY <2>2, <1>0, <3>3, Moves
    <3>5. received'[u] = received[u] /\ content'[hand[u]] = content[hand[u]]
      BY <2>2, <3>1, <1>4
    <3>6. handled'[u] = Len(received'[u]) + InUse(u)'
      <4>1. Len(received[u]) \in Nat /\ Len(received'[u]) = Len(received[u])
        BY <1>3, <3>5
      <4>2. handled[u] = Len(received[u])
        BY <2>2, <3>2
      <4>3. CASE pc'[u] = "use"
        <5>1. InUse(u)' = 1 /\ handled'[u] = handled[u] + 1
          BY <4>3, <2>2, <3>4 DEF InUse
        <5> QED BY <4>1, <4>2, <5>1
      <4>4. CASE pc'[u] # "use"
        <5>1. InUse(u)' = 0 /\ handled'[u] = handled[u]
          BY <4>4, <2>2, <3>4 DEF InUse
        <5> QED BY <4>1, <4>2, <5>1
      <4> QED BY <4>3, <4>4
    <3> QED BY <2>2, <3>2, <3>5, <3>6 DEF InOrder
  <2>3. CASE u = t /\ pc[t] = "use"
    <3>1. Consume(t)
      BY <2>3, <1>1, <1>2 DEF Step, SpuriousWakeup, Produce, StopPushing, Test, TestCancel, Lock,
         Pred, PredCancel, Final, FinalCancel, SwapPush, SwapPull, Publish, Check, Notify
    <3>2. /\ received'[u] = Append(received[u], content[hand[u]])
          /\ pc'[u] \in {"stopped", "test"} /\ handled'[u] = handled[u]
      BY <2>3, <3>1, <1>1, <1>2 DEF Consume, Goto
    <3>3. handled[u] = Len(received[u]) + 1 /\ content[hand[u]] = u[2] + Len(received[u]) * NPullers
      BY <2>3 DEF Fetched, InUse
    <3>4. /\ Len(received'[u]) = Len(received[u]) + 1
          /\ \A n \in 1 .. Len(received[u]) : received'[u][n] = received[u][n]
          /\ received'[u][Len(received[u]) + 1] = content[hand[u]]
          /\ DOMAIN received'[u] = 1 .. Len(received[u]) + 1
          /\ DOMAIN received[u] = 1 .. Len(received[u])
      BY <3>2, <1>1, <1>3, <1>2
    <3>5. \A n \in DOMAIN received'[u] : received'[u][n] = u[2] + (n - 1) * NPullers
      <4> SUFFICES ASSUME NEW n \in DOMAIN received'[u]
                   PROVE  received'[u][n] = u[2] + (n - 1) * NPullers
        OBVIOUS
      <4>1. CASE n \in 1 .. Len(received[u])
        BY <4>1, <3>4 DEF InOrder
      <4>2. CASE n = Len(received[u]) + 1
        BY <4>2, <3>4, <3>3, <1>3
      <4> QED BY <4>1, <4>2, <3>4, <1>3
    <3>6. InUse(u)' = 0 /\ pc'[u] \notin Exchanged \cup {"use"}
      BY <3>2 DEF InUse, Exchanged
    <3> QED BY <2>3, <3>2, <3>3, <3>4, <3>5, <3>6, <1>3
  <2>4. CASE u = t /\ pc[t] \notin Exchanged \cup {"use"}
    <3>1. ~Consume(t)
      BY <2>4 DEF Consume
    <3>2. pc'[t] \notin Exchanged \cup {"use"} /\ handled'[t] = handled[t]
      BY <2>4, <1>1, <1>2 DEF Step, SpuriousWakeup, Produce, StopPushing, Consume, Test, TestCancel, Lock,
         Pred, PredCancel, Final, FinalCancel, SwapPush, SwapPull, Publish, Check, Notify, Goto, Exchanged
    <3>3. received'[u] = received[u]
      BY <2>4, <3>1, <1>4
    <3>4. InUse(u)' = 0 /\ InUse(u) = 0
      BY <2>4, <3>2 DEF InUse
    <3> QED BY <2>4, <3>2, <3>3, <3>4 DEF Fetched, InOrder
  <2> QED BY <2>1, <2>2, <2>3, <2>4
<1>6. Fetched'
  BY <1>8, <1>5 DEF Fetched
<1>7. InOrder'
  BY <1>5 DEF InOrder
<1> QED BY <1>6, <1>7

\* The slots between first and last are slots.
LEMMA SlotOf ==
    ASSUME IInv, RingConsistent
    PROVE  /\ \A c \in Channels : first[c] \in 0 .. BufferSize - 1 /\ Filled(c) \in 0 .. BufferSize
           /\ \A c \in Channels : \A k \in 0 .. Filled(c) - 1 : (first[c] + k) % BufferSize \in Slots
<1>1. \A c \in Channels : first[c] \in 0 .. BufferSize - 1 /\ Filled(c) \in 0 .. BufferSize
  BY DEF IInv, TypeOK, Slots, RingConsistent
<1>2. ASSUME NEW x \in Int PROVE x % BufferSize \in Slots
  BY SizeAssumption DEF Slots
<1>3. ASSUME NEW c \in Channels, NEW k \in 0 .. Filled(c) - 1 PROVE (first[c] + k) % BufferSize \in Slots
  <2>1. first[c] + k \in Int
    BY <1>1
  <2> QED BY <1>2, <2>1
<1> QED BY <1>1, <1>3

\* Between two exchanges the two sides of a channel agree and its slots keep their frames.
LEMMA StepStored ==
    ASSUME Rings, IInv', Agree, Stored, NEW t \in Threads, Step(t) \/ SpuriousWakeup(t), pc[t] # "swap"
    PROVE  Agree' /\ Stored'
<1>1. IInv /\ RingConsistent /\ BuffersDistinct
  BY DEF Rings
<1>2. /\ UNCHANGED <<first, slot, hand>>
      /\ \A c \in Channels : Filled(c)' = Filled(c)
      /\ \A u \in Threads, c \in Channels : OnLane(u, c) => Taken(u, c)' = Taken(u, c)
  BY <1>1, StepFrames
<1>3. Pushers \subseteq Threads /\ Pullers \subseteq Threads
  BY DEF Threads
<1>4. Agree'
  BY <1>2, <1>3 DEF Agree, OnLane, Stride
<1>5. Stored'
  <2> SUFFICES ASSUME NEW u \in Pullers, NEW c \in Channels, OnLane(u, c), NEW k \in 0 .. Filled(c) - 1
               PROVE  content'[slot[c][(first[c] + k) % BufferSize]] = Taken(u, c) + k * NChannels
    BY <1>2, <1>3 DEF Stored, OnLane, Stride
  <2>1. (first[c] + k) % BufferSize \in Slots
    BY <1>1, SlotOf
  <2>2. content'[slot[c][(first[c] + k) % BufferSize]] = content[slot[c][(first[c] + k) % BufferSize]]
    BY <1>1, <2>1, StepContent
  <2> QED BY <2>2 DEF Stored
<1> QED BY <1>4, <1>5

\* Different distances from first are different slots.
LEMMA SlotsApart ==
    ASSUME NEW B \in Nat \ {0}, NEW f \in 0 .. B - 1, NEW j \in 0 .. B - 1, NEW k \in 0 .. B - 1, j # k
    PROVE  (f + j) % B # (f + k) % B
<1> DEFINE x == f + j  y == f + k
<1>1. x \in 0 .. 2 * B - 1 /\ y \in 0 .. 2 * B - 1
  OBVIOUS
<1> HIDE DEF x, y
<1>2. x % B = (IF x < B THEN x ELSE x - B) /\ y % B = (IF y < B THEN y ELSE y - B)
  BY <1>1, ModSmall
<1> QED BY <1>2 DEF x, y

\* By exchange or by copy, the slot at last has the frame of the pusher, and what
\* the others have stays.
LEMMA SwapPushContent ==
    ASSUME IInv, BuffersDistinct, NEW t \in Threads, SwapPush(t)
    PROVE  /\ \A d \in Channels, i \in Slots :
                content'[slot'[d][i]] = IF d = cur[t] /\ i = last[cur[t]]
                                          THEN content[hand[t]] ELSE content[slot[d][i]]
           /\ \A u \in Threads : u # t => content'[hand'[u]] = content[hand[u]]
<1> DEFINE c == cur[t]  l == last[cur[t]]
<1>1. /\ slot \in [Channels -> [Slots -> Buffers]] /\ hand \in [Threads -> Buffers]
      /\ content \in [Buffers -> Frames] /\ c \in Channels /\ l \in Slots
  BY DEF IInv, TypeOK
<1>2. CASE NoCopy
  <2>1. slot' = [slot EXCEPT ![c][l] = hand[t]] /\ hand' = [hand EXCEPT ![t] = slot[c][l]]
        /\ content' = content
    BY <1>2 DEF SwapPush, Exchange
  <2> HIDE DEF c, l
  <2>2. \A d \in Channels, i \in Slots : slot'[d][i] = IF d = c /\ i = l THEN hand[t] ELSE slot[d][i]
    BY <1>1, <2>1
  <2> QED BY <1>1, <2>1, <2>2 DEF c, l
<1>3. CASE ~NoCopy
  <2>1. slot' = slot /\ hand' = hand /\ content' = [content EXCEPT ![slot[c][l]] = content[hand[t]]]
    BY <1>3 DEF SwapPush
  <2>2. \A d \in Channels, i \in Slots : slot[d][i] = slot[c][l] => d = c /\ i = l
    BY <1>1 DEF BuffersDistinct
  <2>3. \A u \in Threads : hand[u] # slot[c][l]
    BY <1>1 DEF BuffersDistinct
  <2> QED BY <1>1, <2>1, <2>2, <2>3
<1> QED BY <1>2, <1>3

\* By exchange or by copy, the puller has the frame of the slot at first, and what
\* the others and the other slots have stays.
LEMMA SwapPullContent ==
    ASSUME IInv, BuffersDistinct, NEW t \in Threads, SwapPull(t)
    PROVE  /\ \A d \in Channels, i \in Slots : ~(d = cur[t] /\ i = first[cur[t]]) =>
                content'[slot'[d][i]] = content[slot[d][i]]
           /\ content'[hand'[t]] = content[slot[cur[t]][first[cur[t]]]]
           /\ \A u \in Threads : u # t => content'[hand'[u]] = content[hand[u]]
<1> DEFINE c == cur[t]  f == first[cur[t]]
<1>1. /\ slot \in [Channels -> [Slots -> Buffers]] /\ hand \in [Threads -> Buffers]
      /\ content \in [Buffers -> Frames] /\ c \in Channels /\ f \in Slots
  BY DEF IInv, TypeOK
<1>2. CASE NoCopy
  <2>1. slot' = [slot EXCEPT ![c][f] = hand[t]] /\ hand' = [hand EXCEPT ![t] = slot[c][f]]
        /\ content' = content
    BY <1>2 DEF SwapPull, Exchange
  <2> HIDE DEF c, f
  <2>2. \A d \in Channels, i \in Slots : slot'[d][i] = IF d = c /\ i = f THEN hand[t] ELSE slot[d][i]
    BY <1>1, <2>1
  <2> QED BY <1>1, <2>1, <2>2 DEF c, f
<1>3. CASE ~NoCopy
  <2>1. slot' = slot /\ hand' = hand /\ content' = [content EXCEPT ![hand[t]] = content[slot[c][f]]]
    BY <1>3 DEF SwapPull
  <2>2. \A d \in Channels, i \in Slots : hand[t] # slot[d][i]
    BY DEF BuffersDistinct
  <2>3. \A u \in Threads : hand[u] = hand[t] => u = t
    BY DEF BuffersDistinct
  <2> QED BY <1>1, <2>1, <2>2, <2>3
<1> QED BY <1>2, <1>3

\* A pusher that exchanges adds its frame behind those of its channel.
LEMMA SwapPushOrder ==
    ASSUME Rings, IInv', OrderInv, NEW t \in Threads, SwapPush(t)
    PROVE  OrderInv'
<1> DEFINE c == cur[t]  N == NChannels  B == BufferSize
<1>1. IInv /\ RingConsistent /\ BuffersDistinct /\ Exact /\ Agree /\ Stored /\ Carried /\ Fetched /\ InOrder
  BY DEF Rings, OrderInv
<1>2. /\ t \in Pushers /\ t \notin Pullers /\ pc[t] = "swap" /\ pc'[t] = "publish"
      /\ \A u \in Threads : u # t => pc'[u] = pc[u]
      /\ cur' = cur /\ handled' = handled /\ received' = received /\ first' = first
  BY <1>1, ThreadFacts DEF SwapPush, Goto, IInv, TypeOK
<1>3. /\ Pushers \subseteq Threads /\ Pullers \subseteq Threads
      /\ c \in Channels /\ OnLane(t, c) /\ last[c] = (first[c] + Filled(c)) % B
  BY <1>1 DEF Threads, IInv, TypeOK, Lane, OnLane, RingConsistent
<1>4. \A d \in Channels : Taken(t, d)' = Taken(t, d) + (IF d = c THEN N ELSE 0)
  BY <1>1, <1>2, SwapTaken
<1>5. \A u \in Threads : u # t =>
        NextFrame(u)' = NextFrame(u) /\ \A d \in Channels : Taken(u, d)' = Taken(u, d)
  BY <1>2, SameTaken
<1>6. /\ \A d \in Channels : Filled(d)' = Filled(d) + (IF d = c THEN 1 ELSE 0)
      /\ Filled(c) \in 0 .. B - 1 /\ B \in Nat \ {0}
  <2>1. \A d \in Channels : Filled(d)' = Filled(d) + (IF d = c THEN 1 ELSE 0)
    BY <1>1, RingSwapPush
  <2>2. Filled(c) < B /\ Filled(c) \in 0 .. B
    BY <1>1, <1>3, RingSwapPush, SlotOf
  <2> QED BY <2>1, <2>2, SizeAssumption
<1>7. Exact'
  BY <1>1, StepExact DEF Step
<1>8. \A p \in Pushers : OnLane(p, c) => p = t
  BY <1>2, <1>3, ThreadFacts DEF OnLane, Stride
<1>9. Agree'
  <2> SUFFICES ASSUME NEW p \in Pushers, NEW u \in Pullers, NEW d \in Channels, OnLane(p, d), OnLane(u, d)
               PROVE  Taken(p, d)' = Taken(u, d)' + Filled(d)' * N
    BY DEF Agree, OnLane, Stride
  <2>1. Taken(p, d) = Taken(u, d) + Filled(d) * N
    BY <1>1 DEF Agree
  <2>2. Taken(u, d)' = Taken(u, d)
    BY <1>2, <1>3, <1>5
  <2>3. CASE d = c
    <3>1. Taken(p, d)' = Taken(p, d) + N /\ Filled(d)' = Filled(d) + 1
      BY <2>3, <1>4, <1>6, <1>8
    <3>2. Taken(u, d) \in Int /\ Filled(d) \in Int /\ N \in Int
      BY <1>1, <1>3, <1>6, <2>3, TakenFacts, SizeAssumption
    <3>3. (Filled(d) + 1) * N = Filled(d) * N + N /\ Filled(d) * N \in Int
      <4> HIDE DEF N
      <4> QED BY <3>2
    <3> HIDE DEF N
    <3> QED BY <2>1, <2>2, <3>1, <3>2, <3>3
  <2>4. CASE d # c
    <3>1. Filled(d)' = Filled(d)
      BY <2>4, <1>1, <1>6, SlotOf
    <3>2. Taken(p, d)' = Taken(p, d)
      BY <2>4, <1>1, <1>2, <1>3, <1>4, <1>5, TakenFacts
    <3> QED BY <2>1, <2>2, <3>1, <3>2
  <2> QED BY <2>3, <2>4
<1>10. content[hand[t]] = NextFrame(t) /\ Taken(t, c) = NextFrame(t)
  BY <1>1, <1>2, TakenFacts DEF Carried, Carrying, Exchanged
<1>11. Stored'
  <2> SUFFICES ASSUME NEW u \in Pullers, NEW d \in Channels, OnLane(u, d), NEW k \in 0 .. Filled(d)' - 1
               PROVE  content'[slot'[d][(first[d] + k) % B]] = Taken(u, d)' + k * N
    BY <1>2 DEF Stored, OnLane, Stride
  <2> DEFINE i == (first[d] + k) % B
  <2>1. Taken(u, d)' = Taken(u, d)
    BY <1>2, <1>3, <1>5
  <2>2. CASE d = c /\ k = Filled(c)
    <3>1. content'[slot'[d][i]] = NextFrame(t)
      <4>1. last[c] \in Slots /\ i = last[c]
        BY <2>2, <1>1, <1>3 DEF IInv, TypeOK
      <4>2. content'[slot'[c][last[c]]] = content[hand[t]]
        BY <1>1, <1>3, <4>1, SwapPushContent
      <4> QED BY <2>2, <4>1, <4>2, <1>10
    <3>2. Taken(t, c) = Taken(u, c) + Filled(c) * N
      BY <2>2, <1>1, <1>2, <1>3 DEF Agree
    <3> QED BY <2>1, <2>2, <3>1, <3>2, <1>10
  <2>3. CASE ~(d = c /\ k = Filled(c))
    <3>1. k \in 0 .. Filled(d) - 1
      <4>1. Filled(d) \in 0 .. B
        BY <1>1, SlotOf
      <4> QED BY <2>3, <4>1, <1>6
    <3>2. i \in Slots
      BY <1>1, <3>1, SlotOf
    <3>3. ~(d = c /\ i = last[c])
      <4>1. first[c] \in 0 .. B - 1 /\ B \in Nat \ {0}
        BY <1>1, <1>3, SlotOf, SizeAssumption
      <4>2. CASE d = c
        <5>1. k \in 0 .. Filled(c) - 1 /\ k # Filled(c)
          BY <4>2, <2>3, <3>1
        <5>3. k \in 0 .. B - 1
          <6> HIDE DEF B
          <6> QED BY <5>1, <1>6
        <5> HIDE DEF B
        <5>2. (first[c] + k) % B # (first[c] + Filled(c)) % B
          BY <5>1, <5>3, <4>1, <1>6, SlotsApart
        <5> QED BY <5>2, <4>2, <1>3
      <4> QED BY <4>2
    <3>4. content'[slot'[d][i]] = content[slot[d][i]]
      BY <1>1, <3>2, <3>3, SwapPushContent
    <3>5. content[slot[d][i]] = Taken(u, d) + k * N
      BY <1>1, <3>1 DEF Stored
    <3> QED BY <2>1, <3>4, <3>5
  <2> QED BY <2>2, <2>3
<1>12. \A u \in Threads : u # t => content'[hand'[u]] = content[hand[u]]
  BY <1>1, SwapPushContent
<1>13. Carried'
  <2> SUFFICES ASSUME NEW u \in Pushers, pc'[u] \in Carrying PROVE content'[hand'[u]] = NextFrame(u)'
    BY DEF Carried
  <2>1. u # t
    BY <1>2 DEF Carrying
  <2> QED BY <2>1, <1>1, <1>2, <1>3, <1>5, <1>12 DEF Carried
<1>14. Fetched' /\ InOrder'
  <2>1. \A u \in Pullers : pc'[u] = pc[u] /\ content'[hand'[u]] = content[hand[u]] /\ InUse(u)' = InUse(u)
    BY <1>2, <1>3, <1>12 DEF InUse
  <2> QED BY <2>1, <1>1, <1>2 DEF Fetched, InOrder
<1> QED BY <1>7, <1>9, <1>11, <1>13, <1>14 DEF OrderInv

\* A puller that exchanges takes the first frame of its channel, which is its next.
LEMMA SwapPullOrder ==
    ASSUME Rings, IInv', OrderInv, NEW t \in Threads, SwapPull(t)
    PROVE  OrderInv'
<1> DEFINE c == cur[t]  N == NChannels  B == BufferSize
<1>1. IInv /\ RingConsistent /\ BuffersDistinct /\ Exact /\ Agree /\ Stored /\ Carried /\ Fetched /\ InOrder
  BY DEF Rings, OrderInv
<1>2. /\ t \in Pullers /\ t \notin Pushers /\ pc[t] = "swap" /\ pc'[t] = "publish"
      /\ \A u \in Threads : u # t => pc'[u] = pc[u]
      /\ cur' = cur /\ handled' = handled /\ received' = received
      /\ first' = [first EXCEPT ![c] = (@ + 1) % B]
  BY <1>1, ThreadFacts DEF SwapPull, Goto, IInv, TypeOK
<1>3. /\ Pushers \subseteq Threads /\ Pullers \subseteq Threads
      /\ c \in Channels /\ OnLane(t, c) /\ first \in [Channels -> Slots]
  BY <1>1 DEF Threads, IInv, TypeOK, Lane, OnLane
<1>4. \A d \in Channels : Taken(t, d)' = Taken(t, d) + (IF d = c THEN N ELSE 0)
  BY <1>1, <1>2, SwapTaken
<1>5. \A u \in Threads : u # t =>
        NextFrame(u)' = NextFrame(u) /\ \A d \in Channels : Taken(u, d)' = Taken(u, d)
  BY <1>2, SameTaken
<1>6. /\ \A d \in Channels : Filled(d)' = Filled(d) - (IF d = c THEN 1 ELSE 0)
      /\ Filled(c) \in 1 .. B /\ B \in Nat \ {0}
  <2>1. \A d \in Channels : Filled(d)' = Filled(d) - (IF d = c THEN 1 ELSE 0)
    BY <1>1, RingSwapPull
  <2>2. Filled(c) > 0 /\ Filled(c) \in 0 .. B
    BY <1>1, <1>3, RingSwapPull, SlotOf
  <2> QED BY <2>1, <2>2, SizeAssumption
<1>7. Exact'
  BY <1>1, StepExact DEF Step
<1>8. \A u \in Pullers : OnLane(u, c) => u = t
  BY <1>2, <1>3, ThreadFacts DEF OnLane, Stride
<1>9. Agree'
  <2> SUFFICES ASSUME NEW p \in Pushers, NEW u \in Pullers, NEW d \in Channels, OnLane(p, d), OnLane(u, d)
               PROVE  Taken(p, d)' = Taken(u, d)' + Filled(d)' * N
    BY DEF Agree, OnLane, Stride
  <2>1. Taken(p, d) = Taken(u, d) + Filled(d) * N
    BY <1>1 DEF Agree
  <2>2. Taken(p, d)' = Taken(p, d)
    BY <1>2, <1>3, <1>5
  <2>3. CASE d = c
    <3>1. Taken(u, d)' = Taken(u, d) + N /\ Filled(d)' = Filled(d) - 1
      BY <2>3, <1>4, <1>6, <1>8
    <3>2. Taken(u, d) \in Int /\ Filled(d) \in Int /\ N \in Int
      BY <1>1, <1>3, <1>6, <2>3, TakenFacts, SizeAssumption
    <3>3. (Filled(d) - 1) * N = Filled(d) * N - N /\ Filled(d) * N \in Int
      <4> HIDE DEF N
      <4> QED BY <3>2
    <3> HIDE DEF N
    <3> QED BY <2>1, <2>2, <3>1, <3>2, <3>3
  <2>4. CASE d # c
    <3>1. Filled(d)' = Filled(d)
      BY <2>4, <1>1, <1>6, SlotOf
    <3>2. Taken(u, d)' = Taken(u, d)
      BY <2>4, <1>1, <1>2, <1>3, <1>4, <1>5, TakenFacts
    <3> QED BY <2>1, <2>2, <3>1, <3>2
  <2> QED BY <2>3, <2>4
<1>10. first[c] = (first[c] + 0) % B /\ first[c] \in 0 .. B - 1 /\ first[c] \in Slots
  <2>1. first[c] \in 0 .. B - 1 /\ first[c] \in Slots
    BY <1>3 DEF Slots
  <2>2. \A f \in 0 .. B - 1 : f = (f + 0) % B
    <3> HIDE DEF B
    <3> TAKE f \in 0 .. B - 1
    <3>1. f + 0 = f /\ f \in 0 .. 2 * B - 1
      BY <1>6
    <3> QED BY <3>1, <1>6, ModSmall
  <2> QED BY <2>1, <2>2
<1>11. content'[hand'[t]] = Taken(t, c)
  <2>1. content'[hand'[t]] = content[slot[c][first[c]]]
    BY <1>1, SwapPullContent
  <2>2. content[slot[c][(first[c] + 0) % B]] = Taken(t, c) + 0 * N
    <3>1. 0 \in 0 .. Filled(c) - 1
      BY <1>6
    <3> QED BY <1>1, <1>2, <1>3, <3>1 DEF Stored
  <2>3. Taken(t, c) + 0 * N = Taken(t, c)
    BY <1>1, <1>3, TakenFacts, SizeAssumption
  <2> QED BY <2>1, <2>2, <2>3, <1>10
<1>12. Stored'
  <2> SUFFICES ASSUME NEW u \in Pullers, NEW d \in Channels, OnLane(u, d), NEW k \in 0 .. Filled(d)' - 1
               PROVE  content'[slot'[d][(first'[d] + k) % B]] = Taken(u, d)' + k * N
    BY DEF Stored, OnLane, Stride
  <2>0. Filled(d) \in 0 .. B
    BY <1>1, SlotOf
  <2>1. CASE d = c
    <3>1. u = t
      BY <2>1, <1>8
    <3>2. k \in Nat /\ k + 1 \in 0 .. Filled(c) - 1 /\ k + 1 \in 1 .. B /\ k + 1 \in 0 .. B - 1
      <4>1. k \in 0 .. Filled(c) - 2
        BY <2>1, <1>6, <1>3
      <4> HIDE DEF B
      <4> QED BY <4>1, <1>6
    <3>3. (first'[d] + k) % B = (first[c] + (k + 1)) % B
      <4>1. first'[d] = (first[c] + 1) % B
        BY <2>1, <1>2, <1>3
      <4>2. (first[c] + (k + 1)) % B = (((first[c] + 1) % B) + ((k + 1) - 1)) % B
        <5> HIDE DEF B
        <5> QED BY <1>6, <1>10, <3>2, RingPull
      <4>3. (k + 1) - 1 = k
        BY <3>2
      <4> QED BY <4>1, <4>2, <4>3
    <3> DEFINE i == (first[c] + (k + 1)) % B
    <3>4. i \in Slots
      BY <1>1, <1>3, <3>2, SlotOf
    <3>5. i # first[c]
      <4>1. 0 \in 0 .. B - 1 /\ k + 1 # 0
        BY <1>6, <3>2
      <4>2. (first[c] + (k + 1)) % B # (first[c] + 0) % B
        <5> HIDE DEF B
        <5> QED BY <4>1, <3>2, <1>6, <1>10, SlotsApart
      <4> QED BY <4>2, <1>10
    <3>6. content'[slot'[c][i]] = content[slot[c][i]]
      BY <1>1, <1>3, <3>4, <3>5, SwapPullContent
    <3>7. content[slot[c][i]] = Taken(t, c) + (k + 1) * N
      BY <1>1, <1>2, <1>3, <3>2 DEF Stored
    <3>8. Taken(t, c) + (k + 1) * N = Taken(t, c) + N + k * N
      <4>1. Taken(t, c) \in Int /\ N \in Int /\ k \in Int
        BY <1>1, <1>3, <3>2, TakenFacts, SizeAssumption
      <4> HIDE DEF N
      <4>2. (k + 1) * N = k * N + N /\ k * N \in Int
        BY <4>1
      <4> QED BY <4>1, <4>2
    <3>9. Taken(t, d)' = Taken(t, c) + N
      BY <2>1, <1>3, <1>4
    <3>10. content[slot[c][i]] = Taken(t, d)' + k * N
      BY <3>7, <3>8, <3>9
    <3> QED BY <2>1, <3>1, <3>3, <3>6, <3>10
  <2>2. CASE d # c
    <3>1. Filled(d)' = Filled(d) /\ first'[d] = first[d]
      BY <2>0, <2>2, <1>2, <1>3, <1>6
    <3>2. Taken(u, d)' = Taken(u, d)
      BY <2>2, <1>1, <1>2, <1>3, <1>4, <1>5, TakenFacts
    <3>3. k \in 0 .. Filled(d) - 1
      BY <3>1
    <3>4. (first[d] + k) % B \in Slots
      BY <1>1, <3>3, SlotOf
    <3>5. content'[slot'[d][(first[d] + k) % B]] = content[slot[d][(first[d] + k) % B]]
      BY <2>2, <1>1, <3>4, SwapPullContent
    <3>6. content[slot[d][(first[d] + k) % B]] = Taken(u, d) + k * N
      BY <1>1, <3>3 DEF Stored
    <3> QED BY <3>1, <3>2, <3>5, <3>6
  <2> QED BY <2>1, <2>2
<1>13. \A u \in Threads : u # t => content'[hand'[u]] = content[hand[u]]
  BY <1>1, SwapPullContent
<1>14. Carried'
  <2> SUFFICES ASSUME NEW u \in Pushers, pc'[u] \in Carrying PROVE content'[hand'[u]] = NextFrame(u)'
    BY DEF Carried
  <2>1. u # t
    BY <1>2
  <2> QED BY <2>1, <1>1, <1>2, <1>3, <1>5, <1>13 DEF Carried
<1>15. Fetched'
  <2> SUFFICES ASSUME NEW u \in Pullers
               PROVE  /\ handled'[u] = Len(received'[u]) + InUse(u)'
                      /\ pc'[u] \in Exchanged \cup {"use"} =>
                           content'[hand'[u]] = u[2] + Len(received'[u]) * NPullers
    BY DEF Fetched
  <2>1. InUse(u)' = InUse(u)
    BY <1>2, <1>3 DEF InUse
  <2>2. handled'[u] = Len(received'[u]) + InUse(u)'
    BY <2>1, <1>1, <1>2 DEF Fetched
  <2>3. CASE u = t
    <3>1. handled[t] = Len(received[t])
      <4>1. InUse(t) = 0
        BY <1>2 DEF InUse
      <4>2. handled[t] = Len(received[t]) + InUse(t)
        BY <1>1, <1>2 DEF Fetched
      <4>3. Len(received[t]) \in Nat
        BY <1>1, <1>2 DEF IInv, TypeOK
      <4> QED BY <4>1, <4>2, <4>3
    <3>2. Taken(t, c) = NextFrame(t)
      BY <1>1, <1>2, TakenFacts DEF Exchanged
    <3>3. NextFrame(t) = t[2] + handled[t] * NPullers
      BY <1>2 DEF NextFrame, Stride
    <3>4. content'[hand'[t]] = t[2] + Len(received'[t]) * NPullers
      BY <3>1, <3>2, <3>3, <1>2, <1>11
    <3> QED BY <2>2, <2>3, <3>4
  <2>4. CASE u # t
    BY <2>2, <2>4, <1>1, <1>2, <1>3, <1>13 DEF Fetched
  <2> QED BY <2>3, <2>4
<1>16. InOrder'
  BY <1>1, <1>2 DEF InOrder
<1> QED BY <1>7, <1>9, <1>12, <1>14, <1>15, <1>16 DEF OrderInv

\* Every step of a thread keeps the order.
LEMMA StepOrder ==
    ASSUME Rings, IInv', OrderInv, NEW t \in Threads, Step(t) \/ SpuriousWakeup(t)
    PROVE  OrderInv'
<1>1. CASE pc[t] # "swap"
  <2>1. Exact'
    BY StepExact DEF Rings, OrderInv
  <2>2. Agree' /\ Stored'
    BY <1>1, StepStored DEF OrderInv
  <2>3. Carried'
    BY <1>1, StepCarried DEF OrderInv
  <2>4. Fetched' /\ InOrder'
    BY <1>1, StepFetched DEF OrderInv
  <2> QED BY <2>1, <2>2, <2>3, <2>4 DEF OrderInv
<1>2. CASE pc[t] = "swap"
  <2>1. SwapPush(t) \/ SwapPull(t)
    BY <1>2 DEF Step, SpuriousWakeup, Produce, StopPushing, Consume, Test, TestCancel, Lock,
         Pred, PredCancel, Final, FinalCancel, Publish, Check, Notify
  <2> QED BY <2>1, SwapPushOrder, SwapPullOrder
<1> QED BY <1>1, <1>2

\* A step of the control threads, at most a wakeup, changes nothing of the order.
LEMMA ControlOrder ==
    ASSUME Rings, OrderInv,
           UNCHANGED <<cur, counter, data, handled, received>>,
           \A t \in Threads : pc'[t] = pc[t] \/ (pc[t] = "asleep" /\ pc'[t] = "lock")
    PROVE  OrderInv'
<1>1. UNCHANGED <<first, last, slot, hand, content>>
  BY DEF data
<1>2. Pushers \subseteq Threads /\ Pullers \subseteq Threads
  BY DEF Threads
<1>3. \A t \in Threads : /\ pc'[t] \in Exchanged <=> pc[t] \in Exchanged
                         /\ pc'[t] = "publish" <=> pc[t] = "publish"
                         /\ pc'[t] = "use" <=> pc[t] = "use"
                         /\ pc'[t] \in Carrying <=> pc[t] \in Carrying
  BY DEF Exchanged, Carrying
<1>4. \A t \in Threads : /\ NextFrame(t)' = NextFrame(t)
                         /\ \A c \in Channels : Taken(t, c)' = Taken(t, c)
  BY <1>3, SameTaken
<1>5. \A c \in Channels : Filled(c)' = Filled(c)
  BY <1>3, MovedSame DEF Rings, Filled
<1>6. Exact'
  BY <1>4 DEF OrderInv, Exact
<1>7. Agree' /\ Stored'
  BY <1>1, <1>2, <1>4, <1>5 DEF OrderInv, Agree, Stored, OnLane, Stride
<1>8. Carried'
  BY <1>1, <1>2, <1>3, <1>4 DEF OrderInv, Carried
<1>9. Fetched' /\ InOrder'
  BY <1>1, <1>2, <1>3 DEF OrderInv, Fetched, InUse, InOrder
<1> QED BY <1>6, <1>7, <1>8, <1>9 DEF OrderInv

-----------------------------------------------------------------------------
(* The theorem.                                                            *)

\* An execution that has not started.
Fresh ==
    /\ pc = [t \in Threads |-> FirstPc(t)]
    /\ cur = [t \in Threads |-> t[2]]
    /\ handled = [t \in Threads |-> 0]
    /\ received = [t \in Pullers |-> <<>>]
    /\ \A c \in Channels : Filled(c) = 0

\* At the start of an execution both sides of a channel come to its first frame.
LEMMA FreshOrder == Fresh => OrderInv
<1> SUFFICES ASSUME Fresh PROVE OrderInv
  OBVIOUS
<1>1. \A t \in Threads : /\ pc[t] = FirstPc(t) /\ pc[t] \notin Exchanged /\ pc[t] \notin Carrying \ {"test"}
                         /\ cur[t] = t[2] /\ handled[t] = 0
                         /\ Stride(t) \in Nat \ {0} /\ t[2] \in 0 .. Stride(t) - 1
  BY StrideFacts DEF Fresh, FirstPc, Exchanged, Carrying
<1>2. \A t \in Pullers : t \in Threads /\ pc[t] = "test" /\ received[t] = <<>>
  BY ThreadFacts DEF Fresh, FirstPc, Threads
<1>3. \A t \in Pushers : t \in Threads /\ pc[t] = "use"
  BY DEF Fresh, FirstPc, Threads
<1>4. \A t \in Threads : NextFrame(t) = t[2]
  <2> TAKE t \in Threads
  <2>1. handled[t] * Stride(t) = 0
    BY <1>1
  <2> QED BY <1>1, <2>1 DEF NextFrame
<1>5. ASSUME NEW t \in Threads, NEW c \in Channels, OnLane(t, c)
      PROVE  Taken(t, c) = c
  <2>1. c \in Nat /\ cur[t] <= c
    <3>1. c \in Nat
      BY SizeAssumption DEF Channels
    <3>2. c % Stride(t) <= c
      BY <1>1, <3>1, ModBelow
    <3> QED BY <1>1, <1>5, <3>1, <3>2 DEF OnLane
  <2>2. Gap(t, c) = c - cur[t] /\ Extra(t, c) = 0
    BY <1>1, <2>1 DEF Gap, Extra
  <2> QED BY <1>1, <1>4, <2>1, <2>2 DEF Taken, NextOn
<1>6. Exact
  <2> SUFFICES ASSUME NEW t \in Threads PROVE NextFrame(t) = cur[t] + 0 * NChannels
    BY DEF Exact
  <2>1. 0 * NChannels = 0 /\ t[2] \in Int
    BY <1>1, SizeAssumption
  <2> QED BY <1>1, <1>4, <2>1
<1>7. Agree
  <2> SUFFICES ASSUME NEW t \in Pushers, NEW u \in Pullers, NEW c \in Channels, OnLane(t, c), OnLane(u, c)
               PROVE  Taken(t, c) = Taken(u, c) + Filled(c) * NChannels
    BY DEF Agree
  <2>1. Taken(t, c) = c /\ Taken(u, c) = c /\ c \in Nat
    BY <1>2, <1>3, <1>5, SizeAssumption DEF Channels
  <2>2. Filled(c) * NChannels = 0
    BY SizeAssumption DEF Fresh
  <2> QED BY <2>1, <2>2
<1>8. Stored
  BY DEF Fresh, Stored
<1>9. Carried
  BY <1>3 DEF Carried, Carrying
<1>10. Fetched
  <2> SUFFICES ASSUME NEW u \in Pullers
               PROVE  /\ handled[u] = Len(received[u]) + InUse(u)
                      /\ pc[u] \notin Exchanged \cup {"use"}
    BY DEF Fetched
  <2>1. handled[u] = 0 /\ received[u] = <<>> /\ pc[u] = "test"
    BY <1>1, <1>2
  <2>2. Len(received[u]) = 0 /\ InUse(u) = 0
    BY <2>1 DEF InUse
  <2> QED BY <2>1, <2>2 DEF Exchanged
<1>11. InOrder
  BY <1>2 DEF InOrder
<1> QED BY <1>6, <1>7, <1>8, <1>9, <1>10, <1>11 DEF OrderInv

\* A pipeline that has not started has handled nothing.
LEMMA InitFresh == Init => Fresh
<1> SUFFICES ASSUME Init PROVE \A c \in Channels : Filled(c) = 0
  BY DEF Init, Fresh
<1>1. \A c \in Channels : Moved(Pushers, c) = 0 /\ Moved(Pullers, c) = 0
  BY DEF Init, FirstPc, Moved, Threads
<1> QED BY <1>1, SizeAssumption DEF Init, Filled

\* A reset starts the stream again, for every thread.
LEMMA ResetOrder == Reset => OrderInv'
<1>1. Reset => Fresh'
  <2> SUFFICES ASSUME Reset PROVE Fresh'
    OBVIOUS
  <2>1. \A t \in Threads : pc'[t] # "publish"
    BY DEF Reset, FirstPc
  <2>2. \A c \in Channels : Moved(Pushers, c)' = 0 /\ Moved(Pullers, c)' = 0
    BY <2>1 DEF Moved, Threads
  <2>3. \A c \in Channels : Filled(c)' = 0
    BY <2>2, SizeAssumption DEF Filled, Reset, ResetRings
  <2> QED BY <2>3 DEF Fresh, Reset, FirstPc
<1>2. Fresh' => OrderInv'
  BY FreshOrder, PTL
<1> QED BY <1>1, <1>2

\* Every step of the system keeps the order.
LEMMA NextOrder == Rings /\ IInv' /\ OrderInv /\ [Next]_vars => OrderInv'
<1> SUFFICES ASSUME Rings, IInv', OrderInv, [Next]_vars PROVE OrderInv'
  OBVIOUS
<1>1. ASSUME NEW t \in Threads, Step(t) \/ SpuriousWakeup(t) PROVE OrderInv'
  BY <1>1, StepOrder
<1>2. CASE BeginUpstream \/ BeginMain
  BY <1>2, ControlOrder DEF BeginUpstream, BeginMain
<1>3. ASSUME NEW k \in Controls, Cancel(k) PROVE OrderInv'
  <2>1. CASE SendCancelSignal(k)
    BY <2>1, ControlOrder DEF SendCancelSignal
  <2>2. CASE WakeUp(k)
    <3>1. \A t \in Threads : pc'[t] = pc[t] \/ (pc[t] = "asleep" /\ pc'[t] = "lock")
      BY <2>2 DEF WakeUp, Sleepers
    <3>2. UNCHANGED <<cur, counter, data, handled, received>>
      BY <2>2 DEF WakeUp
    <3> QED BY <3>1, <3>2, ControlOrder
  <2> QED BY <1>3, <2>1, <2>2 DEF Cancel
<1>4. CASE UNCHANGED vars
  BY <1>4, ControlOrder DEF vars, data
<1> QED BY <1>1, <1>2, <1>3, <1>4, ResetOrder DEF Next, Finished

\* The rings and the order hold together in every behaviour.
LEMMA OrderInductive == Spec => [](Rings /\ OrderInv)
<1>1. Init => Rings /\ OrderInv
  BY InitIInv, InitRing, InitFresh, FreshOrder, HomesDistinct DEF Init, BuffersDistinct, Rings
<1>2. Rings /\ OrderInv /\ [Next]_vars => (Rings /\ OrderInv)'
  BY NextIInv, NextRing, NextDistinct, NextOrder DEF Rings
<1> QED BY <1>1, <1>2, PTL DEF Spec

\* Whatever the numbers of threads and of slots, with buffers exchanged or copied
\* and in every execution, puller q uses the frames q, q + NPullers, ... and no
\* other: push and pull keep the order of the stream, lose nothing and repeat nothing.
THEOREM OrderCorrect == Spec => []InOrder
<1>1. OrderInv => InOrder
  BY DEF OrderInv
<1> QED BY <1>1, OrderInductive, PTL

-----------------------------------------------------------------------------
(* The stream.                                                             *)

\* Has this thread moved its index of channel c, and not its counter?
Hidden(u, c) == IF cur[u] = c /\ pc[u] = "publish" THEN 1 ELSE 0

\* The first frame that a thread has not published yet, as the stream counts them.
NextVisible(u) == u[2] + Visible(u) * Stride(u)

\* The last frame of channel c that a thread has counted is one it has published.
LEMMA Lag ==
    ASSUME IInv, NEW u \in Threads, NEW c \in Channels
    PROVE  Taken(u, c) - NChannels - Hidden(u, c) * NChannels < NextVisible(u)
<1> DEFINE N == NChannels  S == Stride(u)
<1>1. /\ N \in Nat \ {0} /\ S \in Nat \ {0} /\ handled[u] \in Nat /\ u[2] \in Nat
      /\ cur[u] \in 0 .. N - 1 /\ c \in 0 .. N - 1
  BY StrideFacts, SizeAssumption DEF IInv, TypeOK, Channels
<1>2. Gap(u, c) \in 0 .. N - 1
  BY <1>1 DEF Gap
<1>3. handled[u] * S \in Int /\ (handled[u] + 1) * S = handled[u] * S + S
  <2> HIDE DEF S
  <2> QED BY <1>1
<1>4. NextFrame(u) = u[2] + handled[u] * S /\ NextFrame(u) \in Int
  <2>1. NextFrame(u) = u[2] + handled[u] * S
    BY DEF NextFrame
  <2> HIDE DEF S
  <2> QED BY <2>1, <1>1, <1>3
<1>5. NextVisible(u) = NextFrame(u) + (IF pc[u] \in {"check", "notify"} THEN S ELSE 0)
  <2>1. CASE pc[u] \in {"check", "notify"}
    <3>1. NextVisible(u) = u[2] + (handled[u] + 1) * S
      BY <2>1 DEF NextVisible, Visible
    <3> HIDE DEF S
    <3> QED BY <2>1, <3>1, <1>1, <1>3, <1>4
  <2>2. CASE pc[u] \notin {"check", "notify"}
    <3>1. handled[u] + 0 = handled[u]
      BY <1>1
    <3>2. NextVisible(u) = u[2] + handled[u] * S
      BY <2>2, <3>1 DEF NextVisible, Visible
    <3> HIDE DEF S
    <3> QED BY <2>2, <3>2, <1>1, <1>4
  <2> QED BY <2>1, <2>2
<1>6. Hidden(u, c) * N = IF cur[u] = c /\ pc[u] = "publish" THEN N ELSE 0
  BY <1>1 DEF Hidden
<1>7. Extra(u, c) = IF cur[u] = c /\ pc[u] \in {"publish", "check", "notify"} THEN N ELSE 0
  BY DEF Extra, Exchanged
<1>8. cur[u] = c => Gap(u, c) = 0
  BY <1>1 DEF Gap
<1>9. Taken(u, c) = NextFrame(u) + Gap(u, c) + Extra(u, c)
  BY DEF Taken, NextOn
<1> DEFINE h == Hidden(u, c) * N
<1>10. h = IF cur[u] = c /\ pc[u] = "publish" THEN N ELSE 0
  BY <1>6
<1> HIDE DEF N, S, h
<1>11. Taken(u, c) - N - h < NextVisible(u)
  BY <1>1, <1>2, <1>4, <1>5, <1>7, <1>8, <1>9, <1>10
<1> QED BY <1>11 DEF N, h

\* The published frames of a thread are counted.
LEMMA VisibleFacts ==
    ASSUME IInv, NEW u \in Threads
    PROVE  Visible(u) \in Nat /\ NextVisible(u) \in Int
<1>1. Visible(u) \in Nat
  BY DEF IInv, TypeOK, Visible
<1>2. Stride(u) \in Nat /\ u[2] \in Nat
  BY StrideFacts
<1> QED BY <1>1, <1>2 DEF NextVisible

\* When one side has counted F frames of N more than the other, and there is room
\* for B of them.
LEMMA Room ==
    ASSUME NEW N \in Nat \ {0}, NEW B \in Int, NEW F \in Int, NEW H \in Int,
           NEW T \in Int, NEW f \in Int, f + N = T + F * N, F + H <= B
    PROVE  f - N * B <= T - N - H * N
<1>1. (B - F - H) * N >= 0 /\ (B - F - H) * N = N * B - F * N - H * N
  OBVIOUS
<1> DEFINE fn == F * N  hn == H * N  nb == N * B
<1>2. nb - fn - hn >= 0 /\ fn \in Int /\ hn \in Int /\ nb \in Int
  BY <1>1
<1>3. f + N = T + fn
  OBVIOUS
<1> HIDE DEF fn, hn, nb
<1>4. f - nb <= T - N - hn
  BY <1>2, <1>3
<1> QED BY <1>4 DEF nb, hn

\* On its channels a thread is all of its side that moves.
LEMMA HiddenMoved ==
    ASSUME IInv, NEW u \in Threads, NEW c \in Channels, OnLane(u, c)
    PROVE  Hidden(u, c) = IF u \in Pushers THEN Moved(Pushers, c) ELSE Moved(Pullers, c)
<1>1. \A v \in Threads : (v \in Pushers <=> u \in Pushers) /\ cur[v] = c => v = u
  BY ThreadFacts DEF IInv, Lane, OnLane, Stride
<1> QED BY <1>1, ThreadFacts DEF Hidden, Moved, Threads
\* Where a thread that moves its counter is: at frame f of channel c.
LEMMA PublishFacts ==
    ASSUME Rings, OrderInv, NEW t \in Threads, Publish(t)
    PROVE  /\ cur[t] \in Channels /\ OnLane(t, cur[t]) /\ pc[t] = "publish"
           /\ Taken(t, cur[t]) = NextFrame(t) + NChannels /\ NextFrame(t) \in Nat
           /\ \E j \in Nat : NextFrame(t) = cur[t] + j * NChannels
           /\ Filled(cur[t]) \in 0 .. BufferSize
           /\ Visible(t) = handled[t] /\ NextVisible(t) = NextFrame(t)
           /\ Visible(t)' = Visible(t) + 1
<1>1. IInv /\ RingConsistent /\ Exact
  BY DEF Rings, OrderInv
<1>2. cur[t] \in Channels /\ OnLane(t, cur[t]) /\ pc[t] = "publish" /\ handled[t] \in Nat
  BY <1>1 DEF IInv, TypeOK, Lane, OnLane, Publish
<1>3. Taken(t, cur[t]) = NextFrame(t) + NChannels /\ NextFrame(t) \in Nat
  BY <1>1, <1>2, TakenFacts DEF Exchanged
<1>4. Visible(t) = handled[t]
  BY <1>2 DEF Visible
<1>5. Visible(t)' = handled[t] + 1
  <2>1. CASE ActiveWaiting
    <3>1. pc'[t] = "use" /\ handled'[t] = handled[t] + 1
      BY <2>1, <1>1 DEF Publish, Goto, Advance, IInv, TypeOK
    <3> QED BY <3>1, <1>2 DEF Visible
  <2>2. CASE ~ActiveWaiting
    <3>1. pc'[t] = "check" /\ handled'[t] = handled[t]
      BY <2>2, <1>1 DEF Publish, Goto, IInv, TypeOK
    <3> QED BY <3>1, <1>2 DEF Visible
  <2> QED BY <2>1, <2>2
<1>6. NextVisible(t) = NextFrame(t)
  BY <1>4 DEF NextVisible, NextFrame
<1>7. \E j \in Nat : NextFrame(t) = cur[t] + j * NChannels
  BY <1>1 DEF Exact
<1>8. Filled(cur[t]) \in 0 .. BufferSize
  BY <1>1, <1>2, SlotOf
<1> QED BY <1>2, <1>3, <1>4, <1>5, <1>6, <1>7, <1>8

\* A pusher moves its counter when the frame that had its place is gone.
LEMMA PublishPush ==
    ASSUME Rings, OrderInv, NEW t \in Pushers, Publish(t),
           NEW k, k = NextFrame(t) - NChannels * BufferSize
    PROVE  /\ k % NPullers \in 0 .. NPullers - 1
           /\ k < NextVisible(<<"pull", k % NPullers>>)
<1> DEFINE c == cur[t]  N == NChannels  B == BufferSize  f == NextFrame(t)
           q == k % NPullers  u == <<"pull", q>>
<1>1. IInv /\ RingConsistent /\ Agree
  BY DEF Rings, OrderInv
<1>2. t \in Threads
  BY DEF Threads
<1>3. /\ c \in Channels /\ OnLane(t, c) /\ pc[t] = "publish" /\ Taken(t, c) = f + N /\ f \in Nat
      /\ Filled(c) \in 0 .. B
  BY <1>2, PublishFacts
<1>4. PICK j \in Nat : f = c + j * N
  BY <1>2, PublishFacts
<1>5. PICK m \in Nat \ {0} : N = m * NPullers
  BY SizeAssumption, ChannelAssumption DEF Divides
<1>6. N \in Nat \ {0} /\ B \in Nat \ {0} /\ NPullers \in Nat \ {0} /\ c \in Int
  BY <1>3, SizeAssumption DEF Channels
<1>7. q = c % NPullers /\ q \in 0 .. NPullers - 1
  <2>1. k = c + (j - B) * N
    <3>1. (j - B) * N = j * N - N * B /\ j * N \in Int /\ N * B \in Int
      <4> HIDE DEF N, B
      <4> QED BY <1>6
    <3>2. k = f - N * B
      OBVIOUS
    <3> DEFINE jn == j * N  nb == N * B
    <3> HIDE DEF f, c, jn, nb
    <3>3. k = c + jn - nb
      BY <1>4, <3>1, <3>2, <1>6 DEF jn, nb
    <3>4. (j - B) * N = jn - nb /\ jn \in Int /\ nb \in Int
      BY <3>1 DEF jn, nb
    <3> QED BY <3>3, <3>4, <1>6
  <2>2. (c + (j - B) * N) % NPullers = c % NPullers
    <3> DEFINE i == j - B  x == c + i * N
    <3>1. i \in Int /\ x \in Int /\ x = c + i * N
      BY <1>6
    <3> HIDE DEF N, B, c, i, x
    <3>2. \E k_ \in Int : x = c + k_ * NPullers
      <4>1. x = c + (i * m) * NPullers /\ i * m \in Int
        BY ONLY <1>5, <1>6, <3>1
      <4> QED BY ONLY <4>1
    <3>3. x % NPullers = c % NPullers
      BY ONLY <1>6, <3>1, <3>2, ModCongruent
    <3> QED BY <3>3 DEF x, i
  <2>3. c % NPullers \in 0 .. NPullers - 1
    BY <1>6
  <2> QED BY <2>1, <2>2, <2>3
<1>8. u \in Pullers /\ u \in Threads /\ u \notin Pushers /\ u[2] = q /\ Stride(u) = NPullers /\ OnLane(u, c)
  BY <1>7, ThreadFacts DEF Pullers, Threads, Stride, OnLane
<1>9. f + N = Taken(u, c) + Filled(c) * N /\ Taken(u, c) \in Nat
  BY <1>1, <1>3, <1>8, TakenFacts DEF Agree
<1>10. Filled(c) + Hidden(u, c) <= B
  <2>1. Moved(Pushers, c) = 1
    BY <1>1, <1>2, <1>3, HiddenMoved DEF Hidden
  <2>2. Hidden(u, c) = Moved(Pullers, c)
    BY <1>1, <1>3, <1>8, HiddenMoved
  <2>3. counter[c] \in 1 .. B
    BY <1>1, <1>2, <1>3 DEF IInv, TypeOK, Ready, Stuck, IsFull
  <2> QED BY <2>1, <2>2, <2>3, <1>6, MovedType, <1>3 DEF Filled
<1>11. Taken(u, c) - N - Hidden(u, c) * N < NextVisible(u)
  BY <1>1, <1>3, <1>8, Lag
<1>12. k <= Taken(u, c) - N - Hidden(u, c) * N
  <2>1. Filled(c) \in Int /\ Hidden(u, c) \in Int /\ Taken(u, c) \in Int
    BY <1>3, <1>9 DEF Hidden
  <2> HIDE DEF N, B, f, c, u
  <2> QED BY <1>3, <1>6, <1>9, <1>10, <2>1, Room DEF f, N, B
<1>13. k \in Int /\ Hidden(u, c) * N \in Int /\ NextVisible(u) \in Int
  <2>1. k \in Int
    BY <1>3, <1>6
  <2>2. Hidden(u, c) * N \in Int
    BY <1>6 DEF Hidden
  <2>3. NextVisible(u) \in Int
    BY <1>1, <1>8, VisibleFacts
  <2> QED BY <2>1, <2>2, <2>3
<1> DEFINE h == Hidden(u, c) * N
<1> HIDE DEF h, N, c, u
<1>14. k < NextVisible(u)
  BY <1>6, <1>9, <1>11, <1>12, <1>13 DEF h
<1> QED BY <1>7, <1>14 DEF u

\* A puller moves its counter when its frame has been published.
LEMMA PublishPull ==
    ASSUME Rings, OrderInv, NEW t \in Pullers, Publish(t)
    PROVE  /\ NextFrame(t) % NPushers \in 0 .. NPushers - 1
           /\ NextFrame(t) < NextVisible(<<"push", NextFrame(t) % NPushers>>)
<1> DEFINE c == cur[t]  N == NChannels  B == BufferSize  f == NextFrame(t)
           p == f % NPushers  u == <<"push", p>>
<1>1. IInv /\ RingConsistent /\ Agree
  BY DEF Rings, OrderInv
<1>2. t \in Threads /\ t \notin Pushers
  BY ThreadFacts DEF Threads
<1>3. /\ c \in Channels /\ OnLane(t, c) /\ pc[t] = "publish" /\ Taken(t, c) = f + N /\ f \in Nat
      /\ Filled(c) \in 0 .. B
  BY <1>2, PublishFacts
<1>4. PICK j \in Nat : f = c + j * N
  BY <1>2, PublishFacts
<1>5. PICK m \in Nat \ {0} : N = m * NPushers
  BY SizeAssumption, ChannelAssumption DEF Divides
<1>6. N \in Nat \ {0} /\ B \in Nat \ {0} /\ NPushers \in Nat \ {0} /\ c \in Int
  BY <1>3, SizeAssumption DEF Channels
<1>7. p = c % NPushers /\ p \in 0 .. NPushers - 1
  <2>1. (c + j * N) % NPushers = c % NPushers
    <3> DEFINE x == c + j * N
    <3>1. j \in Int /\ x \in Int /\ x = c + j * N
      BY <1>6
    <3> HIDE DEF N, c, x
    <3>2. \E k_ \in Int : x = c + k_ * NPushers
      <4>1. x = c + (j * m) * NPushers /\ j * m \in Int
        BY ONLY <1>5, <1>6, <3>1
      <4> QED BY ONLY <4>1
    <3>3. x % NPushers = c % NPushers
      BY ONLY <1>6, <3>1, <3>2, ModCongruent
    <3> QED BY <3>3 DEF x
  <2>2. c % NPushers \in 0 .. NPushers - 1
    BY <1>6
  <2> QED BY <1>4, <2>1, <2>2
<1>8. u \in Pushers /\ u \in Threads /\ OnLane(u, c)
  BY <1>7 DEF Pushers, Threads, Stride, OnLane
<1>9. Taken(u, c) = f + N + Filled(c) * N /\ Taken(u, c) \in Nat
  BY <1>1, <1>3, <1>8, TakenFacts DEF Agree
<1>10. Filled(c) >= Hidden(u, c)
  <2>1. Moved(Pullers, c) = 1
    BY <1>1, <1>2, <1>3, HiddenMoved DEF Hidden
  <2>2. Hidden(u, c) = Moved(Pushers, c)
    BY <1>1, <1>3, <1>8, HiddenMoved
  <2>3. counter[c] \in 0 .. B - 1
    <3>1. counter[c] \in 0 .. B /\ ~Stuck(t)
      BY <1>1, <1>2, <1>3 DEF IInv, TypeOK, Ready
    <3> QED BY <3>1, <1>2, <1>6 DEF Stuck, IsEmpty
  <2> QED BY <2>1, <2>2, <2>3, <1>6, MovedType, <1>3 DEF Filled
<1>11. Taken(u, c) - N - Hidden(u, c) * N < NextVisible(u)
  BY <1>1, <1>3, <1>8, Lag
<1>12. f <= Taken(u, c) - N - Hidden(u, c) * N
  <2> DEFINE F == Filled(c)  H == Hidden(u, c)  fn == F * N  hn == H * N
  <2>1. F \in Int /\ H \in Int /\ F >= H
    BY <1>3, <1>10 DEF Hidden
  <2>2. fn >= hn /\ fn \in Int /\ hn \in Int
    <3> HIDE DEF F, H, N
    <3>1. (F - H) * N >= 0 /\ (F - H) * N = F * N - H * N /\ F * N \in Int /\ H * N \in Int
      BY <2>1, <1>6
    <3> QED BY <3>1
  <2>3. Taken(u, c) = f + N + fn
    BY <1>9
  <2> HIDE DEF fn, hn, N, f, c, u
  <2>4. f <= Taken(u, c) - N - hn
    BY <2>2, <2>3, <1>3, <1>6
  <2> QED BY <2>4 DEF hn
<1>13. Hidden(u, c) * N \in Int /\ NextVisible(u) \in Int
  BY <1>1, <1>6, <1>8, VisibleFacts DEF Hidden
<1> DEFINE h == Hidden(u, c) * N
<1> HIDE DEF h, N, c, u, f
<1>14. f < NextVisible(u)
  BY <1>3, <1>6, <1>9, <1>11, <1>12, <1>13 DEF h
<1> QED BY <1>7, <1>14 DEF u, f

\* The names of the threads in the stream.
LEMMA Names ==
    /\ \A p \in 0 .. NPushers - 1 : <<"push", p>> \in Pushers
    /\ \A q \in 0 .. NPullers - 1 : <<"pull", q>> \in Pullers
    /\ \A t \in Pushers : t = <<"push", t[2]>> /\ t[2] \in 0 .. NPushers - 1
    /\ \A t \in Pullers : t = <<"pull", t[2]>> /\ t[2] \in 0 .. NPullers - 1
BY DEF Pushers, Pullers

\* A step that publishes nothing and uses nothing is no step of the stream.
LEMMA StreamStutter ==
    ASSUME received' = received, \A u \in Threads : Visible(u)' = Visible(u)
    PROVE  UNCHANGED Stream!vars
BY Names DEF Stream!vars, Threads

\* The counter of a pusher moves: the stream has one more frame.
LEMMA StreamPush ==
    ASSUME Rings, OrderInv, NEW t \in Pushers, Publish(t)
    PROVE  Stream!Next
<1>1. t \in Threads /\ t \notin Pullers /\ t = <<"push", t[2]>> /\ t[2] \in 0 .. NPushers - 1
  BY ThreadFacts, Names DEF Threads
<1>2. \A u \in Threads : u # t => Visible(u)' = Visible(u)
  BY AdvanceMoves DEF Rings, IInv, TypeOK, Publish, Goto, Advance, Visible
<1>3. Visible(t)' = Visible(t) + 1 /\ NextVisible(t) = NextFrame(t)
  BY <1>1, PublishFacts
<1>4. Stream!Push(t[2])
  <2>1. Stream!NextPush(t[2]) = NextFrame(t)
    BY <1>1, <1>3 DEF Stream!NextPush, NextVisible, Stride
  <2>2. Stream!IsPulled(NextFrame(t) - NChannels * BufferSize)
    <3> DEFINE k == NextFrame(t) - NChannels * BufferSize
               q == k % NPullers
    <3>1. q \in 0 .. NPullers - 1 /\ k < NextVisible(<<"pull", q>>)
      BY PublishPush
    <3>2. <<"pull", q>> \in Pullers /\ <<"pull", q>> \notin Pushers
      BY <3>1, Names, ThreadFacts DEF Threads
    <3>3. NextVisible(<<"pull", q>>) = Stream!NextPull(q)
      <4> HIDE DEF q
      <4> QED BY <3>1, <3>2 DEF NextVisible, Stride, Stream!NextPull
    <3> QED BY <3>1, <3>3 DEF Stream!IsPulled
  <2>3. received' = received
    BY DEF Publish
  <2>4. \A q \in 0 .. NPullers - 1 : Visible(<<"pull", q>>)' = Visible(<<"pull", q>>)
    BY <1>1, <1>2, Names DEF Threads
  <2>5. \A p \in 0 .. NPushers - 1 :
          Visible(<<"push", p>>)' = IF p = t[2] THEN Visible(<<"push", p>>) + 1 ELSE Visible(<<"push", p>>)
    BY <1>1, <1>2, <1>3, Names DEF Threads
  <2> QED BY <1>1, <2>1, <2>2, <2>3, <2>4, <2>5 DEF Stream!Push
<1> QED BY <1>1, <1>4 DEF Stream!Next, Stream!Pushers

\* The counter of a puller moves: the frame is out of the stream.
LEMMA StreamPull ==
    ASSUME Rings, OrderInv, NEW t \in Pullers, Publish(t)
    PROVE  Stream!Next
<1>1. t \in Threads /\ t \notin Pushers /\ t = <<"pull", t[2]>> /\ t[2] \in 0 .. NPullers - 1
  BY ThreadFacts, Names DEF Threads
<1>2. \A u \in Threads : u # t => Visible(u)' = Visible(u)
  BY AdvanceMoves DEF Rings, IInv, TypeOK, Publish, Goto, Advance, Visible
<1>3. Visible(t)' = Visible(t) + 1 /\ NextVisible(t) = NextFrame(t) /\ Visible(t) = handled[t]
  BY <1>1, PublishFacts
<1>4. Stream!Pull(t[2])
  <2>1. Stream!NextPull(t[2]) = NextFrame(t)
    BY <1>1, <1>3 DEF Stream!NextPull, NextVisible, Stride
  <2>2. Stream!IsPushed(NextFrame(t))
    <3> DEFINE p == NextFrame(t) % NPushers
    <3>1. p \in 0 .. NPushers - 1 /\ NextFrame(t) < NextVisible(<<"push", p>>)
      BY PublishPull
    <3>2. <<"push", p>> \in Pushers
      BY <3>1, Names
    <3>3. NextVisible(<<"push", p>>) = Stream!NextPush(p)
      <4> HIDE DEF p
      <4> QED BY <3>1, <3>2 DEF NextVisible, Stride, Stream!NextPush
    <3> QED BY <3>1, <3>3 DEF Stream!IsPushed
  <2>3. received' = received /\ pc[t] = "publish"
    BY DEF Publish
  <2>4. Len(received[t]) = Visible(t)
    <3>1. handled[t] = Len(received[t]) + InUse(t) /\ InUse(t) = 0
      BY <2>3 DEF OrderInv, Fetched, InUse
    <3>2. Len(received[t]) \in Nat
      BY DEF Rings, IInv, TypeOK
    <3> QED BY <1>3, <3>1, <3>2
  <2>5. \A p \in 0 .. NPushers - 1 : Visible(<<"push", p>>)' = Visible(<<"push", p>>)
    BY <1>1, <1>2, Names DEF Threads
  <2>6. \A q \in 0 .. NPullers - 1 :
          Visible(<<"pull", q>>)' = IF q = t[2] THEN Visible(<<"pull", q>>) + 1 ELSE Visible(<<"pull", q>>)
    BY <1>1, <1>2, <1>3, Names DEF Threads
  <2> QED BY <1>1, <2>1, <2>2, <2>3, <2>4, <2>5, <2>6 DEF Stream!Pull
<1> QED BY <1>1, <1>4 DEF Stream!Next, Stream!Pullers

\* The stage of a puller uses the frame that the stream gives it.
LEMMA StreamConsume ==
    ASSUME Rings, OrderInv, NEW t \in Threads, Consume(t)
    PROVE  Stream!Next
<1>1. t \in Pullers /\ pc[t] = "use" /\ t = <<"pull", t[2]>> /\ t[2] \in 0 .. NPullers - 1
  BY Names DEF Consume
<1>2. /\ received \in [Pullers -> Seq(Frames)] /\ handled \in [Threads -> Nat]
      /\ pc \in [Threads -> Labels]
  BY DEF Rings, IInv, TypeOK
<1>3. \A u \in Threads : Visible(u)' = Visible(u)
  <2>1. handled' = handled /\ pc'[t] \notin {"check", "notify"} /\ \A u \in Threads : u # t => pc'[u] = pc[u]
    BY <1>2 DEF Consume, Goto
  <2> QED BY <2>1, <1>1 DEF Visible
<1>4. Len(received[t]) < Visible(t)
  <2>1. handled[t] = Len(received[t]) + 1
    BY <1>1 DEF OrderInv, Fetched, InUse
  <2>2. Visible(t) = handled[t]
    BY <1>1, <1>2 DEF Visible
  <2>3. Len(received[t]) \in Nat
    BY <1>1, <1>2
  <2> QED BY <2>1, <2>2, <2>3
<1>5. content[hand[t]] = t[2] + Len(received[t]) * NPullers
  BY <1>1 DEF OrderInv, Fetched
<1>6. received' = [received EXCEPT ![t] = Append(@, t[2] + Len(@) * NPullers)]
  BY <1>5 DEF Consume
<1>7. \A q \in 0 .. NPullers - 1 :
        received'[<<"pull", q>>] = IF q = t[2]
                                     THEN Append(received[t], t[2] + Len(received[t]) * NPullers)
                                     ELSE received[<<"pull", q>>]
  BY <1>1, <1>2, <1>6, Names
<1>8. \A p \in 0 .. NPushers - 1 : Visible(<<"push", p>>)' = Visible(<<"push", p>>)
  BY <1>3, Names DEF Threads
<1>9. \A q \in 0 .. NPullers - 1 : Visible(<<"pull", q>>)' = Visible(<<"pull", q>>)
  BY <1>3, Names DEF Threads
<1>10. Stream!Consume(t[2])
  BY <1>1, <1>4, <1>7, <1>8, <1>9 DEF Stream!Consume
<1> QED BY <1>1, <1>10 DEF Stream!Next, Stream!Pullers

\* Every thread starts, and starts again, with nothing handled.
LEMMA FreshStream == Fresh => Stream!Init
<1> SUFFICES ASSUME Fresh PROVE Stream!Init
  OBVIOUS
<1>1. \A t \in Threads : Visible(t) = 0
  BY DEF Fresh, FirstPc, Visible
<1>2. \A q \in 0 .. NPullers - 1 : received[<<"pull", q>>] = <<>>
  BY Names DEF Fresh
<1> QED BY <1>1, <1>2, Names DEF Stream!Init, Stream!Pushers, Stream!Pullers, Threads

\* Every step of a thread is a step of the stream, or none.
LEMMA StepStream ==
    ASSUME Rings, OrderInv, NEW t \in Threads, Step(t) \/ SpuriousWakeup(t)
    PROVE  [Stream!Next]_Stream!vars
<1>1. CASE Publish(t)
  BY <1>1, StreamPush, StreamPull DEF Threads
<1>2. CASE Consume(t)
  BY <1>2, StreamConsume
<1>3. CASE ~Publish(t) /\ ~Consume(t)
  <2>1. received' = received
    BY <1>3 DEF Step, SpuriousWakeup, Produce, StopPushing, Test, TestCancel, Lock, Pred, PredCancel,
                Final, FinalCancel, SwapPush, SwapPull, Check, Notify
  <2>2. pc[t] # "publish"
    BY <1>3 DEF Step, SpuriousWakeup, Produce, StopPushing, Consume, Test, TestCancel, Lock, Pred,
                PredCancel, Final, FinalCancel, SwapPush, SwapPull, Check, Notify
  <2>3. IInv
    BY DEF Rings
  <2>4. ASSUME NEW u \in Threads PROVE Visible(u)' = Visible(u)
    <3>1. handled[u] \in Nat
      BY <2>3 DEF IInv, TypeOK
    <3>2. CASE u # t
      BY <3>2, <2>3, Moves DEF Visible
    <3>3. CASE u = t /\ pc[t] \notin Exchanged
      <4>1. pc[t] \notin {"check", "notify"} /\ pc'[t] \notin {"check", "notify"} /\ handled'[t] = handled[t]
        BY <3>3, <2>3, Moves DEF Exchanged
      <4> QED BY <3>3, <4>1 DEF Visible
    <3>4. CASE u = t /\ pc[t] \in Exchanged
      <4>1. pc[t] \in {"check", "notify"}
        BY <3>4, <2>2 DEF Exchanged
      <4>2. Advance(t) => handled'[t] = handled[t] + 1
        BY <2>3 DEF Advance, IInv, TypeOK
      <4>3. \/ pc'[t] \in {"check", "notify"} /\ handled'[t] = handled[t]
            \/ pc'[t] = "use" /\ handled'[t] = handled[t] + 1
        BY <3>4, <4>2, <2>3, Moves
      <4> QED BY <3>1, <3>4, <4>1, <4>3 DEF Visible
    <3> QED BY <3>2, <3>3, <3>4
  <2> QED BY <2>1, <2>4, StreamStutter
<1> QED BY <1>1, <1>2, <1>3

\* Every step of the system is a step of the stream, or none.
LEMMA NextStream == Rings /\ OrderInv /\ [Next]_vars => [Stream!Next]_Stream!vars
<1> SUFFICES ASSUME Rings, OrderInv, [Next]_vars PROVE [Stream!Next]_Stream!vars
  OBVIOUS
<1>1. ASSUME NEW t \in Threads, Step(t) \/ SpuriousWakeup(t) PROVE [Stream!Next]_Stream!vars
  BY <1>1, StepStream
<1>2. CASE BeginUpstream \/ BeginMain
  <2>1. received' = received /\ \A u \in Threads : Visible(u)' = Visible(u)
    BY <1>2 DEF BeginUpstream, BeginMain, Visible
  <2> QED BY <2>1, StreamStutter
<1>3. ASSUME NEW k \in Controls, Cancel(k) PROVE [Stream!Next]_Stream!vars
  <2>1. received' = received /\ \A u \in Threads : Visible(u)' = Visible(u)
    BY <1>3 DEF Cancel, SendCancelSignal, WakeUp, Sleepers, Visible
  <2> QED BY <2>1, StreamStutter
<1>4. CASE Reset
  <2>1. \A u \in Threads : Visible(u)' = 0
    BY <1>4 DEF Reset, FirstPc, Visible
  <2>2. \A q \in 0 .. NPullers - 1 : received'[<<"pull", q>>] = <<>>
    BY <1>4, Names DEF Reset
  <2>3. Stream!Restart
    BY <2>1, <2>2, Names DEF Stream!Restart, Stream!Pushers, Stream!Pullers, Threads
  <2> QED BY <2>3 DEF Stream!Next
<1>5. CASE UNCHANGED vars
  <2>1. received' = received /\ \A u \in Threads : Visible(u)' = Visible(u)
    BY <1>5 DEF vars, Visible
  <2> QED BY <2>1, StreamStutter
<1> QED BY <1>1, <1>2, <1>3, <1>4, <1>5 DEF Next, Finished

\* The adaptor implements the ordered stream, for any sizes: a frame is published when
\* the frame that had its place is gone and taken when it has been published, each
\* puller uses its own frames in order, and a reset starts a new stream.  Rings,
\* counters, waits, wakeups and cancellation are steps that the stream does not see.
THEOREM AdaptorImplementsStream == Spec => ImplementsStream
<1>1. Init => Stream!Init
  BY InitFresh, FreshStream
<1>2. Rings /\ OrderInv /\ [Next]_vars => [Stream!Next]_Stream!vars
  BY NextStream
<1> QED BY <1>1, <1>2, OrderInductive, PTL DEF Spec, ImplementsStream, Stream!Spec

-----------------------------------------------------------------------------
(* The end of the stream.                                                  *)

\* The flags are down when an execution starts: reset lowers the flag of the
\* original alone, which is the only instance when each stage has one thread.
Alone == NPushers = 1 /\ NPullers = 1
Regular == ~ AllowAbort /\ (runs = 1 \/ Alone)

\* A control thread cancels when its stage has returned, and nobody else does.
Announced ==
    /\ runs # 0
    /\ \A k \in Controls : k \notin begun => todo[k] = <<>>
    /\ "upstream" \in begun => AllStopped(Pushers)
    /\ Regular =>
        /\ "main" \in begun => AllStopped(Pullers)
        /\ (\E i \in Instances : canceled[i]) => AllStopped(Pushers) \/ AllStopped(Pullers)

\* A pusher leaves before its share is pushed only if nobody pulls any more, and a
\* puller that goes to leave has pulled all of its share.
Finishing ==
    Regular =>
        /\ \A t \in Pushers : pc[t] = "stopped" => NextFrame(t) >= toPush \/ AllStopped(Pullers)
        /\ \A t \in Pullers : pc[t] = "finalCancel" => NextFrame(t) >= toPush
        /\ Flushed

EndInv == Announced /\ Finishing

\* The ways to stop.
LEMMA WaysToStop ==
    ASSUME IInv, NEW t \in Threads, Step(t) \/ SpuriousWakeup(t)
    PROVE  /\ pc[t] # "stopped" /\ UNCHANGED <<canceled, control>>
           /\ pc'[t] \in {"stopped", "finalCancel"} => cur'[t] = cur[t] /\ handled'[t] = handled[t]
           /\ t \in Pushers /\ pc'[t] = "stopped" => NextFrame(t) >= toPush \/ IsCanceled(t)
           /\ t \in Pullers /\ pc'[t] = "stopped" => pc[t] = "finalCancel" \/ NextFrame(t) >= toPull
           /\ t \in Pullers /\ pc'[t] = "finalCancel" => pc[t] = "final" /\ Stuck(t)
<1> USE ThreadFacts DEF IInv, TypeOK, Goto
<1>1. CASE SpuriousWakeup(t) \/ Produce(t) \/ StopPushing(t) \/ Consume(t)
  BY <1>1 DEF SpuriousWakeup, Produce, StopPushing, Consume, data
<1>2. CASE Test(t) \/ TestCancel(t) \/ Lock(t)
  BY <1>2 DEF Test, TestCancel, Lock, data
<1>3. CASE Pred(t) \/ PredCancel(t)
  BY <1>3 DEF Pred, PredCancel, data
<1>4. CASE Final(t) \/ FinalCancel(t)
  BY <1>4 DEF Final, FinalCancel, Ready, data
<1>5. CASE SwapPush(t) \/ SwapPull(t)
  BY <1>5 DEF SwapPush, SwapPull
<1>6. CASE Publish(t)
  BY <1>6 DEF Publish, data
<1>7. CASE Check(t)
  BY <1>7 DEF Check, data
<1>8. CASE Notify(t)
  BY <1>8 DEF Notify, Sleepers, data
<1> QED BY <1>1, <1>2, <1>3, <1>4, <1>5, <1>6, <1>7, <1>8 DEF Step

\* When all pushers have stopped after their share, a puller that finds its channel
\* empty has pulled its own share.
LEMMA NothingLeft ==
    ASSUME Rings, OrderInv, toPush \in Nat, NEW u \in Pullers, pc[u] = "final", Stuck(u),
           \A t \in Pushers : pc[t] = "stopped" /\ NextFrame(t) >= toPush
    PROVE  NextFrame(u) >= toPush
<1> DEFINE c == cur[u]
<1>1. u \in Threads /\ c \in Channels /\ OnLane(u, c)
  BY ThreadFacts DEF Rings, IInv, TypeOK, Lane, OnLane, Threads
<1>2. PICK t \in Pushers : OnLane(t, c)
  <2> DEFINE p == c % NPushers
  <2>1. c \in Int /\ NPushers \in Nat \ {0}
    BY <1>1, SizeAssumption DEF Channels
  <2>2. p \in 0 .. NPushers - 1
    <3> HIDE DEF c
    <3> QED BY <2>1
  <2>3. <<"push", p>> \in Pushers
    BY <2>2 DEF Pushers
  <2> QED BY <2>3 DEF OnLane, Stride
<1>3. Moved(Pushers, c) = 0 /\ Moved(Pullers, c) = 0
  BY <1>1, MovedOne DEF Moved, Rings
<1>4. Filled(c) = 0
  <2>1. counter[c] = BufferSize
    BY <1>1, ThreadFacts DEF Stuck, IsEmpty
  <2> HIDE DEF c
  <2> QED BY <1>3, <2>1, SizeAssumption DEF Filled
<1>5. Taken(t, c) = Taken(u, c) + 0 * NChannels
  BY <1>1, <1>2, <1>4 DEF OrderInv, Agree
<1>6. Taken(u, c) = NextFrame(u) /\ NextFrame(u) \in Nat
  BY <1>1, TakenFacts DEF Exchanged, Rings
<1>7. Taken(t, c) >= NextFrame(t) /\ NextFrame(t) \in Nat /\ Taken(t, c) \in Nat
  <2>1. t \in Threads /\ pc[t] \notin Exchanged
    BY DEF Threads, Exchanged
  <2>2. NextFrame(t) \in Nat /\ Taken(t, c) \in Nat
    BY <1>1, <2>1, TakenFacts DEF Rings
  <2>3. cur[t] \in 0 .. NChannels - 1 /\ c \in 0 .. NChannels - 1 /\ NChannels \in Nat
    BY <1>1, <2>1, SizeAssumption DEF Rings, IInv, TypeOK, Channels
  <2>4. Extra(t, c) = 0
    BY <2>1 DEF Extra
  <2>5. Gap(t, c) \in Nat
    <3> HIDE DEF c
    <3> QED BY <2>3 DEF Gap
  <2> HIDE DEF c
  <2> QED BY <2>2, <2>4, <2>5 DEF Taken, NextOn
<1>8. 0 * NChannels = 0
  BY SizeAssumption
<1>9. NextFrame(t) >= toPush
  OBVIOUS
<1> HIDE DEF c
<1> QED BY <1>5, <1>6, <1>7, <1>8, <1>9

\* While no execution starts, what the threads that have stopped are owed stays.
LEMMA StaysFinished ==
    ASSUME EndInv, UNCHANGED <<handled, control>>,
           \A t \in Threads : pc'[t] = pc[t] \/ (pc[t] = "asleep" /\ pc'[t] = "lock")
    PROVE  Finishing'
<1>1. Regular' <=> Regular
  BY DEF Regular, control
<1>2. \A t \in Threads : /\ pc'[t] \in {"stopped", "finalCancel"} => pc[t] = pc'[t]
                         /\ pc[t] = "stopped" => pc'[t] = "stopped"
                         /\ NextFrame(t)' = NextFrame(t)
  BY DEF NextFrame, Stride
<1>3. UNCHANGED <<toPush, toPull>> /\ Pushers \subseteq Threads /\ Pullers \subseteq Threads
  BY DEF control, Threads
<1> QED BY <1>1, <1>2, <1>3 DEF EndInv, Finishing, Flushed, AllStopped

\* A step of a thread.
LEMMA StepEnd ==
    ASSUME Rings, OrderInv, EndInv, NEW t \in Threads, Step(t) \/ SpuriousWakeup(t)
    PROVE  EndInv'
<1>0. IInv /\ toPush \in Nat
  BY DEF Rings, IInv, TypeOK
<1>1. /\ pc[t] # "stopped" /\ UNCHANGED <<canceled, control>>
      /\ pc'[t] \in {"stopped", "finalCancel"} => cur'[t] = cur[t] /\ handled'[t] = handled[t]
      /\ t \in Pushers /\ pc'[t] = "stopped" => NextFrame(t) >= toPush \/ IsCanceled(t)
      /\ t \in Pullers /\ pc'[t] = "stopped" => pc[t] = "finalCancel" \/ NextFrame(t) >= toPull
      /\ t \in Pullers /\ pc'[t] = "finalCancel" => pc[t] = "final" /\ Stuck(t)
  BY <1>0, WaysToStop
<1>2. \A u \in Threads \ {t} : /\ cur'[u] = cur[u] /\ handled'[u] = handled[u]
                               /\ pc'[u] = pc[u] \/ (pc[u] = "asleep" /\ pc'[u] = "lock")
  BY <1>0, Moves
<1>3. UNCHANGED <<toPush, toPull, todo, waking, begun, runs, canceled>>
  BY <1>1 DEF control
<1>4. Pushers \subseteq Threads /\ Pullers \subseteq Threads
  BY DEF Threads
<1>5. \A u \in Threads : pc[u] = "stopped" => pc'[u] = "stopped"
  BY <1>1, <1>2
<1>6. \A u \in Threads : pc'[u] \in {"stopped", "finalCancel"} => NextFrame(u)' = NextFrame(u)
  BY <1>1, <1>2 DEF NextFrame, Stride
<1>7. Announced'
  BY <1>3, <1>4, <1>5 DEF EndInv, Announced, Regular, AllStopped
<1>8. ASSUME Regular, IsCanceled(t)
      PROVE  (t \in Pullers /\ AllStopped(Pushers)) \/ (t \in Pushers /\ AllStopped(Pullers))
  BY <1>1, <1>8, InstanceFacts, ThreadFacts DEF EndInv, Announced, IsCanceled, AllStopped, Threads
<1>9. ASSUME Regular
      PROVE  /\ \A u \in Pushers : pc'[u] = "stopped" => NextFrame(u) >= toPush \/ AllStopped(Pullers)
             /\ \A u \in Pullers : pc'[u] = "finalCancel" => NextFrame(u) >= toPush
             /\ \A u \in Pullers : pc'[u] = "stopped" => NextFrame(u) >= toPush \/ NextFrame(u) >= toPull
  <2>1. ASSUME NEW u \in Pushers, pc'[u] = "stopped" PROVE NextFrame(u) >= toPush \/ AllStopped(Pullers)
    <3>1. CASE u = t
      BY <1>1, <1>8, <1>9, <2>1, <3>1, <1>4, ThreadFacts
    <3>2. CASE u # t
      BY <1>2, <1>4, <1>9, <2>1, <3>2 DEF EndInv, Finishing
    <3> QED BY <3>1, <3>2
  <2>2. ASSUME NEW u \in Pullers, pc'[u] = "finalCancel" PROVE NextFrame(u) >= toPush
    <3>1. CASE u = t
      <4>1. pc[u] = "final" /\ Stuck(u)
        BY <1>1, <2>2, <3>1
      <4>2. IsCanceled(u)
        BY <1>0, <1>4, <4>1 DEF IInv, Ready
      <4>3. AllStopped(Pushers)
        BY <1>4, <1>8, <1>9, <3>1, <4>2, ThreadFacts
      <4>4. ~ AllStopped(Pullers)
        BY <4>1 DEF AllStopped
      <4>5. \A p \in Pushers : pc[p] = "stopped" /\ NextFrame(p) >= toPush
        BY <1>9, <4>3, <4>4 DEF EndInv, Finishing, AllStopped
      <4> QED BY <1>0, <4>1, <4>5, NothingLeft
    <3>2. CASE u # t
      BY <1>2, <1>4, <1>9, <2>2, <3>2 DEF EndInv, Finishing
    <3> QED BY <3>1, <3>2
  <2>3. ASSUME NEW u \in Pullers, pc'[u] = "stopped"
        PROVE  NextFrame(u) >= toPush \/ NextFrame(u) >= toPull
    <3>1. CASE u = t
      BY <1>1, <1>9, <2>3, <3>1 DEF EndInv, Finishing
    <3>2. CASE u # t
      BY <1>2, <1>4, <1>9, <2>3, <3>2 DEF EndInv, Finishing, Flushed
    <3> QED BY <3>1, <3>2
  <2> QED BY <2>1, <2>2, <2>3
<1>10. Finishing'
  BY <1>3, <1>4, <1>5, <1>6, <1>9 DEF Finishing, Regular, Flushed, AllStopped
<1> QED BY <1>7, <1>10 DEF EndInv

\* The steps of the control threads.
LEMMA CancelEnd ==
    ASSUME IInv, EndInv, BeginUpstream \/ BeginMain \/ \E k \in Controls : Cancel(k)
    PROVE  EndInv'
<1>1. ASSUME NEW k \in Controls, SendCancelSignal(k) PROVE EndInv'
  <2>1. k \in begun
    BY <1>1 DEF EndInv, Announced, SendCancelSignal
  <2>2. Regular => AllStopped(Pushers) \/ AllStopped(Pullers)
    BY <2>1 DEF EndInv, Announced, Controls
  <2>3. \A j \in Controls : j \notin begun => todo'[j] = todo[j]
    BY <1>1, <2>1 DEF SendCancelSignal, IInv, TypeOK
  <2>4. Announced'
    BY <1>1, <2>2, <2>3 DEF SendCancelSignal, EndInv, Announced, Regular, AllStopped
  <2>5. Finishing'
    BY <1>1 DEF SendCancelSignal, EndInv, Finishing, Regular, Flushed, AllStopped, NextFrame, Stride
  <2> QED BY <2>4, <2>5 DEF EndInv
<1>2. ASSUME NEW k \in Controls, WakeUp(k) PROVE EndInv'
  <2>1. k \in begun
    BY <1>2 DEF EndInv, Announced, WakeUp, IInv, Working
  <2>2. \A t \in Threads : pc'[t] = pc[t] \/ (pc[t] = "asleep" /\ pc'[t] = "lock")
    BY <1>2 DEF WakeUp, Sleepers
  <2>3. \A t \in Threads : /\ pc[t] = "stopped" => pc'[t] = "stopped"
                           /\ pc'[t] \in {"stopped", "finalCancel"} => pc[t] = pc'[t]
    BY <2>2
  <2>4. \A j \in Controls : j \notin begun => todo'[j] = todo[j]
    BY <1>2, <2>1 DEF WakeUp, IInv, TypeOK
  <2>5. Pushers \subseteq Threads /\ Pullers \subseteq Threads
    BY DEF Threads
  <2>6. Announced'
    BY <1>2, <2>3, <2>4, <2>5 DEF WakeUp, EndInv, Announced, Regular, AllStopped
  <2>7. Finishing'
    BY <1>2, <2>3, <2>5 DEF WakeUp, EndInv, Finishing, Regular, Flushed, AllStopped, NextFrame, Stride
  <2> QED BY <2>6, <2>7 DEF EndInv
<1>3. CASE BeginUpstream
  <2>1. Announced'
    BY <1>3 DEF BeginUpstream, EndInv, Announced, Regular, AllStopped, IInv, TypeOK
  <2>2. Finishing'
    BY <1>3 DEF BeginUpstream, EndInv, Finishing, Regular, Flushed, AllStopped, NextFrame, Stride
  <2> QED BY <2>1, <2>2 DEF EndInv
<1>4. CASE BeginMain
  <2>1. Announced'
    BY <1>4 DEF BeginMain, EndInv, Announced, Regular, AllStopped, IInv, TypeOK
  <2>2. Finishing'
    BY <1>4 DEF BeginMain, EndInv, Finishing, Regular, Flushed, AllStopped, NextFrame, Stride
  <2> QED BY <2>1, <2>2 DEF EndInv
<1> QED BY <1>1, <1>2, <1>3, <1>4 DEF Cancel

\* No thread has stopped when an execution starts.
LEMMA ResetEnd ==
    ASSUME IInv, EndInv, Reset
    PROVE  EndInv'
<1>1. \A t \in Threads : pc'[t] \in {"use", "test"}
  BY DEF Reset, FirstPc
<1>2. Pushers \subseteq Threads /\ Pullers \subseteq Threads
  BY DEF Threads
<1>3. runs' # 0 /\ runs' # 1
  BY DEF Reset, IInv, TypeOK, EndInv, Announced
<1>4. Alone => \A i \in Instances : i = Original
  BY DEF Alone, Instances, Threads, Pushers, Pullers, Instance
<1>5. Regular' => \A i \in Instances : ~ canceled'[i]
  BY <1>3, <1>4 DEF Regular, Reset, IInv, TypeOK
<1>6. Announced'
  BY <1>3, <1>5 DEF Reset, Quiet, Announced
<1>7. Finishing'
  BY <1>1, <1>2 DEF Finishing, Flushed
<1> QED BY <1>6, <1>7 DEF EndInv

\* What holds of the end in the state where nothing has begun.
LEMMA InitEnd == Init => EndInv
<1> SUFFICES ASSUME Init PROVE EndInv
  OBVIOUS
<1>1. \A t \in Threads : pc[t] \in {"use", "test"}
  BY DEF Init, FirstPc
<1>2. Pushers \subseteq Threads /\ Pullers \subseteq Threads
  BY DEF Threads
<1>3. Announced
  BY DEF Init, Announced
<1>4. Finishing
  BY <1>1, <1>2 DEF Finishing, Flushed
<1> QED BY <1>3, <1>4 DEF EndInv

\* Every step of the system.
LEMMA NextEnd == Rings /\ OrderInv /\ EndInv /\ [Next]_vars => EndInv'
<1> SUFFICES ASSUME Rings, OrderInv, EndInv, [Next]_vars PROVE EndInv'
  OBVIOUS
<1>1. IInv
  BY DEF Rings
<1>2. ASSUME NEW t \in Threads, Step(t) \/ SpuriousWakeup(t) PROVE EndInv'
  BY <1>2, StepEnd
<1>3. CASE BeginUpstream \/ BeginMain \/ \E k \in Controls : Cancel(k)
  BY <1>1, <1>3, CancelEnd
<1>4. CASE Reset
  BY <1>1, <1>4, ResetEnd
<1>5. CASE UNCHANGED vars
  <2>1. Announced'
    BY <1>5 DEF vars, EndInv, Announced, Regular, AllStopped
  <2>2. Finishing'
    BY <1>5 DEF vars, control, EndInv, Finishing, Regular, Flushed, AllStopped, NextFrame, Stride
  <2> QED BY <2>1, <2>2 DEF EndInv
<1> QED BY <1>2, <1>3, <1>4, <1>5 DEF Next, Finished

\* Unless the pipeline is stopped from outside: in its first execution, and in every
\* one when both stages have one thread, a puller leaves when it has pulled all of its
\* share of what was produced, or of what its own stage asked for.
THEOREM FlushedCorrect ==
    ASSUME ~ AllowAbort
    PROVE  Spec => []((runs = 1 \/ (NPushers = 1 /\ NPullers = 1)) => Flushed)
<1>1. Rings /\ OrderInv /\ [Next]_vars /\ EndInv => EndInv'
  BY NextEnd
<1>2. EndInv => ((runs = 1 \/ (NPushers = 1 /\ NPullers = 1)) => Flushed)
  BY DEF EndInv, Finishing, Regular, Alone
<1> QED BY <1>1, <1>2, InitEnd, OrderInductive, PTL DEF Spec

=============================================================================
