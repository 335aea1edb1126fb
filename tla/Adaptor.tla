------------------------------ MODULE Adaptor ------------------------------
(***************************************************************************)
(* module::Adaptor_m_to_n: the bridge between two consecutive stages of a  *)
(* pipeline.  NPushers threads of stage s push frames, NPullers threads of *)
(* stage s + 1 pull them, through NChannels = lcm(NPushers, NPullers) ring *)
(* buffers of BufferSize slots.  Every thread owns an instance of the      *)
(* class; the instances share the rings, the counters, the mutexes and the *)
(* condition variables, and each has its own position and cancel flag.     *)
(*                                                                         *)
(* A step of this module is one access to shared memory: a read or update  *)
(* of an atomic, a lock, a wait, a notification.  The two sides run the    *)
(* same protocol with "full" and "empty" exchanged, so the waiting part is *)
(* written once for both.  The control threads that cancel the waiting     *)
(* (the pool thread that ran the upstream stage, and the thread that       *)
(* called Pipeline::exec) are part of the model; what decides them to do   *)
(* so is modelled by the numbers of frames toPush and toPull.              *)
(***************************************************************************)
EXTENDS Integers, Sequences

CONSTANTS
    NPushers, NPullers,     \* threads of the two stages
    NChannels,              \* 'ppcm' in alloc_buffers
    BufferSize,             \* slots per channel
    ActiveWaiting,          \* spin, or sleep on a condition variable
    NoCopy,                 \* buffers are exchanged, or copied
    ToPush,                 \* how many frames the upstream stage may have
    ToPull,                 \* after how many the downstream stage may stop
    AllowAbort,             \* the pipeline may be stopped at any point
    MaxRuns,                \* bound: executions of the pipeline
    MaxSpurious             \* bound: spurious wakeups

Divides(d, n) == \E k \in 1 .. n : n = k * d

ASSUME SizeAssumption ==
    /\ NPushers \in Nat \ {0}
    /\ NPullers \in Nat \ {0}
    /\ NChannels \in Nat \ {0}
    /\ BufferSize \in Nat \ {0}

\* find_smallest_common_multiple, and the limit of alloc_buffers.
ASSUME ChannelAssumption ==
    /\ Divides(NPushers, NChannels) /\ Divides(NPullers, NChannels)
    /\ \A n \in 1 .. NChannels - 1 :
            ~ (Divides(NPushers, n) /\ Divides(NPullers, n))
    /\ NChannels <= 1000

\* The loop of a stage stops after a frame, so each thread handles one.
ASSUME EnvironmentAssumption ==
    /\ ActiveWaiting \in BOOLEAN /\ NoCopy \in BOOLEAN
    /\ AllowAbort \in BOOLEAN
    /\ ToPush \subseteq Nat /\ \A n \in ToPush : n >= NPushers
    /\ ToPull \subseteq Nat /\ \A n \in ToPull : n >= NPullers
    /\ MaxRuns \in Nat /\ MaxSpurious \in Nat

Channels == 0 .. NChannels - 1
Slots == 0 .. BufferSize - 1
Pushers == {"push"} \X (0 .. NPushers - 1)
Pullers == {"pull"} \X (0 .. NPullers - 1)
Threads == Pushers \cup Pullers

\* The object a thread calls: thread 0 of both stages has the same one, the
\* original; the others are its clones.
Original == <<"adp", 0>>
Instance(t) == IF t[2] = 0 THEN Original ELSE t
Instances == {Instance(t) : t \in Threads}

\* Data buffers, named by where they are when nothing runs: in a slot of a
\* channel, or bound to the task of a thread.
SlotHome(c, i) == <<"slot", c, i>>
TaskHome(t) == <<t[1], t[2], 0>>
Buffers == {SlotHome(c, i) : c \in Channels, i \in Slots}
             \cup {TaskHome(t) : t \in Threads}

NoFrame == -1
Frames == Nat \cup {NoFrame}

\* One condition variable and one mutex for each side of each channel:
\* cnd_push, mtx_push, cnd_pull and mtx_pull.
Conditions == {"push", "pull"} \X Channels
Free == <<"free", 0>>

Controls == {"upstream", "main"}

VARIABLES
    pc,         \* where each thread is
    cur,        \* cur_push_id, cur_pull_id
    counter,    \* free slots of each channel (atomic)
    first,      \* next slot to pull of each channel
    last,       \* next slot to push of each channel
    slot,       \* the buffer in each slot of each channel
    hand,       \* the buffer bound to the task of each thread
    content,    \* the frame in each buffer
    canceled,   \* waiting_canceled of each instance (atomic)
    mtx,        \* who holds each mutex
    handled,    \* frames each thread has finished to push or pull
    received,   \* the frames each puller's stage has used
    toPush, toPull,     \* what the stages do in this execution
    todo,       \* instances each control thread has still to cancel
    waking,     \* next condition variable it wakes, or -1 before the flag
    begun,      \* the control threads that have started to cancel
    runs, spurious

vars == <<pc, cur, counter, first, last, slot, hand, content, canceled, mtx,
          handled, received, toPush, toPull, todo, waking, begun, runs,
          spurious>>

data == <<first, last, slot, hand, content>>
control == <<toPush, toPull, todo, waking, begun, runs>>

-----------------------------------------------------------------------------
(* Initial state: after alloc_buffers, add_pusher, add_puller.             *)

FirstPc(t) == IF t \in Pushers THEN "use" ELSE "test"

\* Every buffer where it belongs.
HomeSlots == [c \in Channels |-> [i \in Slots |-> SlotHome(c, i)]]
HomeHands == [t \in Threads |-> TaskHome(t)]

Init ==
    /\ pc = [t \in Threads |-> FirstPc(t)]
    /\ cur = [t \in Threads |-> t[2]]
    /\ counter = [c \in Channels |-> BufferSize]
    /\ first = [c \in Channels |-> 0]
    /\ last = [c \in Channels |-> 0]
    /\ slot = HomeSlots
    /\ hand = HomeHands
    /\ content = [b \in Buffers |-> NoFrame]
    /\ canceled = [i \in Instances |-> FALSE]
    /\ mtx = [v \in Conditions |-> Free]
    /\ handled = [t \in Threads |-> 0]
    /\ received = [t \in Pullers |-> <<>>]
    /\ toPush \in ToPush
    /\ toPull \in ToPull
    /\ todo = [k \in Controls |-> <<>>]
    /\ waking = [k \in Controls |-> -1]
    /\ begun = {}
    /\ runs = 1
    /\ spurious = 0

-----------------------------------------------------------------------------
(* Operators on the state.                                                 *)

\* Mutant: the test at a bound of the counter is off by one.
IsEmptyOffByOne(c) == counter[c] = BufferSize + 1

IsEmpty(c) == counter[c] = BufferSize
IsFull(c) == counter[c] = 0

\* What a thread waits to become false, the cancel flag set apart.
Stuck(t) == IF t \in Pushers THEN IsFull(cur[t]) ELSE IsEmpty(cur[t])

IsCanceled(t) == canceled[Instance(t)]

Condition(t) == <<t[1], cur[t]>>
PeerCondition(t) == <<IF t \in Pushers THEN "pull" ELSE "push", cur[t]>>

Goto(t, label) == pc' = [pc EXCEPT ![t] = label]

\* How far apart two frames of a thread are, and its position in the rings.
Stride(t) == IF t \in Pushers THEN NPushers ELSE NPullers

\* The frame a thread is to handle next, in the global order.
NextFrame(t) == t[2] + handled[t] * Stride(t)

\* Mutant: the position advances by one channel.
AdvanceByOne(t) ==
    /\ cur' = [cur EXCEPT ![t] = (@ + 1) % NChannels]
    /\ handled' = [handled EXCEPT ![t] = @ + 1]

\* The end of wake_up_puller and wake_up_pusher.
Advance(t) ==
    /\ cur' = [cur EXCEPT ![t] = (@ + Stride(t)) % NChannels]
    /\ handled' = [handled EXCEPT ![t] = @ + 1]

-----------------------------------------------------------------------------
(* The tasks of the stages, between two calls to the adaptor.              *)

\* The upstream stage computes a frame in the buffer bound to its task, then
\* calls push.
Produce(t) ==
    /\ t \in Pushers /\ pc[t] = "use"
    /\ NextFrame(t) < toPush
    /\ content' = [content EXCEPT ![hand[t]] = NextFrame(t)]
    /\ Goto(t, "test")
    /\ UNCHANGED <<cur, counter, first, last, slot, hand, canceled, mtx,
                   handled, received, spurious>>
    /\ UNCHANGED control

\* The stop condition of the upstream stage is true: its loop ends.
StopPushing(t) ==
    /\ t \in Pushers /\ pc[t] = "use"
    /\ NextFrame(t) >= toPush
    /\ Goto(t, "stopped")
    /\ UNCHANGED <<cur, counter, data, canceled, mtx, handled, received,
                   control, spurious>>

\* The downstream stage uses the frame, then its loop stops or pulls again.
Consume(t) ==
    /\ t \in Pullers /\ pc[t] = "use"
    /\ received' = [received EXCEPT ![t] = Append(@, content[hand[t]])]
    /\ Goto(t, IF NextFrame(t) >= toPull THEN "stopped" ELSE "test")
    /\ UNCHANGED <<cur, counter, data, canceled, mtx, handled, control,
                   spurious>>

-----------------------------------------------------------------------------
(* wait_push and wait_pull.                                                *)

\* is_full() or is_empty(), read without the mutex.
Test(t) ==
    /\ pc[t] = "test"
    /\ Goto(t, IF Stuck(t) THEN "testCancel" ELSE "final")
    /\ UNCHANGED <<cur, counter, data, canceled, mtx, handled, received,
                   control, spurious>>

\* ... && !*waiting_canceled; an active wait reads the pair again.
TestCancel(t) ==
    /\ pc[t] = "testCancel"
    /\ Goto(t, IF IsCanceled(t) THEN "final"
               ELSE IF ActiveWaiting THEN "test" ELSE "lock")
    /\ UNCHANGED <<cur, counter, data, canceled, mtx, handled, received,
                   control, spurious>>

\* Take the mutex: before the wait, and when the wait returns.
Lock(t) ==
    /\ pc[t] = "lock"
    /\ mtx[Condition(t)] = Free
    /\ mtx' = [mtx EXCEPT ![Condition(t)] = t]
    /\ Goto(t, "pred")
    /\ UNCHANGED <<cur, counter, data, canceled, handled, received, control,
                   spurious>>

\* The predicate of the wait, read with the mutex held.
Pred(t) ==
    /\ pc[t] = "pred"
    /\ IF Stuck(t)
         THEN Goto(t, "predCancel") /\ UNCHANGED mtx
         ELSE /\ Goto(t, "final")
              /\ mtx' = [mtx EXCEPT ![Condition(t)] = Free]
    /\ UNCHANGED <<cur, counter, data, canceled, handled, received, control,
                   spurious>>

\* ... and its second half: sleeping releases the mutex in the same step.
PredCancel(t) ==
    /\ pc[t] = "predCancel"
    /\ Goto(t, IF IsCanceled(t) THEN "final" ELSE "asleep")
    /\ mtx' = [mtx EXCEPT ![Condition(t)] = Free]
    /\ UNCHANGED <<cur, counter, data, canceled, handled, received, control,
                   spurious>>

\* std::condition_variable::wait may return without a notification.
SpuriousWakeup(t) ==
    /\ pc[t] = "asleep"
    /\ spurious < MaxSpurious
    /\ spurious' = spurious + 1
    /\ Goto(t, "lock")
    /\ UNCHANGED <<cur, counter, data, canceled, mtx, handled, received,
                   control>>

\* Mutant: a puller leaves like a pusher, whatever is left to pull.
FinalFlagOnly(t) ==
    /\ pc[t] = "final"
    /\ Goto(t, IF IsCanceled(t) THEN "stopped" ELSE "swap")
    /\ UNCHANGED <<cur, counter, data, canceled, mtx, handled, received,
                   control, spurious>>

\* After the wait a pusher leaves if it is canceled, even with room left;
\* a puller reads is_empty() again before it reads its flag.
Final(t) ==
    /\ pc[t] = "final"
    /\ Goto(t, IF t \in Pushers
                 THEN IF IsCanceled(t) THEN "stopped" ELSE "swap"
                 ELSE IF Stuck(t) THEN "finalCancel" ELSE "swap")
    /\ UNCHANGED <<cur, counter, data, canceled, mtx, handled, received,
                   control, spurious>>

FinalCancel(t) ==
    /\ pc[t] = "finalCancel"
    /\ Goto(t, IF IsCanceled(t) THEN "stopped" ELSE "swap")
    /\ UNCHANGED <<cur, counter, data, canceled, mtx, handled, received,
                   control, spurious>>

-----------------------------------------------------------------------------
(* The exchange of the buffers, then wake_up_puller and wake_up_pusher.    *)

\* Mutant: the buffer of the slot is not bound to the task.
ExchangeOneWay(t, c, i) ==
    /\ slot' = [slot EXCEPT ![c][i] = hand[t]]
    /\ UNCHANGED hand

\* The task gives its buffer and takes the one of the slot.
Exchange(t, c, i) ==
    /\ slot' = [slot EXCEPT ![c][i] = hand[t]]
    /\ hand' = [hand EXCEPT ![t] = slot[c][i]]

\* get_empty_buffer(sid, swap_buffer), or the copy of push(); last++.
SwapPush(t) ==
    LET c == cur[t]
        i == last[c]
    IN  /\ t \in Pushers /\ pc[t] = "swap"
        /\ IF NoCopy
             THEN Exchange(t, c, i) /\ UNCHANGED content
             ELSE /\ content' = [content EXCEPT
                                    ![slot[c][i]] = content[hand[t]]]
                  /\ UNCHANGED <<slot, hand>>
        /\ last' = [last EXCEPT ![c] = (@ + 1) % BufferSize]
        /\ Goto(t, "publish")
        /\ UNCHANGED <<cur, counter, first, canceled, mtx, handled, received,
                       control, spurious>>

\* get_filled_buffer(sid, swap_buffer), or the copy of pull(); first++.
SwapPull(t) ==
    LET c == cur[t]
        i == first[c]
    IN  /\ t \in Pullers /\ pc[t] = "swap"
        /\ IF NoCopy
             THEN Exchange(t, c, i) /\ UNCHANGED content
             ELSE /\ content' = [content EXCEPT
                                    ![hand[t]] = content[slot[c][i]]]
                  /\ UNCHANGED <<slot, hand>>
        /\ first' = [first EXCEPT ![c] = (@ + 1) % BufferSize]
        /\ Goto(t, "publish")
        /\ UNCHANGED <<cur, counter, last, canceled, mtx, handled, received,
                       control, spurious>>

\* counter-- or counter++; an active wait needs no notification.
Publish(t) ==
    /\ pc[t] = "publish"
    /\ counter' = [counter EXCEPT
                     ![cur[t]] = IF t \in Pushers THEN @ - 1 ELSE @ + 1]
    /\ IF ActiveWaiting
         THEN Goto(t, "use") /\ Advance(t)
         ELSE Goto(t, "check") /\ UNCHANGED <<cur, handled>>
    /\ UNCHANGED <<data, canceled, mtx, received, control, spurious>>

\* The peer has been faster: !is_empty() or !is_full() does not hold.
NothingToTell(t) == IF t \in Pushers THEN IsEmpty(cur[t]) ELSE IsFull(cur[t])

Check(t) ==
    /\ pc[t] = "check"
    /\ IF NothingToTell(t)
         THEN Goto(t, "use") /\ Advance(t)
         ELSE Goto(t, "notify") /\ UNCHANGED <<cur, handled>>
    /\ UNCHANGED <<counter, data, canceled, mtx, received, control, spurious>>

Sleepers(v) == {t \in Threads : pc[t] = "asleep" /\ Condition(t) = v}

\* Mutant: the peer's mutex is not taken.
NotifyUnlocked(t) ==
    /\ pc[t] = "notify"
    /\ LET asleep == Sleepers(PeerCondition(t))
       IN  IF asleep = {}
             THEN Goto(t, "use")
             ELSE \E u \in asleep :
                    pc' = [pc EXCEPT ![t] = "use", ![u] = "lock"]
    /\ Advance(t)
    /\ UNCHANGED <<counter, data, canceled, mtx, received, control, spurious>>

\* Lock the peer's mutex, notify_one, unlock.
Notify(t) ==
    /\ pc[t] = "notify"
    /\ mtx[PeerCondition(t)] = Free
    /\ LET asleep == Sleepers(PeerCondition(t))
       IN  IF asleep = {}
             THEN Goto(t, "use")
             ELSE \E u \in asleep :
                    pc' = [pc EXCEPT ![t] = "use", ![u] = "lock"]
    /\ Advance(t)
    /\ UNCHANGED <<counter, data, canceled, mtx, received, control, spurious>>

-----------------------------------------------------------------------------
(* cancel_waiting, called on one instance after the other.                 *)

Clones(side, n) == [i \in 1 .. n |-> Instance(<<side, i - 1>>)]

AllStopped(S) == \A t \in S : pc[t] = "stopped"

\* The pool thread of the upstream stage cancels the pull tasks of the next
\* stage once its own stage has returned.
BeginUpstream ==
    /\ "upstream" \notin begun
    /\ AllStopped(Pushers)
    /\ begun' = begun \cup {"upstream"}
    /\ todo' = [todo EXCEPT !["upstream"] = Clones("pull", NPullers)]
    /\ UNCHANGED <<pc, cur, counter, data, canceled, mtx, handled, received,
                   toPush, toPull, waking, runs, spurious>>

\* The caller of exec cancels every stage but the last once the last stage
\* has returned, which this adaptor's pullers may or may not be part of.
BeginMain ==
    /\ "main" \notin begun
    /\ AllowAbort \/ AllStopped(Pullers)
    /\ begun' = begun \cup {"main"}
    /\ todo' = [todo EXCEPT !["main"] = Clones("push", NPushers)
                                           \o Tail(Clones("pull", NPullers))]
    /\ UNCHANGED <<pc, cur, counter, data, canceled, mtx, handled, received,
                   toPush, toPull, waking, runs, spurious>>

SendCancelSignal(k) ==
    /\ todo[k] # <<>> /\ waking[k] = -1
    /\ canceled' = [canceled EXCEPT ![Head(todo[k])] = TRUE]
    /\ IF ActiveWaiting
         THEN todo' = [todo EXCEPT ![k] = Tail(@)] /\ UNCHANGED waking
         ELSE waking' = [waking EXCEPT ![k] = 0] /\ UNCHANGED todo
    /\ UNCHANGED <<pc, cur, counter, data, mtx, handled, received, toPush,
                   toPull, begun, runs, spurious>>

\* Mutant: the pull conditions are forgotten.
WakeOrderPushOnly(i) == <<"push", i % NChannels>>

\* wake_up goes through the push conditions, then the pull conditions.
WakeOrder(i) == IF i < NChannels THEN <<"push", i>>
                                 ELSE <<"pull", i - NChannels>>

WakeUp(k) ==
    LET v == WakeOrder(waking[k])
        done == waking[k] + 1 = 2 * NChannels
    IN  /\ waking[k] >= 0
        /\ mtx[v] = Free
        /\ pc' = [t \in Threads |->
                    IF t \in Sleepers(v) THEN "lock" ELSE pc[t]]
        /\ waking' = [waking EXCEPT ![k] = IF done THEN -1 ELSE @ + 1]
        /\ todo' = IF done THEN [todo EXCEPT ![k] = Tail(@)] ELSE todo
        /\ UNCHANGED <<cur, counter, data, canceled, mtx, handled, received,
                       toPush, toPull, begun, runs, spurious>>

\* Pipeline::exec has joined every stage: it resets every instance.  Only
\* the original resets the shared state, and its own flag.
Quiet == /\ AllStopped(Threads)
         /\ begun = Controls
         /\ \A k \in Controls : todo[k] = <<>>

\* Mutant: the counters keep what the last execution left.
ResetIndices ==
    /\ first' = [c \in Channels |-> 0]
    /\ last' = [c \in Channels |-> 0]
    /\ slot' = HomeSlots
    /\ UNCHANGED counter

\* What reset and reset_buffer do to the rings.
ResetRings ==
    /\ first' = [c \in Channels |-> 0]
    /\ last' = [c \in Channels |-> 0]
    /\ counter' = [c \in Channels |-> BufferSize]
    /\ slot' = HomeSlots

\* reset_no_copy_mode of the stages, which binds the tasks again.
ResetNoCopy == hand' = HomeHands

Reset ==
    /\ Quiet
    /\ runs < MaxRuns
    /\ canceled' = [canceled EXCEPT ![Original] = FALSE]
    /\ ResetRings
    /\ ResetNoCopy
    /\ cur' = [t \in Threads |-> t[2]]
    /\ pc' = [t \in Threads |-> FirstPc(t)]
    /\ handled' = [t \in Threads |-> 0]
    /\ received' = [t \in Pullers |-> <<>>]
    /\ toPush' \in ToPush
    /\ toPull' \in ToPull
    /\ begun' = {}
    /\ runs' = runs + 1
    /\ UNCHANGED <<content, mtx, todo, waking, spurious>>

-----------------------------------------------------------------------------

Step(t) ==
    \/ Produce(t) \/ StopPushing(t) \/ Consume(t)
    \/ Test(t) \/ TestCancel(t) \/ Lock(t) \/ Pred(t) \/ PredCancel(t)
    \/ Final(t) \/ FinalCancel(t)
    \/ SwapPush(t) \/ SwapPull(t) \/ Publish(t) \/ Check(t) \/ Notify(t)

Cancel(k) == SendCancelSignal(k) \/ WakeUp(k)

\* Nothing is left to do: the pipeline has been executed MaxRuns times.
Finished == Quiet /\ runs = MaxRuns /\ UNCHANGED vars

Next ==
    \/ \E t \in Threads : Step(t) \/ SpuriousWakeup(t)
    \/ BeginUpstream \/ BeginMain
    \/ \E k \in Controls : Cancel(k)
    \/ Reset
    \/ Finished

Spec == Init /\ [][Next]_vars

\* Every thread of the program keeps running; only a spurious wakeup and the
\* decision to abort owe nothing to the scheduler.
Fairness ==
    /\ \A t \in Threads : WF_vars(Step(t))
    /\ \A k \in Controls : WF_vars(Cancel(k))
    /\ WF_vars(BeginUpstream)
    /\ WF_vars(AllStopped(Pullers) /\ BeginMain)

FairSpec == Spec /\ Fairness

-----------------------------------------------------------------------------
(* Properties.                                                             *)

Labels == {"use", "test", "testCancel", "lock", "pred", "predCancel",
           "asleep", "final", "finalCancel", "swap", "publish", "check",
           "notify", "stopped"}

TypeOK ==
    /\ pc \in [Threads -> Labels]
    /\ cur \in [Threads -> Channels]
    /\ counter \in [Channels -> 0 .. BufferSize]
    /\ first \in [Channels -> Slots]
    /\ last \in [Channels -> Slots]
    /\ slot \in [Channels -> [Slots -> Buffers]]
    /\ hand \in [Threads -> Buffers]
    /\ content \in [Buffers -> Frames]
    /\ canceled \in [Instances -> BOOLEAN]
    /\ mtx \in [Conditions -> Threads \cup {Free}]
    /\ handled \in [Threads -> Nat]
    /\ received \in [Pullers -> Seq(Frames)]
    /\ toPush \in Nat /\ toPull \in Nat
    /\ todo \in [Controls -> Seq(Instances)]
    /\ waking \in [Controls -> -1 .. 2 * NChannels - 1]
    /\ begun \subseteq Controls
    /\ runs \in Nat /\ spurious \in Nat

\* A channel has one pusher and one puller: no two threads of the same side
\* are ever on the same channel, although each chooses its next one alone.
\* The rings, first and last rely on it: they are not atomic.
OnePerSide ==
    \A t, u \in Threads : t[1] = u[1] /\ cur[t] = cur[u] => t = u

\* The positions a thread can have are those of its own residue class.
Lane == \A t \in Threads : cur[t] % Stride(t) = t[2]

\* A thread past its wait has something to take or a place to fill, and
\* keeps it until it moves the counter: what it has read stays true.
Ready ==
    \A t \in Threads :
        /\ pc[t] = "final" => ~ Stuck(t) \/ IsCanceled(t)
        /\ pc[t] = "finalCancel" => t \in Pullers /\ IsCanceled(t)
        /\ pc[t] \in {"swap", "publish"} => ~ Stuck(t)

\* A control thread in the middle of wake_up has its instance at hand.
Working == \A k \in Controls : waking[k] >= 0 => todo[k] # <<>>

\* The inductive invariant of the proofs.
IInv == TypeOK /\ Lane /\ Ready /\ Working

\* Has the thread of side S moved its index but not yet the counter?
Moved(S, c) ==
    IF \E t \in S : cur[t] = c /\ pc[t] = "publish" THEN 1 ELSE 0

\* What is between first and last of a channel.
Filled(c) == BufferSize - counter[c] + Moved(Pushers, c) - Moved(Pullers, c)

\* The three descriptions of a ring agree: the counter, corrected by the
\* exchanges in progress, is the distance from first to last.
RingConsistent ==
    \A c \in Channels :
        /\ Filled(c) \in 0 .. BufferSize
        /\ last[c] = (first[c] + Filled(c)) % BufferSize

\* The pusher and the puller of a channel may exchange buffers at the same
\* time, but never in the same slot.
SlotExclusive ==
    \A t \in Pushers, u \in Pullers :
        (cur[t] = cur[u] /\ pc[t] = "swap" /\ pc[u] = "swap")
            => last[cur[t]] # first[cur[u]]

\* With buffers exchanged and never copied, no buffer is in two places:
\* nobody writes what another thread reads, and none is lost.
BuffersDistinct ==
    /\ \A c, d \in Channels, i, j \in Slots :
            slot[c][i] = slot[d][j] => c = d /\ i = j
    /\ \A t, u \in Threads : hand[t] = hand[u] => t = u
    /\ \A t \in Threads, c \in Channels, i \in Slots : hand[t] # slot[c][i]

\* Puller q uses the frames q, q + NPullers, q + 2 * NPullers, ... and
\* nothing else: what it holds was not changed under it, and the threads
\* together keep the order of the upstream stage.
InOrder ==
    \A t \in Pullers : \A n \in DOMAIN received[t] :
        received[t][n] = t[2] + (n - 1) * NPullers

\* A thread that sleeps although what it waits for has happened is about to
\* be woken: the signal has been decided and has not passed yet.
WakeupPending(t) ==
    \/ \E u \in Threads : /\ pc[u] \in {"check", "notify"}
                          /\ PeerCondition(u) = Condition(t)
    \/ \E k \in Controls : \E i \in waking[k] .. 2 * NChannels - 1 :
            waking[k] >= 0 /\ WakeOrder(i) = Condition(t)

NoLostWakeup ==
    \A t \in Threads :
        pc[t] = "asleep" /\ (~ Stuck(t) \/ IsCanceled(t)) => WakeupPending(t)

\* When the upstream stage ends, the downstream one still drains everything
\* that was pushed: a puller stops when it has used all its share, of what
\* was produced or of what its own stage asked for.
Flushed ==
    \A t \in Pullers :
        pc[t] = "stopped" => NextFrame(t) >= toPush \/ NextFrame(t) >= toPull

\* The frames of a thread that its peers can see: the counter has moved.
Visible(t) == handled[t] + (IF pc[t] \in {"check", "notify"} THEN 1 ELSE 0)

Stream == INSTANCE OrderedStream WITH
    Capacity <- NChannels * BufferSize,
    pushed <- [p \in 0 .. NPushers - 1 |-> Visible(<<"push", p>>)],
    pulled <- [q \in 0 .. NPullers - 1 |-> Visible(<<"pull", q>>)],
    received <- [q \in 0 .. NPullers - 1 |-> received[<<"pull", q>>]]

\* The rings, the counters and the waiting implement the ordered stream.
ImplementsStream == Stream!Spec

\* The first execution ends: whatever the stages decide, no thread waits for
\* ever on a ring that nobody will fill or empty.  A later execution need
\* not end: see Flushed, which it does not keep either.
Termination == <>AllStopped(Threads)

=============================================================================
