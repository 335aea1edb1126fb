--------------------------- MODULE OrderedStream ---------------------------
(***************************************************************************)
(* What the adaptor between two consecutive pipeline stages promises, with *)
(* no buffer, lock, counter or cancellation in it: NPushers threads of the *)
(* upstream stage and NPullers threads of the downstream stage share one   *)
(* global stream of frames 0, 1, 2, ...  Pusher p contributes the frames   *)
(* p, p + NPushers, ..., and puller q receives the frames q, q + NPullers, *)
(* ..., each exactly once, in order, and never ahead of its publication.   *)
(* At most Capacity consecutive frames can be in flight.                   *)
(***************************************************************************)
EXTENDS Integers, Sequences

CONSTANTS NPushers, NPullers, Capacity

Pushers == 0 .. NPushers - 1
Pullers == 0 .. NPullers - 1

VARIABLES
    pushed,     \* frames published so far by each pusher
    pulled,     \* frames taken so far by each puller
    received    \* the frames each puller has consumed, in order

vars == <<pushed, pulled, received>>

\* The next frame of a thread in the global order.
NextPush(p) == p + pushed[p] * NPushers
NextPull(q) == q + pulled[q] * NPullers

IsPushed(k) == k < NextPush(k % NPushers)
IsPulled(k) == k < NextPull(k % NPullers)

TypeOK ==
    /\ pushed \in [Pushers -> Nat]
    /\ pulled \in [Pullers -> Nat]
    /\ received \in [Pullers -> Seq(Nat)]

Init ==
    /\ pushed = [p \in Pushers |-> 0]
    /\ pulled = [q \in Pullers |-> 0]
    /\ received = [q \in Pullers |-> <<>>]

\* A frame is published when the frame that used its place is gone.
Push(p) ==
    /\ NextPush(p) >= Capacity => IsPulled(NextPush(p) - Capacity)
    /\ pushed' = [pushed EXCEPT ![p] = @ + 1]
    /\ UNCHANGED <<pulled, received>>

\* A frame is taken once published, when the previous one has been used.
Pull(q) ==
    /\ IsPushed(NextPull(q))
    /\ Len(received[q]) = pulled[q]
    /\ pulled' = [pulled EXCEPT ![q] = @ + 1]
    /\ UNCHANGED <<pushed, received>>

\* The puller's stage uses the frame it took: it is the one expected.
Consume(q) ==
    /\ Len(received[q]) < pulled[q]
    /\ received' = [received EXCEPT
                        ![q] = Append(@, q + Len(@) * NPullers)]
    /\ UNCHANGED <<pushed, pulled>>

\* The stages stop and a new execution starts the stream over.
Restart ==
    /\ pushed' = [p \in Pushers |-> 0]
    /\ pulled' = [q \in Pullers |-> 0]
    /\ received' = [q \in Pullers |-> <<>>]

Next ==
    \/ \E p \in Pushers : Push(p)
    \/ \E q \in Pullers : Pull(q) \/ Consume(q)
    \/ Restart

Spec == Init /\ [][Next]_vars

=============================================================================
