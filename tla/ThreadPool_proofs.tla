------------------------- MODULE ThreadPool_proofs -------------------------
(***************************************************************************)
(* Theorems about ThreadPool, for any number of workers and of rounds: the *)
(* inductive invariant IInv, and what follows from it for the caller of    *)
(* wait, for notifications and for the destructor.                         *)
(***************************************************************************)
EXTENDS ThreadPool, FiniteSetTheorems, TLAPS

\* TypeOK without the bounds that follow from IInv.
Typed ==
    /\ main \in {"spawn", "barrier", "reset", "unset", "idle", "notify",
                 "own", "stopping", "join", "done"}
    /\ next \in 0 .. NWorkers
    /\ pc \in [Workers -> {"unborn", "init", "test", "lock", "arrive",
                           "check", "asleep", "wake", "retest", "exec",
                           "running", "ended", "terminated"}]
    /\ mtx \in [Workers -> BOOLEAN]
    /\ count \in Nat
    /\ func \in 0 .. MaxRuns /\ runs \in 0 .. MaxRuns
    /\ executed \in [Workers -> Nat]

Flags == stop \in BOOLEAN /\ initialized \in BOOLEAN

Inv == Typed /\ Flags /\ IInv

\* The set of the workers, and so any set of workers, is finite.
LEMMA WorkersFinite ==
    /\ IsFiniteSet(Workers)
    /\ Cardinality(Workers) = NWorkers
    /\ \A S \in SUBSET Workers :
        IsFiniteSet(S) /\ Cardinality(S) \in 0 .. NWorkers
<1>1. IsFiniteSet(0 .. NWorkers - 1) /\ Cardinality(0 .. NWorkers - 1) = NWorkers
  <2>1. 0 \in Int /\ NWorkers - 1 \in Int
    BY PoolAssumption
  <2>2. QED BY <2>1, FS_Interval, PoolAssumption
<1>2. ASSUME NEW S \in SUBSET Workers
      PROVE  IsFiniteSet(S) /\ Cardinality(S) \in 0 .. NWorkers
  <2>1. IsFiniteSet(S) /\ Cardinality(S) <= NWorkers
    BY <1>1, FS_Subset DEF Workers
  <2>2. Cardinality(S) \in Nat
    BY <2>1, FS_CardinalityType
  <2>3. QED BY <2>1, <2>2, PoolAssumption
<1>3. QED BY <1>1, <1>2 DEF Workers

\* All the workers have arrived when the counter says so.
LEMMA AllArrived ==
    ASSUME NEW S \in SUBSET Workers, Cardinality(S) = NWorkers
    PROVE  S = Workers
BY WorkersFinite, FS_Subset

\* The parts of the invariant give every variable its type.
LEMMA InvTypeOK == Inv => TypeOK
<1> SUFFICES ASSUME Inv PROVE TypeOK
    OBVIOUS
<1> USE PoolAssumption
<1>1. count \in 0 .. NWorkers
  <2>1. Arrived \in SUBSET Workers
    BY DEF Arrived
  <2>2. count \in 0 .. NWorkers
    BY <2>1, WorkersFinite DEF Inv, IInv, Counted
  <2>3. QED BY <2>2
<1>2. executed \in [Workers -> 0 .. MaxRuns]
  <2>1. ASSUME NEW t \in Workers
        PROVE  executed[t] \in 0 .. MaxRuns
    <3>1. executed[t] \in Nat /\ runs \in 0 .. MaxRuns
      BY DEF Inv, Typed
    <3>2. executed[t] <= runs
      BY <3>1 DEF Inv, IInv, Placed
    <3>3. QED BY <3>1, <3>2
  <2>2. executed \in [Workers -> Nat]
    BY DEF Inv, Typed
  <2>3. QED BY <2>1, <2>2
<1>3. QED BY <1>1, <1>2 DEF Inv, Typed, Flags, TypeOK

\* The invariant holds before init.
LEMMA InitInv == Init => Inv
<1> SUFFICES ASSUME Init PROVE Inv
    OBVIOUS
<1>1. Typed
  BY PoolAssumption DEF Init, Typed, Unset
<1>2. Arrived = {}
  BY DEF Init, Arrived, Waits
<1>3. count = Cardinality(Arrived)
  BY <1>2, FS_EmptySet DEF Init
<1>4. Earlier = {}
  BY DEF Init, Earlier, Joined
<1>5. Counted /\ Settled
  BY <1>3, <1>4 DEF Init, Counted, Settled
<1>6. Rounds
  BY DEF Init, Rounds, InRound, Unset
<1>7. ASSUME NEW t \in Workers
      PROVE  Placed(t)
  BY <1>4 DEF Init, Placed, Owes, Woken
<1>8. Flags
  BY Zenon DEF Init, Flags
<1>9. QED BY <1>1, <1>5, <1>6, <1>7, <1>8 DEF Inv, IInv

-----------------------------------------------------------------------------
(* Steps of the workers.  The counter and the set Arrived change together. *)

\* A step that leaves the counter and the set of the arrived workers alone.
LEMMA SameCount ==
    ASSUME Counted, UNCHANGED <<count, Arrived>>
    PROVE  Counted'
BY DEF Counted

\* A step of a worker that is not an arrival moves this worker only, and keeps
\* the invariant if it leaves the worker well placed.
LEMMA WorkerMoves ==
    ASSUME Inv, NEW t \in Workers, NEW l, NEW b \in BOOLEAN,
           l \in {"test", "lock", "arrive", "asleep", "retest", "exec", "running", "ended"},
           pc' = [pc EXCEPT ![t] = l],
           mtx' = [mtx EXCEPT ![t] = b],
           executed' \in [Workers -> Nat],
           \A u \in Workers : u # t => executed'[u] = executed[u],
           UNCHANGED <<main, next, count, stop, initialized, func, runs>>,
           Waits(t)' <=> Waits(t),
           Placed(t)'
    PROVE  Inv'
<1> USE DEF Inv, IInv
<1>1. Typed' /\ Flags'
  BY DEF Typed, Flags
<1>2. Earlier' = Earlier /\ Joined' = Joined
  BY DEF Earlier, Joined
<1>3. Rounds'
  BY DEF Rounds, InRound
<1>4. ASSUME NEW u \in Workers
      PROVE  (Waits(u)' <=> Waits(u)) /\ Placed(u)'
  <2>1. CASE u = t
    BY <2>1
  <2>2. CASE u # t
    <3>1. UNCHANGED <<pc[u], mtx[u], executed[u]>>
      BY <2>2 DEF Typed
    <3>2. QED BY <3>1, <1>2 DEF Placed, Owes, Waits
  <2>3. QED BY <2>1, <2>2
<1>5. Arrived' = Arrived /\ Settled'
  BY <1>2, <1>4 DEF Arrived, Settled, Earlier
<1>6. Counted'
  BY <1>5, SameCount
<1>7. QED BY <1>1, <1>3, <1>4, <1>5, <1>6

\* The steps of a worker keep the invariant.
LEMMA WorkerStep ==
    ASSUME Inv, NEW t \in Workers, Worker(t)
    PROVE  Inv'
<1> USE DEF Inv, IInv
<1>0. Placed(t) /\ Typed
  OBVIOUS
<1>1. mtx[t] \in BOOLEAN /\ mtx = [mtx EXCEPT ![t] = mtx[t]]
  BY DEF Typed
<1>2. CASE FuncInit(t)
  <2>1. Placed(t)' /\ (Waits(t)' <=> Waits(t))
    BY <1>0, <1>2
    DEF FuncInit, Goto, Typed, Placed, Rounds, Earlier, Joined, Waits, Owes, Woken
  <2>2. QED BY <1>1, <1>2, <2>1, WorkerMoves DEF FuncInit, Goto, Typed
<1>3. CASE TestStop(t)
  <2>1. Placed(t)' /\ (Waits(t)' <=> Waits(t))
    BY <1>0, <1>3
    DEF TestStop, Goto, Typed, Placed, Rounds, Earlier, Joined, Waits, Owes, Woken
  <2>2. CASE stop
    BY <1>1, <1>3, <2>1, <2>2, WorkerMoves DEF TestStop, Goto, Typed
  <2>3. CASE ~ stop
    BY <1>1, <1>3, <2>1, <2>3, WorkerMoves DEF TestStop, Goto, Typed
  <2>4. QED BY <2>2, <2>3
<1>4. CASE Lock(t)
  <2>1. Placed(t)' /\ (Waits(t)' <=> Waits(t))
    BY <1>0, <1>4
    DEF Lock, Goto, Typed, Placed, Rounds, Earlier, Joined, Waits, Owes, Woken
  <2>2. QED BY <1>4, <2>1, WorkerMoves DEF Lock, Goto, Typed
<1>5. CASE Check(t)
  <2>1. ~ (count > NWorkers)
    <3>1. count \in 0 .. NWorkers
      BY WorkersFinite DEF Counted, Arrived
    <3>2. QED BY <3>1, PoolAssumption
  <2>2. Placed(t)' /\ (Waits(t)' <=> Waits(t))
    BY <1>0, <1>5, <2>1, PoolAssumption
    DEF Check, Goto, Typed, Placed, Rounds, Earlier, Joined, Waits, Owes, Woken
  <2>3. pc' = [pc EXCEPT ![t] = "asleep"]
    BY <1>5, <2>1 DEF Check, Goto
  <2>4. QED BY <1>5, <2>2, <2>3, WorkerMoves DEF Check, Typed
<1>6. CASE Relock(t)
  <2>1. Placed(t)' /\ (Waits(t)' <=> Waits(t))
    BY <1>0, <1>6
    DEF Relock, Goto, Typed, Placed, Rounds, Earlier, Joined, Waits, Owes, Woken
  <2>2. QED BY <1>6, <2>1, WorkerMoves DEF Relock, Goto, Typed
<1>7. CASE Retest(t)
  <2>1. Placed(t)' /\ (Waits(t)' <=> Waits(t))
    BY <1>0, <1>7
    DEF Retest, Goto, Typed, Placed, Rounds, Earlier, Joined, Waits, Owes, Woken
  <2>2. CASE stop
    BY <1>7, <2>1, <2>2, WorkerMoves DEF Retest, Goto, Typed
  <2>3. CASE ~ stop
    BY <1>1, <1>7, <2>1, <2>3, WorkerMoves DEF Retest, Goto, Typed
  <2>4. QED BY <2>2, <2>3
<1>8. CASE Begin(t)
  <2>1. func # Unset
    BY <1>8, PoolAssumption
    DEF Begin, Typed, Placed, Rounds, Settled, Earlier, Joined, Waits, Woken, InRound, Unset
  <2>2. Placed(t)' /\ (Waits(t)' <=> Waits(t))
    BY <1>0, <1>8, <2>1
    DEF Begin, Goto, Typed, Placed, Rounds, Earlier, Joined, Waits, Owes, Woken
  <2>3. QED BY <1>1, <1>8, <2>1, <2>2, WorkerMoves DEF Begin, Goto, Typed
<1>9. CASE Finish(t)
  <2>1. Placed(t)' /\ (Waits(t)' <=> Waits(t))
    BY <1>0, <1>9, PoolAssumption
    DEF Finish, Goto, Typed, Placed, Rounds, Earlier, Joined, Settled, Waits, Owes, Woken
  <2>2. /\ executed' \in [Workers -> Nat]
        /\ \A u \in Workers : u # t => executed'[u] = executed[u]
    BY <1>9 DEF Finish, Typed
  <2>3. QED BY <1>9, <2>1, <2>2, WorkerMoves DEF Finish, Goto
<1>10. CASE Arrive(t)
  <2>1. UNCHANGED <<main, next, mtx, stop, initialized, func, runs, executed>>
    BY <1>10 DEF Arrive
  <2>2. Earlier' = Earlier /\ Joined' = Joined /\ t \notin Earlier
    BY <1>10, <2>1 DEF Arrive, Earlier, Joined, Settled, Waits
  <2>3. \A u \in Workers : u # t => pc'[u] = pc[u]
    BY <1>10 DEF Arrive, Goto, Typed
  <2>4. Waits(t)' /\ ~ Waits(t) /\ \A u \in Workers : u # t => (Waits(u)' <=> Waits(u))
    BY <1>10, <2>3 DEF Arrive, Goto, Typed, Waits
  <2>5. Arrived' = Arrived \cup {t} /\ t \notin Arrived
    BY <2>2, <2>4 DEF Arrived
  <2>6. Counted'
    <3>1. IsFiniteSet(Arrived)
      BY WorkersFinite DEF Arrived
    <3>2. QED BY <1>10, <2>5, <3>1, FS_AddElement DEF Arrive, Counted
  <2>7. Settled'
    BY <2>1, <2>2, <2>4 DEF Settled, Earlier
  <2>8. \A u \in Workers : Placed(u)'
    BY <1>10, <2>1, <2>2, <2>3 DEF Arrive, Goto, Typed, Placed, Owes, Woken
  <2>9. Typed' /\ Flags' /\ Rounds'
    BY <1>10, <2>1 DEF Arrive, Goto, Typed, Flags, Rounds, InRound
  <2>10. QED BY <2>6, <2>7, <2>8, <2>9
<1>11. QED
  BY <1>2, <1>3, <1>4, <1>5, <1>6, <1>7, <1>8, <1>9, <1>10 DEF Worker

-----------------------------------------------------------------------------
(* Steps of the owner.                                                     *)

\* A step of the owner that moves no worker, does not touch the counter and
\* looks back at the same round keeps the invariant.
LEMMA OwnerMoves ==
    ASSUME Inv, UNCHANGED <<pc, mtx, count, executed>>,
           Typed', Flags', Rounds',
           Earlier' = Earlier,
           main' # "reset",
           \A t \in Workers : Placed(t)'
    PROVE  Inv'
<1> USE DEF Inv, IInv
<1>1. \A t \in Workers : Waits(t)' <=> Waits(t)
  BY DEF Waits
<1>2. Arrived' = Arrived /\ Settled'
  BY <1>1 DEF Arrived, Settled, Earlier
<1>3. QED BY <1>2, SameCount

\* The owner notifies the next worker, which sleeps since its last arrival.
LEMMA NotifyStep ==
    ASSUME Inv, main \in {"notify", "stopping"},
           NEW w \in Workers, w = next, NotifyOne(w), next' = w + 1,
           UNCHANGED <<main, mtx, count, stop, initialized, func, runs, executed>>
    PROVE  Inv'
<1> USE PoolAssumption DEF Inv, IInv
<1>1. w \in Earlier
  BY DEF Typed, Workers, Earlier
<1>2. pc[w] = "asleep"
  BY <1>1 DEF NotifyOne, Settled, Waits, Placed
<1>3. pc' = [pc EXCEPT ![w] = "wake"]
  BY <1>2 DEF NotifyOne, Goto
<1>4. Typed' /\ Flags'
  BY <1>3 DEF Typed, Flags, Workers
<1>5. Earlier' = Earlier \ {w}
  BY DEF Earlier, Joined, Workers, Typed
<1>6. /\ pc'[w] = "wake" /\ ~ Waits(w)'
      /\ \A t \in Workers : t # w => pc'[t] = pc[t] /\ (Waits(t)' <=> Waits(t))
  BY <1>3 DEF Typed, Waits
<1>7. Arrived' = Arrived /\ Counted'
  BY <1>1, <1>5, <1>6 DEF Arrived, Counted
<1>8. Settled'
  BY <1>5, <1>6 DEF Settled, Earlier
<1>9. Rounds'
  BY DEF Rounds, InRound
<1>10. Placed(w)'
  BY <1>2, <1>6 DEF Placed, Owes, Woken, Rounds, Typed
<1>11. ASSUME NEW t \in Workers, t # w
       PROVE  Placed(t)'
  <2>1. (next <= t) <=> (next' <= t)
    BY <1>11 DEF Workers, Typed
  <2>2. QED BY <1>5, <1>6, <1>11, <2>1 DEF Placed, Owes
<1>12. QED BY <1>4, <1>7, <1>8, <1>9, <1>10, <1>11

\* The steps of the owner keep the invariant.
LEMMA OwnerStep ==
    ASSUME Inv, Owner
    PROVE  Inv'
<1> USE PoolAssumption DEF Inv, IInv
<1>1. CASE Spawn
  <2>1. CASE next < NWorkers
    <3>1. PICK w \in Workers : w = next
      BY <2>1 DEF Typed, Workers
    <3>2. /\ pc' = [pc EXCEPT ![w] = "init"] /\ next' = w + 1
          /\ UNCHANGED <<main, mtx, count, stop, initialized, func, runs, executed>>
      BY <1>1, <2>1, <3>1 DEF Spawn, Goto
    <3>3. pc[w] = "unborn" /\ main = "spawn"
      BY <1>1, <3>1 DEF Spawn, Placed, Typed
    <3>4. /\ pc'[w] = "init"
          /\ \A t \in Workers : (t # w => pc'[t] = pc[t]) /\ (Waits(t)' <=> Waits(t))
      BY <3>2, <3>3 DEF Typed, Waits
    <3>5. Typed' /\ Flags'
      BY <3>1, <3>2 DEF Typed, Flags, Workers
    <3>6. Earlier' = {} /\ Earlier = {} /\ Joined' = Joined
      BY <3>2, <3>3 DEF Earlier, Joined
    <3>7. Arrived' = Arrived /\ Counted'
      BY <3>2, <3>4, <3>6 DEF Arrived, Counted
    <3>8. Settled' /\ Rounds'
      BY <3>2, <3>3, <3>6 DEF Settled, Rounds, InRound
    <3>9. ASSUME NEW t \in Workers
          PROVE  Placed(t)'
      BY <3>1, <3>2, <3>3, <3>4, <3>6 DEF Placed, Owes, Woken, Workers, Typed, Rounds
    <3>10. QED BY <3>5, <3>7, <3>8, <3>9
  <2>2. CASE ~ (next < NWorkers)
    <3>1. main = "spawn" /\ main' \in {"idle", "barrier"}
          /\ UNCHANGED <<pc, next, mtx, count, stop, initialized, func, runs, executed>>
      BY <1>1, <2>2 DEF Spawn
    <3>2. Typed' /\ Flags' /\ Rounds'
      BY <3>1 DEF Typed, Flags, Rounds, InRound
    <3>3. Earlier' = Earlier
      BY <3>1 DEF Earlier, Joined, Rounds
    <3>4. \A t \in Workers : Placed(t)'
      BY <3>1, <3>3 DEF Placed, Owes, Rounds
    <3>5. QED BY <3>1, <3>2, <3>3, <3>4, OwnerMoves
  <2>3. QED BY <2>1, <2>2
<1>2. CASE Barrier
  <2>1. main = "barrier" /\ main' = "reset" /\ count = NWorkers
        /\ UNCHANGED <<pc, next, mtx, count, stop, initialized, func, runs, executed>>
    BY <1>2 DEF Barrier
  <2>2. Earlier = {} /\ Earlier' = {}
    BY <2>1 DEF Earlier, Joined
  <2>3. Arrived = Workers
    BY <2>1, AllArrived DEF Arrived, Counted
  <2>4. \A t \in Workers : Waits(t)' <=> Waits(t)
    BY <2>1 DEF Waits
  <2>5. Arrived' = Arrived /\ Settled' /\ Counted'
    BY <2>1, <2>2, <2>3, <2>4 DEF Arrived, Settled, Counted
  <2>6. Typed' /\ Flags' /\ Rounds'
    BY <2>1 DEF Typed, Flags, Rounds, InRound
  <2>7. \A t \in Workers : Placed(t)'
    BY <2>1, <2>2 DEF Placed, Owes
  <2>8. QED BY <2>5, <2>6, <2>7
<1>3. CASE ResetBarrier
  <2>1. main = "reset" /\ main' \in {"idle", "unset"} /\ count' = 0 /\ initialized' = TRUE
        /\ (main' = "idle" <=> func = Unset)
        /\ UNCHANGED <<pc, next, mtx, stop, func, runs, executed>>
    BY <1>3 DEF ResetBarrier
  <2>2. \A t \in Workers : Waits(t) /\ Waits(t)'
    BY <2>1 DEF Settled, Waits
  <2>3. Earlier' = Workers /\ Arrived' = {}
    BY <2>1 DEF Earlier, Arrived, Joined
  <2>4. Counted' /\ Settled'
    BY <2>1, <2>2, <2>3, FS_EmptySet DEF Counted, Settled
  <2>5. Typed' /\ Flags' /\ Rounds'
    BY <2>1 DEF Typed, Flags, Rounds, InRound, Unset
  <2>6. \A t \in Workers : Placed(t)'
    BY <2>1, <2>2, <2>3 DEF Placed, Owes, Woken, Waits, Rounds
  <2>7. QED BY <2>4, <2>5, <2>6
<1>4. CASE UnsetFuncExec
  <2>1. main = "unset" /\ main' = "idle" /\ func' = Unset
        /\ UNCHANGED <<pc, next, mtx, count, stop, initialized, runs, executed>>
    BY <1>4 DEF UnsetFuncExec
  <2>2. Typed' /\ Flags' /\ Rounds'
    BY <2>1 DEF Typed, Flags, Rounds, InRound, Unset
  <2>3. Earlier' = Earlier
    BY <2>1 DEF Earlier, Joined
  <2>4. \A t \in Workers : Placed(t)'
    BY <2>1, <2>3 DEF Placed, Owes
  <2>5. QED BY <2>1, <2>2, <2>3, <2>4, OwnerMoves
<1>5. CASE Wait
  <2>1. (main = "own" \/ (main = "idle" /\ ~ initialized)) /\ main' = "barrier"
        /\ UNCHANGED <<pc, next, mtx, count, stop, initialized, func, runs, executed>>
    BY <1>5 DEF Wait
  <2>2. Typed' /\ Flags' /\ Rounds'
    BY <2>1 DEF Typed, Flags, Rounds, InRound
  <2>3. Earlier' = Earlier
    BY <2>1 DEF Earlier, Joined
  <2>4. \A t \in Workers : Placed(t)'
    BY <2>1, <2>3 DEF Placed, Owes
  <2>5. QED BY <2>1, <2>2, <2>3, <2>4, OwnerMoves
<1>6. CASE Run
  <2>1. main = "idle" /\ initialized /\ main' = "notify" /\ next' = 0
        /\ runs < MaxRuns /\ runs' = runs + 1 /\ func' = runs + 1
        /\ UNCHANGED <<pc, mtx, count, stop, initialized, executed>>
    BY <1>6 DEF Run
  <2>2. Typed' /\ Flags' /\ Rounds'
    BY <2>1 DEF Typed, Flags, Rounds, InRound
  <2>3. Earlier = Workers /\ Earlier' = Workers
    BY <2>1 DEF Earlier, Joined, Workers
  <2>4. ASSUME NEW t \in Workers
        PROVE  Placed(t)'
    <3>1. Waits(t) /\ next' <= t
      BY <2>1, <2>3 DEF Settled, Workers
    <3>2. QED BY <2>1, <2>3, <3>1 DEF Placed, Owes, Waits, Woken, Rounds, Typed
  <2>5. QED BY <2>1, <2>2, <2>3, <2>4, OwnerMoves
<1>7. CASE Notify
  <2>1. CASE next < NWorkers
    <3>1. PICK w \in Workers : w = next
      BY <2>1 DEF Typed, Workers
    <3>2. QED BY <1>7, <2>1, <3>1, NotifyStep DEF Notify
  <2>2. CASE ~ (next < NWorkers)
    <3>1. main = "notify" /\ main' = "own"
          /\ UNCHANGED <<pc, next, mtx, count, stop, initialized, func, runs, executed>>
      BY <1>7, <2>2 DEF Notify
    <3>2. Typed' /\ Flags' /\ Rounds'
      BY <3>1 DEF Typed, Flags, Rounds, InRound
    <3>3. Earlier' = Earlier /\ \A t \in Workers : ~ (next <= t)
      BY <2>2, <3>1 DEF Earlier, Joined, Workers, Typed
    <3>4. \A t \in Workers : Placed(t)'
      BY <3>1, <3>3 DEF Placed, Owes
    <3>5. QED BY <3>1, <3>2, <3>3, <3>4, OwnerMoves
  <2>3. QED BY <2>1, <2>2
<1>8. CASE Destroy
  <2>1. main = "idle" /\ initialized /\ main' = "stopping" /\ next' = 0 /\ stop' = TRUE
        /\ UNCHANGED <<pc, mtx, count, initialized, func, runs, executed>>
    BY <1>8 DEF Destroy
  <2>2. Typed' /\ Flags' /\ Rounds'
    BY <2>1 DEF Typed, Flags, Rounds, InRound
  <2>3. Earlier = Workers /\ Earlier' = Workers
    BY <2>1 DEF Earlier, Joined, Workers
  <2>4. ASSUME NEW t \in Workers
        PROVE  Placed(t)'
    BY <2>1, <2>3 DEF Placed, Owes, Waits, Woken, Rounds, Settled
  <2>5. QED BY <2>1, <2>2, <2>3, <2>4, OwnerMoves
<1>9. CASE Stopping
  <2>1. CASE next < NWorkers
    <3>1. PICK w \in Workers : w = next
      BY <2>1 DEF Typed, Workers
    <3>2. QED BY <1>9, <2>1, <3>1, NotifyStep DEF Stopping
  <2>2. CASE ~ (next < NWorkers)
    <3>1. main = "stopping" /\ main' = "join" /\ next' = 0
          /\ UNCHANGED <<pc, mtx, count, stop, initialized, func, runs, executed>>
      BY <1>9, <2>2 DEF Stopping
    <3>2. Typed' /\ Flags' /\ Rounds'
      BY <3>1 DEF Typed, Flags, Rounds, InRound
    <3>3. Earlier' = Earlier
      BY <2>2, <3>1 DEF Earlier, Joined, Workers, Typed
    <3>4. \A t \in Workers : Placed(t)'
      BY <3>1, <3>3 DEF Placed, Owes, Rounds
    <3>5. QED BY <3>1, <3>2, <3>3, <3>4, OwnerMoves
  <2>3. QED BY <2>1, <2>2
<1>10. CASE Join
  <2>1. main = "join" /\ main' \in {"join", "done"} /\ next' \in 0 .. NWorkers
        /\ UNCHANGED <<pc, mtx, count, stop, initialized, func, runs, executed>>
    BY <1>10 DEF Join, Typed
  <2>2. Typed' /\ Flags' /\ Rounds'
    BY <2>1 DEF Typed, Flags, Rounds, InRound
  <2>3. Earlier' = Earlier
    BY <2>1 DEF Earlier, Joined
  <2>4. \A t \in Workers : Placed(t)'
    BY <2>1, <2>3 DEF Placed, Owes, Rounds
  <2>5. QED BY <2>1, <2>2, <2>3, <2>4, OwnerMoves
<1>11. QED
  BY <1>1, <1>2, <1>3, <1>4, <1>5, <1>6, <1>7, <1>8, <1>9, <1>10 DEF Owner

\* Init and every step keep the invariant.
LEMMA StepInv == Inv /\ [Next]_vars => Inv'
<1> SUFFICES ASSUME Inv, [Next]_vars PROVE Inv'
    OBVIOUS
<1>1. CASE Owner
  BY <1>1, OwnerStep
<1>2. CASE \E t \in Workers : Worker(t)
  BY <1>2, WorkerStep
<1>3. CASE UNCHANGED vars
  BY <1>3 DEF vars, Inv, Typed, Flags, IInv, Counted, Settled, Placed, Rounds,
              Arrived, Earlier, Joined, Waits, Owes, InRound
<1>4. QED BY <1>1, <1>2, <1>3 DEF Next, Finished

\* The invariant holds in every state.
LEMMA SpecInv == Spec => []Inv
<1>1. Init => Inv
  BY InitInv
<1>2. Inv /\ [Next]_vars => Inv'
  BY StepInv
<1>3. QED BY <1>1, <1>2, PTL DEF Spec

-----------------------------------------------------------------------------
(* Theorems.                                                               *)

\* Every variable keeps its type, however many workers and rounds there are; in
\* particular the counter of the barrier, which arrive increments and reset sets
\* back while workers arrive, never exceeds the number of workers.
THEOREM TypeCorrect == Spec => []TypeOK
<1>1. Inv => TypeOK
  BY InvTypeOK
<1>2. QED BY <1>1, SpecInv, PTL

\* The counter of the barrier is the number of workers that have arrived in this
\* round, and every worker is where the round of the owner allows it to be.
THEOREM RoundsCorrect == Spec => []IInv
<1>1. Inv => IInv
  BY DEF Inv
<1>2. QED BY <1>1, SpecInv, PTL

\* When wait has returned and until the next run, every worker is at its
\* condition variable: stop_threads and func_exec may be written without a lock.
THEOREM ParkedCorrect == Spec => []Parked
<1>1. Inv => Parked
  BY DEF Inv, IInv, Settled, Earlier, Waits, Parked
<1>2. QED BY <1>1, SpecInv, PTL

\* run and the destructor never notify a worker that does not sleep.
THEOREM NotificationCorrect == Spec => []NotificationHeard
<1>1. Inv => NotificationHeard
  <2> SUFFICES ASSUME Inv, main \in {"notify", "stopping"}, next < NWorkers,
                      ~ mtx[next]
               PROVE  pc[next] = "asleep"
      BY DEF NotificationHeard
  <2>1. next \in Workers /\ next \in Earlier
    BY PoolAssumption DEF Inv, Typed, Workers, Earlier
  <2>2. QED BY <2>1 DEF Inv, IInv, Settled, Waits, Placed
<1>2. QED BY <1>1, SpecInv, PTL

\* When the destructor joins the threads, none of them sleeps.
THEOREM StopCorrect == Spec => []StopHeard
<1>1. Inv => StopHeard
  BY DEF Inv, IInv, Placed, Rounds, Earlier, Joined, StopHeard
<1>2. QED BY <1>1, SpecInv, PTL

\* The check of arrive never throws.
THEOREM CountCorrect == Spec => []CountBounded
<1>1. Inv => CountBounded
  <2> SUFFICES ASSUME Inv PROVE count <= NWorkers
      BY DEF CountBounded
  <2>1. count \in 0 .. NWorkers
    BY WorkersFinite DEF Inv, IInv, Counted, Arrived
  <2>2. QED BY <2>1, PoolAssumption
<1>2. QED BY <1>1, SpecInv, PTL

-----------------------------------------------------------------------------
(* The pool implements ForkJoin.                                           *)

\* The refinement mapping, named for its three parts.
Phase == IF main \in {"stopping", "join", "done"} THEN "stopped"
         ELSE IF func # Unset /\ main # "unset" THEN "running"
         ELSE "idle"
Done == {t \in Workers : executed[t] = runs}

\* A pool that does not run yet is an idle ForkJoin.
LEMMA InitForkJoin == Init => ForkJoinOfPool!Init
BY DEF Init, Unset, ForkJoinOfPool!Init

\* Only Run, Finish, ResetBarrier (after a round) and Destroy are visible to the
\* client: they are Fork, Work, Join and Stop.
LEMMA OwnerForkJoin ==
    ASSUME Inv, Owner
    PROVE  [ForkJoinOfPool!Next]_ForkJoinOfPool!vars
<1> USE PoolAssumption DEF Inv, IInv, ForkJoinOfPool!vars
<1>1. CASE Spawn
  BY <1>1 DEF Spawn, Rounds, InRound
<1>2. CASE Barrier
  BY <1>2 DEF Barrier
<1>3. CASE ResetBarrier
  <2>1. main = "reset" /\ UNCHANGED <<runs, executed, func>>
    BY <1>3 DEF ResetBarrier
  <2>2. CASE func = Unset
    BY <1>3, <2>1, <2>2 DEF ResetBarrier
  <2>3. CASE func # Unset
    <3>1. \A t \in Workers : executed[t] = runs
      BY <2>1 DEF Settled, Placed, Waits, Owes, Woken
    <3>2. Phase = "running" /\ Phase' = "idle" /\ Done = Workers /\ Done' = Workers
      BY <1>3, <2>1, <2>3, <3>1 DEF ResetBarrier, Phase, Done
    <3>3. QED BY <2>1, <3>2 DEF Phase, Done, ForkJoinOfPool!Next, ForkJoinOfPool!Join
  <2>4. QED BY <2>2, <2>3
<1>4. CASE UnsetFuncExec
  BY <1>4 DEF UnsetFuncExec, Unset
<1>5. CASE Wait
  BY <1>5 DEF Wait
<1>6. CASE Run
  <2>1. /\ main = "idle" /\ initialized /\ main' = "notify"
        /\ runs' = runs + 1 /\ func' = runs + 1 /\ executed' = executed
    BY <1>6 DEF Run
  <2>2. func = Unset /\ func' # Unset
    BY <2>1 DEF Rounds, InRound, Unset, Typed
  <2>3. \A t \in Workers : executed[t] = runs
    BY <2>1 DEF Settled, Placed, Rounds, Earlier, Joined, Waits, Owes, Woken
  <2>4. Phase = "idle" /\ Phase' = "running" /\ Done' = {}
    BY <2>1, <2>2, <2>3 DEF Phase, Done, Typed
  <2>5. QED BY <2>1, <2>4 DEF Phase, Done, ForkJoinOfPool!Next, ForkJoinOfPool!Fork
<1>7. CASE Notify
  BY <1>7 DEF Notify
<1>8. CASE Destroy
  <2>1. main = "idle" /\ main' = "stopping" /\ UNCHANGED <<runs, executed, func>>
    BY <1>8 DEF Destroy
  <2>2. Phase = "idle" /\ Phase' = "stopped" /\ Done' = Done
    BY <2>1 DEF Phase, Done, Rounds, InRound
  <2>3. QED BY <2>1, <2>2 DEF Phase, Done, ForkJoinOfPool!Next, ForkJoinOfPool!Stop
<1>9. CASE Stopping
  BY <1>9 DEF Stopping
<1>10. CASE Join
  BY <1>10 DEF Join
<1>11. QED
  BY <1>1, <1>2, <1>3, <1>4, <1>5, <1>6, <1>7, <1>8, <1>9, <1>10 DEF Owner

\* Of the steps of a worker, the client sees the end of its job only.
LEMMA WorkerForkJoin ==
    ASSUME Inv, NEW t \in Workers, Worker(t)
    PROVE  [ForkJoinOfPool!Next]_ForkJoinOfPool!vars
<1>1. UNCHANGED <<main, runs, func>>
  BY DEF Worker, FuncInit, TestStop, Lock, Arrive, Check, Relock, Retest, Begin, Finish
<1>2. CASE Finish(t)
  <2>1. /\ executed \in [Workers -> Nat] /\ runs \in Nat
        /\ executed' = [executed EXCEPT ![t] = @ + 1] /\ pc[t] = "running"
    BY <1>2, PoolAssumption DEF Finish, Inv, Typed
  <2>2. Owes(t) /\ executed[t] = runs - 1
    BY <2>1 DEF Inv, IInv, Placed, Owes, Woken, Rounds, Earlier, Joined, Settled, Waits
  <2>3. main \in {"notify", "own", "barrier"} /\ initialized
    BY <2>1, <2>2
    DEF Inv, Typed, IInv, Settled, Placed, Rounds, Earlier, Joined, Waits, Woken, Owes
  <2>4. Phase = "running"
    BY <2>3, PoolAssumption DEF Inv, Typed, IInv, Rounds, InRound, Unset, Phase
  <2>5. t \notin Done /\ Done' = Done \cup {t}
    BY <1>1, <2>1, <2>2 DEF Done
  <2>6. QED
    BY <1>1, <2>4, <2>5
    DEF Phase, Done, ForkJoinOfPool!Next, ForkJoinOfPool!Work
<1>3. CASE ~ Finish(t)
  <2>1. UNCHANGED executed
    BY <1>3 DEF Worker, FuncInit, TestStop, Lock, Arrive, Check, Relock, Retest, Begin
  <2>2. QED BY <1>1, <2>1 DEF ForkJoinOfPool!vars
<1>4. QED BY <1>2, <1>3

\* The mutexes, the condition variables and the barrier implement rounds in which
\* every worker does the job exactly once, for any number of workers and rounds.
THEOREM PoolImplementsForkJoin == Spec => ImplementsForkJoin
<1>1. Init => ForkJoinOfPool!Init
  BY InitForkJoin
<1>2. Inv /\ [Next]_vars => [ForkJoinOfPool!Next]_ForkJoinOfPool!vars
  <2> SUFFICES ASSUME Inv, [Next]_vars
               PROVE  [ForkJoinOfPool!Next]_ForkJoinOfPool!vars
      OBVIOUS
  <2>1. CASE Owner
    BY <2>1, OwnerForkJoin
  <2>2. CASE \E t \in Workers : Worker(t)
    BY <2>2, WorkerForkJoin
  <2>3. CASE UNCHANGED vars
    BY <2>3 DEF vars, ForkJoinOfPool!vars
  <2>4. QED BY <2>1, <2>2, <2>3 DEF Next, Finished
<1>3. QED
  BY <1>1, <1>2, SpecInv, PTL DEF Spec, ImplementsForkJoin, ForkJoinOfPool!Spec
=============================================================================
