----------------------------- MODULE ThreadPool -----------------------------
(***************************************************************************)
(* tools::Thread_pool_standard with tools::Thread_barrier_standard, and    *)
(* the way Sequence and Pipeline use them: init, then any number of times  *)
(* run(func_exec, async) - own work - wait - unset_func_exec, and at last  *)
(* the destructor.  Every worker has a mutex and a condition variable of   *)
(* its own; it sleeps without a predicate, and holds its mutex while it    *)
(* does its job.  The barrier is a counter that the workers increment and  *)
(* that the main thread polls, then sets back to zero.                     *)
(*                                                                         *)
(* An exception that leaves a worker ends the program: what follows the    *)
(* state "terminated" of a worker does not happen.  A wakeup without a     *)
(* notification, which the pool would take for an order to run the job,    *)
(* is outside of the module.                                               *)
(***************************************************************************)
EXTENDS Naturals, FiniteSets

CONSTANTS
    NWorkers,       \* n_threads
    AsyncInit,      \* the client calls init(true), or init()
    MaxRuns         \* bound: how many times the client runs the pool

ASSUME PoolAssumption ==
    /\ NWorkers \in Nat
    /\ AsyncInit \in BOOLEAN
    /\ MaxRuns \in Nat

Workers == 0 .. NWorkers - 1

\* func_exec: the job of a round, or the one that throws.
Unset == 0

VARIABLES
    main,           \* where the thread that owns the pool is
    next,           \* 'tid' in its loops
    pc,             \* where each worker is
    mtx,            \* TRUE when the mutex of a worker is held
    count,          \* arrivals at the barrier (atomic)
    stop,           \* stop_threads (not atomic)
    initialized,
    func,           \* func_exec (not atomic)
    runs,
    executed        \* how many jobs each worker has finished

vars == <<main, next, pc, mtx, count, stop, initialized, func, runs,
          executed>>

Init ==
    /\ main = "spawn"
    /\ next = 0
    /\ pc = [t \in Workers |-> "unborn"]
    /\ mtx = [t \in Workers |-> FALSE]
    /\ count = 0
    /\ stop = FALSE
    /\ initialized = FALSE
    /\ func = Unset
    /\ runs = 0
    /\ executed = [t \in Workers |-> 0]

Goto(t, label) == pc' = [pc EXCEPT ![t] = label]

-----------------------------------------------------------------------------
(* The thread that owns the pool.                                          *)

\* init: one thread after the other, then the barrier unless async.
Spawn ==
    /\ main = "spawn"
    /\ IF next < NWorkers
         THEN /\ Goto(next, "init")
              /\ next' = next + 1
              /\ UNCHANGED main
         ELSE /\ main' = IF AsyncInit THEN "idle" ELSE "barrier"
              /\ UNCHANGED <<pc, next>>
    /\ UNCHANGED <<mtx, count, stop, initialized, func, runs, executed>>

\* Mutant: the barrier lets the owner go one arrival too early.
BarrierEarly ==
    /\ main = "barrier"
    /\ count + 1 >= NWorkers
    /\ main' = "reset"
    /\ UNCHANGED <<next, pc, mtx, count, stop, initialized, func, runs,
                   executed>>

\* Thread_barrier_standard::wait polls until everybody has arrived ...
Barrier ==
    /\ main = "barrier"
    /\ count = NWorkers
    /\ main' = "reset"
    /\ UNCHANGED <<next, pc, mtx, count, stop, initialized, func, runs,
                   executed>>

\* Mutant: the barrier is not ready for the next round.
ResetForgotten ==
    /\ main = "reset"
    /\ initialized' = TRUE
    /\ main' = IF func = Unset THEN "idle" ELSE "unset"
    /\ UNCHANGED <<next, pc, mtx, count, stop, func, runs, executed>>

\* ... then resets the counter.
ResetBarrier ==
    /\ main = "reset"
    /\ count' = 0
    /\ initialized' = TRUE
    /\ main' = IF func = Unset THEN "idle" ELSE "unset"
    /\ UNCHANGED <<next, pc, mtx, stop, func, runs, executed>>

UnsetFuncExec ==
    /\ main = "unset"
    /\ func' = Unset
    /\ main' = "idle"
    /\ UNCHANGED <<next, pc, mtx, count, stop, initialized, runs, executed>>

\* wait, after an asynchronous init or run.
Wait ==
    /\ main = "own" \/ (main = "idle" /\ ~ initialized)
    /\ main' = "barrier"
    /\ UNCHANGED <<next, pc, mtx, count, stop, initialized, func, runs,
                   executed>>

\* run: it throws if the pool is not initialized.
Run ==
    /\ main = "idle"
    /\ initialized
    /\ runs < MaxRuns
    /\ runs' = runs + 1
    /\ func' = runs + 1
    /\ main' = "notify"
    /\ next' = 0
    /\ UNCHANGED <<pc, mtx, count, stop, initialized, executed>>

\* lock_guard and notify_one: a worker that does not sleep hears nothing.
NotifyOne(t) ==
    /\ ~ mtx[t]
    /\ IF pc[t] = "asleep" THEN Goto(t, "wake") ELSE UNCHANGED pc

\* After the loop of run, the owner does its own share of the work.
Notify ==
    /\ main = "notify"
    /\ IF next < NWorkers
         THEN NotifyOne(next) /\ next' = next + 1 /\ UNCHANGED main
         ELSE main' = "own" /\ UNCHANGED <<pc, next>>
    /\ UNCHANGED <<mtx, count, stop, initialized, func, runs, executed>>

\* The destructor: stop_threads is set, then every worker is notified.
Destroy ==
    /\ main = "idle"
    /\ initialized
    /\ stop' = TRUE
    /\ main' = "stopping"
    /\ next' = 0
    /\ UNCHANGED <<pc, mtx, count, initialized, func, runs, executed>>

Stopping ==
    /\ main = "stopping"
    /\ IF next < NWorkers
         THEN NotifyOne(next) /\ next' = next + 1 /\ UNCHANGED main
         ELSE main' = "join" /\ next' = 0 /\ UNCHANGED pc
    /\ UNCHANGED <<mtx, count, stop, initialized, func, runs, executed>>

Join ==
    /\ main = "join"
    /\ IF next < NWorkers
         THEN pc[next] = "ended" /\ next' = next + 1 /\ UNCHANGED main
         ELSE main' = "done" /\ UNCHANGED next
    /\ UNCHANGED <<pc, mtx, count, stop, initialized, func, runs, executed>>

-----------------------------------------------------------------------------
(* _start_thread.                                                          *)

FuncInit(t) ==
    /\ pc[t] = "init"
    /\ Goto(t, "test")
    /\ UNCHANGED <<main, next, mtx, count, stop, initialized, func, runs,
                   executed>>

\* while (!stop_threads), and func_deinit.
TestStop(t) ==
    /\ pc[t] = "test"
    /\ Goto(t, IF stop THEN "ended" ELSE "lock")
    /\ UNCHANGED <<main, next, mtx, count, stop, initialized, func, runs,
                   executed>>

Lock(t) ==
    /\ pc[t] = "lock"
    /\ ~ mtx[t]
    /\ mtx' = [mtx EXCEPT ![t] = TRUE]
    /\ Goto(t, "arrive")
    /\ UNCHANGED <<main, next, count, stop, initialized, func, runs, executed>>

\* Thread_barrier_standard::arrive, with the mutex held.
Arrive(t) ==
    /\ pc[t] = "arrive"
    /\ count' = count + 1
    /\ Goto(t, "check")
    /\ UNCHANGED <<main, next, mtx, stop, initialized, func, runs, executed>>

\* arrive throws when there are too many; else the worker sleeps.
Check(t) ==
    /\ pc[t] = "check"
    /\ Goto(t, IF count > NWorkers THEN "terminated" ELSE "asleep")
    /\ mtx' = [mtx EXCEPT ![t] = FALSE]
    /\ UNCHANGED <<main, next, count, stop, initialized, func, runs, executed>>

\* cnd.wait returns with the mutex.
Relock(t) ==
    /\ pc[t] = "wake"
    /\ ~ mtx[t]
    /\ mtx' = [mtx EXCEPT ![t] = TRUE]
    /\ Goto(t, "retest")
    /\ UNCHANGED <<main, next, count, stop, initialized, func, runs, executed>>

\* Mutant: the worker does not look at stop_threads when it wakes up.
RetestNever(t) ==
    /\ pc[t] = "retest"
    /\ Goto(t, "exec")
    /\ UNCHANGED <<main, next, mtx, count, stop, initialized, func, runs,
                   executed>>

\* if (!stop_threads)
Retest(t) ==
    /\ pc[t] = "retest"
    /\ IF stop
         THEN Goto(t, "test") /\ mtx' = [mtx EXCEPT ![t] = FALSE]
         ELSE Goto(t, "exec") /\ UNCHANGED mtx
    /\ UNCHANGED <<main, next, count, stop, initialized, func, runs, executed>>

\* func_exec is called; the one unset throws.
Begin(t) ==
    /\ pc[t] = "exec"
    /\ Goto(t, IF func = Unset THEN "terminated" ELSE "running")
    /\ UNCHANGED <<main, next, mtx, count, stop, initialized, func, runs,
                   executed>>

\* It returns, and the end of the loop releases the mutex.
Finish(t) ==
    /\ pc[t] = "running"
    /\ executed' = [executed EXCEPT ![t] = @ + 1]
    /\ mtx' = [mtx EXCEPT ![t] = FALSE]
    /\ Goto(t, "test")
    /\ UNCHANGED <<main, next, count, stop, initialized, func, runs>>

-----------------------------------------------------------------------------

Worker(t) ==
    \/ FuncInit(t) \/ TestStop(t) \/ Lock(t) \/ Arrive(t) \/ Check(t)
    \/ Relock(t) \/ Retest(t) \/ Begin(t) \/ Finish(t)

Owner ==
    \/ Spawn \/ Barrier \/ ResetBarrier \/ UnsetFuncExec \/ Wait \/ Run
    \/ Notify \/ Destroy \/ Stopping \/ Join

Finished == main = "done" /\ UNCHANGED vars

Terminated == \E t \in Workers : pc[t] = "terminated"

Next ==
    \/ ~ Terminated /\ Owner
    \/ ~ Terminated /\ \E t \in Workers : Worker(t)
    \/ Finished

Spec == Init /\ [][Next]_vars

\* Every thread keeps running and the owner goes on to the destructor: it
\* runs the pool MaxRuns times at most.
Fairness ==
    /\ WF_vars(~ Terminated /\ Owner)
    /\ \A t \in Workers : WF_vars(~ Terminated /\ Worker(t))

FairSpec == Spec /\ Fairness

-----------------------------------------------------------------------------
(* Properties.                                                             *)

TypeOK ==
    /\ main \in {"spawn", "barrier", "reset", "unset", "idle", "notify",
                 "own", "stopping", "join", "done"}
    /\ next \in 0 .. NWorkers
    /\ pc \in [Workers -> {"unborn", "init", "test", "lock", "arrive",
                           "check", "asleep", "wake", "retest", "exec",
                           "running", "ended", "terminated"}]
    /\ mtx \in [Workers -> BOOLEAN]
    /\ count \in 0 .. NWorkers
    /\ stop \in BOOLEAN /\ initialized \in BOOLEAN
    /\ func \in 0 .. MaxRuns /\ runs \in 0 .. MaxRuns
    /\ executed \in [Workers -> 0 .. MaxRuns]

\* Has every worker that was started or notified been waited for?
Joined == initialized /\ main \in {"unset", "idle"}

\* When wait has returned, every worker is back at its condition variable,
\* or about to sleep with its mutex held.  stop_threads and func_exec are
\* neither atomic nor protected: the owner may change them only then.
Parked == Joined => \A t \in Workers : pc[t] \in {"check", "asleep"}

\* A notification is never lost: with its mutex taken by the owner, the
\* worker to be notified is asleep.
NotificationHeard ==
    main \in {"notify", "stopping"} /\ next < NWorkers /\ ~ mtx[next]
        => pc[next] = "asleep"

\* The workers whose arrival belongs to the round before: they have not been
\* notified since.
Earlier == {t \in Workers :
                Joined \/ (main \in {"notify", "stopping"} /\ next <= t)}

Waits(t) == pc[t] \in {"check", "asleep"}

Arrived == {t \in Workers \ Earlier : Waits(t)}

Woken == {"wake", "retest", "exec", "running"}

\* A worker that has the job of this round before it.
Owes(t) ==
    ~ stop /\ (pc[t] \in Woken \/ (main = "notify" /\ next <= t))

\* The owner is in a round, and func_exec is set.
InRound ==
    \/ main \in {"notify", "own", "unset"}
    \/ initialized /\ main \in {"barrier", "reset"}

Counted == count = Cardinality(Arrived)

Settled ==
    /\ \A t \in Earlier : Waits(t)
    /\ main = "reset" => \A t \in Workers : Waits(t)

Placed(t) ==
    /\ pc[t] # "terminated"
    /\ mtx[t] <=> pc[t] \in {"arrive", "check", "retest", "exec", "running"}
    /\ main = "spawn" /\ next <= t => pc[t] = "unborn"
    /\ ~ initialized => pc[t] \notin Woken
    /\ stop /\ t \notin Earlier => pc[t] \in {"wake", "retest", "test", "ended"}
    /\ executed[t] = IF Owes(t) THEN runs - 1 ELSE runs

Rounds ==
    /\ stop <=> main \in {"stopping", "join", "done"}
    /\ main = "spawn" => ~ initialized
    /\ main \in {"unset", "notify", "own", "stopping", "join", "done"} => initialized
    /\ InRound => runs > 0
    /\ func = IF InRound THEN runs ELSE Unset

\* The inductive invariant: the counter of the barrier is the number of workers
\* that have arrived in this round, and each worker is where the round of the
\* owner allows it to be.
IInv == Counted /\ Settled /\ (\A t \in Workers : Placed(t)) /\ Rounds

\* "Something went wrong, 'count' cannot be higher than 'n_threads'": the
\* check of arrive never throws, the barrier is reused safely.
CountBounded == \A t \in Workers : pc[t] = "check" => count <= NWorkers

\* The destructor stops the threads of the pool: none sleeps when the owner
\* starts to join them.
StopHeard == main = "join" => \A t \in Workers : pc[t] # "asleep"

ForkJoinOfPool == INSTANCE ForkJoin WITH
    round <- runs,
    phase <- IF main \in {"stopping", "join", "done"} THEN "stopped"
             ELSE IF func # Unset /\ main # "unset" THEN "running"
             ELSE "idle",
    done <- {t \in Workers : executed[t] = runs}

\* The mutexes, the condition variables and the barrier implement rounds in
\* which every worker does the job exactly once.
ImplementsForkJoin == ForkJoinOfPool!Spec

\* The owner ends: no wait, no lock and no join blocks it for ever.
Termination == <>(main = "done")

=============================================================================
