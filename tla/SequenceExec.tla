---------------------------- MODULE SequenceExec ----------------------------
(***************************************************************************)
(* runtime::Sequence::exec: every thread of a sequence runs its own clone  *)
(* of the tasks in a loop; the thread that calls exec is thread 0, the     *)
(* others belong to a pool, of which only the fork and the join are left   *)
(* here (see ForkJoin).  The loops share the flag force_exit_loop, the     *)
(* stop condition, the messages of the exceptions and the interruption     *)
(* flag of the signal handler.  A sequence that is a stage of a pipeline   *)
(* may wait in an adaptor for its neighbours, or be canceled by them.      *)
(***************************************************************************)
EXTENDS Naturals, Sequences, FiniteSets, Functions

CONSTANTS
    NThreads,
    Errors,         \* what tasks may throw: pairs <<signature, length>>
    Ends,           \* how executions end: pairs <<limit of the stop condition
                    \* "++counter >= limit", frames of the source of a thread>>
    Waits,          \* where the tasks of a stage may wait for a neighbour
    MaxExecs,       \* bound: calls of exec
    MaxErrors,      \* bound: exceptions thrown by tasks in all
    MaxSignals      \* bound: SIGINTs in all

\* The condition is always false, or the source never ends (or no auto_stop).
Never == 0

\* No exception.
None == <<"", 0>>

ASSUME SequenceAssumption ==
    /\ NThreads \in Nat \ {0}
    /\ None \notin Errors
    /\ Ends \subseteq Nat \X Nat /\ Ends # {}
    /\ Waits \subseteq {"own", "before"}
    /\ MaxExecs \in Nat /\ MaxErrors \in Nat /\ MaxSignals \in Nat

Threads == 0 .. NThreads - 1

\* A thread waits in modules of its stage.  Only the adaptor from which thread 0
\* pulls is a module of the stage before, unless the stage is the last one.
WaitingModules(t) == IF t = 0 THEN Waits ELSE Waits \ {"before"}

Free == NThreads

VARIABLES
    main,       \* the caller: "idle", "running", "returned" or "thrown"
    pc,         \* where each thread is in its loop, or in which module it waits
    force,      \* force_exit_loop (atomic)
    sigint,     \* g_sigint
    handler,    \* is the signal handler in its pause?
    mtx,        \* who holds mtx_exception
    error,      \* the exception each thread is handling
    seen,       \* has its signature been found?
    prev,       \* prev_exception_messages
    display,    \* prev_exception_messages_to_display
    limit, length,      \* how this execution ends
    calls,      \* calls of its stop condition
    executed,   \* iterations of each thread
    canceled,   \* which waiting modules are canceled
    failed,     \* has a task thrown: "never", "before" this execution or "now"
    late,       \* iterations begun since the loops have to end, up to 2
    execs, errors, signals

shared == <<force, mtx, error, seen, prev, display>>
counts == <<limit, length, calls, executed, late>>
signal == <<sigint, handler, signals>>
bounds == <<execs, errors>>
vars == <<main, pc, shared, counts, signal, canceled, failed, bounds>>

Init ==
    /\ main = "idle"
    /\ pc = [t \in Threads |-> "parked"]
    /\ force = FALSE
    /\ sigint = FALSE
    /\ handler = FALSE
    /\ mtx = Free
    /\ error = [t \in Threads |-> None]
    /\ seen = [t \in Threads |-> FALSE]
    /\ prev = <<>>
    /\ display = <<>>
    /\ \E e \in Ends : limit = e[1] /\ length = e[2]
    /\ calls = 0
    /\ executed = [t \in Threads |-> 0]
    /\ canceled = {}
    /\ failed = "never"
    /\ late = [t \in Threads |-> 0]
    /\ execs = 0 /\ errors = 0 /\ signals = 0

Goto(t, label) == pc' = [pc EXCEPT ![t] = label]

-----------------------------------------------------------------------------
(* The caller.                                                             *)

\* thread_pool->run, then the own loop; every thread starts when it can.
Exec ==
    /\ main # "running"
    /\ execs < MaxExecs
    /\ execs' = execs + 1
    /\ main' = "running"
    /\ pc' = [t \in Threads |-> "start"]
    /\ \E e \in Ends : limit' = e[1] /\ length' = e[2]
    /\ calls' = 0
    /\ executed' = [t \in Threads |-> 0]
    /\ late' = [t \in Threads |-> 0]
    /\ canceled' = {}
    /\ failed' = IF failed = "now" THEN "before" ELSE failed
    /\ UNCHANGED <<force, mtx, error, seen, prev, display, signal, errors>>

\* Mutant: the caller does not wait for the pool.
AllEndedCaller == pc[0] = "end"

AllEnded == \A t \in Threads : pc[t] = "end"

\* *force_exit_loop = false
ClearForce == force' = FALSE

\* thread_pool->wait has returned: the last message is thrown, if any (also when
\* it is left from an earlier execution).
Join ==
    /\ main = "running"
    /\ AllEnded
    /\ IF display = <<>>
         THEN main' = "returned" /\ UNCHANGED force
         ELSE main' = "thrown" /\ ClearForce
    /\ pc' = [t \in Threads |-> "parked"]
    /\ UNCHANGED <<mtx, error, seen, prev, display, counts, signal, canceled,
                   failed, bounds>>

-----------------------------------------------------------------------------
(* _exec and _exec_without_statuses, on one thread.                        *)

\* Mutant: a while loop instead of do ... while.
ResetSigintWhile(t) ==
    /\ pc[t] = "start"
    /\ sigint' = FALSE
    /\ Goto(t, "testForce")
    /\ UNCHANGED <<main, shared, counts, handler, signals, canceled, failed,
                   bounds>>

ResetSigint(t) ==
    /\ pc[t] = "start"
    /\ sigint' = FALSE
    /\ Goto(t, "begin")
    /\ UNCHANGED <<main, shared, counts, handler, signals, canceled, failed,
                   bounds>>

AllStarted == \A t \in Threads : pc[t] # "start"

SourceDone == length # Never /\ \E t \in Threads : executed[t] >= length

\* The loops have to end (a thread that starts takes the signal back).
Ending == force \/ SourceDone \/ (sigint /\ AllStarted)

\* The switchers are reset and the tasks of the iteration begin.
Begin(t) ==
    /\ pc[t] = "begin"
    /\ late' = [late EXCEPT ![t] = IF Ending /\ @ < 2 THEN @ + 1 ELSE @]
    /\ Goto(t, "body")
    /\ UNCHANGED <<main, shared, limit, length, calls, executed, signal,
                   canceled, failed, bounds>>

\* A count of iterations matters only as long as it may end the execution.
Counted(t) ==
    IF limit # Never \/ executed[t] < length
        THEN executed[t] + 1 ELSE executed[t]

\* The tasks complete, or throw processing_aborted, which is ignored.
Complete(t) ==
    /\ pc[t] \in {"body", "served"}
    /\ executed' = [executed EXCEPT ![t] = Counted(t)]
    /\ Goto(t, "testForce")
    /\ UNCHANGED <<main, shared, limit, length, calls, late, signal, canceled,
                   failed, bounds>>

\* A task of a stage waits for a neighbour, which may serve it, even when it
\* is canceled (one wait in an iteration stands for all of them).
Wait(t, m) ==
    /\ pc[t] = "body"
    /\ Goto(t, m)
    /\ UNCHANGED <<main, shared, counts, signal, canceled, failed, bounds>>

Served(t) ==
    /\ pc[t] \in Waits
    /\ Goto(t, "served")
    /\ UNCHANGED <<main, shared, counts, signal, canceled, failed, bounds>>

\* waiting_canceled ends the loop, whatever the other conditions.
WaitingCanceled(t) ==
    /\ pc[t] \in canceled
    /\ Goto(t, "end")
    /\ UNCHANGED <<main, shared, counts, signal, canceled, failed, bounds>>

\* Any other exception: *force_exit_loop = true.
Throw(t, e) ==
    /\ pc[t] \in {"body", "served"}
    /\ errors < MaxErrors
    /\ errors' = errors + 1
    /\ error' = [error EXCEPT ![t] = e]
    /\ failed' = "now"
    /\ Goto(t, "caught")
    /\ UNCHANGED <<main, force, mtx, seen, prev, display, counts,
                   signal, canceled, execs>>

\* Mutant: the other threads are not told.
CatchAlone(t) ==
    /\ pc[t] = "caught"
    /\ Goto(t, "lock")
    /\ UNCHANGED <<main, shared, counts, signal, canceled, failed, bounds>>

Catch(t) ==
    /\ pc[t] = "caught"
    /\ force' = TRUE
    /\ Goto(t, "lock")
    /\ UNCHANGED <<main, mtx, error, seen, prev, display, counts,
                   signal, canceled, failed, bounds>>

Lock(t) ==
    /\ pc[t] = "lock"
    /\ mtx = Free
    /\ mtx' = t
    /\ Goto(t, "find")
    /\ UNCHANGED <<main, force, error, seen, prev, display, counts,
                   signal, canceled, failed, bounds>>

\* std::find of the signature among the previous messages.
Find(t) ==
    /\ pc[t] = "find"
    /\ seen' = [seen EXCEPT ![t] = \E i \in DOMAIN prev : prev[i] = error[t][1]]
    /\ Goto(t, "record")
    /\ UNCHANGED <<main, force, mtx, error, prev, display, counts,
                   signal, canceled, failed, bounds>>

\* A new message is appended; a known one replaces the last message to be
\* displayed if it is longer than this.
Record(t) ==
    /\ pc[t] = "record"
    /\ IF ~ seen[t]
         THEN /\ prev' = Append(prev, error[t][1])
              /\ display' = Append(display, error[t])
         ELSE /\ UNCHANGED prev
              /\ display' = IF error[t][2] > display[Len(display)][2]
                              THEN [display EXCEPT ![Len(display)] = error[t]]
                              ELSE display
    /\ mtx' = Free
    /\ error' = [error EXCEPT ![t] = None]
    /\ seen' = [seen EXCEPT ![t] = FALSE]
    /\ Goto(t, "end")
    /\ UNCHANGED <<main, force, counts, signal, canceled, failed,
                   bounds>>

\* while (!*force_exit_loop && ...
TestForce(t) ==
    /\ pc[t] = "testForce"
    /\ Goto(t, IF force THEN "leave" ELSE "testStop")
    /\ UNCHANGED <<main, shared, counts, signal, canceled, failed, bounds>>

\* ... !stop_condition() ...
TestStop(t) ==
    /\ pc[t] = "testStop"
    /\ IF limit = Never
         THEN Goto(t, "testDone") /\ UNCHANGED calls
         ELSE /\ calls' = calls + 1
              /\ Goto(t, IF calls + 1 >= limit THEN "leave" ELSE "testDone")
    /\ UNCHANGED <<main, shared, limit, length, executed, late, signal,
                   canceled, failed, bounds>>

\* is_done asks the sources of all the threads.
IsDone(t) ==
    length # Never /\ \E u \in Threads : executed[u] >= length

TestDone(t) ==
    /\ pc[t] = "testDone"
    /\ Goto(t, IF IsDone(t) THEN "leave" ELSE "testSigint")
    /\ UNCHANGED <<main, shared, counts, signal, canceled, failed, bounds>>

\* ... && !is_sigint())
TestSigint(t) ==
    /\ pc[t] = "testSigint"
    /\ Goto(t, IF sigint THEN "leave" ELSE "begin")
    /\ UNCHANGED <<main, shared, counts, signal, canceled, failed, bounds>>

\* Mutant: the other threads are left waiting.
LeaveAlone(t) ==
    /\ pc[t] = "leave"
    /\ Goto(t, "end")
    /\ UNCHANGED <<main, shared, counts, signal, canceled, failed, bounds>>

\* After the loop an interrupted thread cancels the modules of the sequence.
Leave(t) ==
    /\ pc[t] = "leave"
    /\ canceled' = IF sigint THEN canceled \cup {"own"} ELSE canceled
    /\ Goto(t, "end")
    /\ UNCHANGED <<main, shared, counts, signal, failed, bounds>>

-----------------------------------------------------------------------------
(* The environment.                                                        *)

\* SIGINT: the handler pauses, then sets the flag.
Interrupt ==
    /\ signals < MaxSignals
    /\ ~ handler
    /\ signals' = signals + 1
    /\ handler' = TRUE
    /\ UNCHANGED <<main, pc, shared, counts, sigint, canceled, failed, bounds>>

SetSigint ==
    /\ handler
    /\ handler' = FALSE
    /\ sigint' = TRUE
    /\ UNCHANGED <<main, pc, shared, counts, signals, canceled, failed, bounds>>

\* The pipeline, or an interrupted neighbour, cancels waiting modules.
CancelWaiting(m) ==
    /\ main = "running"
    /\ m \notin canceled
    /\ canceled' = canceled \cup {m}
    /\ UNCHANGED <<main, pc, shared, counts, signal, failed, bounds>>

-----------------------------------------------------------------------------

Loop(t) ==
    \/ ResetSigint(t) \/ Begin(t) \/ Complete(t) \/ WaitingCanceled(t)
    \/ Catch(t) \/ Lock(t) \/ Find(t) \/ Record(t)
    \/ TestForce(t) \/ TestStop(t) \/ TestDone(t) \/ TestSigint(t) \/ Leave(t)

\* What nobody owes to a thread: to wait, to be served, to throw.
Chance(t) ==
    \/ \E m \in WaitingModules(t) : Wait(t, m)
    \/ Served(t)
    \/ \E e \in Errors : Throw(t, e)

Finished == main # "running" /\ UNCHANGED vars

Next ==
    \/ Exec \/ Join
    \/ \E t \in Threads : Loop(t) \/ Chance(t)
    \/ Interrupt \/ SetSigint
    \/ \E m \in Waits : CancelWaiting(m)
    \/ Finished

Spec == Init /\ [][Next]_vars

\* The operating system runs every thread, tasks that do not wait complete, a
\* signal that was caught is handled.  Nobody has to call exec, to serve, to
\* throw, to interrupt or to cancel.
Fairness ==
    /\ \A t \in Threads : WF_vars(Loop(t))
    /\ WF_vars(Join)
    /\ WF_vars(SetSigint)

FairSpec == Spec /\ Fairness

-----------------------------------------------------------------------------
(* Properties.                                                             *)

Labels == {"parked", "start", "begin", "body", "served", "caught",
           "lock", "find", "record", "testForce", "testStop", "testDone",
           "testSigint", "leave", "end"}

\* The type of the state; an exception is held exactly while it is handled, and
\* mtx_exception exactly while its signature is looked for and stored.
TypeOK ==
    /\ main \in {"idle", "running", "returned", "thrown"}
    /\ pc \in [Threads -> Labels \cup Waits]
    /\ force \in BOOLEAN /\ sigint \in BOOLEAN /\ handler \in BOOLEAN
    /\ canceled \subseteq Waits \cup {"own"}
    /\ mtx \in Threads \cup {Free}
    /\ error \in [Threads -> Errors \cup {None}]
    /\ seen \in [Threads -> BOOLEAN]
    /\ prev \in Seq({e[1] : e \in Errors})
    /\ display \in Seq(Errors)
    /\ <<limit, length>> \in Ends /\ calls \in Nat
    /\ executed \in [Threads -> Nat]
    /\ late \in [Threads -> 0 .. 2]
    /\ failed \in {"never", "before", "now"}
    /\ execs \in 0 .. MaxExecs /\ errors \in 0 .. MaxErrors
    /\ signals \in 0 .. MaxSignals
    /\ \A t \in Threads :
        /\ error[t] # None <=> pc[t] \in {"caught", "lock", "find", "record"}
        /\ mtx = t <=> pc[t] \in {"find", "record"}

\* exec returns normally only when no task of any thread threw in it, and throws
\* only when one has, in this execution or before it; threads that fail with the
\* same signature at the same time leave one message for it (mtx_exception).
ErrorsReported ==
    /\ main = "returned" => failed # "now"
    /\ main = "thrown" => failed # "never"
    /\ \A i, j \in DOMAIN prev : i # j => prev[i] # prev[j]

\* Once an exception, the end of a source or a signal ends the loops, no thread
\* begins more than one further iteration.
Overshoot == \A t \in Threads : late[t] <= 1

\* Neither too many iterations nor too few: an execution that only its limit
\* ended has run limit - 1 iterations that were followed by another, and the
\* last one of each thread; what else ends the loops is heard at once.
IterationsExact ==
    /\ Overshoot
    /\ (/\ main = "returned"
        /\ limit # Never
        /\ ~ SourceDone /\ canceled = {} /\ signals = 0)
       => SumFunction(executed) = (limit - 1) + NThreads

\* After an exception, the end of a source or with a limit, every thread ends,
\* unless it comes to wait for a neighbour.
LoopsEnd ==
    \A t \in Threads :
        (main = "running" /\ (failed = "now" \/ SourceDone \/ limit # Never))
            ~> pc[t] \in Waits \cup {"end", "parked"}

\* A signal seen when all the threads have started ends exec as soon as one
\* thread finishes its iteration: that thread cancels the waiting of the others,
\* even when their neighbours never serve them.  Only thread 0 may come to wait
\* in a module of the stage before, which that stage has to cancel.
InterruptStops ==
    (/\ sigint /\ AllStarted /\ main = "running"
     /\ \E t \in Threads :
         pc[t] \in {"testForce", "testStop", "testDone", "testSigint", "leave"})
        ~> main # "running" \/ pc[0] = "before"

=============================================================================
