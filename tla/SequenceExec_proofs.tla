------------------------ MODULE SequenceExec_proofs ------------------------
(***************************************************************************)
(* Theorems about SequenceExec, for any number of threads, executions,     *)
(* exceptions and signals: its types and the mutual exclusion of the       *)
(* messages, the exceptions that exec reports, the iterations that threads *)
(* begin after the loops have to end, and the number of iterations of an   *)
(* execution that ends at its limit.                                       *)
(***************************************************************************)
EXTENDS SequenceExec, WellFoundedInduction, FiniteSetTheorems, TLAPS

\* A set of naturals has a least element: what holds of 0, and of n if it holds of
\* n - 1, has no least exception.
LEMMA LeastNat ==
  ASSUME NEW T \in SUBSET Nat, T # {}
  PROVE \E x \in T : \A y \in T : x <= y
<1> DEFINE R == {ss \in Nat \X Nat : ss[1] < ss[2]}
<1>1. IsWellFoundedOn(R, Nat)
  BY NatLessThanWellFounded DEF OpToRel
<1>2. \A x, y \in Nat : <<x, y>> \in R <=> x < y
  OBVIOUS
<1> HIDE DEF R
<1>3. PICK x \in T : \A y \in T : ~ (<<y, x>> \in R)
  BY <1>1, WFMin
<1>4. \A y \in T : y \in Nat /\ x \in Nat /\ ~ (y < x)
  BY <1>2, <1>3
<1> QED BY <1>4

\* Between two calls of exec, all threads are out of their loops.
Apart == main # "running" => \A t \in Threads : pc[t] = "parked"

\* The signatures of prev, as a set.
Known == {prev[i] : i \in DOMAIN prev}

\* Each signature has one message, and what a thread has found about the
\* signature of its exception remains true until the message is recorded.
Recorded ==
    /\ Len(prev) = Len(display)
    /\ \A i, j \in DOMAIN prev : i # j => prev[i] # prev[j]
    /\ \A t \in Threads : pc[t] = "record" => (seen[t] <=> error[t][1] \in Known)

\* An exception that was thrown is still handled by its thread or has its message.
Reported ==
    /\ failed # "never" <=> (display # <<>> \/ \E t \in Threads : error[t] # None)
    /\ main = "returned" => failed # "now"
    /\ main = "thrown" => failed # "never"

\* What ends the loops lasts until they have ended, and a thread that has begun
\* an iteration after it has not passed the test that tells it.
Told(t) ==
    late[t] # 0 =>
        /\ late[t] = 1
        /\ main = "running" => Ending
        /\ pc[t] \notin {"start", "begin"}
        /\ pc[t] \in {"testStop", "testDone"} => SourceDone \/ (sigint /\ AllStarted)
        /\ pc[t] = "testSigint" => sigint /\ AllStarted

IInv == TypeOK /\ Apart /\ Recorded /\ Reported /\ \A t \in Threads : Told(t)

-----------------------------------------------------------------------------
(* Types.                                                                  *)

\* TypeOK without what it says about the exceptions and the mutex.
Types ==
    /\ main \in {"idle", "running", "returned", "thrown"}
    /\ pc \in [Threads -> Labels \cup Waits]
    /\ force \in BOOLEAN /\ sigint \in BOOLEAN /\ handler \in BOOLEAN
    /\ canceled \subseteq Waits \cup {"own"}
    /\ mtx \in Threads \cup {Free}
    /\ error \in [Threads -> Errors \cup {None}]
    /\ seen \in [Threads -> BOOLEAN]
    /\ <<limit, length>> \in Ends /\ calls \in Nat
    /\ executed \in [Threads -> Nat]
    /\ late \in [Threads -> 0 .. 2]
    /\ failed \in {"never", "before", "now"}
    /\ execs \in 0 .. MaxExecs /\ errors \in 0 .. MaxErrors
    /\ signals \in 0 .. MaxSignals

Messages == prev \in Seq({e[1] : e \in Errors}) /\ display \in Seq(Errors)

Holding ==
    \A t \in Threads :
        /\ error[t] # None <=> pc[t] \in {"caught", "lock", "find", "record"}
        /\ mtx = t <=> pc[t] \in {"find", "record"}

\* The parts of the type invariant that the steps below are about.
LEMMA TypeParts == TypeOK <=> Types /\ Messages /\ Holding
BY DEF TypeOK, Types, Messages, Holding

\* The invariant holds once the threads are about to begin.
LEMMA InitIInv == Init => IInv
<1> SUFFICES ASSUME Init PROVE IInv
    OBVIOUS
<1> USE SequenceAssumption DEF Init
<1>1. Types
  <2>1. <<limit, length>> \in Ends
    <3>1. PICK e \in Ends : limit = e[1] /\ length = e[2]
      OBVIOUS
    <3>2. QED BY <3>1
  <2>2. pc \in [Threads -> Labels \cup Waits] /\ error \in [Threads -> Errors \cup {None}]
    BY DEF Labels
  <2>3. late \in [Threads -> 0 .. 2] /\ executed \in [Threads -> Nat]
    OBVIOUS
  <2>4. seen \in [Threads -> BOOLEAN]
    OBVIOUS
  <2>5. execs \in 0 .. MaxExecs /\ errors \in 0 .. MaxErrors /\ signals \in 0 .. MaxSignals
    OBVIOUS
  <2>6. QED BY <2>1, <2>2, <2>3, <2>4, <2>5 DEF Types
<1>2. Messages
  BY DEF Messages
<1>3. Holding
  BY DEF Holding, Threads, Free
<1>4. Apart /\ Recorded /\ Reported
  BY DEF Apart, Recorded, Reported
<1>5. ASSUME NEW t \in Threads PROVE Told(t)
  BY DEF Told
<1>6. QED BY <1>1, <1>2, <1>3, <1>4, <1>5, TypeParts DEF IInv

\* Every step keeps the plain types.
LEMMA TypesStep == Types /\ [Next]_vars => Types'
<1> SUFFICES ASSUME Types, [Next]_vars PROVE Types'
    OBVIOUS
<1> USE SequenceAssumption DEF Types, Labels
<1> USE DEF shared, counts, signal, bounds
<1>1. CASE Exec
  BY <1>1 DEF Exec
<1>2. CASE Join
  BY <1>2 DEF Join, ClearForce
<1>3. ASSUME NEW t \in Threads, Loop(t) PROVE Types'
  <2>1. CASE ResetSigint(t)
    BY <2>1 DEF ResetSigint, Goto
  <2>2. CASE Begin(t)
    BY <2>2 DEF Begin, Goto
  <2>3. CASE Complete(t)
    BY <2>3 DEF Complete, Counted, Goto
  <2>4. CASE WaitingCanceled(t)
    BY <2>4 DEF WaitingCanceled, Goto
  <2>5. CASE Catch(t)
    BY <2>5 DEF Catch, Goto
  <2>6. CASE Lock(t)
    BY <2>6 DEF Lock, Goto
  <2>7. CASE Find(t)
    BY <2>7 DEF Find, Goto
  <2>8. CASE Record(t)
    BY <2>8 DEF Record, Goto
  <2>9. CASE TestForce(t)
    BY <2>9 DEF TestForce, Goto
  <2>10. CASE TestStop(t)
    BY <2>10 DEF TestStop, Goto
  <2>11. CASE TestDone(t)
    BY <2>11 DEF TestDone, Goto
  <2>12. CASE TestSigint(t)
    BY <2>12 DEF TestSigint, Goto
  <2>13. CASE Leave(t)
    BY <2>13 DEF Leave, Goto
  <2>14. QED BY <1>3, <2>1, <2>2, <2>3, <2>4, <2>5, <2>6, <2>7, <2>8, <2>9, <2>10, <2>11, <2>12, <2>13 DEF Loop
<1>4. ASSUME NEW t \in Threads, Chance(t) PROVE Types'
  <2>1. ASSUME NEW m \in WaitingModules(t), Wait(t, m) PROVE Types'
    BY <2>1 DEF Wait, Goto, WaitingModules
  <2>2. CASE Served(t)
    BY <2>2 DEF Served, Goto
  <2>3. ASSUME NEW e \in Errors, Throw(t, e) PROVE Types'
    BY <2>3 DEF Throw, Goto
  <2>4. QED BY <1>4, <2>1, <2>2, <2>3 DEF Chance
<1>5. CASE Interrupt
  BY <1>5 DEF Interrupt
<1>6. CASE SetSigint
  BY <1>6 DEF SetSigint
<1>7. ASSUME NEW m \in Waits, CancelWaiting(m) PROVE Types'
  BY <1>7 DEF CancelWaiting
<1>8. CASE UNCHANGED vars
  BY <1>8 DEF vars
<1>9. QED BY <1>1, <1>2, <1>3, <1>4, <1>5, <1>6, <1>7, <1>8 DEF Next, Finished

\* A thread handles an exception exactly from catch to record, holds the mutex
\* from find to record only, and exec returns when all have left their loops.
LEMMA HoldingStep == Types /\ Holding /\ Apart /\ [Next]_vars => Holding' /\ Apart'
<1> SUFFICES ASSUME Types, Holding, Apart, [Next]_vars PROVE Holding' /\ Apart'
    OBVIOUS
<1> USE SequenceAssumption DEF Types, Holding, Apart, Goto
<1> USE DEF shared, counts, signal, bounds
<1>0. Free \notin Threads
  BY DEF Free, Threads
<1>w. Waits \cap Labels = {}
  BY DEF Labels
<1>1. CASE Exec
  BY <1>1 DEF Exec
<1>2. CASE Join
  BY <1>2 DEF Join, ClearForce, AllEnded
<1>3. ASSUME NEW t \in Threads, Loop(t) PROVE Holding' /\ Apart'
  <2>1. CASE ResetSigint(t)
    BY <2>1 DEF ResetSigint
  <2>2. CASE Begin(t)
    BY <2>2 DEF Begin
  <2>3. CASE Complete(t)
    BY <2>3 DEF Complete
  <2>4. CASE WaitingCanceled(t)
    BY <2>4, <1>w DEF WaitingCanceled, Labels
  <2>5. CASE Catch(t)
    BY <2>5 DEF Catch
  <2>6. CASE Lock(t)
    BY <2>6, <1>0 DEF Lock
  <2>7. CASE Find(t)
    BY <2>7 DEF Find
  <2>8. CASE Record(t)
    BY <2>8, <1>0 DEF Record
  <2>9. CASE TestForce(t)
    BY <2>9 DEF TestForce
  <2>10. CASE TestStop(t)
    BY <2>10 DEF TestStop
  <2>11. CASE TestDone(t)
    BY <2>11 DEF TestDone
  <2>12. CASE TestSigint(t)
    BY <2>12 DEF TestSigint
  <2>13. CASE Leave(t)
    BY <2>13 DEF Leave
  <2>14. QED BY <1>3, <2>1, <2>2, <2>3, <2>4, <2>5, <2>6, <2>7, <2>8, <2>9, <2>10, <2>11, <2>12, <2>13 DEF Loop
<1>4. ASSUME NEW t \in Threads, Chance(t) PROVE Holding' /\ Apart'
  <2>1. ASSUME NEW m \in WaitingModules(t), Wait(t, m) PROVE Holding' /\ Apart'
    BY <2>1, <1>w DEF Wait, WaitingModules, Labels
  <2>2. CASE Served(t)
    BY <2>2, <1>w DEF Served, Labels
  <2>3. ASSUME NEW e \in Errors, Throw(t, e) PROVE Holding' /\ Apart'
    BY <2>3 DEF Throw
  <2>4. QED BY <1>4, <2>1, <2>2, <2>3 DEF Chance
<1>5. CASE Interrupt
  BY <1>5 DEF Interrupt
<1>6. CASE SetSigint
  BY <1>6 DEF SetSigint
<1>7. ASSUME NEW m \in Waits, CancelWaiting(m) PROVE Holding' /\ Apart'
  BY <1>7 DEF CancelWaiting
<1>8. CASE UNCHANGED vars
  BY <1>8 DEF vars
<1>9. QED BY <1>1, <1>2, <1>3, <1>4, <1>5, <1>6, <1>7, <1>8 DEF Next, Finished

-----------------------------------------------------------------------------
(* Exceptions.                                                             *)

\* A step that neither records a message nor looks for one.
LEMMA NothingRecorded ==
    ASSUME Messages, Recorded,
           UNCHANGED <<prev, display>>,
           \A t \in Threads : pc'[t] = "record" =>
               pc[t] = "record" /\ error'[t] = error[t] /\ seen'[t] = seen[t]
    PROVE  Messages' /\ Recorded'
BY DEF Messages, Recorded, Known

\* A message is found and recorded under the mutex: no other thread is between
\* the two.
LEMMA FindRecorded ==
    ASSUME Types, Messages, Holding, Recorded, NEW t \in Threads, Find(t)
    PROVE  Messages' /\ Recorded'
<1> USE DEF Types, Goto, Find, shared
<1>1. Messages'
  BY DEF Messages
<1>2. Known' = Known /\ UNCHANGED <<prev, display, error>>
  BY DEF Known
<1>3. ASSUME NEW u \in Threads, pc'[u] = "record"
      PROVE  seen'[u] <=> error'[u][1] \in Known'
  <2>1. CASE u = t
    BY <2>1, <1>2 DEF Known
  <2>2. CASE u # t
    BY <2>2, <1>2, <1>3 DEF Recorded
  <2>3. QED BY <2>1, <2>2
<1>4. QED BY <1>1, <1>2, <1>3 DEF Recorded

\* Storing a message: a signature that was not found is new, and under the mutex
\* no other thread has anything found.
LEMMA RecordRecorded ==
    ASSUME Types, Messages, Holding, Recorded, NEW t \in Threads, Record(t)
    PROVE  Messages' /\ Recorded' /\ display' # <<>>
<1> USE DEF Types, Goto
<1>0. Free \notin Threads
  BY SequenceAssumption DEF Free, Threads
<1>1. pc[t] = "record" /\ error[t] \in Errors
  BY DEF Record, Holding
<1>2. \A u \in Threads : pc'[u] # "record"
  <2>1. ASSUME NEW u \in Threads, u # t PROVE pc[u] # "record"
    BY <1>1, <2>1 DEF Holding
  <2>2. QED BY <2>1 DEF Record
<1>3. CASE ~seen[t]
  <2>1. prev' = Append(prev, error[t][1]) /\ display' = Append(display, error[t])
    BY <1>3 DEF Record
  <2>2. Messages'
    BY <2>1, <1>1 DEF Messages
  <2>3. Len(prev') = Len(display') /\ display' # <<>>
    <3>1. Len(prev') = Len(prev) + 1 /\ error[t][1] \in {x[1] : x \in Errors}
      BY <2>1, <1>1 DEF Messages
    <3>2. Len(display') = Len(display) + 1 /\ Len(display) \in Nat
      BY <2>1, <1>1 DEF Messages
    <3>3. Len(display') # 0
      BY <3>2
    <3>4. QED BY <3>1, <3>2, <3>3 DEF Recorded
  <2>4. error[t][1] \notin Known
    BY <1>1, <1>3 DEF Recorded
  <2>5. ASSUME NEW i \in DOMAIN prev', NEW j \in DOMAIN prev', i # j
        PROVE  prev'[i] # prev'[j]
    <3>1. DOMAIN prev = 1 .. Len(prev) /\ Len(prev) \in Nat /\ DOMAIN prev' = 1 .. Len(prev) + 1
      BY <2>1, <1>1 DEF Messages
    <3>2. \A k \in DOMAIN prev' :
            prev'[k] = IF k \in DOMAIN prev THEN prev[k] ELSE error[t][1]
      BY <2>1, <3>1, <1>1 DEF Messages
    <3>3. i \in DOMAIN prev \/ j \in DOMAIN prev
      BY <2>5, <3>1
    <3>4. QED BY <2>4, <2>5, <3>2, <3>3 DEF Recorded, Known
  <2>6. QED BY <1>2, <2>2, <2>3, <2>5 DEF Recorded
<1>4. CASE seen[t]
  <2>1. error[t][1] \in Known
    BY <1>1, <1>4 DEF Recorded
  <2>2. Len(display) \in DOMAIN display /\ Len(prev) = Len(display)
    BY <2>1 DEF Messages, Recorded, Known
  <2>3. prev' = prev
    BY <1>4 DEF Record
  <2>4. display' \in Seq(Errors) /\ Len(display') = Len(display)
    <3>1. CASE display' = display
      BY <3>1 DEF Messages
    <3>2. CASE display' = [display EXCEPT ![Len(display)] = error[t]]
      BY <3>2, <2>2, <1>1 DEF Messages
    <3>3. QED BY <1>4, <3>1, <3>2 DEF Record
  <2>5. QED BY <1>2, <2>2, <2>3, <2>4 DEF Messages, Recorded
<1>5. QED BY <1>3, <1>4

\* Every step keeps one message for a signature, and what was found of it.
LEMMA RecordedStep ==
    Types /\ Messages /\ Holding /\ Recorded /\ [Next]_vars => Messages' /\ Recorded'
<1> SUFFICES ASSUME Types, Messages, Holding, Recorded, [Next]_vars PROVE Messages' /\ Recorded'
    OBVIOUS
<1> USE DEF Types, Goto, shared
<1>w. "record" \notin Waits
  BY SequenceAssumption
<1>1. CASE Exec
  BY <1>1, NothingRecorded DEF Exec
<1>2. CASE Join
  BY <1>2, NothingRecorded DEF Join
<1>3. ASSUME NEW t \in Threads, Loop(t) PROVE Messages' /\ Recorded'
  <2>1. CASE ResetSigint(t)
    BY <2>1, NothingRecorded DEF ResetSigint
  <2>2. CASE Begin(t)
    BY <2>2, NothingRecorded DEF Begin
  <2>3. CASE Complete(t)
    BY <2>3, NothingRecorded DEF Complete
  <2>4. CASE WaitingCanceled(t)
    BY <2>4, NothingRecorded DEF WaitingCanceled
  <2>5. CASE Catch(t)
    BY <2>5, NothingRecorded DEF Catch
  <2>6. CASE Lock(t)
    BY <2>6, NothingRecorded DEF Lock
  <2>7. CASE Find(t)
    BY <2>7, FindRecorded
  <2>8. CASE Record(t)
    BY <2>8, RecordRecorded
  <2>9. CASE TestForce(t)
    BY <2>9, NothingRecorded DEF TestForce
  <2>10. CASE TestStop(t)
    BY <2>10, NothingRecorded DEF TestStop
  <2>11. CASE TestDone(t)
    BY <2>11, NothingRecorded DEF TestDone
  <2>12. CASE TestSigint(t)
    BY <2>12, NothingRecorded DEF TestSigint
  <2>13. CASE Leave(t)
    BY <2>13, NothingRecorded DEF Leave
  <2>14. QED BY <1>3, <2>1, <2>2, <2>3, <2>4, <2>5, <2>6, <2>7, <2>8, <2>9, <2>10, <2>11, <2>12, <2>13 DEF Loop
<1>4. ASSUME NEW t \in Threads, Chance(t) PROVE Messages' /\ Recorded'
  <2>1. ASSUME NEW m \in WaitingModules(t), Wait(t, m) PROVE Messages' /\ Recorded'
    BY <2>1, <1>w, NothingRecorded DEF Wait, WaitingModules
  <2>2. CASE Served(t)
    BY <2>2, NothingRecorded DEF Served
  <2>3. ASSUME NEW e \in Errors, Throw(t, e) PROVE Messages' /\ Recorded'
    BY <2>3, NothingRecorded DEF Throw
  <2>4. QED BY <1>4, <2>1, <2>2, <2>3 DEF Chance
<1>5. CASE Interrupt
  BY <1>5, NothingRecorded DEF Interrupt
<1>6. CASE SetSigint
  BY <1>6, NothingRecorded DEF SetSigint
<1>7. ASSUME NEW m \in Waits, CancelWaiting(m) PROVE Messages' /\ Recorded'
  BY <1>7, NothingRecorded DEF CancelWaiting
<1>8. CASE UNCHANGED vars
  BY <1>8, NothingRecorded DEF vars
<1>9. QED BY <1>1, <1>2, <1>3, <1>4, <1>5, <1>6, <1>7, <1>8 DEF Next, Finished

\* What is said of the exceptions depends on few variables.
LEMMA NothingReported ==
    ASSUME Reported, UNCHANGED <<main, failed, display, error>>
    PROVE  Reported'
BY DEF Reported

\* No step loses an exception: it is handled, recorded or thrown by exec.
LEMMA ReportedStep ==
    Types /\ Messages /\ Holding /\ Apart /\ Recorded /\ Reported /\ [Next]_vars => Reported'
<1> SUFFICES ASSUME Types, Messages, Holding, Apart, Recorded, Reported, [Next]_vars PROVE Reported'
    OBVIOUS
<1> USE DEF Types, Goto, shared, counts, signal, bounds
<1>1. CASE Exec
  BY <1>1 DEF Exec, Reported
<1>2. CASE Join
  <2>1. \A t \in Threads : error[t] = None
    BY <1>2 DEF Join, AllEnded, Holding
  <2>2. QED BY <1>2, <2>1 DEF Join, Reported
<1>3. ASSUME NEW t \in Threads, Loop(t) PROVE Reported'
  <2>1. CASE Record(t)
    <3>1. pc[t] = "record" /\ error[t] # None /\ main = "running"
      BY <2>1 DEF Record, Holding, Apart
    <3>2. failed # "never" /\ UNCHANGED <<main, failed>>
      BY <3>1, <2>1 DEF Reported, Record
    <3>3. display' # <<>>
      BY <2>1, RecordRecorded
    <3>4. QED BY <3>1, <3>2, <3>3 DEF Reported
  <2>2. CASE ~Record(t)
    BY <1>3, <2>2, NothingReported
        DEF Loop, ResetSigint, Begin, Complete, WaitingCanceled, Catch, Lock, Find,
            TestForce, TestStop, TestDone, TestSigint, Leave
  <2>3. QED BY <2>1, <2>2
<1>4. ASSUME NEW t \in Threads, Chance(t) PROVE Reported'
  <2>1. ASSUME NEW e \in Errors, Throw(t, e) PROVE Reported'
    <3>1. error'[t] # None /\ failed' = "now" /\ main' = main /\ main = "running"
      BY <2>1, SequenceAssumption DEF Throw, Apart
    <3>2. QED BY <3>1 DEF Reported
  <2>2. CASE Served(t) \/ \E m \in WaitingModules(t) : Wait(t, m)
    BY <2>2, NothingReported DEF Wait, Served
  <2>3. QED BY <1>4, <2>1, <2>2 DEF Chance
<1>5. CASE Interrupt \/ SetSigint \/ \E m \in Waits : CancelWaiting(m)
  BY <1>5, NothingReported DEF Interrupt, SetSigint, CancelWaiting
<1>6. CASE UNCHANGED vars
  BY <1>6, NothingReported DEF vars
<1>7. QED BY <1>1, <1>2, <1>3, <1>4, <1>5, <1>6 DEF Next, Finished

-----------------------------------------------------------------------------
(* Iterations.                                                             *)

\* What ends the loops still does after a step of the loops.
Lasts ==
    /\ force => force'
    /\ SourceDone => SourceDone'
    /\ sigint /\ AllStarted => sigint' /\ AllStarted'

\* A source that is done remains done.
LEMMA SourceLasts ==
    ASSUME Types, Types', length' = length,
           \A u \in Threads : executed'[u] >= executed[u]
    PROVE  SourceDone => SourceDone'
<1> SUFFICES ASSUME SourceDone PROVE SourceDone'
    OBVIOUS
<1>1. PICK u \in Threads : executed[u] >= length
  BY DEF SourceDone
<1>2. executed[u] \in Nat /\ executed'[u] \in Nat /\ length \in Nat
  BY SequenceAssumption DEF Types
<1>3. executed'[u] >= length'
  BY <1>1, <1>2
<1>4. QED BY <1>3 DEF SourceDone

\* A thread that stays where it is.
LEMMA OthersTold ==
    ASSUME NEW u \in Threads, Told(u), Lasts, main' = "running" => main = "running",
           pc'[u] = pc[u], late'[u] = late[u]
    PROVE  Told(u)'
BY DEF Told, Lasts, Ending

\* A step of a thread keeps what ends the loops, and concerns this thread only.
LEMMA LoopLasts ==
    ASSUME Types, Types', Apart, NEW t \in Threads, Loop(t) \/ Chance(t)
    PROVE  /\ Lasts /\ UNCHANGED main /\ main = "running"
           /\ \A u \in Threads \ {t} : pc'[u] = pc[u] /\ late'[u] = late[u]
<1> USE DEF Goto, shared, counts, signal, bounds
<1>1. UNCHANGED <<main, length>> /\ pc[t] # "parked" /\ (force => force')
  BY SequenceAssumption DEF Loop, Chance, Types, ResetSigint, Begin, Complete, WaitingCanceled, Catch, Lock,
     Find, Record, TestForce, TestStop, TestDone, TestSigint, Leave, Wait, Served, Throw
<1>2. \A u \in Threads \ {t} : pc'[u] = pc[u] /\ late'[u] = late[u]
  BY DEF Loop, Chance, Types, ResetSigint, Begin, Complete, WaitingCanceled, Catch, Lock,
     Find, Record, TestForce, TestStop, TestDone, TestSigint, Leave, Wait, Served, Throw
<1>3. pc'[t] # "start" /\ (pc[t] # "start" => sigint' = sigint)
  BY SequenceAssumption DEF Loop, Chance, Types, ResetSigint, Begin, Complete, WaitingCanceled, Catch, Lock,
     Find, Record, TestForce, TestStop, TestDone, TestSigint, Leave, Wait, Served, Throw, WaitingModules
<1>4. \A u \in Threads : executed'[u] >= executed[u]
  <2>1. CASE Complete(t)
    BY <2>1 DEF Complete, Counted, Types
  <2>2. CASE ~Complete(t)
    <3>1. executed' = executed
      BY <2>2 DEF Loop, Chance, ResetSigint, Begin, WaitingCanceled, Catch, Lock,
         Find, Record, TestForce, TestStop, TestDone, TestSigint, Leave, Wait, Served, Throw
    <3>2. QED BY <3>1 DEF Types
  <2>3. QED BY <2>1, <2>2
<1>5. SourceDone => SourceDone'
  BY <1>1, <1>4, SourceLasts
<1>6. sigint /\ AllStarted => sigint' /\ AllStarted'
  BY <1>2, <1>3 DEF AllStarted
<1>7. QED BY <1>1, <1>2, <1>5, <1>6 DEF Lasts, Apart

\* Every step keeps a thread that has begun late from beginning again.
LEMMA ToldStep ==
    Types /\ Types' /\ Apart /\ (\A t \in Threads : Told(t)) /\ [Next]_vars => \A t \in Threads : Told(t)'
<1> SUFFICES ASSUME Types, Types', Apart, \A t \in Threads : Told(t), [Next]_vars,
                    NEW u \in Threads
             PROVE  Told(u)'
    OBVIOUS
<1> USE DEF Goto, shared, counts, signal, bounds
<1>1. CASE Exec
  BY <1>1 DEF Exec, Told
<1>2. CASE Join
  BY <1>2 DEF Join, Told
<1>3. ASSUME NEW t \in Threads, Loop(t) \/ Chance(t), t # u PROVE Told(u)'
  BY <1>3, LoopLasts, OthersTold
<1>4. ASSUME Loop(u) PROVE Told(u)'
  <2>0. Lasts /\ main = "running" /\ main' = main
    BY <1>4, LoopLasts
  <2>1. CASE ResetSigint(u)
    BY <2>1 DEF ResetSigint, Told
  <2>2. CASE Begin(u)
    <3>1. late[u] = 0 /\ pc'[u] = "body"
      BY <2>2 DEF Begin, Told, Types
    <3>2. late'[u] = IF Ending THEN 1 ELSE 0
      BY <2>2, <3>1 DEF Begin, Types
    <3>3. Ending => Ending'
      BY <2>0 DEF Lasts, Ending
    <3>4. QED BY <3>1, <3>2, <3>3 DEF Told
  <2>3. CASE TestForce(u)
    BY <2>0, <2>3 DEF TestForce, Told, Types, Lasts, Ending
  <2>4. CASE TestStop(u)
    BY <2>0, <2>4 DEF TestStop, Told, Types, Lasts, Ending
  <2>5. CASE TestDone(u)
    BY <2>0, <2>5 DEF TestDone, IsDone, SourceDone, Told, Types, Lasts, Ending
  <2>6. CASE TestSigint(u)
    BY <2>0, <2>6 DEF TestSigint, Told, Types, Lasts, Ending
  <2>7. CASE Complete(u) \/ WaitingCanceled(u) \/ Catch(u) \/ Lock(u) \/ Find(u) \/ Record(u) \/ Leave(u)
    <3>1. late'[u] = late[u]
      BY <2>7 DEF Complete, WaitingCanceled, Catch, Lock, Find, Record, Leave
    <3>2. pc'[u] \in {"testForce", "end", "lock", "find", "record"}
      BY <2>7 DEF Complete, WaitingCanceled, Catch, Lock, Find, Record, Leave, Types
    <3>3. QED BY <2>0, <3>1, <3>2 DEF Told, Lasts, Ending
  <2>8. QED BY <1>4, <2>1, <2>2, <2>3, <2>4, <2>5, <2>6, <2>7 DEF Loop
<1>5. ASSUME Chance(u) PROVE Told(u)'
  <2>0. Lasts /\ main = "running" /\ main' = main
    BY <1>5, LoopLasts
  <2>1. late'[u] = late[u] /\ pc'[u] \in Waits \cup {"served", "caught"}
    BY <1>5 DEF Chance, Wait, Served, Throw, WaitingModules, Types
  <2>2. QED BY <2>0, <2>1, SequenceAssumption DEF Told, Lasts, Ending
<1>6. CASE Interrupt \/ SetSigint \/ \E m \in Waits : CancelWaiting(m)
  <2>1. UNCHANGED <<main, pc, late, force, executed, length>> /\ (sigint => sigint')
    BY <1>6 DEF Interrupt, SetSigint, CancelWaiting
  <2>2. Lasts
    BY <2>1 DEF Lasts, SourceDone, AllStarted
  <2>3. QED BY <2>1, <2>2, OthersTold
<1>7. CASE UNCHANGED vars
  BY <1>7 DEF vars, Told, Ending, SourceDone, AllStarted
<1>8. QED BY <1>1, <1>2, <1>3, <1>4, <1>5, <1>6, <1>7 DEF Next, Finished

-----------------------------------------------------------------------------
(* Sums.                                                                   *)

\* SumFunction takes the elements of a set one after the other.
Some(s) == CHOOSE x \in s : TRUE
Adding(g, f, s) == IF s = {} THEN 0 ELSE f[Some(s)] + g[s \ {Some(s)}]
Adds(g, f, D) == g = [s \in SUBSET D |-> Adding(g, f, s)]

\* A subset without one of its elements has one element less.
LEMMA SomeFacts ==
    ASSUME NEW D, IsFiniteSet(D), NEW s \in SUBSET D, s # {}
    PROVE  /\ Some(s) \in s /\ s \ {Some(s)} \in SUBSET D
           /\ Cardinality(s) \in Nat \ {0}
           /\ Cardinality(s \ {Some(s)}) = Cardinality(s) - 1
<1>1. Some(s) \in s
  BY DEF Some
<1>2. IsFiniteSet(s) /\ Cardinality(s) \in Nat
  BY FS_Subset, FS_CardinalityType
<1>3. Cardinality(s) # 0
  BY <1>2, FS_EmptySet
<1> QED BY <1>1, <1>2, <1>3, FS_RemoveElement

\* The function that the sum is chosen from exists.
LEMMA SumExists ==
    ASSUME NEW D, IsFiniteSet(D), NEW f \in [D -> Int]
    PROVE  \E g \in [SUBSET D -> Int] : Adds(g, f, D)
<1> DEFINE Upto(n) == {s \in SUBSET D : Cardinality(s) <= n}
           Good(n) == \E h \in [Upto(n) -> Int] : \A s \in Upto(n) : h[s] = Adding(h, f, s)
           T == {n \in Nat : ~ Good(n)}
<1>1. Cardinality(D) \in Nat /\ Upto(Cardinality(D)) = SUBSET D
  BY FS_CardinalityType, FS_Subset
<1>2. \A s \in SUBSET D : Cardinality(s) \in Nat /\ (Cardinality(s) = 0 <=> s = {})
  BY FS_CardinalityType, FS_Subset, FS_EmptySet
<1>3. Good(0)
  <2>1. \A s \in Upto(0) : s = {}
    BY <1>2
  <2> DEFINE h == [s \in Upto(0) |-> 0]
  <2>2. h \in [Upto(0) -> Int] /\ \A s \in Upto(0) : h[s] = Adding(h, f, s)
    BY <2>1 DEF Adding
  <2> QED BY <2>2
<1>4. ASSUME NEW n \in Nat, Good(n) PROVE Good(n + 1)
  <2>1. PICK h \in [Upto(n) -> Int] : \A s \in Upto(n) : h[s] = Adding(h, f, s)
    BY <1>4
  <2> DEFINE k == [s \in Upto(n + 1) |-> Adding(h, f, s)]
  <2>2. ASSUME NEW s \in Upto(n + 1)
        PROVE  Adding(h, f, s) \in Int /\ Adding(h, f, s) = Adding(k, f, s)
    <3>1. CASE s = {}
      BY <3>1 DEF Adding
    <3>2. CASE s # {}
      <4>1. Some(s) \in D /\ s \ {Some(s)} \in SUBSET D /\ Cardinality(s) \in Nat
            /\ Cardinality(s \ {Some(s)}) = Cardinality(s) - 1
        BY <3>2, SomeFacts
      <4>2. s \ {Some(s)} \in Upto(n) /\ s \ {Some(s)} \in Upto(n + 1)
        BY <4>1
      <4>3. k[s \ {Some(s)}] = h[s \ {Some(s)}] /\ h[s \ {Some(s)}] \in Int
        BY <2>1, <4>2
      <4>4. f[Some(s)] \in Int
        BY <4>1
      <4> QED BY <3>2, <4>3, <4>4 DEF Adding
    <3> QED BY <3>1, <3>2
  <2>3. k \in [Upto(n + 1) -> Int] /\ \A s \in Upto(n + 1) : k[s] = Adding(k, f, s)
    <3>1. \A s \in Upto(n + 1) : k[s] = Adding(h, f, s)
      OBVIOUS
    <3>2. k \in [Upto(n + 1) -> Int]
      BY <2>2
    <3> HIDE DEF k, Upto
    <3> QED BY <2>2, <3>1, <3>2
  <2> QED BY <2>3
<1>5. T = {}
  <2> SUFFICES ASSUME T # {} PROVE FALSE
    OBVIOUS
  <2> HIDE DEF Good
  <2>1. PICK x \in T : \A y \in T : x <= y
    BY LeastNat
  <2>2. x \in Nat \ {0}
    BY <1>3, <2>1
  <2>3. x - 1 \in Nat /\ x - 1 \notin T
    BY <2>1, <2>2
  <2>4. Good(x - 1)
    BY <2>3
  <2>5. Good((x - 1) + 1)
    BY <1>4, <2>3, <2>4
  <2>6. (x - 1) + 1 = x
    BY <2>2
  <2> QED BY <2>1, <2>5, <2>6
<1>6. Good(Cardinality(D))
  BY <1>1, <1>5
<1>7. PICK g \in [SUBSET D -> Int] : \A s \in SUBSET D : g[s] = Adding(g, f, s)
  BY <1>1, <1>6
<1>8. Adds(g, f, D)
  <2>1. g = [s \in SUBSET D |-> g[s]]
    OBVIOUS
  <2> QED BY <1>7, <2>1 DEF Adds
<1> QED BY <1>8

\* What the sum of a subset is: of the empty set, and with one element more.
Sums(F, f, D) ==
    /\ F \in [SUBSET D -> Int]
    /\ SumFunction(f) = F[D] /\ F[{}] = 0
    /\ \A s \in SUBSET D : s # {} => F[s] = f[Some(s)] + F[s \ {Some(s)}]

\* Taken from the empty set on, it adds the numbers.
LEMMA SumValue ==
    ASSUME NEW D, IsFiniteSet(D), NEW f \in [D -> Int]
    PROVE  \E g : Sums(g, f, D)
<1> DEFINE g == CHOOSE h : Adds(h, f, D)
<1>1. \E h : Adds(h, f, D)
  BY SumExists
<1>2. Adds(g, f, D)
  BY <1>1, Zenon
<1>3. SumFunction(f) = g[D]
  <2>1. DOMAIN f = D
    OBVIOUS
  <2>2. SumFunction(f) = (CHOOSE h : Adds(h, f, DOMAIN f))[DOMAIN f]
    BY DEF SumFunction, SumFunctionOnSet, FoldFunctionOnSet, MapThenFoldSet, Adds, Adding, Some
  <2> QED BY <2>1, <2>2
<1>4. PICK k \in [SUBSET D -> Int] : Adds(k, f, D)
  BY SumExists
<1> HIDE DEF g
<1>5. \A s \in SUBSET D : g[s] = Adding(g, f, s) /\ k[s] = Adding(k, f, s)
  BY <1>2, <1>4 DEF Adds
<1> DEFINE T == {n \in Nat : \E s \in SUBSET D : Cardinality(s) = n /\ g[s] # k[s]}
<1>6. T = {}
  <2> SUFFICES ASSUME T # {} PROVE FALSE
    OBVIOUS
  <2>1. PICK n \in T : \A y \in T : n <= y
    BY LeastNat
  <2>2. PICK s \in SUBSET D : Cardinality(s) = n /\ g[s] # k[s]
    BY <2>1
  <2>3. s # {}
    BY <1>5, <2>2 DEF Adding
  <2>4. s \ {Some(s)} \in SUBSET D /\ n \in Nat \ {0} /\ Cardinality(s \ {Some(s)}) = n - 1
    BY <2>2, <2>3, SomeFacts
  <2>5. n - 1 \notin T
    BY <2>1, <2>4
  <2>6. g[s \ {Some(s)}] = k[s \ {Some(s)}]
    BY <2>4, <2>5
  <2> QED BY <1>5, <2>2, <2>3, <2>6 DEF Adding
<1>7. g = k
  <2>1. \A s \in SUBSET D : g[s] = k[s]
    <3> SUFFICES ASSUME NEW s \in SUBSET D PROVE g[s] = k[s]
      OBVIOUS
    <3>1. Cardinality(s) \in Nat
      BY FS_CardinalityType, FS_Subset
    <3> QED BY <1>6, <3>1
  <2>2. g = [s \in SUBSET D |-> g[s]]
    BY <1>2 DEF Adds
  <2> QED BY <1>4, <2>1, <2>2
<1>8. g[{}] = 0 /\ \A s \in SUBSET D : s # {} => g[s] = f[Some(s)] + g[s \ {Some(s)}]
  BY <1>5 DEF Adding
<1> QED BY <1>3, <1>4, <1>7, <1>8 DEF Sums

\* A number that changes changes the sum by as much.
LEMMA SumChange ==
    ASSUME NEW D, IsFiniteSet(D), NEW f \in [D -> Int], NEW g \in [D -> Int],
           NEW t \in D, \A d \in D \ {t} : g[d] = f[d]
    PROVE  SumFunction(f) \in Int /\ SumFunction(g) = SumFunction(f) + (g[t] - f[t])
<1>1. PICK F : Sums(F, f, D)
  BY SumValue
<1>2. PICK G : Sums(G, g, D)
  BY SumValue
<1> DEFINE Moved(s) == IF t \in s THEN g[t] - f[t] ELSE 0
           T == {n \in Nat : \E s \in SUBSET D : Cardinality(s) = n /\ G[s] # F[s] + Moved(s)}
<1>3. T = {}
  <2> SUFFICES ASSUME T # {} PROVE FALSE
    OBVIOUS
  <2>1. PICK n \in T : \A y \in T : n <= y
    BY LeastNat
  <2>2. PICK s \in SUBSET D : Cardinality(s) = n /\ G[s] # F[s] + Moved(s)
    BY <2>1
  <2>3. s # {}
    <3>1. F[{}] = 0 /\ G[{}] = 0 /\ Moved({}) = 0
      BY <1>1, <1>2 DEF Sums
    <3>2. F[{}] + Moved({}) = 0
      BY <3>1
    <3> HIDE DEF Moved
    <3> QED BY <2>2, <3>1, <3>2
  <2> DEFINE x == Some(s)  r == s \ {x}
  <2>4. x \in s /\ x \in D /\ r \in SUBSET D /\ n \in Nat \ {0} /\ Cardinality(r) = n - 1
    BY <2>2, <2>3, SomeFacts
  <2>5. n - 1 \notin T
    BY <2>1, <2>4
  <2>6. G[r] = F[r] + Moved(r)
    <3> HIDE DEF r, Moved
    <3> QED BY <2>4, <2>5
  <2>7. F[s] = f[x] + F[r] /\ G[s] = g[x] + G[r]
    BY <1>1, <1>2, <2>3 DEF Sums
  <2>8. F[r] \in Int /\ f[x] \in Int /\ g[x] \in Int /\ f[t] \in Int /\ g[t] \in Int
    BY <1>1, <1>2, <2>4 DEF Sums
  <2>9. x = t => t \notin r /\ t \in s
    BY <2>4
  <2>10. x # t => g[x] = f[x] /\ (t \in r <=> t \in s)
    BY <2>4
  <2> HIDE DEF x, r
  <2> QED BY <2>2, <2>6, <2>7, <2>8, <2>9, <2>10
<1>4. Cardinality(D) \in Nat /\ D \in SUBSET D
  BY FS_CardinalityType
<1>5. G[D] = F[D] + Moved(D)
  BY <1>3, <1>4
<1> QED BY <1>1, <1>2, <1>4, <1>5 DEF Sums

\* Nothing adds up to nothing.
LEMMA SumZero ==
    ASSUME NEW D, IsFiniteSet(D)
    PROVE  SumFunction([d \in D |-> 0]) = 0
<1> DEFINE f == [d \in D |-> 0]
<1>1. f \in [D -> Int]
  OBVIOUS
<1> HIDE DEF f
<1>2. PICK F : Sums(F, f, D)
  BY <1>1, SumValue
<1> DEFINE T == {n \in Nat : \E s \in SUBSET D : Cardinality(s) = n /\ F[s] # 0}
<1>3. T = {}
  <2> SUFFICES ASSUME T # {} PROVE FALSE
    OBVIOUS
  <2>1. PICK n \in T : \A y \in T : n <= y
    BY LeastNat
  <2>2. PICK s \in SUBSET D : Cardinality(s) = n /\ F[s] # 0
    BY <2>1
  <2>3. s # {}
    BY <1>2, <2>2 DEF Sums
  <2> DEFINE x == Some(s)  r == s \ {x}
  <2>4. x \in s /\ x \in D /\ r \in SUBSET D /\ n \in Nat \ {0} /\ Cardinality(r) = n - 1
    BY <2>2, <2>3, SomeFacts
  <2>5. n - 1 \notin T
    BY <2>1, <2>4
  <2>6. F[r] = 0
    <3> HIDE DEF r
    <3> QED BY <2>4, <2>5
  <2>7. F[s] = f[x] + F[r]
    BY <1>2, <2>3 DEF Sums
  <2>8. f[x] = 0
    BY <2>4 DEF f
  <2> QED BY <2>2, <2>6, <2>7, <2>8
<1>4. Cardinality(D) \in Nat /\ D \in SUBSET D
  BY FS_CardinalityType
<1> QED BY <1>2, <1>3, <1>4 DEF f, Sums

-----------------------------------------------------------------------------
(* A limit.                                                                *)

\* What there is besides the limit of the stop condition to end the loops.
OnlyLimit ==
    limit # Never /\ ~ SourceDone /\ canceled = {} /\ signals = 0 /\ failed = "never"

\* The threads whose last iteration has not been counted by the stop condition, and
\* those that have left their loops.
Untested == {t \in Threads : pc[t] \in {"testForce", "testStop"}}
Ended == {t \in Threads : pc[t] \in {"leave", "end"}}

\* Without a signal and without an exception the flags are down.
Calm ==
    /\ signals = 0 => ~ sigint /\ ~ handler
    /\ failed = "never" => ~ force
    /\ main = "returned" => failed = "never"

\* Each iteration is counted once, and from the one on that reaches the limit each
\* count ends a thread.
Iterated ==
    OnlyLimit =>
        /\ main = "running" =>
            /\ SumFunction(executed) = calls + Cardinality(Untested)
            /\ Cardinality(Ended) = IF calls < limit THEN 0 ELSE calls - (limit - 1)
        /\ main = "returned" => SumFunction(executed) = (limit - 1) + NThreads

\* The threads are finitely many, and so are those at some place.
LEMMA FiniteThreads ==
    /\ IsFiniteSet(Threads) /\ Cardinality(Threads) = NThreads
    /\ IsFiniteSet(Untested) /\ IsFiniteSet(Ended)
    /\ Cardinality(Untested) \in Nat /\ Cardinality(Ended) \in Nat
<1>1. IsFiniteSet(Threads) /\ Cardinality(Threads) = NThreads
  <2>1. 0 \in Int /\ NThreads - 1 \in Int /\ ~ 0 > NThreads - 1 /\ NThreads - 1 - 0 + 1 = NThreads
    BY SequenceAssumption
  <2>2. /\ IsFiniteSet(0 .. NThreads - 1)
        /\ Cardinality(0 .. NThreads - 1) = IF 0 > NThreads - 1 THEN 0 ELSE NThreads - 1 - 0 + 1
    BY ONLY <2>1, FS_Interval
  <2> QED BY ONLY <2>1, <2>2 DEF Threads
<1>2. Untested \in SUBSET Threads /\ Ended \in SUBSET Threads
  BY DEF Untested, Ended
<1>3. IsFiniteSet(Untested) /\ IsFiniteSet(Ended)
  BY <1>1, <1>2, FS_Subset
<1> QED BY <1>1, <1>3, FS_CardinalityType

\* A step of a thread that takes it from one place to another.
LEMMA UntestedMoves ==
    ASSUME Types, Types', NEW t \in Threads, pc' = [pc EXCEPT ![t] = pc'[t]]
    PROVE  /\ Untested' = IF pc'[t] \in {"testForce", "testStop"} THEN Untested \cup {t}
                          ELSE Untested \ {t}
           /\ Ended' = IF pc'[t] \in {"leave", "end"} THEN Ended \cup {t} ELSE Ended \ {t}
<1>1. \A u \in Threads : u # t => pc'[u] = pc[u]
  BY DEF Types
<1> QED BY <1>1 DEF Untested, Ended

\* The flags change with what is counted and remembered of them.
LEMMA CalmStep ==
    Types /\ Holding /\ Apart /\ Reported /\ Calm /\ [Next]_vars => Calm'
<1> SUFFICES ASSUME Types, Holding, Apart, Reported, Calm, [Next]_vars PROVE Calm'
    OBVIOUS
<1> USE DEF Goto, shared, counts, signal, bounds, Calm
<1>1. CASE Exec
  BY <1>1 DEF Exec
<1>2. CASE Join
  <2>1. \A t \in Threads : error[t] = None
    BY <1>2 DEF Join, AllEnded, Holding
  <2> QED BY <1>2, <2>1 DEF Join, ClearForce, Reported
<1>3. ASSUME NEW t \in Threads, Loop(t) PROVE Calm'
  <2>1. CASE Catch(t)
    <3>1. failed # "never" /\ main = "running"
      BY <2>1 DEF Catch, Holding, Reported, Apart
    <3> QED BY <2>1, <3>1 DEF Catch
  <2>2. CASE ResetSigint(t)
    BY <2>2 DEF ResetSigint
  <2>3. CASE ~ Catch(t) /\ ~ ResetSigint(t)
    <3>1. UNCHANGED <<main, force, sigint, handler, signals, failed>>
      BY <1>3, <2>3 DEF Loop, Begin, Complete, WaitingCanceled, Lock,
         Find, Record, TestForce, TestStop, TestDone, TestSigint, Leave
    <3> QED BY <3>1
  <2> QED BY <2>1, <2>2, <2>3
<1>4. ASSUME NEW t \in Threads, Chance(t) PROVE Calm'
  <2>1. main = "running"
    BY <1>4, SequenceAssumption DEF Chance, Wait, Served, Throw, Apart
  <2> QED BY <1>4, <2>1 DEF Chance, Wait, Served, Throw
<1>5. CASE Interrupt
  BY <1>5 DEF Interrupt, Types
<1>6. CASE SetSigint
  BY <1>6 DEF SetSigint
<1>7. CASE \E m \in Waits : CancelWaiting(m)
  BY <1>7 DEF CancelWaiting
<1>8. CASE UNCHANGED vars
  BY <1>8 DEF vars
<1> QED BY <1>1, <1>2, <1>3, <1>4, <1>5, <1>6, <1>7, <1>8 DEF Next, Finished

\* What is counted stays so when the threads concerned stay where they are.
LEMMA NothingIterated ==
    ASSUME Iterated, OnlyLimit, Untested' = Untested, Ended' = Ended,
           UNCHANGED <<main, limit, calls, executed>>
    PROVE  Iterated'
BY DEF Iterated

\* Within an execution, what may end the loops besides the limit does not go away.
LEMMA OnlyLimitBefore ==
    ASSUME Types, Types', Apart, NEW t \in Threads, Loop(t) \/ Chance(t), OnlyLimit'
    PROVE  OnlyLimit /\ main = "running" /\ UNCHANGED <<main, limit>>
<1> USE DEF Goto, shared, counts, signal, bounds
<1>1. Lasts /\ UNCHANGED main /\ main = "running"
  BY LoopLasts
<1>2. UNCHANGED <<limit, signals>> /\ (failed' = "never" => failed = "never") /\ canceled \subseteq canceled'
  BY DEF Loop, Chance, ResetSigint, Begin, Complete, WaitingCanceled, Catch, Lock,
     Find, Record, TestForce, TestStop, TestDone, TestSigint, Leave, Wait, Served, Throw
<1> QED BY <1>1, <1>2 DEF OnlyLimit, Lasts

\* Every step keeps the count of the iterations.
LEMMA IteratedStep ==
    Types /\ Types' /\ Holding /\ Apart /\ Reported /\ Calm /\ Iterated /\ [Next]_vars => Iterated'
<1> SUFFICES ASSUME Types, Types', Holding, Apart, Reported, Calm, Iterated, [Next]_vars, OnlyLimit'
             PROVE  Iterated'
    BY DEF Iterated
<1> USE DEF Goto, shared, counts, signal, bounds
<1>l. limit \in Nat /\ limit' \in Nat /\ calls \in Nat
  BY SequenceAssumption DEF Types
<1>s. SumFunction(executed) \in Int
  <2>1. executed \in [Threads -> Int] /\ 0 \in Threads
    BY SequenceAssumption DEF Types, Threads
  <2> QED BY <2>1, SumChange, FiniteThreads
<1>1. CASE Exec
  <2>1. Untested' = {} /\ Ended' = {} /\ calls' = 0 /\ executed' = [t \in Threads |-> 0] /\ main' = "running"
    BY <1>1 DEF Exec, Untested, Ended
  <2>2. SumFunction(executed') = 0
    BY <2>1, SumZero, FiniteThreads
  <2>3. limit' > 0
    BY <1>l DEF OnlyLimit, Never
  <2>4. Cardinality(Untested') = 0 /\ Cardinality(Ended') = 0
    BY <2>1, FS_EmptySet
  <2> QED BY <2>1, <2>2, <2>3, <2>4 DEF Iterated
<1>2. CASE Join
  <2>1. OnlyLimit /\ main = "running" /\ UNCHANGED <<limit, executed>>
    BY <1>2 DEF Join, OnlyLimit, SourceDone
  <2>2. Untested = {} /\ Ended = Threads
    BY <1>2 DEF Join, AllEnded, Untested, Ended
  <2>3. Cardinality(Untested) = 0 /\ Cardinality(Ended) = NThreads
    BY <2>2, FS_EmptySet, FiniteThreads
  <2>4. calls = (limit - 1) + NThreads
    BY <2>1, <2>3, <1>l, SequenceAssumption DEF Iterated
  <2>5. SumFunction(executed') = (limit' - 1) + NThreads
    BY <2>1, <2>3, <2>4, <1>l DEF Iterated
  <2>6. main' # "running"
    BY <1>2 DEF Join
  <2> QED BY <2>5, <2>6 DEF Iterated
<1>3. ASSUME NEW t \in Threads, Loop(t) PROVE Iterated'
  <2>0. OnlyLimit /\ main = "running" /\ UNCHANGED <<main, limit>>
    BY <1>3, OnlyLimitBefore
  <2>n. /\ SumFunction(executed) = calls + Cardinality(Untested)
        /\ Cardinality(Ended) = IF calls < limit THEN 0 ELSE calls - (limit - 1)
        /\ ~ force /\ ~ sigint /\ limit > 0
    BY <2>0, <1>l DEF Iterated, Calm, OnlyLimit, Never
  <2>e. \A u \in Threads : error[u] = None
    BY <2>0 DEF OnlyLimit, Reported
  <2>f. /\ IsFiniteSet(Untested) /\ IsFiniteSet(Ended)
        /\ Cardinality(Untested) \in Nat /\ Cardinality(Ended) \in Nat
    BY FiniteThreads
  <2>1. CASE Complete(t)
    <3>1. executed' = [executed EXCEPT ![t] = executed[t] + 1] /\ calls' = calls
      BY <2>0, <2>1 DEF Complete, Counted, OnlyLimit
    <3>2. /\ executed \in [Threads -> Int] /\ executed' \in [Threads -> Int]
          /\ executed'[t] - executed[t] = 1 /\ \A u \in Threads \ {t} : executed'[u] = executed[u]
      BY <3>1 DEF Types
    <3>3. SumFunction(executed') = SumFunction(executed) + (executed'[t] - executed[t])
      BY <3>2, SumChange, FiniteThreads
    <3>4. pc' = [pc EXCEPT ![t] = pc'[t]] /\ pc'[t] = "testForce"
      BY <2>1 DEF Complete, Types
    <3>5. Untested' = Untested \cup {t} /\ Ended' = Ended \ {t}
      BY <3>4, UntestedMoves
    <3>6. t \notin Untested /\ t \notin Ended
      BY <2>1, SequenceAssumption DEF Complete, Untested, Ended
    <3>7. Cardinality(Untested') = Cardinality(Untested) + 1 /\ Ended' = Ended
      <4>1. Cardinality(Untested \cup {t}) = Cardinality(Untested) + 1
        BY <3>6, <2>f, FS_AddElement
      <4>2. Ended' = Ended
        BY <3>5, <3>6
      <4> QED BY <3>5, <4>1, <4>2
    <3> QED BY <2>0, <2>n, <2>f, <1>l, <1>s, <3>1, <3>2, <3>3, <3>7 DEF Iterated
  <2>2. CASE TestStop(t)
    <3>1. calls' = calls + 1 /\ executed' = executed
      BY <2>0, <2>2 DEF TestStop, OnlyLimit
    <3>2. /\ pc' = [pc EXCEPT ![t] = pc'[t]]
          /\ pc'[t] = IF calls + 1 >= limit THEN "leave" ELSE "testDone"
      BY <2>0, <2>2 DEF TestStop, OnlyLimit, Types
    <3>3. t \in Untested /\ t \notin Ended
      BY <2>2 DEF TestStop, Untested, Ended
    <3>4. Untested' = Untested \ {t}
      BY <3>2, UntestedMoves
    <3>5. Cardinality(Untested') = Cardinality(Untested) - 1
      BY <3>3, <3>4, <2>f, FS_RemoveElement
    <3>6. Ended' = IF calls + 1 >= limit THEN Ended \cup {t} ELSE Ended
      BY <3>2, <3>3, UntestedMoves
    <3>7. Cardinality(Ended') = IF calls + 1 >= limit THEN Cardinality(Ended) + 1 ELSE Cardinality(Ended)
      BY <3>3, <3>6, <2>f, FS_AddElement
    <3>8. Cardinality(Ended') = IF calls + 1 < limit THEN 0 ELSE (calls + 1) - (limit - 1)
      BY <2>n, <2>f, <1>l, <3>7
    <3> QED BY <2>0, <2>n, <2>f, <1>l, <1>s, <3>1, <3>5, <3>8 DEF Iterated
  <2>3. CASE ~ Complete(t) /\ ~ TestStop(t)
    <3>1. UNCHANGED <<calls, executed>>
      BY <1>3, <2>3 DEF Loop, ResetSigint, Begin, WaitingCanceled, Catch, Lock,
         Find, Record, TestForce, TestDone, TestSigint, Leave
    <3>2. ~ Catch(t) /\ ~ Lock(t) /\ ~ Find(t) /\ ~ Record(t)
      BY <2>e DEF Catch, Lock, Find, Record, Holding
    <3>3. ~ WaitingCanceled(t)
      BY <2>0 DEF WaitingCanceled, OnlyLimit
    <3>4. /\ pc' = [pc EXCEPT ![t] = pc'[t]]
          /\ pc'[t] \in {"testForce", "testStop"} <=> t \in Untested
          /\ pc'[t] \in {"leave", "end"} <=> t \in Ended
      <4> USE DEF Types, Untested, Ended
      <4>1. CASE ResetSigint(t)
        BY <4>1 DEF ResetSigint
      <4>2. CASE Begin(t)
        BY <4>2 DEF Begin
      <4>3. CASE TestForce(t)
        BY <2>n, <4>3 DEF TestForce
      <4>4. CASE TestDone(t)
        BY <2>0, <4>4 DEF TestDone, IsDone, SourceDone, OnlyLimit
      <4>5. CASE TestSigint(t)
        BY <2>n, <4>5 DEF TestSigint
      <4>6. CASE Leave(t)
        BY <4>6 DEF Leave
      <4> QED BY <1>3, <2>3, <3>2, <3>3, <4>1, <4>2, <4>3, <4>4, <4>5, <4>6 DEF Loop
    <3>5. Untested' = Untested /\ Ended' = Ended
      BY <3>4, UntestedMoves
    <3> QED BY <2>0, <3>1, <3>5, NothingIterated
  <2> QED BY <2>1, <2>2, <2>3
<1>4. ASSUME NEW t \in Threads, Chance(t) PROVE Iterated'
  <2>0. OnlyLimit /\ main = "running" /\ UNCHANGED <<main, limit>>
    BY <1>4, OnlyLimitBefore
  <2>1. UNCHANGED <<calls, executed>>
    BY <1>4 DEF Chance, Wait, Served, Throw
  <2>2. /\ pc' = [pc EXCEPT ![t] = pc'[t]]
        /\ pc'[t] \notin {"testForce", "testStop", "leave", "end"}
    BY <1>4, SequenceAssumption DEF Chance, Wait, Served, Throw, WaitingModules, Types
  <2>3. t \notin Untested /\ t \notin Ended
    BY <1>4, SequenceAssumption DEF Chance, Wait, Served, Throw, Untested, Ended
  <2>4. Untested' = Untested /\ Ended' = Ended
    BY <2>2, <2>3, UntestedMoves
  <2> QED BY <2>0, <2>1, <2>4, NothingIterated
<1>5. CASE Interrupt \/ SetSigint \/ \E m \in Waits : CancelWaiting(m)
  <2>1. UNCHANGED <<main, pc, limit, length, calls, executed, failed>> /\ signals <= signals' /\ canceled \subseteq canceled'
    BY <1>5 DEF Interrupt, SetSigint, CancelWaiting, Types
  <2>2. OnlyLimit
    BY <2>1 DEF OnlyLimit, SourceDone, Types
  <2>3. Untested' = Untested /\ Ended' = Ended
    BY <2>1 DEF Untested, Ended
  <2> QED BY <2>1, <2>2, <2>3, NothingIterated
<1>6. CASE UNCHANGED vars
  <2>1. UNCHANGED <<main, pc, limit, length, calls, executed, failed, signals, canceled>>
    BY <1>6 DEF vars
  <2>2. OnlyLimit /\ Untested' = Untested /\ Ended' = Ended
    BY <2>1 DEF OnlyLimit, SourceDone, Untested, Ended
  <2> QED BY <2>1, <2>2, NothingIterated
<1> QED BY <1>1, <1>2, <1>3, <1>4, <1>5, <1>6 DEF Next, Finished

-----------------------------------------------------------------------------
(* Theorems.                                                               *)

\* The inductive invariant: types, the messages under their mutex, exceptions
\* that are handled or have their message, and threads that are told to end.
THEOREM Invariance == Spec => []IInv
<1>1. Init => IInv
  BY InitIInv
<1>2. IInv /\ [Next]_vars => IInv'
  <2> SUFFICES ASSUME IInv, [Next]_vars PROVE IInv'
      OBVIOUS
  <2>1. Types /\ Messages /\ Holding
    BY TypeParts DEF IInv
  <2>2. Types'
    BY <2>1, TypesStep
  <2>3. Holding' /\ Apart'
    BY <2>1, HoldingStep DEF IInv
  <2>4. Messages' /\ Recorded'
    BY <2>1, RecordedStep DEF IInv
  <2>5. Reported'
    BY <2>1, ReportedStep DEF IInv
  <2>6. \A t \in Threads : Told(t)'
    BY <2>1, <2>2, ToldStep DEF IInv
  <2>7. TypeOK'
    BY <2>2, <2>3, <2>4 DEF TypeOK, Types, Messages, Holding
  <2>8. QED BY <2>3, <2>4, <2>5, <2>6, <2>7 DEF IInv
<1>3. QED BY <1>1, <1>2, PTL DEF Spec

\* Every variable keeps its type, and mtx_exception is held by one thread at a
\* time, exactly while it looks for a signature and stores a message.
THEOREM TypeCorrect == Spec => []TypeOK
<1>1. IInv => TypeOK
  BY DEF IInv
<1>2. QED BY <1>1, Invariance, PTL

\* For any number of threads that throw whatever exceptions at whatever time: exec
\* throws if one of its threads did, only if one has thrown since the sequence
\* exists, and has one message for a signature.
THEOREM ErrorsCorrect == Spec => []ErrorsReported
<1>1. IInv => ErrorsReported
  BY DEF IInv, Recorded, Reported, ErrorsReported
<1>2. QED BY <1>1, Invariance, PTL

\* For any number of threads, no thread begins more than one iteration after an
\* exception, the end of a source or a signal has to end the loops.
THEOREM OvershootCorrect == Spec => []Overshoot
<1>1. IInv => Overshoot
  BY DEF IInv, Told, Overshoot, TypeOK
<1>2. QED BY <1>1, Invariance, PTL

\* For any number of threads: an execution that only its limit ends runs limit - 1
\* iterations that are followed by another one, and the last one of each thread.
\* The threads share the counter of the condition, and each counts by itself.
THEOREM LimitExact == Spec => []IterationsExact
<1>1. Init => Calm /\ Iterated
  BY DEF Init, Calm, Iterated
<1>2. IInv /\ IInv' /\ Calm /\ Iterated /\ [Next]_vars => Calm' /\ Iterated'
  <2>1. IInv => Types /\ Holding /\ Apart /\ Reported
    BY TypeParts DEF IInv
  <2>2. IInv' => Types'
    BY DEF IInv, TypeOK, Types
  <2> QED BY <2>1, <2>2, CalmStep, IteratedStep
<1>3. IInv /\ Calm /\ Iterated => IterationsExact
  <2>1. IInv => Overshoot
    BY DEF IInv, Told, Overshoot, TypeOK
  <2> QED BY <2>1 DEF Calm, Iterated, OnlyLimit, IterationsExact
<1> QED BY <1>1, <1>2, <1>3, Invariance, PTL DEF Spec

=============================================================================
