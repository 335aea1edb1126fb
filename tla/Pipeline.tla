------------------------------ MODULE Pipeline ------------------------------
(***************************************************************************)
(* runtime::Pipeline::exec: the stages of a pipeline, each a sequence that *)
(* runs in a loop on the threads of its team, and between two stages the   *)
(* channels of an adaptor.  The thread that calls exec runs the last stage *)
(* itself; the other stages are run by a pool of threads, one per stage.   *)
(*                                                                         *)
(* push and pull are single steps here: Adaptor shows that the steps they  *)
(* consist of implement an ordered stream.  The return of a stage once all *)
(* its threads have returned is the round of a ForkJoin, which ThreadPool  *)
(* implements.  What is modelled in full is how the loops of the stages    *)
(* end: stop conditions, cancellation from stage to stage and of every     *)
(* stage from the end, draining of the channels, reset, next execution.    *)
(***************************************************************************)
EXTENDS Integers, Sequences, FiniteSets

CONSTANTS
    Replicas,       \* the number of threads of each stage
    BufferSize,     \* slots of a channel
    Limits,         \* for each stage, the limits its condition may have
    MaxRuns         \* bound: executions of the pipeline

\* The condition of a stage is "++counter >= limit", or none.
Never == 0

ASSUME PipelineAssumption ==
    /\ Replicas \in Seq(Nat \ {0}) /\ Len(Replicas) >= 2
    /\ BufferSize \in Nat \ {0}
    /\ Limits \in Seq(SUBSET Nat) /\ Len(Limits) = Len(Replicas)
    /\ MaxRuns \in Nat

NStages == Len(Replicas)
Stages == 1 .. NStages
Team(s) == 0 .. Replicas[s] - 1
Threads == UNION {{s} \X Team(s) : s \in Stages}
FirstStage == {w \in Threads : w[1] = 1}
LastStage == {w \in Threads : w[1] = NStages}

\* Adaptor s is between the stages s and s + 1.
Adaptors == 1 .. NStages - 1

IsMultiple(n, d) == n % d = 0
NChannels(s) ==
    CHOOSE n \in 1 .. Replicas[s] * Replicas[s + 1] :
        /\ IsMultiple(n, Replicas[s]) /\ IsMultiple(n, Replicas[s + 1])
        /\ \A m \in 1 .. n - 1 :
             ~ (IsMultiple(m, Replicas[s]) /\ IsMultiple(m, Replicas[s + 1]))
Channels(s) == 0 .. NChannels(s) - 1

\* The instances of adaptor s: thread 0 of both sides has the original.
Instance(side, s, t) == IF t = 0 THEN <<"adp", s, 0>> ELSE <<side, s, t>>
Instances ==
    UNION {{Instance("push", s, t) : t \in Team(s)}
             \cup {Instance("pull", s, t) : t \in Team(s + 1)} : s \in Adaptors}
IsOriginal(i) == i[1] = "adp"

\* A frame is named by the thread of the first stage that makes it and by its
\* rank among the frames of this thread.
NoFrame == <<-1, -1>>

VARIABLES
    pc,         \* where each thread is in the loop of its stage
    frame,      \* the frame in the hands of each thread
    pushed,     \* how many frames each thread has pushed
    pulled,     \* how many frames each thread has pulled
    ring,       \* the frames in each channel of each adaptor
    canceled,   \* waiting_canceled of each instance
    used,       \* the frames each thread of the last stage has used
    limit,      \* of the conditions, in this execution
    calls,      \* how often the condition of each stage was evaluated
    control,    \* what the pool threads and the caller of exec are doing
    todo,       \* the instances they have still to cancel
    runs

vars == <<pc, frame, pushed, pulled, ring, canceled, used, limit, calls,
          control, todo, runs>>

loops == <<pc, frame, pushed, pulled, ring, used, calls>>

\* The thread of the pool that runs stage s is s; the caller is NStages.
Caller == NStages

FirstPc(w) == IF w[1] = 1 THEN "push" ELSE "pull"

Start ==
    /\ pc = [w \in Threads |-> FirstPc(w)]
    /\ frame = [w \in Threads |-> NoFrame]
    /\ pushed = [w \in Threads |-> 0]
    /\ pulled = [w \in Threads |-> 0]
    /\ ring = [s \in Adaptors |-> [c \in Channels(s) |-> <<>>]]
    /\ used = [w \in LastStage |-> <<>>]
    /\ calls = [s \in Stages |-> 0]
    /\ control = [k \in Stages |-> "stage"]
    /\ todo = [k \in Stages |-> <<>>]

Init ==
    /\ Start
    /\ canceled = [i \in Instances |-> FALSE]
    /\ limit \in [Stages -> UNION {Limits[s] : s \in Stages}]
    /\ \A s \in Stages : limit[s] \in Limits[s]
    /\ runs = 1

-----------------------------------------------------------------------------
(* The loop of a stage, on one thread.                                     *)

Goto(w, label) == pc' = [pc EXCEPT ![w] = label]

\* cur_pull_id and cur_push_id.
PullChannel(w) ==
    (w[2] + pulled[w] * Replicas[w[1]]) % NChannels(w[1] - 1)
PushChannel(w) ==
    (w[2] + pushed[w] * Replicas[w[1]]) % NChannels(w[1])

PullCanceled(w) == canceled[Instance("pull", w[1] - 1, w[2])]
PushCanceled(w) == canceled[Instance("push", w[1], w[2])]

Pull(w) ==
    LET s == w[1] - 1
        c == PullChannel(w)
    IN  /\ pc[w] = "pull"
        /\ ring[s][c] # <<>>
        /\ frame' = [frame EXCEPT ![w] = Head(ring[s][c])]
        /\ ring' = [ring EXCEPT ![s][c] = Tail(@)]
        /\ pulled' = [pulled EXCEPT ![w] = @ + 1]
        /\ Goto(w, IF w \in LastStage THEN "use" ELSE "push")
        /\ UNCHANGED <<pushed, used, calls>>

\* Mutant: a canceled pull does not look for what is left in the channel.
PullEndAtOnce(w) ==
    /\ pc[w] = "pull"
    /\ PullCanceled(w)
    /\ Goto(w, "end")
    /\ UNCHANGED <<frame, pushed, pulled, ring, used, calls>>

\* waiting_canceled is thrown: it ends the loop of the thread.
PullEnd(w) ==
    /\ pc[w] = "pull"
    /\ ring[w[1] - 1][PullChannel(w)] = <<>>
    /\ PullCanceled(w)
    /\ Goto(w, "end")
    /\ UNCHANGED <<frame, pushed, pulled, ring, used, calls>>

\* The tasks of a stage that is neither the first nor the last are part of
\* its push; the first stage makes the frame that it pushes.
Made(w) == IF w \in FirstStage THEN <<w[2], pushed[w]>> ELSE frame[w]

HasRoom(s, c) == Len(ring[s][c]) < BufferSize

Push(w) ==
    LET s == w[1]
        c == PushChannel(w)
    IN  /\ pc[w] = "push"
        /\ ~ PushCanceled(w)
        /\ HasRoom(s, c)
        /\ ring' = [ring EXCEPT ![s][c] = Append(@, Made(w))]
        /\ frame' = [frame EXCEPT ![w] = NoFrame]
        /\ pushed' = [pushed EXCEPT ![w] = @ + 1]
        /\ Goto(w, "test")
        /\ UNCHANGED <<pulled, used, calls>>

\* A canceled push gives up, whether there is room or not.
PushEnd(w) ==
    /\ pc[w] = "push"
    /\ PushCanceled(w)
    /\ Goto(w, "end")
    /\ UNCHANGED <<frame, pushed, pulled, ring, used, calls>>

Use(w) ==
    /\ pc[w] = "use"
    /\ used' = [used EXCEPT ![w] = Append(@, frame[w])]
    /\ frame' = [frame EXCEPT ![w] = NoFrame]
    /\ Goto(w, "test")
    /\ UNCHANGED <<pushed, pulled, ring, calls>>

\* The condition of the stage is called by every thread of its team.
Test(w) ==
    LET s == w[1]
    IN  /\ pc[w] = "test"
        /\ IF limit[s] = Never
             THEN Goto(w, FirstPc(w)) /\ UNCHANGED calls
             ELSE /\ calls' = [calls EXCEPT ![s] = @ + 1]
                  /\ Goto(w, IF calls[s] + 1 >= limit[s] THEN "end"
                             ELSE FirstPc(w))
        /\ UNCHANGED <<frame, pushed, pulled, ring, used>>

Loop(w) ==
    /\ \/ Pull(w) \/ PullEnd(w) \/ Push(w) \/ PushEnd(w)
       \/ Use(w) \/ Test(w)
    /\ UNCHANGED <<canceled, limit, control, todo, runs>>

-----------------------------------------------------------------------------
(* The pool threads and the caller.                                        *)

Returned(s) == \A t \in Team(s) : pc[<<s, t>>] = "end"

\* The pull tasks of the stage after s.
PullSide(s) ==
    [i \in 1 .. Replicas[s + 1] |-> Instance("pull", s, i - 1)]

\* The waiting modules of a thread: its pull adaptor, unless it is the
\* original, which is a module of the stage before; its push adaptor.
Waiting(s, t) ==
    (IF s > 1 /\ t > 0 THEN <<Instance("pull", s - 1, t)>> ELSE <<>>)
        \o <<Instance("push", s, t)>>

\* Those of a stage, one thread after the other.
StageWaiting(s) ==
    LET upTo[n \in 0 .. Replicas[s]] ==
            IF n = 0 THEN <<>> ELSE upTo[n - 1] \o Waiting(s, n - 1)
    IN  upTo[Replicas[s]]

WaitingUpTo[s \in 0 .. NStages - 1] ==
    IF s = 0 THEN <<>> ELSE WaitingUpTo[s - 1] \o StageWaiting(s)

\* Mutant: the caller takes itself for done and stops only the last stages.
CancelListLast(k) ==
    IF k = Caller THEN StageWaiting(NStages - 1) ELSE PullSide(k)

\* A pool thread stops the stage after its own, the caller all the stages
\* before the last one.
CancelList(k) ==
    IF k = Caller THEN WaitingUpTo[NStages - 1] ELSE PullSide(k)

\* Mutant: one thread of the team is enough.
StageReturnsEarly(k) ==
    /\ control[k] = "stage"
    /\ \E t \in Team(k) : pc[<<k, t>>] = "end"
    /\ control' = [control EXCEPT ![k] = "cancel"]
    /\ todo' = [todo EXCEPT ![k] = CancelList(k)]
    /\ UNCHANGED <<loops, canceled, limit, runs>>

StageReturns(k) ==
    /\ control[k] = "stage"
    /\ Returned(k)
    /\ control' = [control EXCEPT ![k] = "cancel"]
    /\ todo' = [todo EXCEPT ![k] = CancelList(k)]
    /\ UNCHANGED <<loops, canceled, limit, runs>>

CancelWaiting(k) ==
    /\ control[k] = "cancel"
    /\ todo[k] # <<>>
    /\ canceled' = [canceled EXCEPT ![Head(todo[k])] = TRUE]
    /\ todo' = [todo EXCEPT ![k] = Tail(@)]
    /\ UNCHANGED <<loops, limit, control, runs>>

\* A pool thread arrives at the barrier; the caller waits for them there.
CancelEnds(k) ==
    /\ control[k] = "cancel"
    /\ todo[k] = <<>>
    /\ k = Caller => \A j \in Adaptors : control[j] = "end"
    /\ control' = [control EXCEPT ![k] = "end"]
    /\ UNCHANGED <<loops, canceled, limit, todo, runs>>

\* Mutant: what is left in the channels stays there.
ResetRingsForgotten == UNCHANGED ring

ResetRings == ring' = [s \in Adaptors |-> [c \in Channels(s) |-> <<>>]]

\* exec resets the adaptors, returns, and is called again.  Only the
\* originals get their flag back.
ExecAgain ==
    /\ control[Caller] = "end"
    /\ runs < MaxRuns
    /\ runs' = runs + 1
    /\ canceled' = [i \in Instances |-> canceled[i] /\ ~ IsOriginal(i)]
    /\ ResetRings
    /\ pc' = [w \in Threads |-> FirstPc(w)]
    /\ frame' = [w \in Threads |-> NoFrame]
    /\ pushed' = [w \in Threads |-> 0]
    /\ pulled' = [w \in Threads |-> 0]
    /\ used' = [w \in LastStage |-> <<>>]
    /\ calls' = [s \in Stages |-> 0]
    /\ control' = [k \in Stages |-> "stage"]
    /\ limit' \in [Stages -> UNION {Limits[s] : s \in Stages}]
    /\ \A s \in Stages : limit'[s] \in Limits[s]
    /\ UNCHANGED todo

Control(k) == StageReturns(k) \/ CancelWaiting(k) \/ CancelEnds(k)

Finished == control[Caller] = "end" /\ runs = MaxRuns /\ UNCHANGED vars

Next ==
    \/ \E w \in Threads : Loop(w)
    \/ \E k \in Stages : Control(k)
    \/ ExecAgain
    \/ Finished

Spec == Init /\ [][Next]_vars

\* Every thread of the program keeps running.
Fairness ==
    /\ \A w \in Threads : WF_vars(Loop(w))
    /\ \A k \in Stages : WF_vars(Control(k))

FairSpec == Spec /\ Fairness

-----------------------------------------------------------------------------
(* Properties.                                                             *)

TypeOK ==
    /\ pc \in [Threads -> {"pull", "push", "use", "test", "end"}]
    /\ frame \in [Threads -> Nat \X Nat \cup {NoFrame}]
    /\ pushed \in [Threads -> Nat]
    /\ pulled \in [Threads -> Nat]
    /\ \A s \in Adaptors : \A c \in Channels(s) :
            /\ ring[s][c] \in Seq(Nat \X Nat)
            /\ Len(ring[s][c]) <= BufferSize
    /\ canceled \in [Instances -> BOOLEAN]
    /\ used \in [LastStage -> Seq(Nat \X Nat)]
    /\ limit \in [Stages -> Nat]
    /\ calls \in [Stages -> Nat]
    /\ control \in [Stages -> {"stage", "cancel", "end"}]
    /\ todo \in [Stages -> Seq(Instances)]
    /\ runs \in Nat

\* The place of a frame in the order of the original sequence.
Rank(f) == f[1] + f[2] * Replicas[1]

\* The frames that have not come to the end of the pipeline.
InFlight ==
    {f \in UNION {{<<w[2], n>> : n \in 0 .. pushed[w] - 1} : w \in FirstStage} :
        \A w \in LastStage : \A n \in DOMAIN used[w] : used[w][n] # f}

\* What a later call of exec finds: the flags of the clones are still set, if a
\* stage has clones.
AsBuilt == runs = 1 \/ \A s \in Stages : Replicas[s] = 1

\* The threads of the first stage have stopped at the same frame: what they have
\* made is the beginning of the stream, without a hole.
Unbroken ==
    \A v, w \in FirstStage :
        v[2] + pushed[v] * Replicas[1] < w[2] + (pushed[w] + 1) * Replicas[1]

\* When nobody but the first stage decides to stop, exec returns with every
\* channel empty and every frame used; a later call does so in a pipeline
\* without replicated stages only.  A first stage of several threads, each of
\* which stops by itself, may leave a hole, and what comes after it stays in the
\* channels: the next stage ends at the first channel that it finds empty.
Flushed ==
    /\ AsBuilt
    /\ control[Caller] = "end"
    /\ \A s \in Stages \ {1} : limit[s] = Never
    /\ Unbroken
    => InFlight = {}

\* A stage is only told to stop pulling when nothing more will come: its
\* upstream stage has returned, or the whole pipeline is being stopped.
CanceledInTurn ==
    AsBuilt =>
    \A s \in Adaptors : \A t \in Team(s + 1) :
        canceled[Instance("pull", s, t)] =>
            Returned(s) \/ control[Caller] # "stage"

\* The first call of exec returns: no thread waits for ever on a channel.  A
\* later call need not, because the clones of the adaptors stay canceled.
Termination == <>(control[Caller] = "end")

Sum[s \in 0 .. NStages - 1] ==
    IF s = 0 THEN 0 ELSE Sum[s - 1] + NChannels(s) * BufferSize
                             + (IF s > 1 THEN Replicas[s] ELSE 0)

Stream == INSTANCE OrderedStream WITH
    NPushers <- Replicas[1],
    NPullers <- Replicas[NStages],
    Capacity <- Sum[NStages - 1],
    pushed <- [t \in Team(1) |-> pushed[<<1, t>>]],
    pulled <- [t \in Team(NStages) |-> pulled[<<NStages, t>>]],
    received <- [t \in Team(NStages) |->
                    [n \in DOMAIN used[<<NStages, t>>] |->
                        Rank(used[<<NStages, t>>][n])]]

\* A pipeline is an ordered stream from its first to its last stage, as long
\* as the channels and the hands of the threads between them.
ImplementsStream == Stream!Spec

=============================================================================
