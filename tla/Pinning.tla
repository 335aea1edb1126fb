------------------------------ MODULE Pinning ------------------------------
(***************************************************************************)
(* From a schedule to threads on processing units: a program gets its      *)
(* stages from a file (sched::Scheduler_from_file), from sched::Scheduler  *)
(* and its get_threads_mapping, or gives them itself, with a policy for    *)
(* each stage (tools::Pipeline_builder) or one for all of them (the        *)
(* constructors of runtime::Pipeline).  The sequences of the stages are    *)
(* built and executed, and their threads call tools::Thread_pinning.       *)
(*                                                                         *)
(* pin and unpin hold a mutex and touch the mask of their caller alone:    *)
(* each is one step here.  A pin that throws leaves the mutex locked.      *)
(***************************************************************************)
EXTENDS StagePolicies

CONSTANTS
    FileResources,      \* resources of files: [core type |-> [nodes, smt]]
    FileStages,         \* entries of files of version 2
    OldStages,          \* entries of files of version 1
    UserStages,         \* stages of a program: [threads, pin, wants]
    ReplicableTasks,    \* ReplicableTasks[t]: is task t of the sequence replicable?
    MaxStages,          \* bound
    MaxThreads          \* bound: threads of all stages

\* A sequence refuses to have no thread.
ASSUME ThreadsAssumption ==
    /\ \A entry \in FileStages \cup OldStages \cup UserStages : entry.threads \in Nat \ {0}
    /\ MaxStages \in Nat /\ MaxThreads \in Nat
    /\ ReplicableTasks \in Seq(BOOLEAN)

NTasks == Len(ReplicableTasks)
Main == <<0, 0>>
Workers == (1 .. MaxStages) \X (1 .. MaxThreads)
Everyone == Workers \cup {Main}

VARIABLES
    phase,              \* "read", "profile", "build", "exec", "over" or "refused"
    ready,              \* is_init
    source,             \* where the stages come from
    resources,          \* "resources" of the file
    asked,              \* the entries or stages that have been read
    lists,              \* p_core_pu_list and e_core_pu_list
    puids,              \* puids_from_file
    stages,             \* stages of the pipeline: [threads, pin, policy]
    script,             \* calls a thread has still to make
    mask,               \* the PUs a thread may run on
    mutex,              \* g_mtx
    used                \* mask of a thread when it last executed tasks

reading == <<source, resources, asked, lists, puids>>
pinningVars == <<phase, ready, reading, stages, script, mask, mutex, used>>

PinningInit ==
    /\ phase = "read"
    /\ ready \in BOOLEAN
    /\ source \in {"file", "old file", "scheduler", "builder", "constructor"}
    /\ resources \in IF source = "file" THEN FileResources ELSE {CHOOSE r \in FileResources : TRUE}
    /\ asked = <<>>
    /\ lists = [core \in DOMAIN resources |-> PuList(resources[core])]
    /\ puids = <<>>
    /\ stages = <<>>
    /\ script = [th \in Everyone |-> <<>>]
    /\ mask = [th \in Everyone |-> PUs]
    /\ mutex = "free"
    /\ used = [th \in Everyone |-> {}]

ThreadsOf(entries) == [s \in DOMAIN entries |-> entries[s].threads]
Room(n) == Len(asked) < MaxStages /\ Before(Append(ThreadsOf(asked), n), Len(asked) + 2) <= MaxThreads

(***************************************************************************)
(* contsruct_policy_v2 (sic), an entry at a time.  Entries with a missing  *)
(* field or a field of another type are refused at once and left out, and  *)
(* so are the buffer sizes and waiting types, which change no thread.      *)
(***************************************************************************)
Unread == UNCHANGED <<ready, source, resources, stages, script, mask, mutex, used>>

EarlierOf(core) == Len(SelectSeq(asked, LAMBDA e : e.core = core))

ReadStage(e) ==
    LET got == StagePolicy(e.policy, lists[e.core], e.threads, EarlierOf(e.core), resources[e.core].smt) IN
    /\ phase = "read" /\ source = "file" /\ Room(e.threads)
    /\ asked' = Append(asked, e)
    /\ lists' = [lists EXCEPT ![e.core] = got.list]
    /\ puids' = Append(puids, got.ids)
    /\ phase' = IF got.ok THEN phase ELSE "refused"
    /\ Unread

\* contsruct_policy_v1: cores is a number or a list of PUs.
ReadOldStage(e) ==
    /\ phase = "read" /\ source = "old file" /\ Room(e.threads)
    /\ asked' = Append(asked, e)
    /\ puids' = IF puids = <<>> /\ e.cores = <<>> THEN <<>>
                ELSE [s \in 1 .. Len(asked) + 1 |-> IF s = Len(asked) + 1 THEN e.cores
                                                    ELSE IF puids = <<>> THEN <<>> ELSE puids[s]]
    /\ UNCHANGED <<phase, lists>>
    /\ Unread

TaskSum == FoldLeft(LAMBDA sum, e : sum + e.tasks, 0, asked)

EndOfFile ==
    /\ phase = "read" /\ source \in {"file", "old file"} /\ asked # <<>>
    /\ phase' = IF TaskSum = NTasks THEN "profile" ELSE "refused"
    /\ UNCHANGED <<asked, lists, puids>>
    /\ Unread

\* Scheduler_GR::schedule with R resources for each replicable task.
ScheduleGR(R) ==
    /\ phase = "profiling" /\ source = "scheduler" /\ asked = <<>> /\ script[Main] = <<>>
    /\ asked' = [t \in 1 .. NTasks |-> [threads |-> IF ReplicableTasks[t] THEN R ELSE 1]]
    /\ UNCHANGED <<phase, lists, puids>>
    /\ Unread

\* Stage_builder and add_stage, or the arguments of a constructor.
AddStage(e) ==
    /\ phase = "read" /\ source \in {"builder", "constructor"} /\ Room(e.threads)
    /\ asked' = Append(asked, e)
    /\ UNCHANGED <<phase, lists, puids>>
    /\ Unread

(***************************************************************************)
(* Calls.  Every pinned sequence makes them for each of its threads.       *)
(***************************************************************************)
Pin(text) == [call |-> "pin", text |-> text]
Unpin == [call |-> "unpin", text |-> <<>>]
Work == [call |-> "work", text |-> <<>>]
Call(name, s) == [call |-> name, text |-> <<s>>]

ThreadText(st, t) == Unpack(st.policy, Threads, st.threads)[t]
OnlyIf(cond, calls) == IF cond THEN calls ELSE <<>>

\* A loop over threads from .. n that pins the caller to the place of each.
PinEach(st, from) ==                                      \* mutant of Visit
    [i \in 1 .. st.threads - from + 1 |-> Pin(ThreadText(st, from + i - 1))]
Visit(st, from) ==
    FlattenSeq([i \in 1 .. st.threads - from + 1 |-> <<Pin(ThreadText(st, from + i - 1)), Unpin>>])

GenProcesses(st) == OnlyIf(st.pin, Visit(st, 1))

\* Sequence::init, the copies of modules and of sub-sequences for the threads
\* after the first one, gen_processes, and the pool of threads.
InitSequence(s, st) ==
    OnlyIf(st.pin, <<Pin(ThreadText(st, 1))>> \o Visit(st, 2) \o Visit(st, 2))
        \o GenProcesses(st) \o <<Call("spawn", s)>>

\* Sequence::_exec, and exec around it.
ExecThread(st, t) == OnlyIf(st.pin, <<Pin(ThreadText(st, t))>>) \o <<Work>> \o OnlyIf(st.pin, <<Unpin>>)
ExecSequence(s, st) == GenProcesses(st) \o <<Call("fork", s)>> \o ExecThread(st, 1) \o <<Call("join", s)>>

\* Pipeline::exec: the last stage is run by the caller, the others by the pool.
ExecPipeline ==
    <<Call("start", 0)>> \o ExecSequence(Len(stages), stages[Len(stages)]) \o <<Call("wait", 0)>>
        \o FlattenSeq([s \in DOMAIN stages |-> GenProcesses(stages[s])])

(***************************************************************************)
(* Scheduler::_profile: the sequence is executed by its only thread, on a  *)
(* PU of the program's choice or on none.                                  *)
(***************************************************************************)
OneThread(place) == [threads |-> 1, pin |-> place # <<>>, policy |-> place]

Profile(place) ==
    LET st == OneThread(place) IN
    /\ phase = "profile" \/ (phase = "read" /\ source = "scheduler")
    /\ script' = [script EXCEPT ![Main] = GenProcesses(st) \o ExecThread(st, 1) \o GenProcesses(st)]
    /\ phase' = "profiling"
    /\ UNCHANGED <<ready, reading, stages, mask, mutex, used>>

(***************************************************************************)
(* generate_pipeline or Pipeline_builder::build, then Pipeline::init: the  *)
(* text of the pipeline, a part for each stage.                            *)
(***************************************************************************)
Wants(s) == asked[IF source = "constructor" THEN 1 ELSE s].wants
UserText ==
    Join([s \in (IF source = "constructor" THEN 1 .. 1 ELSE DOMAIN asked) |-> Join(Wants(s), Threads)], Stages)

Mapping ==
    CASE source = "file" -> FileText([s \in DOMAIN asked |-> asked[s].policy], puids, ThreadsOf(asked))
      [] source = "old file" -> IF puids = <<>> THEN DefaultText(ThreadsOf(asked)) ELSE <<>>
      [] source = "scheduler" -> DefaultText(ThreadsOf(asked))
      [] OTHER -> UserText

ThreadPinning(s) ==
    CASE source \in {"file", "old file"} -> Mapping # <<>> /\ puids # <<>> /\ puids[s] # <<>>
      [] source = "scheduler" -> ready
      [] OTHER -> asked[s].pin

MayBuild ==
    /\ script[Main] = <<>> /\ asked # <<>>
    /\ phase = "profiling" \/ (phase = "read" /\ source \in {"builder", "constructor"})

Generate ==
    /\ MayBuild
    /\ LET parts == IF Mapping = <<>> THEN [s \in DOMAIN asked |-> <<>>]
                    ELSE Unpack(Mapping, Stages, Len(asked)) IN
        IF Len(parts) # Len(asked)
        THEN phase' = "refused" /\ UNCHANGED <<stages, script>>
        ELSE /\ phase' = "build"
             /\ stages' = [s \in DOMAIN asked |->
                    [threads |-> asked[s].threads, pin |-> ThreadPinning(s), policy |-> parts[s]]]
             /\ script' = [script EXCEPT ![Main] = [s \in DOMAIN asked |-> Call("stage", s)]
                                                        \o <<Call("pool", 0)>>]
    /\ UNCHANGED <<ready, reading, mask, mutex, used>>

Exec ==
    /\ phase = "build" /\ script[Main] = <<>>
    /\ phase' = "exec"
    /\ script' = [script EXCEPT ![Main] = ExecPipeline]
    /\ UNCHANGED <<ready, reading, stages, mask, mutex, used>>

ExecReturns ==
    /\ phase = "exec" /\ script[Main] = <<>>
    /\ phase' = "over"
    /\ UNCHANGED <<ready, reading, stages, script, mask, mutex, used>>

(***************************************************************************)
(* The steps of the threads.                                               *)
(***************************************************************************)
Leader(s) == IF s = Len(stages) THEN Main ELSE <<s, 1>>
Team(s) == {<<s, t>> : t \in 2 .. stages[s].threads}
IsNext(th, name) == script[th] # <<>> /\ Head(script[th]).call = name
Arg(th) == Head(script[th]).text
Advance(th) == script' = [script EXCEPT ![th] = Tail(@)]
Unplanned == UNCHANGED <<ready, reading, stages>>

StillLocked == mutex = "held"                             \* mutant of Unlocked
Unlocked == mutex = "free"

PinCall(th) ==
    /\ IsNext(th, "pin") /\ Unlocked
    /\ IF ready /\ Union(Arg(th)) = {}
       THEN /\ mutex' = "held" /\ phase' = "refused"
            /\ script' = [script EXCEPT ![th] = <<>>]
            /\ UNCHANGED mask
       ELSE /\ Advance(th)
            /\ mask' = [mask EXCEPT ![th] = IF ready THEN Union(Arg(th)) ELSE @]
            /\ UNCHANGED <<mutex, phase>>
    /\ Unplanned /\ UNCHANGED used

UnpinCall(th) ==
    /\ IsNext(th, "unpin") /\ Unlocked
    /\ Advance(th)
    /\ mask' = [mask EXCEPT ![th] = IF ready THEN PUs ELSE @]
    /\ Unplanned /\ UNCHANGED <<phase, mutex, used>>

Execute(th) ==
    /\ IsNext(th, "work")
    /\ Advance(th)
    /\ used' = [used EXCEPT ![IF th = Main /\ phase = "exec" THEN <<Len(stages), 1>> ELSE th] = mask[th]]
    /\ Unplanned /\ UNCHANGED <<phase, mask, mutex>>

\* The constructor of a stage refuses a policy that is missing or does not fit.
BuildStage ==
    /\ IsNext(Main, "stage")
    /\ LET s == Arg(Main)[1]
           st == stages[s] IN
        IF st.pin /\ (st.policy = <<>> \/ Len(Unpack(st.policy, Threads, st.threads)) # st.threads)
        THEN phase' = "refused" /\ script' = [script EXCEPT ![Main] = <<>>]
        ELSE script' = [script EXCEPT ![Main] = InitSequence(s, st) \o Tail(@)] /\ UNCHANGED phase
    /\ Unplanned /\ UNCHANGED <<mask, mutex, used>>

\* New threads inherit the mask of the thread that creates them.
Spawn ==
    /\ IsNext(Main, "spawn") \/ IsNext(Main, "pool")
    /\ LET new == IF IsNext(Main, "spawn") THEN Team(Arg(Main)[1])
                  ELSE {Leader(s) : s \in 1 .. Len(stages) - 1} IN
        mask' = [th \in Everyone |-> IF th \in new THEN mask[Main] ELSE mask[th]]
    /\ Advance(Main)
    /\ Unplanned /\ UNCHANGED <<phase, mutex, used>>

Fork(th) ==
    /\ IsNext(th, "fork")
    /\ LET s == Arg(th)[1] IN
        script' = [w \in Everyone |-> IF w = th THEN Tail(script[w])
                                      ELSE IF w \in Team(s) THEN ExecThread(stages[s], w[2]) ELSE script[w]]
    /\ Unplanned /\ UNCHANGED <<phase, mask, mutex, used>>

Start ==
    /\ IsNext(Main, "start")
    /\ script' = [w \in Everyone |-> IF w = Main THEN Tail(script[w])
                                     ELSE IF \E s \in 1 .. Len(stages) - 1 : w = Leader(s)
                                     THEN ExecSequence(w[1], stages[w[1]]) ELSE script[w]]
    /\ Unplanned /\ UNCHANGED <<phase, mask, mutex, used>>

JoinTeam(th) ==
    /\ \/ IsNext(th, "join") /\ \A w \in Team(Arg(th)[1]) : script[w] = <<>>
       \/ IsNext(th, "wait") /\ \A s \in 1 .. Len(stages) - 1 : script[Leader(s)] = <<>>
    /\ Advance(th)
    /\ Unplanned /\ UNCHANGED <<phase, mask, mutex, used>>

Step(th) == PinCall(th) \/ UnpinCall(th) \/ Execute(th) \/ Fork(th) \/ JoinTeam(th)

Program ==
    \/ \E e \in FileStages : ReadStage(e)
    \/ \E e \in OldStages : ReadOldStage(e)
    \/ \E e \in UserStages : AddStage(e)
    \/ \E R \in 1 .. MaxThreads : ScheduleGR(R)
    \/ \E place \in {<<>>, <<PU(0)>>} : Profile(place)
    \/ EndOfFile \/ Generate \/ Exec \/ ExecReturns \/ BuildStage \/ Spawn \/ Start

PinningNext == Program \/ \E th \in Everyone : Step(th)

Fairness == WF_pinningVars(Program) /\ \A th \in Everyone : WF_pinningVars(Step(th))
PinningSpec == PinningInit /\ [][PinningNext]_pinningVars /\ Fairness

(***************************************************************************)
(* Properties                                                              *)
(***************************************************************************)
Places == {p \in Workers : p[1] \in DOMAIN stages /\ p[2] \in 1 .. stages[p[1]].threads}
AllOf(core) == {pu \in PUs : \E j \in DOMAIN PuList(resources[core]) : pu \in Range(PuList(resources[core])[j])}
Single(s) == source = "scheduler" \/ (source = "file" /\ asked[s].policy \in {"packed", "distant"})
TakenBefore(s) == UNION {used[p] : p \in {q \in Places : q[1] < s /\ Single(q[1])}}

\* A guided thread may use the type of core: each entry of its list that has PUs left
\* gives one of them.  These are all PUs that are left where smt is the number of PUs of
\* a core; a core that has more gives one of its PUs.
GuidedTo(set, core, left) ==
    /\ set \subseteq left
    /\ \A j \in DOMAIN PuList(resources[core]) :
        LET entry == Range(PuList(resources[core])[j]) \cap left IN
        entry # {} => Cardinality(set \cap entry) = 1

\* What the source of the stages asks for a thread: one PU of the type of core, or
\* those that are left of it, or the whole machine; the objects that the program has
\* named for it; its number in the pipeline.  A file of version 1 pins no thread, even
\* one for which it lists PUs.
AsAsked(p) ==
    LET e == asked[p[1]] IN
    CASE source = "file" /\ e.policy \in {"packed", "distant"} ->
            Cardinality(used[p]) = 1 /\ used[p] \subseteq AllOf(e.core)
      [] source = "file" /\ e.policy = "guided" ->
            LET left == AllOf(e.core) \ TakenBefore(p[1]) IN
            IF left = {} THEN used[p] = PUs ELSE GuidedTo(used[p], e.core, left)
      [] source = "scheduler" -> used[p] = {Before(ThreadsOf(asked), p[1]) + p[2] - 1}
      [] source \in {"builder", "constructor"} /\ e.pin ->
            used[p] = Union(Wants(p[1])[IF Len(Wants(p[1])) = 1 THEN 1 ELSE p[2]])
      [] OTHER -> used[p] = PUs

\* When exec has returned, each thread has executed its tasks where it was asked to
\* (AsAsked), after the whole way through the lists of the file, the text and its
\* parsers, and no two threads with a PU of their own have had the same one, in any stages.
PinnedAsAsked ==
    phase = "over" =>
        /\ \A p \in Places : IF ready THEN AsAsked(p) ELSE used[p] = PUs
        /\ ready => \A p, q \in Places :
            p # q /\ Single(p[1]) /\ Single(q[1]) => used[p] \cap used[q] = {}

\* The construction and the execution leave every thread free, and the mutex too:
\* threads that are created later inherit no place of another stage.
LeftFree ==
    (phase = "over" \/ (phase = "exec" /\ script[Main] # <<>> /\ Head(script[Main]).call = "start")) =>
        /\ \A th \in Everyone : mask[th] = PUs
        /\ mutex = "free"

\* Either something is refused, or the pipeline is built and its execution ends.
Answers == <>(phase \in {"over", "refused"})

=============================================================================
