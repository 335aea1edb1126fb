---------------------------- MODULE PipelineBuild ----------------------------
(***************************************************************************)
(* runtime::Pipeline around an execution.  The constructor cuts the tasks  *)
(* of a sequence into stages, clones them for the threads of each stage,   *)
(* and replaces the bindings that cross a boundary by adaptors, a task     *)
(* "push" at the end of a stage and a task "pull" at the beginning of the  *)
(* next one.  The user may put the bindings back and forth                 *)
(* (unbind_adaptors, bind_adaptors), change the number of frames           *)
(* (set_n_frames) and destroy the pipeline.                                *)
(*                                                                         *)
(* Sockets are modelled with their bindings and the buffer they point to.  *)
(* A task is <<number, kind, thread>>: thread 0 has the tasks of the user, *)
(* the others have clones; the tasks of the adaptors are <<boundary,       *)
(* "push" or "pull", thread>>.  A socket is <<task, k>>.                   *)
(***************************************************************************)
EXTENDS SubSequences

CONSTANTS
    Programs,           \* bindings of the user, see User
    Styles,             \* how the user describes the stages, see Described
    MaxThreads,         \* bound: threads of the even stages
    Called,             \* programs whose pipeline is called after its construction
    MaxOps              \* bound: these calls

VARIABLES
    program, style,
    chunks,             \* the user's stages: tasks in the order of the sequence
    threads,            \* number of threads of each stage
    pc,                 \* how far the constructor is; "refused", "bound", "unbound", "destroyed"
    net,                \* bindings and buffers of the sockets, see below
    stages,             \* the tasks of each stage (thread 0)
    orphans,            \* sck_orphan_binds
    binds,              \* adaptors_binds
    frames,             \* n_frames of the tasks of the stages and of the adaptors
    todo,               \* what the call under way still has to do, in order
    ops

plan == <<program, style, chunks, threads, stages, orphans, binds>>
vars == <<plan, pc, net, frames, todo, ops>>

(***************************************************************************)
(* Sockets.  net is a record:                                              *)
(*   link[in]   bound_socket of an input or forward socket, <<>> if none   *)
(*   outs[out]  bound_sockets of an output or forward socket               *)
(*   ptr[s]     dataptr: <<output socket, generation of its buffer>>       *)
(* The inputs of a task are 1, 2..; the first one of a "fwd" task is its   *)
(* forward socket.                                                         *)
(***************************************************************************)
DataOut == 0
StatusId == 9
FakeId == 20            \* the input that Task::_bind creates: at most one
Null == <<>>

Status(t) == <<t, StatusId>>
Fake(t) == <<t, FakeId>>
Forwards(s) == Kind(s[1]) = "fwd" /\ s[2] = 1
Out(t) == IF Kind(t) = "fwd" THEN <<t, 1>> ELSE <<t, DataOut>>
IsOutput(s) == s[2] = DataOut \/ Kind(s[1]) = "pull"        \* of type SOUT, the status apart

\* The input and forward sockets of t, without the fake one.
Inputs(m, t) ==
    LET n == Cardinality({s \in DOMAIN m.link : s[1] = t /\ s[2] # FakeId}) IN
    [k \in 1 .. n |-> <<t, k>>]
AllInputs(m, t) == Append(Inputs(m, t), Fake(t))

\* Socket::unbind and Task::unbind.
UnbindInput(m, in) ==
    [m EXCEPT !.link[in] = Null, !.outs[m.link[in]] = SelectSeq(@, LAMBDA s : s # in)]

\* Socket::_bind.  What is bound to a forward socket keeps its old pointer.
AtEnd == 99
BindSocket(m, in, out, priority) ==
    LET c == IF m.link[in] = out THEN UnbindInput(m, in) ELSE m
        n == Len(c.outs[out])
        place == IF priority > n THEN n ELSE priority IN
    [link |-> [c.link EXCEPT ![in] = out],
     outs |-> [c.outs EXCEPT ![out] = InsertAt(@, place + 1, in)],
     ptr |-> [c.ptr EXCEPT ![in] = c.ptr[out]]]

\* Task::_bind: nothing if an input of the task already reads this socket.
BindTask(m, t, out, priority) ==
    IF \E s \in Range(AllInputs(m, t)) : m.link[s] = out THEN m
    ELSE BindSocket(m, Fake(t), out, priority)

BindInput(m, in, out, priority) ==
    IF in[2] = FakeId THEN BindTask(m, in[1], out, priority) ELSE BindSocket(m, in, out, priority)

SpreadOnce(m, s, buffer) ==             \* mutant of Spread
    [m EXCEPT !.ptr = [in \in DOMAIN @ |-> IF in \in Range(m.outs[s]) THEN buffer ELSE @[in]]]

\* The buffer of s, given to what is bound to it, also behind forward sockets.
RECURSIVE Spread(_, _, _)
Spread(m, s, buffer) ==
    FoldLeft(LAMBDA acc, in :
                LET c == [acc EXCEPT !.ptr[in] = buffer] IN
                IF Forwards(in) THEN Spread(c, in, buffer) ELSE c,
             m, m.outs[s])

\* Task::allocate_outbuffers.
OutputsOf(m, t) == {s \in DOMAIN m.outs : s[1] = t /\ IsOutput(s)}
Allocate(m, tasks) ==
    FoldLeft(LAMBDA acc, t :
        FoldSet(LAMBDA s, c : IF c.ptr[s] # Null THEN c ELSE Spread([c EXCEPT !.ptr[s] = <<s, 0>>], s, <<s, 0>>),
                acc, OutputsOf(acc, t)), m, tasks)

(***************************************************************************)
(* The user's program: task i is of kind program.kind[i] and reads the     *)
(* tasks program.ins[i]; program.fake is a pair <<u, v>> if task v also    *)
(* waits for u; the consumers are bound from the first to the last or the  *)
(* other way round.                                                        *)
(***************************************************************************)
N(p) == Len(p.kind)
T(p, i) == <<i, p.kind[i], 0>>
Numbers(p) == [i \in 1 .. N(p) |-> i]

Unbound(p) ==
    LET ins == {<<T(p, i), k>> : i \in 1 .. N(p), k \in 1 .. N(p)}
        real == {s \in ins : s[2] <= Len(p.ins[s[1][1]])} \cup {Fake(T(p, i)) : i \in 1 .. N(p)}
        outs == {Out(T(p, i)) : i \in 1 .. N(p)} \cup {Status(T(p, i)) : i \in 1 .. N(p)} IN
    [link |-> [s \in real |-> Null],
     outs |-> [s \in outs |-> <<>>],
     ptr |-> [s \in real \cup outs |-> IF s[2] = StatusId THEN <<s, 0>> ELSE Null]]

User(p) ==
    LET consumers == IF p.down THEN Reverse(Numbers(p)) ELSE Numbers(p)
        Data(m, v) == FoldLeft(LAMBDA acc, k : BindSocket(acc, <<T(p, v), k>>, Out(T(p, p.ins[v][k])), AtEnd),
                               m, [k \in 1 .. Len(p.ins[v]) |-> k])
        data == FoldLeft(Data, Unbound(p), consumers)
        all == IF p.fake = <<>> THEN data
               ELSE BindTask(data, T(p, p.fake[2]), Status(T(p, p.fake[1])), AtEnd) IN
    Allocate(all, [i \in 1 .. N(p) |-> T(p, i)])

\* What init explores, see SubSequences.
Explored(p, m, lasts, exclusions) ==
    LET tasks == {T(p, i) : i \in 1 .. N(p)} IN
    [tasks |-> tasks,
     outs |-> [t \in tasks |-> <<m.outs[Out(t)], m.outs[Status(t)]>>],
     ins |-> [t \in tasks |-> Cardinality({s \in DOMAIN m.link : s[1] = t /\ m.link[s] # Null})],
     paths |-> <<>>, lasts |-> lasts, exclusions |-> exclusions]

Found(b) == FlattenSeq([n \in 1 .. Len(b.node) |-> b.node[n].tasks])
SequenceOf(p) == Found(Discover(Explored(p, User(p), {}, {}), <<T(p, 1)>>))

(***************************************************************************)
(* A stage is described by its first tasks, its last tasks and the tasks   *)
(* that it excludes:                                                       *)
(*   "ends"   the tasks that wait for nothing or for another stage; the    *)
(*            tasks of the other stages                                    *)
(*   "lasts"  the same first tasks; those that nobody waits for in it      *)
(*   "all"    every task is a first and a last one, as Scheduler does      *)
(***************************************************************************)
FirstOfStage(m, chunk, t) ==
    LET links == {m.link[s] : s \in Range(AllInputs(m, t))} \ {Null} IN
    links = {} \/ \E out \in links : out[1] \notin Range(chunk)
LastOfStage(m, chunk, t) ==
    \A s \in Range(m.outs[Out(t)]) \cup Range(m.outs[Status(t)]) : s[1] \notin Range(chunk)

Described(p, m, chunk) ==
    LET heads == SelectSeq(chunk, LAMBDA t : FirstOfStage(m, chunk, t)) IN
    CASE style = "ends" ->
            [firsts |-> heads, lasts |-> {}, exclusions |-> {T(p, i) : i \in 1 .. N(p)} \ Range(chunk)]
      [] style = "lasts" ->
            [firsts |-> heads, lasts |-> {t \in Range(chunk) : LastOfStage(m, chunk, t)}, exclusions |-> {}]
      [] style = "all" -> [firsts |-> chunk, lasts |-> Range(chunk), exclusions |-> {}]

(***************************************************************************)
(* Sequence::replicate, for a stage: the clones of its tasks are bound to  *)
(* each other; an input that comes from elsewhere points where the         *)
(* original does.                                                          *)
(***************************************************************************)
Clone(t, th) == <<t[1], t[2], th>>
CloneSocket(s, th) == <<Clone(s[1], th), s[2]>>

AddClones(m, stage, th) ==
    LET Of(sockets) == {CloneSocket(s, th) : s \in {u \in sockets : u[1] \in Range(stage)}}
        Original(s) == CloneSocket(s, 0)
        cloned == [link |-> [s \in Of(DOMAIN m.link) |-> Null] @@ m.link,
                   outs |-> [s \in Of(DOMAIN m.outs) |-> <<>>] @@ m.outs,
                   ptr |-> [s \in Of(DOMAIN m.ptr) |->
                              CASE s[2] = StatusId -> <<s, 0>>
                                [] IsOutput(s) \/ s[2] = FakeId -> Null
                                [] OTHER -> m.ptr[Original(s)]] @@ m.ptr]
        Copied(acc, in) ==
            LET out == m.link[in] IN
            IF out = Null \/ out[1] \notin Range(stage) THEN acc
            ELSE BindInput(acc, CloneSocket(in, th), CloneSocket(out, th), AtEnd) IN
    FoldLeft(LAMBDA acc, t : FoldLeft(Copied, acc, AllInputs(m, t)), cloned, stage)

Replicated(m, found) ==
    FoldLeft(LAMBDA acc, s :
                FoldLeft(LAMBDA a, th : AddClones(a, found[s], th), acc, [th \in 1 .. threads[s] - 1 |-> th]),
             m, [s \in DOMAIN found |-> s])

(***************************************************************************)
(* create_adaptors.  An orphan is a binding of thread 0 that comes from an *)
(* earlier stage: [out, in, pos], pos being its place among the sockets    *)
(* bound to out.                                                           *)
(***************************************************************************)
StageOf(found, t) == CHOOSE s \in DOMAIN found : \E i \in DOMAIN found[s] : found[s][i][1] = t[1]

Orphans(m, found) ==
    LET Crossing(s, in) ==
            LET out == m.link[in] IN
            IF out = Null \/ StageOf(found, out[1]) >= s THEN <<>>
            ELSE <<[out |-> out, in |-> in, pos |-> Position(m.outs[out], in) - 1]>>
        OfTask(s, t) == FlattenSeq([i \in DOMAIN AllInputs(m, t) |-> Crossing(s, AllInputs(m, t)[i])])
        OfStage(s) == FlattenSeq([i \in DOMAIN found[s] |-> OfTask(s, found[s][i])]) IN
    FlattenSeq([s \in DOMAIN found |-> OfStage(s)])

Push(b, th, k) == <<<<b, "push", th>>, k>>
Pull(b, th, k) == <<<<b, "pull", th>>, k>>

\* The sockets that pass the boundary after stage s, one for each buffer.
Passed(m, found, orph, s) ==
    LET Accept(acc, o) ==
            IF \/ StageOf(found, o.out[1]) > s \/ StageOf(found, o.in[1]) <= s
               \/ \E out \in Range(acc) : out = o.out \/ m.ptr[out] = m.ptr[o.out]
            THEN acc ELSE Append(acc, o.out) IN
    FoldLeft(Accept, <<>>, orph)

FirstId(passed, out) == 1               \* mutant of IdOf

\* The socket of the adaptor that stands for out: the first one when out has
\* been left out, since sck_to_adp_sck_id answers 0 for a missing key.
IdOf(passed, out) == IF out \in Range(passed) THEN Position(passed, out) ELSE 1

Adaptors(m, found, orph) ==
    LET passed == FoldLeft(LAMBDA acc, stage : Append(acc, Passed(m, found, orph, Len(acc) + 1)), <<>>, Front(found))
        Th(s) == [i \in 1 .. threads[s] |-> i - 1]
        Pulls(s, th) ==
            LET mine == SelectSeq(orph, LAMBDA o : StageOf(found, o.in[1]) = s) IN
            [i \in DOMAIN mine |-> [out |-> Pull(s - 1, th, IdOf(passed[s - 1], mine[i].out)),
                                    in |-> CloneSocket(mine[i].in, th), pos |-> mine[i].pos]]
        \* The first orphan of out that is still to come after stage s.
        PosOf(s, out) == SelectSeq(orph, LAMBDA o : o.out = out /\ StageOf(found, o.in[1]) > s)[1].pos
        Pushes(s, th) ==
            [k \in DOMAIN passed[s] |->
                LET out == passed[s][k] IN
                [out |-> IF StageOf(found, out[1]) = s THEN CloneSocket(out, th)
                         ELSE Pull(s - 1, th, IdOf(passed[s - 1], out)),
                 in |-> Push(s, th, k), pos |-> PosOf(s, out)]]
        OfStage(s) ==
            (IF s = 1 THEN <<>> ELSE FlattenSeq([i \in DOMAIN Th(s) |-> Pulls(s, Th(s)[i])])) \o
            (IF s = Len(found) THEN <<>> ELSE FlattenSeq([i \in DOMAIN Th(s) |-> Pushes(s, Th(s)[i])])) IN
    [sizes |-> [b \in DOMAIN passed |-> Len(passed[b])],
     binds |-> FlattenSeq([s \in DOMAIN found |-> OfStage(s)])]

AddAdaptors(m, sizes) ==
    LET ids(b) == 1 .. sizes[b]
        ins == UNION {{Push(b, th, k) : th \in 0 .. threads[b] - 1, k \in ids(b)} : b \in DOMAIN sizes}
        outs == UNION {{Pull(b, th, k) : th \in 0 .. threads[b + 1] - 1, k \in ids(b)} : b \in DOMAIN sizes} IN
    [link |-> [s \in ins |-> Null] @@ m.link,
     outs |-> [s \in outs |-> <<>>] @@ m.outs,
     ptr |-> [s \in ins \cup outs |-> Null] @@ m.ptr]

(***************************************************************************)
(* The bindings of _bind_adaptors and _unbind_adaptors, and the tasks that *)
(* a thread of a stage executes.                                           *)
(***************************************************************************)
UnbindAll(m, list) == FoldLeft(LAMBDA acc, e : UnbindInput(acc, e.in), m, list)
BindAll(m, list) == FoldLeft(LAMBDA acc, e : BindInput(acc, e.in, e.out, e.pos), m, list)

\* The tasks of a thread once the adaptors are taken out of its stage.
OwnTasks(found, s, th) == [i \in DOMAIN found[s] |-> Clone(found[s][i], th)]

TasksOfThread(found, s, th, bound) ==
    (IF bound /\ s > 1 THEN <<<<s - 1, "pull", th>>>> ELSE <<>>) \o
    OwnTasks(found, s, th) \o
    (IF bound /\ s < Len(found) THEN <<<<s, "push", th>>>> ELSE <<>>)

TasksPerThreads(found, s, bound) == [i \in 1 .. threads[s] |-> TasksOfThread(found, s, i - 1, bound)]

TasksOfStages(found, bound) ==
    FlattenSeq([s \in DOMAIN found |-> FlattenSeq(TasksPerThreads(found, s, bound))])

(***************************************************************************)
(* Construction.  The user's stages are consecutive parts of the sequence, *)
(* cut after each position of cut.                                         *)
(***************************************************************************)
Cuts(tasks, cut) ==
    LET ends == SetToSortSeq(cut \cup {Len(tasks)}, <) IN
    [s \in 1 .. Len(ends) |-> SubSeq(tasks, IF s = 1 THEN 1 ELSE ends[s - 1] + 1, ends[s])]

\* Two sockets of one buffer cross the same boundary: the adaptors mix them up
\* with others, see IdOf, and Init leaves such pipelines out.
Shared(m, cs) ==
    LET crossing(b) == {s \in DOMAIN m.outs :
            /\ StageOf(cs, s[1]) <= b
            /\ \E in \in Range(m.outs[s]) : StageOf(cs, in[1]) > b} IN
    \E b \in 1 .. Len(cs) - 1 : \E s, t \in crossing(b) : s # t /\ m.ptr[s] = m.ptr[t]

\* The stages must have the last tasks that were asked for, and together the
\* tasks of the sequence.
Refused(explored, found, sequence) ==
    \/ \E s \in DOMAIN found : \E t \in explored[s].lasts :
            ~\E i \in DOMAIN explored[s].b.lasts : explored[s].b.lasts[i][1] = t
    \/ Len(FlattenSeq(found)) # Len(sequence)
    \/ ~(Range(FlattenSeq(found)) \subseteq Range(sequence))

Stage(user, chunk) ==
    LET d == Described(program, user, chunk) IN
    [lasts |-> d.lasts, b |-> Discover(Explored(program, user, d.lasts, d.exclusions), d.firsts)]

Init ==
    /\ program \in Programs /\ style \in Styles
    /\ net = User(program)
    /\ \E cut \in SUBSET (1 .. N(program) - 1) \ {{}} : chunks = Cuts(SequenceOf(program), cut)
    /\ ~Shared(net, chunks)
    /\ threads \in {[s \in DOMAIN chunks |-> 1], [s \in DOMAIN chunks |-> IF s % 2 = 0 THEN MaxThreads ELSE 1]}
    /\ pc = "new"
    /\ stages = <<>> /\ orphans = <<>> /\ binds = <<>>
    /\ frames = 1
    /\ todo = <<>>
    /\ ops = 0

(***************************************************************************)
(* The constructor: the stages, their clones, the orphans, the adaptors,   *)
(* the first binding and the buffers.                                      *)
(***************************************************************************)
ExploreStages == FoldLeft(LAMBDA acc, chunk : Append(acc, Stage(net, chunk)), <<>>, chunks)
StagesFound(explored) == FoldLeft(LAMBDA acc, e : Append(acc, Found(e.b)), <<>>, explored)

AcceptStages(explored, found) ==
    IF Refused(explored, found, FlattenSeq(chunks))
    THEN pc' = "refused" /\ UNCHANGED stages
    ELSE pc' = "cut" /\ stages' = found

CutStages ==
    /\ pc = "new"
    /\ \E explored \in {ExploreStages} : AcceptStages(explored, StagesFound(explored))
    /\ UNCHANGED <<program, style, chunks, threads, orphans, binds, net, frames, todo, ops>>

CloneStages ==
    /\ pc = "cut" /\ pc' = "replicated"
    /\ net' = Replicated(net, stages)
    /\ UNCHANGED <<plan, frames, todo, ops>>

FindOrphans ==
    /\ pc = "replicated" /\ pc' = "orphans"
    /\ orphans' = Orphans(net, stages)
    /\ UNCHANGED <<program, style, chunks, threads, stages, binds, net, frames, todo, ops>>

CreateAdaptors ==
    /\ pc = "orphans" /\ pc' = "adaptors"
    /\ \E adp \in {Adaptors(net, stages, orphans)} : binds' = adp.binds /\ net' = AddAdaptors(net, adp.sizes)
    /\ UNCHANGED <<program, style, chunks, threads, stages, orphans, frames, todo, ops>>

FirstBinding ==
    /\ pc = "adaptors" /\ pc' = "bound"
    /\ net' = Allocate(BindAll(UnbindAll(net, orphans), binds), TasksOfStages(stages, TRUE))
    /\ UNCHANGED <<plan, frames, todo, ops>>

Construct == CutStages \/ CloneStages \/ FindOrphans \/ CreateAdaptors \/ FirstBinding

(***************************************************************************)
(* The calls.  Each one is a list of small things to do, which Step does   *)
(* one after the other: bind or unbind an input, give the tasks or the     *)
(* adaptors buffers of another size, free the buffer of an output.         *)
(***************************************************************************)
Item(do, e) == [do |-> do, in |-> e.in, out |-> e.out, pos |-> e.pos]
Every(do, list) == [i \in DOMAIN list |-> Item(do, list[i])]
Whole(do) == <<Item(do, [in |-> Null, out |-> Null, pos |-> 0])>>

DataOrphans == SelectSeq(orphans, LAMBDA o : o.in[2] # FakeId)      \* mutant of Rebound
Rebound == orphans

ToAdaptors == Every("unbind", orphans) \o Every("bind", binds)
ToOrphans == Every("unbind", binds) \o Every("bind", Rebound)

Call(list) ==
    /\ program \in Called /\ todo = <<>> /\ ops < MaxOps
    /\ todo' = list
    /\ ops' = ops + 1
    /\ UNCHANGED <<plan, net>>

UnbindAdaptors == pc = "bound" /\ Call(ToOrphans) /\ pc' = "unbound" /\ UNCHANGED frames

BindAdaptors == pc = "unbound" /\ Call(ToAdaptors) /\ pc' = "bound" /\ UNCHANGED frames

\* _set_n_frames_unbind: the bindings within the stages, found from their outputs.
InStage(list) ==
    LET Within(out) == SelectSeq(net.outs[out], LAMBDA in : in[1] \in Range(list))
        From(t) == Within(Out(t)) \o Within(Status(t))
        Entries(t) == [j \in DOMAIN From(t) |-> [in |-> From(t)[j], out |-> net.link[From(t)[j]], pos |-> AtEnd]] IN
    FlattenSeq([i \in DOMAIN list |-> Entries(list[i])])

Inner ==
    FlattenSeq([s \in DOMAIN stages |-> FlattenSeq([i \in 1 .. threads[s] |->
        InStage(OwnTasks(stages, s, i - 1))])])

SocketsFirst(list) ==
    SelectSeq(list, LAMBDA e : e.in[2] # FakeId) \o SelectSeq(list, LAMBDA e : e.in[2] = FakeId)

\* Sequence::set_n_frames, for all the stages: if the number changes, the bindings
\* within a stage are unbound and put back, sockets first.
FramesOfStages(n) ==
    IF n = frames THEN <<>>
    ELSE Every("unbind", Inner) \o Whole("resizeTasks") \o Every("bind", SocketsFirst(Inner))

FramesOfAdaptors(n) == IF n = frames THEN <<>> ELSE Whole("resizeAdaptors")

\* set_n_frames unbinds the adaptors, changes the stages and the adaptors, binds
\* the orphans and, if they were bound, the adaptors again.
SetFrames(n) ==
    /\ pc \in {"bound", "unbound"}
    /\ Call((IF pc = "bound" THEN <<>> ELSE ToAdaptors)
             \o Every("unbind", binds) \o FramesOfStages(n) \o FramesOfAdaptors(n) \o Every("bind", orphans)
             \o (IF pc = "bound" THEN ToAdaptors ELSE <<>>))
    /\ frames' = n
    /\ UNCHANGED pc

Frees(tasks) ==
    FoldSet(LAMBDA s, acc : Append(acc, Item("free", [in |-> Null, out |-> s, pos |-> 0])),
            <<>>, {s \in DOMAIN net.outs : IsOutput(s) /\ s[1] \in Range(tasks)})

\* ~Pipeline: the buffers first, the bindings after.
Destroy ==
    /\ pc \in {"bound", "unbound"} /\ program \in Called /\ todo = <<>>
    /\ todo' = Frees(TasksOfStages(stages, pc = "bound")) \o (IF pc = "bound" THEN ToOrphans ELSE <<>>)
    /\ pc' = "destroyed"
    /\ UNCHANGED <<plan, net, frames, ops>>

\* Task::update_n_frames: another buffer for each output and for the status.
Resized(m, adaptors) ==
    [m EXCEPT !.ptr = [s \in DOMAIN @ |->
        IF (IsOutput(s) \/ s[2] = StatusId) /\ (Kind(s[1]) = "pull") = adaptors THEN <<s, ops>> ELSE @[s]]]

\* Task::deallocate_outbuffers, for one of its sockets.
Free(m, s) == Spread([m EXCEPT !.ptr[s] = Null], s, Null)

Step ==
    /\ todo # <<>>
    /\ LET e == Head(todo) IN
        net' = CASE e.do = "bind" -> BindInput(net, e.in, e.out, e.pos)
                 [] e.do = "unbind" -> UnbindInput(net, e.in)
                 [] e.do = "resizeTasks" -> Resized(net, FALSE)
                 [] e.do = "resizeAdaptors" -> Resized(net, TRUE)
                 [] e.do = "free" -> Free(net, e.out)
    /\ todo' = Tail(todo)
    /\ UNCHANGED <<plan, pc, frames, ops>>

Next == Construct \/ UnbindAdaptors \/ BindAdaptors \/ (\E n \in 1 .. 2 : SetFrames(n)) \/ Destroy \/ Step

Spec == Init /\ [][Next]_vars

(***************************************************************************)
(* Properties                                                              *)
(***************************************************************************)
Built == pc \in {"bound", "unbound", "destroyed"}
Done(state) == pc = state /\ todo = <<>>
Place(t) == CHOOSE i \in 1 .. N(program) : FlattenSeq(stages)[i] = t
Producers(i) == Range(program.ins[i]) \cup (IF program.fake # <<>> /\ program.fake[2] = i THEN {program.fake[1]} ELSE {})

\* The stages have each task of the sequence once, after those it waits for, and
\* a description that names the first tasks and excludes the other stages, or
\* that names all tasks, is never refused.
StagesInOrder ==
    /\ pc = "refused" => style = "lasts"
    /\ Built /\ ops = 0 =>
        /\ Range(FlattenSeq(stages)) = {T(program, i) : i \in 1 .. N(program)}
        /\ \A i \in 1 .. N(program) : \A u \in Producers(i) : Place(T(program, u)) < Place(T(program, i))

\* The output socket that feeds an input of the user's program, and the output
\* socket whose buffer that one forwards.
Original(in) ==
    LET t == in[1] IN
    IF in[2] = FakeId THEN Status(T(program, program.fake[1])) ELSE Out(T(program, program.ins[t[1]][in[2]]))
RECURSIVE Root(_)
Root(out) == IF Forwards(out) THEN Root(Original(out)) ELSE out

\* The user's sockets that arrive at an input through adaptors, from any thread.
RECURSIVE Arrives(_)
Arrives(in) ==
    LET out == net.link[in]
        t == out[1] IN
    IF Kind(t) # "pull" THEN {CloneSocket(out, 0)}
    ELSE UNION {Arrives(Push(t[1], th, out[2])) : th \in 0 .. threads[t[1]] - 1}

UserInputs == {s \in DOMAIN net.link : Kind(s[1]) # "push"}
Needed(s) == s[2] # FakeId \/ (program.fake # <<>> /\ program.fake[2] = s[1][1])

\* Bound, every input of every thread reads what the user has bound it to, also
\* when it has passed through the adaptors of stages that do not use it.
Arrived ==
    \A in \in UserInputs : Needed(in) =>
        net.link[in] # Null /\ \A out \in Arrives(in) : Root(out) = Root(Original(in))

\* A thread of a stage shares no socket with another thread, and only the
\* adaptors are between the stages.
ThreadsApart ==
    \A in \in DOMAIN net.link : net.link[in] # Null =>
        \E s \in DOMAIN stages : \E th \in 0 .. threads[s] - 1 :
            {in[1], net.link[in][1]} \subseteq Range(TasksOfThread(stages, s, th, TRUE))

\* Bound, also again after any calls, the data of the user's bindings arrive, and
\* on no other way than through the adaptors.
Routed == Done("bound") => Arrived /\ ThreadsApart

\* Unbound, and after the pipeline is destroyed, the user's tasks are bound as
\* they were, and nothing of the clones and adaptors is left among them.
Restored ==
    Done("unbound") \/ Done("destroyed") =>
        LET user == User(program) IN
        /\ \A s \in DOMAIN user.link : net.link[s] = user.link[s]
        /\ \A s \in DOMAIN user.outs : Range(net.outs[s]) = Range(user.outs[s])

\* An input bound to an output points to its buffer; so does one that is behind
\* forward sockets, as long as nothing was bound again.  When the pipeline is
\* destroyed no pointer to a buffer is left in the user's tasks.
RECURSIVE Behind(_)
Behind(in) == LET out == net.link[in] IN IF Forwards(out) /\ net.link[out] # Null THEN Behind(out) ELSE out

PointersLive ==
    /\ Done("bound") \/ Done("unbound") => \A in \in DOMAIN net.link : net.link[in] # Null =>
        (Forwards(net.link[in]) /\ ops > 0) \/ net.ptr[in] = net.ptr[Behind(in)]
    /\ Done("destroyed") => \A i \in 1 .. N(program) : \A s \in {Out(T(program, i))} \cup Range(Inputs(net, T(program, i))) :
        net.ptr[s] = Null

=============================================================================
