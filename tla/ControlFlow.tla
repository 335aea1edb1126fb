---------------------------- MODULE ControlFlow ----------------------------
(***************************************************************************)
(* A thread of a runtime::Sequence walks over its sub-sequences: exec, with*)
(* or without copies in the switchers, exec_seq (used by a Set) and        *)
(* exec_step (used to debug).  The walk is driven by the switchers, whose  *)
(* path a "commute" sets and a "select" reads, and by the iterators and    *)
(* controllers that feed the commutes.                                     *)
(*                                                                         *)
(* Data are the names of the tasks that have worked on them: a std task    *)
(* appends its own name to what it reads.                                  *)
(***************************************************************************)
EXTENDS SubSequences, StructuredPrograms

CONSTANTS
    Programs,       \* programs of the user, see StructuredPrograms
    Modes,          \* how they are executed: "exec", "noCopy", "seq", "step"
    MaxRounds,      \* bound: iterations in all
    MaxAborts       \* bound: tasks that abort an iteration

VARIABLES
    program, mode,
    sockets,        \* the bindings of its tasks
    graph,          \* the sub-sequences of each thread: thread 0 has the tasks
                    \* of the user, the others have clones
    thread,         \* the one that walks: 1 is thread 0 of the code, 2 a replica
    pc,             \* "refused" if the constructor has thrown, "idle", "between" two iterations, "walking", and after an
                    \* iteration "iterated" or "aborted"
    stack,          \* exec_sequence: the nested calls, each with the number of
                    \* its next task and the children it still has to visit
    cursor,         \* exec_step: cur_ss, cur_task_id and next_round_is_over
    path,           \* of each switcher
    count,          \* of each iterator or controller
    mem,            \* what each output socket holds
    ptr,            \* the output socket each input reads (dataptr)
    saved,          \* rebind_dataptrs
    done,           \* data tasks executed in this iteration
    value,          \* what the latest of them wrote
    start,          \* the counts at the start of the iteration
    rounds, aborts

setup == <<program, mode, sockets, graph, thread>>
data == <<path, count, mem, ptr>>
history == <<done, value>>
vars == <<setup, pc, stack, cursor, data, saved, history, start, rounds, aborts>>

\* The sub-sequences of the two threads for the bindings sockets.
FirstTask(p) == Task(p[1].name, p[1].what)
Graphs(G, p) ==
    LET g == Build(Discover(G, <<FirstTask(p)>>)) IN
    IF g = <<>> THEN <<>> ELSE <<g, Replicate(g)>>

Kids(n) == graph[thread][n].children
TasksOfNode(n) == graph[thread][n].tasks

Switchers == {t[1] : t \in {u \in sockets.tasks : IsSelect(u)}}
Counters == {t[1] : t \in {u \in sockets.tasks : Kind(u) \in {"iterate", "control"}}}

(***************************************************************************)
(* Sockets                                                                 *)
(***************************************************************************)
Inputs == DOMAIN sockets.source

\* A forward socket has the buffer of the socket it is bound to.
RECURSIVE BufferOf(_)
BufferOf(s) ==
    LET src == sockets.source[s] IN
    IF Kind(src[1]) = "fwd" THEN BufferOf(src) ELSE src

BoundPtr == [s \in Inputs |-> BufferOf(s)]

\* explore_thread_rec: the inputs bound to s, also through forward sockets.
RECURSIVE Downstream(_)
Downstream(s) ==
    LET bound == Range(sockets.outs[s[1]][s[2]]) IN
    bound \cup UNION {Downstream(f) : f \in {g \in bound : Kind(g[1]) = "fwd"}}

\* The inputs that the switchers may bind to another buffer, in the no copy mode.
Rebound ==
    UNION {Downstream(<<t, 1>>) : t \in {u \in sockets.tasks : IsSelect(u)}} \cup
    UNION {UNION {Downstream(<<t, p>>) : p \in 1 .. sockets.paths[t]} : t \in {u \in sockets.tasks : IsCommute(u)}}

NoCopy == mode = "noCopy"
Read(t, k) == mem[ptr[<<t, k>>]]

(***************************************************************************)
(* Tasks.  Each operator is the codelet of one kind of tasks, with, in the *)
(* no copy mode, the rebinding that its process does after it.             *)
(***************************************************************************)
LastPath(n) == sockets.paths[Task(n, "select")] - 1

\* Iterator::_iterate: path 0 while the count is below the limit, then path 1.
IterateOut(limit, c) == IF c < limit THEN 0 ELSE 1
IterateNext(limit, c) == (c + 1) % (limit + 1)

Iterate(t) ==
    LET n == t[1]
        limit == ItemNamed(program, n).limit IN
    /\ mem' = [mem EXCEPT ![<<t, 1>>] = IterateOut(limit, count[n])]
    /\ count' = [count EXCEPT ![n] = IterateNext(limit, @)]
    /\ UNCHANGED <<path, ptr, history>>

\* Controller_static, Controller_cyclic and Controller_limit::_control.  For
\* the first two the state is the path, for the last the number of calls, of
\* which only whether it has reached the limit matters.
ControlOut(item, c) ==
    CASE item.controller.type = "static" -> c
      [] item.controller.type = "cyclic" -> c % Len(item.branches)
      [] item.controller.type = "limit" ->
            IF c >= item.controller.limit THEN (IF item.controller.init = 0 THEN 1 ELSE 0) ELSE item.controller.init
ControlNext(item, c) ==
    CASE item.controller.type = "static" -> c
      [] item.controller.type = "cyclic" -> (c % Len(item.branches)) + 1
      [] item.controller.type = "limit" -> IF c >= item.controller.limit THEN c ELSE c + 1

Control(t) ==
    LET n == t[1]
        item == ItemNamed(program, n) IN
    /\ mem' = [mem EXCEPT ![<<t, 1>>] = ControlOut(item, count[n])]
    /\ count' = [count EXCEPT ![n] = ControlNext(item, @)]
    /\ UNCHANGED <<path, ptr, history>>

Rebind(s, buffer) == [i \in Inputs |-> IF i \in Downstream(s) THEN buffer ELSE ptr[i]]

Commute(t) ==
    LET p == Read(t, 2) % sockets.paths[t]
        out == <<t, p + 1>> IN
    /\ path' = [path EXCEPT ![t[1]] = p]
    /\ mem' = IF NoCopy THEN mem ELSE [mem EXCEPT ![out] = Read(t, 1)]
    /\ ptr' = IF NoCopy THEN Rebind(out, ptr[<<t, 1>>]) ELSE ptr
    /\ UNCHANGED <<count, history>>

Select(t) ==
    LET in == path[t[1]] + 1
        out == <<t, 1>> IN
    /\ mem' = IF NoCopy THEN mem ELSE [mem EXCEPT ![out] = Read(t, in)]
    /\ ptr' = IF NoCopy THEN Rebind(out, ptr[<<t, in>>]) ELSE ptr
    /\ UNCHANGED <<path, count, history>>

\* A task of the user.  The first one reads nothing, one with a forward socket
\* writes where it has read.
Compute(t) ==
    LET in == IF <<t, 1>> \in Inputs THEN Read(t, 1) ELSE <<>>
        out == IF Kind(t) = "fwd" THEN ptr[<<t, 1>>] ELSE <<t, 1>> IN
    /\ value' = Append(in, t)
    /\ mem' = [mem EXCEPT ![out] = value']
    /\ done' = Append(done, t)
    /\ UNCHANGED <<path, count, ptr>>

Execute(t) ==
    \/ Kind(t) = "iterate" /\ Iterate(t)
    \/ Kind(t) = "control" /\ Control(t)
    \/ Kind(t) = "commute" /\ Commute(t)
    \/ Kind(t) = "select" /\ Select(t)
    \/ Kind(t) \in DataKinds /\ Compute(t)

(***************************************************************************)
(* Initial states: a program, its sub-sequences, one way to execute them.  *)
(***************************************************************************)
Root == 1
AtRoot == [n |-> Root, task |-> 1, over |-> FALSE]

InitialCount(p, n) == LET item == ItemNamed(p, n) IN
    IF item.what = "case" /\ item.controller.type # "limit" THEN item.controller.init ELSE 0

Init ==
    /\ program \in Programs /\ mode \in Modes /\ thread \in {1, 2}
    /\ sockets = Bindings(program)
    /\ graph = Graphs(sockets, program)
    /\ pc = IF graph = <<>> THEN "refused" ELSE "idle"
    /\ stack = <<>>
    /\ cursor = AtRoot
    /\ path = [n \in Switchers |-> LastPath(n)]
    /\ count = [n \in Counters |-> InitialCount(program, n)]
    /\ mem = [s \in {<<t, k>> : t \in sockets.tasks, k \in 1 .. 4} |-> <<>>]
    /\ ptr = BoundPtr
    /\ saved = ptr
    /\ done = <<>> /\ value = <<>>
    /\ start = count
    /\ rounds = 0 /\ aborts = 0

(***************************************************************************)
(* exec and exec_seq                                                       *)
(***************************************************************************)
Call(n) == [n |-> n, task |-> 1, todo |-> Kids(n)]

\* exec begins; gen_processes(true) notes the buffers of the inputs it rebinds.
Exec ==
    /\ pc = "idle" /\ mode # "step" /\ rounds < MaxRounds
    /\ saved' = ptr
    /\ pc' = "between"
    /\ UNCHANGED <<setup, stack, cursor, data, history, start, rounds, aborts>>

\* exec resets the switchers before each iteration, exec_seq does not.
StalePaths == path                  \* mutant of ResetPaths
ResetPaths == [n \in Switchers |-> LastPath(n)]

Begin ==
    /\ pc = "between" /\ rounds < MaxRounds
    /\ path' = IF mode = "seq" THEN path ELSE ResetPaths
    /\ stack' = <<Call(Root)>>
    /\ done' = <<>>
    /\ start' = count
    /\ rounds' = rounds + 1
    /\ pc' = "walking"
    /\ UNCHANGED <<setup, cursor, count, mem, ptr, saved, value, aborts>>

Top == Last(stack)
Walking == pc = "walking" /\ mode # "step"
HasTask == Top.task <= Len(TasksOfNode(Top.n))

\* The children that the call visits after its last task.
Chosen(t) ==
    IF ~IsCommute(t) THEN Top.todo
    ELSE IF path'[t[1]] < Len(Kids(Top.n)) THEN <<Kids(Top.n)[path'[t[1]] + 1]>> ELSE <<>>

RunTask ==
    /\ Walking /\ HasTask
    /\ LET t == TasksOfNode(Top.n)[Top.task] IN
        /\ Execute(t)
        /\ stack' = [stack EXCEPT ![Len(stack)] = [Top EXCEPT !.task = @ + 1, !.todo = Chosen(t)]]
    /\ UNCHANGED <<setup, pc, cursor, saved, start, rounds, aborts>>

Descend ==
    /\ Walking /\ ~HasTask /\ Top.todo # <<>>
    /\ stack' = Append([stack EXCEPT ![Len(stack)].todo = Tail(@)], Call(Head(Top.todo)))
    /\ UNCHANGED <<setup, pc, cursor, data, saved, history, start, rounds, aborts>>

Leave ==
    /\ Walking /\ ~HasTask /\ Top.todo = <<>>
    /\ stack' = Front(stack)
    /\ pc' = IF Len(stack) = 1 THEN "iterated" ELSE pc
    /\ UNCHANGED <<setup, cursor, data, saved, history, start, rounds, aborts>>

\* A task throws processing_aborted: exec goes on with the next iteration.
Abort ==
    /\ Walking /\ mode # "seq" /\ HasTask
    /\ Kind(TasksOfNode(Top.n)[Top.task]) \in DataKinds
    /\ aborts < MaxAborts
    /\ aborts' = aborts + 1
    /\ stack' = <<>>
    /\ pc' = "aborted"
    /\ UNCHANGED <<setup, cursor, data, saved, history, start, rounds>>

\* The stop condition decides what follows an iteration, complete or not.
Continue ==
    /\ pc \in {"iterated", "aborted"} /\ mode \notin {"seq", "step"} /\ rounds < MaxRounds
    /\ pc' = "between"
    /\ UNCHANGED <<setup, stack, cursor, data, saved, history, start, rounds, aborts>>

\* reset_no_copy_mode puts the buffers back.
Restored == [s \in Inputs |-> IF s \in Rebound THEN saved[s] ELSE ptr[s]]

Return ==
    /\ pc \in {"iterated", "aborted"} /\ mode # "step"
    /\ ptr' = IF NoCopy THEN Restored ELSE ptr
    /\ pc' = "idle"
    /\ UNCHANGED <<setup, stack, cursor, path, count, mem, saved, history, start, rounds, aborts>>

(***************************************************************************)
(* exec_step: each call executes one task and moves the cursor.            *)
(***************************************************************************)
\* The first sub-sequence with tasks, from n along first children.
RECURSIVE SkipEmpty(_)
SkipEmpty(n) == IF TasksOfNode(n) # <<>> \/ Kids(n) = <<>> THEN n ELSE SkipEmpty(Kids(n)[1])

CursorBefore(n) == [n |-> n, task |-> 1, over |-> FALSE]    \* mutant of Cursor
Cursor(n) == [n |-> n, task |-> 1, over |-> TasksOfNode(n) = <<>>]

\* A path without child is an exception; the model has no such step.
MoveCursor(t) ==
    LET c == cursor
        last == c.task = Len(TasksOfNode(c.n)) IN
    IF IsCommute(t)
    THEN /\ path'[t[1]] < Len(Kids(c.n))
         /\ cursor' = Cursor(SkipEmpty(Kids(c.n)[path'[t[1]] + 1]))
    ELSE cursor' = CASE ~last -> [c EXCEPT !.task = @ + 1]
                     [] last /\ Kids(c.n) = <<>> -> [c EXCEPT !.over = TRUE]
                     [] OTHER -> Cursor(SkipEmpty(Kids(c.n)[1]))

StepRound ==
    /\ mode = "step" /\ pc \in {"idle", "iterated"} /\ rounds < MaxRounds
    /\ cursor' = AtRoot
    /\ done' = <<>>
    /\ start' = count
    /\ rounds' = rounds + 1
    /\ pc' = "walking"
    /\ UNCHANGED <<setup, stack, data, saved, value, aborts>>

StepTask ==
    /\ mode = "step" /\ pc = "walking" /\ cursor.task <= Len(TasksOfNode(cursor.n))
    /\ LET t == TasksOfNode(cursor.n)[cursor.task] IN
        /\ Execute(t)
        /\ MoveCursor(t)
    /\ pc' = IF cursor'.over THEN "iterated" ELSE pc
    /\ UNCHANGED <<setup, stack, saved, start, rounds, aborts>>

Next == Exec \/ Begin \/ RunTask \/ Descend \/ Leave \/ Abort \/ Continue \/ Return \/ StepRound \/ StepTask

Spec == Init /\ [][Next]_vars

\* The walk goes on by itself; the user calls exec_step until the round is over.
FairSpec == Spec /\ WF_vars(Begin \/ RunTask \/ Descend \/ Leave \/ StepTask)

(***************************************************************************)
(* Properties                                                              *)
(***************************************************************************)
Meant == Meaning([trace |-> <<>>, count |-> start], program)

\* Each iteration executes the tasks of the program in its order, all of them if
\* nothing aborts it, however the last one ended: the graph that init has built,
\* the paths of the switchers and the counts of the iterators are enough to know
\* where each loop and each exclusive path begins and ends.
Walks ==
    /\ pc \in {"walking", "aborted"} => IsPrefix(done, Meant.trace)
    /\ pc = "iterated" => done = Meant.trace /\ count = Meant.count

\* A complete iteration ends in the sub-sequence that get_last_subsequence finds,
\* to which a pipeline adds the tasks that push, and which must be unique.
ExitKnown ==
    /\ pc # "refused" => Cardinality(LastSubsequences(graph[thread])) = 1
    /\ pc = "iterated" /\ mode # "step" /\ Last(program).what \in DataKinds =>
        \A n \in LastSubsequences(graph[thread]) : Last(done) = Last(TasksOfNode(n))

\* The graph that init builds means the user's program: its walk executes the
\* program, and its exit is where the program ends.
WalkMeans == Walks /\ ExitKnown

\* Each task reads what the task before it wrote, also at the first turn of a
\* loop, after a path that was not taken, and when the switchers exchange
\* pointers instead of copying; after exec every input reads the socket that the
\* user has bound it to.
DataFlows ==
    /\ done # <<>> => value = Append(SelectSeq(Front(done), LAMBDA t : Kind(t) # "tap"), Last(done))
    /\ pc = "idle" => ptr = BoundPtr

\* The sub-sequences of another thread are those of thread 0, numbered alike.
NodeOf(g, i) == CHOOSE n \in Reachable(g) : g[n].id = i
Named(g, n) == [type |-> g[n].type, tasks |-> g[n].tasks,
                children |-> [c \in DOMAIN g[n].children |-> g[g[n].children[c]].id]]
Numbers(g) == {g[n].id : n \in Reachable(g)}
NumberedOnce(g) == Cardinality(Numbers(g)) = Cardinality(Reachable(g))

ReplicaFaithful ==
    LET g == graph[1]
        r == graph[2] IN
    pc = "idle" /\ rounds = 0 =>
        /\ NumberedOnce(g) /\ NumberedOnce(r) /\ Numbers(r) = Numbers(g)
        /\ \A i \in Numbers(g) : Named(r, NodeOf(r, i)) = Named(g, NodeOf(g, i))

\* Every iteration ends.
Termination == pc = "walking" ~> pc \in {"iterated", "aborted"}

=============================================================================
