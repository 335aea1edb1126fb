----------------------------- MODULE TaskFrames -----------------------------
(***************************************************************************)
(* runtime::Task and the frames of its module.  A module handles n_frames  *)
(* frames each time a task is executed; the codelet of the task handles    *)
(* them by waves of n_frames_per_wave frames.  Task::_exec cuts the frames *)
(* into waves: it moves the pointers of the sockets from wave to wave, and *)
(* goes through scratch memory of its own (sockets_data) for a wave that   *)
(* is not complete, or for one frame of a wave.                            *)
(*                                                                         *)
(* Memory is counted in frames.  A pointer is <<area, frame>>.             *)
(***************************************************************************)
EXTENDS Integers, Sequences

CONSTANTS
    MaxFrames,          \* bound: n_frames and n_frames_per_wave
    MaxOps              \* bound: calls

FloatExact == 16777216   \* 2^24: a float has 24 bits, and is exact up to here

\* Module computes its waves with floats.  Beyond this number they may be too few.
ASSUME BoundsAssumption == MaxFrames \in 1 .. FloatExact /\ MaxOps \in Nat

VARIABLES
    mod,                \* the module: n_frames, n_frames_per_wave, n_waves, rest, single_wave
    fast,               \* is_fast: no check before an execution
    autoalloc,          \* Buffer_allocator::task_autoalloc
    pc,                 \* "module" (no task yet), "creating", "idle", "running"
    sockets,            \* kinds of the sockets, in the order of their creation
    size,               \* databytes of a socket
    memory,             \* memory[s]: what the user gives to "in" and "fwd"; out_buffer of "out"
    scratch,            \* sockets_data
    ptr,                \* dataptr
    saved,              \* sockets_dataptr_init
    status, statusSize, \* the vector, and the databytes of its socket
    todo,               \* waves of the execution under way
    ops,
    \* What follows is not in the code: the properties need it.
    fed,                \* has the user given memory of this number of frames?
    ran,                \* ran[f]: executions of frame f since the user gave its data
    wild,               \* has something outside a buffer been read or written?
    lost                \* has an exception left pointers that are not restored?

user == <<fast, autoalloc>>
task == <<sockets, size, saved>>
data == <<memory, scratch, ptr, status, statusSize>>
ghosts == <<fed, ran, wild, lost>>
vars == <<mod, user, pc, task, data, todo, ops, ghosts>>

Kinds == {"in", "out", "fwd"}
Reads(s) == s \in {"in", "fwd"}
Writes(s) == s \in {"out", "fwd"}
Null == <<>>
Home == <<"memory", 0>>
InScratch == <<"scratch", 0>>
Has(s) == \E i \in DOMAIN sockets : sockets[i] = s
Existing == {s \in Kinds : Has(s)}

(***************************************************************************)
(* Data of a frame: the input of frame f is f, its output is its input,    *)
(* and a forward socket counts how often it was transformed.  Junk is what *)
(* nobody has written.                                                     *)
(***************************************************************************)
Junk == -1
Fresh(s, n) == [f \in 1 .. n |-> IF s = "in" THEN f ELSE IF s = "fwd" THEN 0 ELSE Junk]
Resize(buffer, n) == [f \in 1 .. n |-> IF f \in DOMAIN buffer THEN buffer[f] ELSE Junk]

(***************************************************************************)
(* Module: the numbers, and what changes with them in the task.  A record  *)
(* has all of it, since one setter calls the other.                        *)
(***************************************************************************)
All == [mod |-> mod, size |-> size, memory |-> memory, ptr |-> ptr, scratch |-> scratch,
        status |-> status, statusSize |-> statusSize]

\* n_waves is the ceiling of a quotient of two floats, q + r / per, which is a float
\* too: q, when r / per is at most half of the distance between q and the next float.
\* From a power of two to the next one this half is power / FloatExact.
PowersOfTwo == {2^e : e \in 0 .. 23}
RoundedDown(q, r, per) ==
    \E power \in PowersOfTwo \cap (1 .. q) : q < 2 * power /\ r * FloatExact <= power * per

Waves(n, per) ==
    LET q == n \div per
        r == n % per IN
    IF r = 0 \/ RoundedDown(q, r, per) THEN q ELSE q + 1
Numbers(m, n, per) ==
    [m EXCEPT !.n = n, !.per = per, !.rest = n % per, !.waves = Waves(n, per)]

\* The status has a socket once the codelet is created.
StatusFor(a, waves) ==
    IF pc = "module" \/ a.statusSize = waves THEN a
    ELSE [a EXCEPT !.status = Resize(a.status, waves), !.statusSize = waves]

\* Task::update_n_frames, with the numbers of the module already changed.
KeepBuffers(a, old, new) ==                 \* mutant of UpdateFrames
    [StatusFor(a, a.mod.waves) EXCEPT !.size = [s \in Kinds |-> (@[s] \div old) * new]]

UpdateFrames(a, old, new) ==
    LET sizes == [s \in Kinds |-> (a.size[s] \div old) * new] IN
    [StatusFor(a, a.mod.waves) EXCEPT
        !.size = sizes,
        !.memory["out"] = IF Has("out") THEN Resize(@, sizes["out"]) ELSE @,
        !.ptr["out"] = IF Has("out") THEN Home ELSE @]

ScratchSize(per) == IF per > 1 THEN per ELSE 0

\* Task::update_n_frames_per_wave.
UpdatePerWave(a, new) ==
    [StatusFor(a, a.mod.waves) EXCEPT
        !.scratch = [s \in Kinds |-> IF Has(s) THEN Resize(@[s], ScratchSize(new)) ELSE @[s]]]

WithFrames(a, n) ==
    IF a.mod.n = n THEN a
    ELSE UpdateFrames([a EXCEPT !.mod = Numbers(@, n, @.per)], a.mod.n, n)

WithPerWave(a, per) ==
    IF a.mod.per = per THEN a
    ELSE UpdatePerWave([a EXCEPT !.mod = Numbers(@, @.n, per)], per)

\* Module::set_n_frames and set_n_frames_per_wave: one follows the other in a
\* module with a single wave.
SetFrames(a, n) ==
    LET b == WithFrames(a, n) IN IF b.mod.single THEN WithPerWave(b, n) ELSE b
SetPerWave(a, per) ==
    LET b == WithPerWave(a, per) IN IF b.mod.single THEN WithFrames(b, per) ELSE b
SetSingle(a, single) ==
    SetPerWave(SetFrames([a EXCEPT !.mod.single = single], a.mod.n), a.mod.n)

\* The setters are not called while the task is half created.
Set(a) ==
    /\ pc \in {"module", "idle"} /\ ops < MaxOps
    /\ ops' = ops + 1
    /\ mod' = a.mod /\ size' = a.size /\ memory' = a.memory /\ ptr' = a.ptr
    /\ scratch' = a.scratch /\ status' = a.status /\ statusSize' = a.statusSize
    /\ fed' = (fed /\ a.mod.n = mod.n)
    /\ UNCHANGED <<user, pc, sockets, saved, todo, ran, wild, lost>>

SetNFrames == \E n \in 1 .. MaxFrames : Set(SetFrames(All, n))
SetNFramesPerWave == \E per \in 1 .. MaxFrames : Set(SetPerWave(All, per))
SetSingleWave == \E single \in BOOLEAN : Set(SetSingle(All, single))

(***************************************************************************)
(* Creation: the sockets in any order, then the codelet, whose status is   *)
(* the last socket.                                                        *)
(***************************************************************************)
Init ==
    /\ mod = [n |-> 1, per |-> 1, rest |-> 0, waves |-> 1, single |-> FALSE]
    /\ fast \in BOOLEAN /\ autoalloc \in BOOLEAN
    /\ pc = "module"
    /\ sockets = <<>>
    /\ size = [s \in Kinds |-> 0]
    /\ memory = [s \in Kinds |-> <<>>]
    /\ scratch = [s \in Kinds |-> <<>>]
    /\ ptr = [s \in Kinds |-> Null] /\ saved = [s \in Kinds |-> Null]
    /\ status = <<>> /\ statusSize = 0
    /\ todo = <<>>
    /\ ops = 0
    /\ fed = FALSE
    /\ ran = [f \in 1 .. MaxFrames |-> 0]
    /\ wild = FALSE /\ lost = FALSE

CreateTask ==
    /\ pc = "module" /\ pc' = "creating"
    /\ status' = Resize(<<>>, mod.waves)
    /\ UNCHANGED <<mod, user, task, memory, scratch, ptr, statusSize, todo, ops, ghosts>>

\* The module asks for n_frames rows in each socket.
Rows == mod.n

NewSocket(s) ==
    /\ pc = "creating" /\ ~Has(s)
    /\ sockets' = Append(sockets, s)
    /\ size' = [size EXCEPT ![s] = Rows]
    /\ scratch' = [scratch EXCEPT ![s] = Resize(<<>>, ScratchSize(mod.per))]
    /\ UNCHANGED <<mod, user, pc, saved, memory, ptr, status, statusSize, todo, ops, ghosts>>

CreateSocketIn == NewSocket("in")
CreateSocketOut == NewSocket("out")
CreateSocketFwd == NewSocket("fwd")
CreateSocket == CreateSocketIn \/ CreateSocketOut \/ CreateSocketFwd

Allocated(p) == IF Has("out") /\ p["out"] = Null THEN [p EXCEPT !["out"] = Home] ELSE p
OutBuffer(p) == IF Has("out") /\ p["out"] = Null THEN [memory EXCEPT !["out"] = Resize(<<>>, size["out"])] ELSE memory

CreateCodelet ==
    /\ pc = "creating" /\ pc' = "idle"
    /\ statusSize' = mod.waves
    /\ IF autoalloc THEN ptr' = Allocated(ptr) /\ memory' = OutBuffer(ptr) ELSE UNCHANGED <<ptr, memory>>
    /\ UNCHANGED <<mod, user, task, scratch, status, todo, ops, ghosts>>

\* Task::allocate_outbuffers, called for instance by Sequence.
AllocateOutbuffers ==
    /\ pc = "idle" /\ ~autoalloc
    /\ Allocated(ptr) # ptr
    /\ ptr' = Allocated(ptr) /\ memory' = OutBuffer(ptr)
    /\ UNCHANGED <<mod, user, pc, task, scratch, status, statusSize, todo, ops, ghosts>>

\* Module::clone: the program goes on with the copy, whose outputs have buffers
\* of their own and whose inputs are those of the original.
CloneTask ==
    /\ pc = "idle" /\ ops < MaxOps
    /\ ops' = ops + 1
    /\ LET none == [ptr EXCEPT !["out"] = Null] IN
        /\ ptr' = IF autoalloc THEN Allocated(none) ELSE none
        /\ memory' = IF autoalloc THEN OutBuffer(none) ELSE [memory EXCEPT !["out"] = <<>>]
    /\ fed' = FALSE
    /\ UNCHANGED <<mod, user, pc, task, scratch, status, statusSize, todo, ran, wild, lost>>

\* The user binds vectors, whose length must be the size of the socket, and
\* looks at what comes out from now on.
Feed ==
    /\ pc = "idle" /\ ops < MaxOps
    /\ ops' = ops + 1
    /\ fed' = TRUE
    /\ memory' = [s \in Kinds |-> IF ~Has(s) THEN memory[s]
                                  ELSE IF Reads(s) THEN Fresh(s, size[s])
                                  ELSE [f \in DOMAIN memory[s] |-> Junk]]
    /\ ptr' = [s \in Kinds |-> IF Reads(s) /\ Has(s) THEN Home ELSE ptr[s]]
    /\ ran' = [f \in 1 .. MaxFrames |-> 0]
    /\ UNCHANGED <<mod, user, pc, task, scratch, status, statusSize, todo, wild, lost>>

(***************************************************************************)
(* Task::exec.  frame is -1 for all frames; with managed = FALSE the       *)
(* pointers are those of one wave, whatever the frame.                     *)
(***************************************************************************)
Direct(frame, managed) ==
    \/ ~managed /\ frame >= 0
    \/ frame = -1 /\ mod.per = mod.n
    \/ frame = 0 /\ (mod.per = 1 \/ mod.waves > 1 \/ mod.rest = 0)

Item(w, how, frame) == [w |-> w, how |-> how, frame |-> frame]

Whole(w) == Item(w, IF w = mod.waves - 1 /\ mod.rest # 0 THEN "rest" ELSE "shift", -1)

ToRun(frame, managed) ==
    LET real == IF frame = -1 THEN 0 ELSE frame
        w == (real % mod.n) \div mod.per IN
    IF Direct(frame, managed) THEN <<Item(w, "direct", real)>>
    ELSE IF frame > 0 /\ mod.per > 1 THEN <<Item(w, "single", frame)>>
    ELSE IF frame = -1 THEN [i \in 1 .. mod.waves |-> Whole(i - 1)]
    ELSE <<Whole(frame % mod.waves)>>

CanExec == \A s \in Existing : ptr[s] # Null

\* The user has given memory of the size of the sockets, which nothing checks, and
\* for an unmanaged execution at least a wave.
Provided(managed) == fed /\ (managed \/ mod.per <= mod.n)

Exec(frame, managed) ==
    /\ pc = "idle" /\ ops < MaxOps
    /\ CanExec /\ Provided(managed)
    /\ fast \/ frame < mod.n
    /\ pc' = "running"
    /\ ops' = ops + 1
    /\ status' = [w \in DOMAIN status |-> IF w <= mod.waves THEN "UNKNOWN" ELSE status[w]]
    /\ wild' = (wild \/ mod.waves > Len(status))
    /\ todo' = ToRun(frame, managed)
    /\ saved' = IF Direct(frame, managed) THEN saved ELSE ptr
    /\ UNCHANGED <<mod, user, sockets, size, memory, scratch, ptr, statusSize, fed, ran, lost>>

(***************************************************************************)
(* One wave: the copies into the scratch memory, the codelet on            *)
(* n_frames_per_wave frames from the pointers on, the copies back.         *)
(***************************************************************************)
Areas == {"memory", "scratch"}
Buffers == [area \in Areas |-> IF area = "memory" THEN memory ELSE scratch]
From(p, k) == <<p[1], p[2] + k>>
Inside(b, s, p) == p[2] + 1 \in DOMAIN b[p[1]][s]

\* n frames of socket s, from p on.
Read(b, s, p, n) ==
    [k \in 1 .. n |-> IF Inside(b, s, From(p, k - 1)) THEN b[p[1]][s][p[2] + k] ELSE Junk]

\* The frames v[s] go to at[s], for each socket of v.
Write(b, at, v) ==
    [area \in Areas |-> [s \in Kinds |->
        IF s \in DOMAIN v /\ at[s][1] = area
        THEN [f \in DOMAIN b[area][s] |->
                IF f - at[s][2] \in DOMAIN v[s] THEN v[s][f - at[s][2]] ELSE b[area][s][f]]
        ELSE b[area][s]]]

Copy(b, kinds, from, to, n) == Write(b, to, [s \in kinds |-> Read(b, s, from[s], n)])

\* What is copied: n frames at place "out" of the user's memory and place "at" of
\* the scratch memory.
Part(e) ==
    IF e.how = "single" THEN [out |-> e.frame % mod.n, at |-> e.frame % mod.per, n |-> 1]
    ELSE [out |-> e.w * mod.per, at |-> 0, n |-> mod.rest]
ThroughScratch(e) == e.how \in {"single", "rest"}

InUser(e) == [s \in Existing |-> From(saved[s], Part(e).out)]
InWave(e) == [s \in Existing |-> From(InScratch, Part(e).at)]

CopyIn(b, e) ==
    IF ~ThroughScratch(e) THEN b
    ELSE Copy(b, {s \in Existing : Reads(s)}, InUser(e), InWave(e), Part(e).n)

ForwardForgotten(b, e) ==                   \* mutant of CopyOut
    IF ~ThroughScratch(e) THEN b
    ELSE Copy(b, Existing \cap {"out"}, InWave(e), InUser(e), Part(e).n)

CopyOut(b, e) ==
    IF ~ThroughScratch(e) THEN b
    ELSE Copy(b, {s \in Existing : Writes(s)}, InWave(e), InUser(e), Part(e).n)

Pointers(e) ==
    [s \in Kinds |->
        IF ~Has(s) \/ e.how = "direct" THEN ptr[s]
        ELSE IF e.how = "shift" THEN From(saved[s], e.w * mod.per) ELSE InScratch]

Incremented(v) == [k \in DOMAIN v |-> v[k] + 1]

Codelet(b, p) ==
    Write(b, p,
        [s \in {k \in Existing : Writes(k)} |->
            IF s = "fwd" THEN Incremented(Read(b, "fwd", p["fwd"], mod.per))
            ELSE IF Has("in") THEN Read(b, "in", p["in"], mod.per)
            ELSE [k \in 1 .. mod.per |-> Junk]])

\* Is everything that the wave touches inside the buffers?
WaveInside(e, p) ==
    /\ e.w + 1 \in DOMAIN status
    /\ \A s \in Existing : \A k \in 0 .. mod.per - 1 : Inside(Buffers, s, From(p[s], k))
    /\ ThroughScratch(e) => \A s \in Existing : \A k \in 0 .. Part(e).n - 1 :
            Inside(Buffers, s, From(saved[s], Part(e).out + k)) /\ Inside(Buffers, s, From(InScratch, Part(e).at + k))

\* The frames that the wave stands for.
Meant(e) ==
    CASE e.how = "single" -> {e.frame % mod.n}
      [] e.how \in {"shift", "rest"} -> {f \in 0 .. mod.n - 1 : f \div mod.per = e.w}
      [] e.how = "direct" -> 0 .. mod.per - 1

Statuses == {"SUCCESS", "FAILURE", "FAILURE_STOP"}

PointersAfter(e, last) ==
    IF last /\ e.how # "direct" THEN [s \in Kinds |-> IF Has(s) THEN saved[s] ELSE ptr[s]] ELSE Pointers(e)

RunWave(result) ==
    LET e == Head(todo)
        p == Pointers(e)
        rest == IF result = "FAILURE_STOP" THEN <<>> ELSE Tail(todo) IN
    /\ todo # <<>>
    /\ \E b \in {CopyOut(Codelet(CopyIn(Buffers, e), p), e)} :
        memory' = b["memory"] /\ scratch' = b["scratch"]
    /\ status' = [status EXCEPT ![e.w + 1] = result]
    /\ ptr' = PointersAfter(e, rest = <<>>)
    /\ todo' = rest
    /\ pc' = IF rest = <<>> THEN "idle" ELSE pc
    /\ ran' = [f \in 1 .. MaxFrames |-> IF f - 1 \in Meant(e) THEN ran[f] + 1 ELSE ran[f]]
    /\ wild' = (wild \/ ~WaveInside(e, p))
    /\ UNCHANGED <<mod, user, task, statusSize, ops, fed, lost>>

\* An exception of the codelet passes through _exec: nothing is restored.
Throw ==
    LET e == Head(todo) IN
    /\ todo # <<>>
    /\ \E b \in {CopyIn(Buffers, e)} : memory' = b["memory"] /\ scratch' = b["scratch"]
    /\ ptr' = Pointers(e)
    /\ todo' = <<>>
    /\ pc' = "idle"
    /\ lost' = (lost \/ Pointers(e) # PointersAfter(e, TRUE))
    /\ UNCHANGED <<mod, user, task, status, statusSize, ops, fed, ran, wild>>

Next ==
    \/ SetNFrames \/ SetNFramesPerWave \/ SetSingleWave
    \/ CreateTask \/ CreateCodelet \/ AllocateOutbuffers \/ CloneTask \/ Feed \/ Throw
    \/ CreateSocket
    \/ \E frame \in -1 .. MaxFrames - 1, managed \in BOOLEAN : Exec(frame, managed)
    \/ \E result \in Statuses : RunWave(result)

Spec == Init /\ [][Next]_vars

(***************************************************************************)
(* Properties.  An exception that leaves moved pointers behind is outside  *)
(* of them: the next execution takes these for the user's.                 *)
(***************************************************************************)

\* Whatever the numbers of frames, waves and the order of the setters, an
\* execution stays inside the memory of the sockets, the scratch memory and the
\* statuses; between executions the sizes are those of the module's numbers, and
\* the pointers are where they were before the waves moved them.
InBounds ==
    /\ lost \/ ~wild
    /\ pc = "idle" =>
        /\ Len(status) = mod.waves /\ statusSize = mod.waves
        /\ \A s \in Existing : size[s] = mod.n
        /\ Has("out") /\ ptr["out"] # Null => Len(memory["out"]) = mod.n
        /\ mod.single => mod.waves = 1
        /\ lost \/ \A s \in Existing : ptr[s] \in {Null, Home}

\* Each frame is read, transformed and written once by each execution that asks
\* for it, wherever the waves are cut, through the scratch memory or not.
FramesExact ==
    pc = "idle" /\ fed /\ ~lost =>
        \A f \in 1 .. mod.n :
            /\ Has("in") /\ Has("out") /\ ran[f] > 0 => memory["out"][f] = f
            /\ Has("fwd") => memory["fwd"][f] = ran[f]

=============================================================================
