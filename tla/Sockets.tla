------------------------------ MODULE Sockets ------------------------------
(***************************************************************************)
(* runtime::Socket and the part of runtime::Task that binds tasks: the     *)
(* calls a program makes in any order before it builds a sequence, and     *)
(* the destruction of tasks in any order.                                  *)
(*                                                                         *)
(* A socket is <<task, kind, name>>; each task has a status socket, its    *)
(* last one.  A task that waits for a socket which it does not read has a  *)
(* fake input socket for it.                                               *)
(***************************************************************************)
EXTENDS Integers, Sequences, FiniteSets, SequencesExt

CONSTANTS
    Layout,             \* Layout[t]: <<kind, name>> of the sockets of task t, in order
    Bytes,              \* bytes of a frame, in every socket
    Priorities,         \* places a program asks for in a list, other than its end
    MaxFrames,          \* bound: n_frames
    MaxOps              \* bound: calls

Tasks == DOMAIN Layout

NamesOf(t) == [i \in DOMAIN Layout[t] |-> Layout[t][i][2]]

\* A task refuses two sockets of one name and a socket named status.
ASSUME LayoutAssumption ==
    /\ IsFiniteSet(Tasks)
    /\ \A t \in Tasks :
        /\ Layout[t] \in Seq({"in", "fwd", "out"} \X (Range(NamesOf(t)) \ {"status"}))
        /\ IsInjective(NamesOf(t))
ASSUME BytesAssumption == Bytes \in Nat \ {0}
ASSUME PrioritiesAssumption == Priorities \subseteq Nat

None == <<>>
Named(t) == [i \in DOMAIN Layout[t] |-> <<t, Layout[t][i][1], Layout[t][i][2]>>]
Status(t) == <<t, "out", "status">>
All(t) == Append(Named(t), Status(t))
Real == UNION {Range(All(t)) : t \in Tasks}
Kind(s) == IF s[2] = "fake" THEN "in" ELSE s[2]
Outputs == {s \in Real : Kind(s) \in {"out", "fwd"}}
Fake(t, out) == <<t, "fake", out>>
Fakes == UNION {{Fake(t, out) : out \in {o \in Outputs : o[1] # t}} : t \in Tasks}
Inputs == {s \in Real : Kind(s) \in {"in", "fwd"}} \cup Fakes
Existing == Real \cup Fakes

VARIABLES
    link,               \* bound_socket
    list,               \* bound_sockets
    ptr,                \* dataptr: <<socket whose buffer it is>>, "user" or Null
    size,               \* databytes
    n,                  \* n_frames of the module of a task
    allocated,          \* outbuffers_allocated
    fakes,              \* fake_input_sockets
    nInputs,            \* n_input_sockets
    last,               \* last_input_socket
    alive,              \* tasks that are not destroyed
    torn,               \* tasks that have refused a change of n_frames half-way
    ops

bindings == <<link, list, ptr>>
counts == <<fakes, nInputs, last>>
vars == <<bindings, size, n, allocated, counts, alive, torn, ops>>

Null == <<>>
User == <<"user", "memory">>
Net == [link |-> link, list |-> list, ptr |-> ptr]

Init ==
    /\ link = [s \in Inputs |-> None]
    /\ list = [s \in Outputs |-> <<>>]
    /\ ptr = [s \in Existing |-> IF s \in Real /\ s = Status(s[1]) THEN s ELSE Null]
    /\ size = [s \in Existing |-> Bytes]
    /\ n = [t \in Tasks |-> 1]
    /\ allocated = [t \in Tasks |-> FALSE]
    /\ fakes = [t \in Tasks |-> <<>>]
    /\ nInputs = [t \in Tasks |-> Cardinality({i \in DOMAIN Layout[t] : Layout[t][i][1] = "in"})]
    /\ last = [t \in Tasks |-> LET ins == SelectSeq(Named(t), LAMBDA s : s \in Inputs) IN
                               IF ins = <<>> THEN None ELSE Last(ins)]
    /\ alive = Tasks
    /\ torn = {}
    /\ ops = 0

Call == ops < MaxOps /\ ops' = ops + 1

(***************************************************************************)
(* Socket::unbind, Socket::_bind.  Only the status has another datatype.   *)
(***************************************************************************)
UnbindOneSide(m, in) == [m EXCEPT !.link[in] = None]          \* mutant of UnbindSocket

UnbindSocket(m, in) ==
    [m EXCEPT !.link[in] = None, !.list[m.link[in]] = RemoveFirst(@, in)]

AtEnd == -1
Insert(seq, e, priority) ==
    IF priority > Len(seq) \/ priority = AtEnd THEN Append(seq, e) ELSE InsertAt(seq, priority + 1, e)

Unbound(m, in, out) == IF m.link[in] = out THEN UnbindSocket(m, in) ELSE m

BindSocket(m, in, out, priority) ==
    LET c == Unbound(m, in, out) IN
    [c EXCEPT !.link[in] = out, !.list[out] = Insert(@, in, priority), !.ptr[in] = c.ptr[out]]

NoBuffer(out) == allocated[out[1]] /\ ptr[out] = Null

Fits(in, out) ==
    /\ out # Status(out[1])
    /\ size[in] = size[out]
    /\ ~NoBuffer(out)

\* The sockets that spread_dataptr reaches from an output: what is bound to it, and
\* what is bound to the forward sockets among these, and so on.
Behind(out) ==
    LET reach[k \in 0 .. Cardinality(Outputs)] ==
            Range(list[out]) \cup
                IF k = 0 THEN {} ELSE UNION {Range(list[f]) : f \in {s \in reach[k - 1] : Kind(s) = "fwd"}} IN
    reach[Cardinality(Outputs)]

\* The program makes no cycle of forward sockets.
NoCycle(in, out) == in \in Outputs => out \notin Behind(in)

\* The code also lets a forward socket that is bound be bound elsewhere, and then
\* leaves it in the list of the first one: programs here do not do that.
Free(in, out) == link[in] \in {None, out}

Set(m) == link' = m.link /\ list' = m.list /\ ptr' = m.ptr

\* Socket::operator= with a socket: either side may come first.  A call that the
\* code refuses changes nothing, and is left out, here as below.
AssignSocket(in, out, priority) ==
    /\ in \in Real /\ {in[1], out[1]} \subseteq alive /\ in[1] # out[1]
    /\ Fits(in, out) /\ Free(in, out) /\ NoCycle(in, out)
    /\ Set(BindSocket(Net, in, out, priority))
    /\ Call
    /\ UNCHANGED <<size, n, allocated, counts, alive, torn>>

IsBound(s) == (s \in Inputs /\ link[s] # None) \/ (s \in Outputs /\ list[s] # <<>>)

\* Socket::operator= with memory of the user.
AssignMemory(s) ==
    /\ s \in Real /\ s[1] \in alive
    /\ s \in Inputs
    /\ ~IsBound(s)
    /\ ptr' = [ptr EXCEPT ![s] = User]
    /\ Call
    /\ UNCHANGED <<link, list, size, n, allocated, counts, alive, torn>>

Unbind(in) ==
    /\ in \in Real /\ in[1] \in alive
    /\ link[in] # None
    /\ Set(UnbindSocket(Net, in))
    /\ Call
    /\ UNCHANGED <<size, n, allocated, counts, alive, torn>>

(***************************************************************************)
(* Task::_bind and Task::unbind.  Both look at what the fake sockets are   *)
(* bound to, in order, and throw if one of them is not bound any more.     *)
(***************************************************************************)
FakeLinks(t) == {link[Fake(t, fakes[t][i])] : i \in DOMAIN fakes[t]}
Orphaned(t) == None \in FakeLinks(t)
ReadBy(t, out) == \E s \in Inputs : s[1] = t /\ link[s] = out

\* The fake socket is there before it is bound, and stays when that is refused.
WaitFor(t, out) ==
    LET fake == Fake(t, out) IN
    /\ {t, out[1]} \subseteq alive /\ t # out[1]
    /\ ~Orphaned(t)
    /\ ~ReadBy(t, out)
    /\ size' = [size EXCEPT ![fake] = size[out]]
    /\ fakes' = [fakes EXCEPT ![t] = Append(@, out)]
    /\ IF NoBuffer(out) THEN UNCHANGED <<bindings, nInputs, last>>
       ELSE /\ Set(BindSocket(Net, fake, out, AtEnd))
            /\ last' = [last EXCEPT ![t] = fake]
            /\ nInputs' = [nInputs EXCEPT ![t] = @ + 1]
    /\ Call
    /\ UNCHANGED <<n, allocated, alive, torn>>

SameCount(t) == nInputs                                     \* mutant of OneLess
OneLess(t) == [nInputs EXCEPT ![t] = @ - 1]

WaitNoMore(t, out) ==
    LET fake == Fake(t, out)
        left == RemoveFirst(fakes[t], out) IN
    /\ t \in alive
    /\ \E i \in DOMAIN fakes[t] :
        /\ fakes[t][i] = out
        /\ \A j \in 1 .. i : link[Fake(t, fakes[t][j])] # None
    /\ Set([UnbindSocket(Net, fake) EXCEPT !.ptr[fake] = Null])
    /\ fakes' = [fakes EXCEPT ![t] = left]
    /\ nInputs' = OneLess(t)
    /\ last' = [last EXCEPT ![t] = IF @ # fake THEN @ ELSE IF left = <<>> THEN None ELSE Fake(t, Last(left))]
    /\ Call
    /\ UNCHANGED <<size, n, allocated, alive, torn>>

(***************************************************************************)
(* Buffers: Task::allocate_outbuffers and deallocate_outbuffers, which     *)
(* hand the pointer to what is bound, also behind forward sockets.         *)
(***************************************************************************)
Owned(t) == {s \in Real : s[1] = t /\ s[2] = "out" /\ s # Status(t)}
Spread(t, outs, empty) ==
    [s \in Existing |->
        IF s \in outs THEN (IF empty THEN Null ELSE s)
        ELSE IF \E o \in outs : s \in Behind(o) THEN (IF empty THEN Null ELSE CHOOSE o \in outs : s \in Behind(o))
        ELSE ptr[s]]

Allocate(t) ==
    /\ t \in alive /\ ~allocated[t]
    /\ allocated' = [allocated EXCEPT ![t] = TRUE]
    /\ ptr' = Spread(t, {s \in Owned(t) : ptr[s] = Null}, FALSE)
    /\ Call
    /\ UNCHANGED <<link, list, size, n, counts, alive, torn>>

Deallocate(t) ==
    /\ t \in alive /\ allocated[t]
    /\ allocated' = [allocated EXCEPT ![t] = FALSE]
    /\ ptr' = Spread(t, {s \in Owned(t) : ptr[s] # Null}, TRUE)
    /\ Call
    /\ UNCHANGED <<link, list, size, n, counts, alive, torn>>

(***************************************************************************)
(* Module::set_n_frames, which stops at the first socket that is bound:    *)
(* n_frames and the sockets before that one have changed.                  *)
(***************************************************************************)
NewSize(s, old, new) == IF s = Status(s[1]) THEN new * Bytes ELSE (size[s] \div old) * new

Refusing(t, new) ==
    {i \in DOMAIN All(t) : LET s == All(t)[i] IN IsBound(s) /\ NewSize(s, n[t], new) # size[s]}

\* The sockets of t that are reached: those before the first one that refuses.
Reached(t, new) ==
    LET refusing == Refusing(t, new) IN
    {All(t)[i] : i \in {j \in DOMAIN All(t) : \A k \in refusing : j < k}}

\* An output that is reached has its buffer resized, also if its size is the same.
\* Refused changes let sizes and n_frames get out of step, and then a size can be
\* rounded down to nothing: no program here goes that far.
SetFrames(t, new) ==
    \E reached \in {Reached(t, new)} :
    /\ t \in alive /\ new # n[t]
    /\ n' = [n EXCEPT ![t] = new]
    /\ size' = [s \in Existing |-> IF s \in reached THEN NewSize(s, n[t], new) ELSE size[s]]
    /\ \A s \in Existing : size'[s] > 0
    /\ ptr' = [s \in Existing |-> IF s \in reached \cap Owned(t) THEN s ELSE ptr[s]]
    /\ torn' = IF Refusing(t, new) = {} THEN torn ELSE torn \cup {t}
    /\ Call
    /\ UNCHANGED <<link, list, allocated, counts, alive>>

(***************************************************************************)
(* The destructor of a task destroys its sockets, which unbind themselves  *)
(* and everything that is bound to them.                                   *)
(***************************************************************************)
UnbindAt(m, s, place) == UnbindSocket(m, m.list[s][place])
ResetSocket(m, s) ==
    LET own == IF s \in Inputs /\ m.link[s] # None THEN UnbindSocket(m, s) ELSE m
        count == Len(own.list[s])
        walk[k \in 0 .. count] ==
            IF k = 0 THEN own ELSE UnbindAt(walk[k - 1], s, count - k + 1) IN
    IF s \in Outputs THEN walk[count] ELSE own

Destroy(t) ==
    LET mine == All(t) \o [i \in DOMAIN fakes[t] |-> Fake(t, fakes[t][i])]
        after[k \in 0 .. Len(mine)] == IF k = 0 THEN Net ELSE ResetSocket(after[k - 1], mine[k]) IN
    /\ t \in alive
    /\ alive' = alive \ {t}
    /\ Set(after[Len(mine)])
    /\ fakes' = [fakes EXCEPT ![t] = <<>>]
    /\ Call
    /\ UNCHANGED <<size, n, allocated, nInputs, last, torn>>

Next ==
    \/ \E in \in Inputs \cap Real, out \in Outputs :
            \E priority \in {AtEnd} \cup Priorities : AssignSocket(in, out, priority)
    \/ \E s \in Inputs \cap Real : AssignMemory(s) \/ Unbind(s)
    \/ \E t \in Tasks, out \in Outputs : t # out[1] /\ (WaitFor(t, out) \/ WaitNoMore(t, out))
    \/ \E t \in Tasks : Allocate(t) \/ Deallocate(t) \/ Destroy(t)
    \/ \E t \in Tasks, new \in 1 .. MaxFrames : SetFrames(t, new)

Spec == Init /\ [][Next]_vars

(***************************************************************************)
(* Properties                                                              *)
(***************************************************************************)

\* A socket whose size is already the one it gets does not refuse a resize although
\* it is bound: then an output without a buffer gets one that its inputs do not know.
\* Sizes and n_frames have to be out of step for that, after an earlier refusal.
GrownAlone(in, out) == out[1] \in torn /\ ptr[in] = Null /\ ptr[out] = out

\* Both sides of a binding agree after any calls, also refused resizes and the
\* destruction of tasks in any order: an input is in the list of the socket it is
\* bound to, once, and in no other; their sizes are the same, and the input of an
\* output points to its buffer, or to none as long as it has none.
BoundAgree ==
    /\ \A out \in Outputs : IsInjective(list[out]) /\ \A in \in Range(list[out]) : link[in] = out
    /\ \A in \in Inputs : link[in] # None =>
        /\ in \in Range(list[link[in]])
        /\ {in[1], link[in][1]} \subseteq alive
        /\ size[in] = size[link[in]]
        /\ Kind(link[in]) = "out" => ptr[in] = ptr[link[in]] \/ GrownAlone(in, link[in])

\* A sequence lets a task join when as many bound sockets have fed it as it has
\* input and forward sockets without the static ones.  That is the number of its
\* sockets that are bound, if it has memory for the others.
Bound(t) == {s \in Inputs : s[1] = t /\ link[s] # None}
Static(t) == {s \in Inputs : s \in Real /\ s[1] = t /\ Kind(s) = "in" /\ link[s] = None /\ ptr[s] # Null}
Forwarding(t) == {s \in Inputs : s[1] = t /\ Kind(s) = "fwd"}
JoinCount ==
    \A t \in alive :
        /\ \A s \in Inputs : s \in Real /\ s[1] = t /\ link[s] = None => Kind(s) = "in" /\ ptr[s] # Null
        /\ ~Orphaned(t)
        => nInputs[t] + Cardinality(Forwarding(t)) - Cardinality(Static(t)) = Cardinality(Bound(t))

=============================================================================
