---------------------------- MODULE SubSequences ----------------------------
(***************************************************************************)
(* runtime::Sequence, construction: init explores the tasks from the first *)
(* ones along the bound sockets and cuts them into a graph of              *)
(* sub-sequences; _init removes the empty ones and numbers the others;     *)
(* replicate copies the graph for another thread.  The switchers' tasks    *)
(* make the branches: a "commute" has one child per path, a "select" is    *)
(* reached from each path and from the end of a loop.                      *)
(*                                                                         *)
(* Everything here is an operator on data: the bindings of the user, G, and*)
(* the state b of the exploration.  The operators are recursive, so they   *)
(* are evaluated by TLC and not the subject of proofs.                     *)
(***************************************************************************)
EXTENDS Naturals, Sequences, FiniteSets, SequencesExt

(***************************************************************************)
(* Bindings.  A task is a pair <<name, kind>>; the two tasks of a switcher *)
(* share its name.  G is a record:                                         *)
(*   tasks        the tasks of the program                                 *)
(*   outs[t]      for each output or forward socket of t, in their order,  *)
(*                the sequence of sockets <<task, number>> bound to it; the*)
(*                socket "status" is the last                              *)
(*   ins[t]       number of input and forward sockets of t                 *)
(*   paths[t]     n_data_sockets of the switcher of t                      *)
(*   lasts        the tasks at which the user ends the sequence            *)
(*   exclusions   the tasks that the user leaves out of it                 *)
(***************************************************************************)
Kind(t) == t[2]
IsSelect(t) == Kind(t) = "select"
IsCommute(t) == Kind(t) = "commute"

\* Task::is_last_input_socket, asked for the tasks "select" only.
IsLastInput(G, s) == s[2] = G.ins[s[1]]

EmptyNode(parents, depth) ==
    [filled |-> FALSE, type |-> "std", tasks |-> <<>>, taskIds |-> <<>>, id |-> 0,
     parents |-> parents, children |-> <<>>, depth |-> depth]

Filled(parents, depth) == [EmptyNode(parents, depth) EXCEPT !.filled = TRUE]

AddChild(node, parent, child) == [node EXCEPT ![parent].children = Append(@, child)]
AddParent(node, child, parent) == [node EXCEPT ![child].parents = Append(@, parent)]

(***************************************************************************)
(* The state of the exploration.  "here" maps a task that has been reached *)
(* to the sub-sequence it will join and to the counter that its own visit  *)
(* increments: init_recursive takes that counter by reference.             *)
(***************************************************************************)
StartOfInit ==
    [node |-> <<EmptyNode(<<>>, 0)>>, ssid |-> 0, taid |-> 0, selectors |-> <<>>,
     switchers |-> {}, feed |-> <<>>, here |-> <<>>, lasts |-> <<>>, firstsIds |-> <<>>]

Extend(f, x, v) == [y \in DOMAIN f \cup {x} |-> IF y = x THEN v ELSE f[y]]

Local == <<"local", "variable">>
Ssid(b, ref) == IF ref = Local THEN b.ssid ELSE b.here[ref].ssid
IncSsid(b, ref) == IF ref = Local THEN [b EXCEPT !.ssid = @ + 1]
                                  ELSE [b EXCEPT !.here[ref].ssid = @ + 1]

\* new Digraph_node with contents: the sub-sequence is the last of b.node.
NewNode(b, ref, parent) ==
    [IncSsid(b, ref) EXCEPT !.node = Append(@, Filled(<<parent>>, b.node[parent].depth + 1))]

PushTask(b, n, t) ==
    [b EXCEPT !.node[n].tasks = Append(@, t), !.node[n].taskIds = Append(@, b.taid), !.taid = @ + 1]

\* mutant of Arrive: a task joins the first sub-sequence that reaches it
ArriveFirst(b, ref, n, t) ==
    LET fed == IF t \in DOMAIN b.feed THEN b.feed[t] + 1 ELSE 1 IN
    [b EXCEPT !.here = IF t \in DOMAIN b.here THEN @ ELSE Extend(@, t, [node |-> n, ssid |-> Ssid(b, ref)]),
              !.feed = Extend(@, t, fed)]

\* What the socket s of a task of sub-sequence n does to the task it is bound to.
Arrive(b, ref, n, t) ==
    LET old == t \notin DOMAIN b.here \/ b.here[t].ssid < Ssid(b, ref)
        fed == IF t \in DOMAIN b.feed THEN b.feed[t] + 1 ELSE 1 IN
    [b EXCEPT !.here = IF old THEN Extend(@, t, [node |-> n, ssid |-> Ssid(b, ref)]) ELSE @,
              !.feed = Extend(@, t, fed)]

\* mutant of Ready: a task is visited one input too early
ReadyEarly(G, b, s) ==
    IF IsSelect(s[1]) THEN IsLastInput(G, s) ELSE b.feed[s[1]] + 1 >= G.ins[s[1]]

Ready(G, b, s) ==
    IF IsSelect(s[1]) THEN IsLastInput(G, s) ELSE b.feed[s[1]] >= G.ins[s[1]]

\* A "select" that is not ready is linked to the end of the path that reaches
\* it.  A path that starts after a commute adds itself as a parent only when the
\* sub-sequence of the "select" exists; the others always do.
LinkSelector(b, n, t, commute) ==
    LET known == t \in DOMAIN b.selectors
        made == IF known THEN b ELSE
                [b EXCEPT !.node = Append(@, EmptyNode(<<n>>, b.node[n].depth + 1)),
                          !.selectors = Extend(@, t, Len(b.node) + 1)]
        sel == made.selectors[t]
        linked == IF commute /\ ~known THEN made.node ELSE AddParent(made.node, sel, n) IN
    [made EXCEPT !.node = AddChild(linked, n, sel)]

(***************************************************************************)
(* init_recursive.  Visit joins the task t to the sub-sequence cur and     *)
(* explores what is bound to its outputs; a is [b, ret], where ret is the  *)
(* sub-sequence returned by the latest nested visit, 0 if there was none   *)
(* (then t is a last task).                                                *)
(***************************************************************************)
RECURSIVE Visit(_, _, _, _, _)

Explore(G, a, ref, n, s, link) ==
    LET t == s[1]
        b == Arrive(a.b, ref, n, t) IN
    IF t \in G.exclusions THEN a ELSE
    CASE Ready(G, b, s) -> Visit(G, b, t, b.here[t].node, t)
      [] ~Ready(G, b, s) /\ IsSelect(t) /\ link # "none" ->
           [a EXCEPT !.b = LinkSelector(b, n, t, link = "commute")]
      [] OTHER -> [a EXCEPT !.b = b]

ExploreSocket(G, a, ref, n, bound, link) ==
    FoldLeft(LAMBDA acc, s : Explore(G, acc, ref, n, s, link), a, bound)

ExploreTask(G, a, ref, n, outs, link) ==
    FoldLeft(LAMBDA acc, bound : ExploreSocket(G, acc, ref, n, bound, link), a, outs)

\* Each data socket of a commute begins a sub-sequence of its own; what waits for
\* its status goes on in the sub-sequence of the commute.
VisitCommute(G, b0, ref, cur, t) ==
    LET b1 == NewNode([b0 EXCEPT !.switchers = @ \cup {t}], ref, cur)
        com == Len(b1.node)
        b2 == PushTask([b1 EXCEPT !.node = AddChild([@ EXCEPT ![com].type = "commute"], cur, com)], com, t)
        OnPath(acc, p) ==
            LET b3 == NewNode(acc.b, ref, com)
                son == Len(b3.node) IN
            ExploreSocket(G, [acc EXCEPT !.b = [b3 EXCEPT !.node = AddChild(@, com, son)]],
                          ref, son, G.outs[t][p], "commute")
        paths == FoldLeft(OnPath, [b |-> b2, ret |-> 0], [p \in 1 .. G.paths[t] |-> p]) IN
    ExploreSocket(G, paths, ref, com, G.outs[t][G.paths[t] + 1], "none")

VisitSelect(G, b0, ref, cur, t) ==
    LET known == t \in DOMAIN b0.selectors
        b1 == IF known THEN b0 ELSE
              [b0 EXCEPT !.node = Append(@, EmptyNode(<<cur>>, b0.node[cur].depth + 1)),
                         !.selectors = Extend(@, t, Len(b0.node) + 1)]
        sel == b1.selectors[t]
        b2 == PushTask([b1 EXCEPT !.node[sel].filled = TRUE, !.node[sel].type = "select"], sel, t)
        b3 == IncSsid([b2 EXCEPT !.node = AddChild(@, cur, sel)], ref)
        b4 == NewNode(b3, ref, sel)
        son == Len(b4.node) IN
    ExploreTask(G, [b |-> [b4 EXCEPT !.node = AddChild(@, sel, son)], ret |-> 0],
                ref, son, G.outs[t], "select")

VisitStandard(G, b0, ref, cur, t) ==
    LET a == [b |-> PushTask(b0, cur, t), ret |-> 0] IN
    IF t \in G.lasts THEN a ELSE ExploreTask(G, a, ref, cur, G.outs[t], "std")

Visit(G, b0, ref, cur, t) ==
    LET b1 == [b0 EXCEPT !.lasts = SelectSeq(@, LAMBDA e : e[1] # t)]
        b2 == IF b1.node[cur].filled THEN b1 ELSE IncSsid([b1 EXCEPT !.node[cur].filled = TRUE], ref)
        a == CASE IsCommute(t) /\ t \notin b2.switchers -> VisitCommute(G, b2, ref, cur, t)
               [] IsSelect(t) -> VisitSelect(G, b2, ref, cur, t)
               [] IsCommute(t) /\ t \in b2.switchers -> [b |-> b2, ret |-> 0]
               [] OTHER -> VisitStandard(G, b2, ref, cur, t)
        noted == \E i \in DOMAIN a.b.lasts : a.b.lasts[i][1] = t
        b3 == IF a.ret # 0 \/ noted THEN a.b ELSE
              [a.b EXCEPT !.lasts = Append(@, <<t, Last(a.b.node[cur].taskIds)>>)] IN
    [b |-> b3, ret |-> IF a.ret # 0 THEN a.ret ELSE cur]

\* Sequence::init: the first tasks are visited one after the other, each where
\* the visit of the one before it ended.
Init1(G, a, first) ==
    LET id == IF a.b.node[a.ret].filled THEN Last(a.b.node[a.ret].taskIds) ELSE 0 IN
    Visit(G, [a.b EXCEPT !.here = <<>>, !.firstsIds = Append(@, id)], Local, a.ret, first)

Discover(G, firsts) ==
    FoldLeft(LAMBDA a, first : Init1(G, a, first), [b |-> StartOfInit, ret |-> 1], firsts).b


(***************************************************************************)
(* _init.  Prune cuts out of the graph, depth first, each sub-sequence     *)
(* without tasks that has one parent and one child, and sets the depths;   *)
(* st is [node, seen, thrown].  A child that does not have the sub-sequence*)
(* among its parents is an exception: the sequence is refused.             *)
(***************************************************************************)
Useless(node) == Len(node.parents) = 1 /\ Len(node.children) = 1 /\ node.tasks = <<>>

Position(seq, x) == CHOOSE i \in DOMAIN seq : seq[i] = x /\ \A j \in 1 .. i - 1 : seq[j] # x

\* The child takes the place of the sub-sequence n, on both sides.
CutOut(node, n) ==
    LET p == node[n].parents[1]
        c == node[n].children[1]
        inChild == Position(node[c].parents, n) IN
    [node EXCEPT ![p].children[Position(node[p].children, n)] = c,
                 ![c].parents = InsertAt(RemoveAt(@, inChild), inChild, p)]

LeastDepth(node, parents) ==
    CHOOSE d \in {node[p].depth : p \in Range(parents)} : \A p \in Range(parents) : d <= node[p].depth

RECURSIVE Prune(_, _)
Prune(st, n0) ==
    LET cut == n0 \notin st.seen /\ Useless(st.node[n0])
        thrown == cut /\ n0 \notin Range(st.node[st.node[n0].children[1]].parents)
        n == IF cut THEN st.node[n0].children[1] ELSE n0
        node == IF cut THEN CutOut(st.node, n0) ELSE st.node
        parents == node[n].parents
        depth == IF parents = <<>> THEN 0 ELSE LeastDepth(node, parents) + 1
        entered == [st EXCEPT !.node = [node EXCEPT ![n].depth = depth], !.seen = @ \cup {n}] IN
    CASE st.thrown \/ thrown -> [st EXCEPT !.thrown = TRUE]
      [] n \in st.seen -> [st EXCEPT !.node = node]
      [] OTHER -> FoldLeft(LAMBDA acc, i : Prune(acc, acc.node[n].children[i]),
                  entered, [i \in 1 .. Len(node[n].children) |-> i])

(***************************************************************************)
(* Numbering: a "select" waits until it is reached from all the parents    *)
(* that are less deep than itself, the others are numbered at once.        *)
(***************************************************************************)
AllParents(node, n) == Len(node[n].parents)         \* mutant of ForwardParents

ForwardParents(node, n) ==
    Cardinality({i \in DOMAIN node[n].parents : node[node[n].parents[i]].depth < node[n].depth})

RECURSIVE Number(_, _)
Number(st, n) ==
    IF n \in st.seen THEN st ELSE
    LET Child(acc, c) ==
            IF acc.node[c].type # "select" THEN Number(acc, c) ELSE
            LET k == IF c \in DOMAIN acc.reached THEN acc.reached[c] + 1 ELSE 1
                counted == [acc EXCEPT !.reached = Extend(@, c, k)] IN
            IF k = ForwardParents(acc.node, c) THEN Number(counted, c) ELSE counted IN
    FoldLeft(Child,
             [st EXCEPT !.node[n].id = st.ssid, !.ssid = @ + 1, !.seen = @ \cup {n}],
             st.node[n].children)

\* The sub-sequences of thread 0, <<>> if the sequence is refused.  The root is
\* always the first of the graph.
Build(b) ==
    LET pruned == Prune([node |-> b.node, seen |-> {}, thrown |-> FALSE], 1) IN
    IF pruned.thrown THEN <<>>
    ELSE Number([node |-> pruned.node, ssid |-> 0, seen |-> {}, reached |-> <<>>], 1).node

(***************************************************************************)
(* replicate: the graph g is copied for another thread.  A child that was  *)
(* already visited is found again by the number of its sub-sequence.       *)
(* st is [node, seen, allocated].                                          *)
(***************************************************************************)
RECURSIVE Copy(_, _, _, _)
Copy(g, st, ref, cpy) ==
    IF ref \in st.seen \/ ~g[ref].filled THEN st ELSE
    LET st1 == [node |-> [st.node EXCEPT ![cpy].filled = TRUE, ![cpy].type = g[ref].type,
                              ![cpy].tasks = g[ref].tasks, ![cpy].taskIds = g[ref].taskIds, ![cpy].id = g[ref].id],
                seen |-> st.seen \cup {ref},
                allocated |-> Extend(st.allocated, g[ref].id, cpy)]
        Allocate(acc, c) ==
            IF c \in acc.seen
            THEN [acc EXCEPT !.node = AddChild(@, cpy, acc.allocated[g[c].id])]
            ELSE [acc EXCEPT !.node = AddChild(Append(@, EmptyNode(<<cpy>>, acc.node[cpy].depth + 1)),
                                               cpy, Len(acc.node) + 1)]
        st2 == FoldLeft(Allocate, st1, g[ref].children) IN
    FoldLeft(LAMBDA acc, i : Copy(g, acc, g[ref].children[i], acc.node[cpy].children[i]),
             st2, [i \in 1 .. Len(g[ref].children) |-> i])

Replicate(g) ==
    Copy(g, [node |-> <<EmptyNode(<<>>, 0)>>, seen |-> {}, allocated |-> <<>>], 1, 1).node

Reachable(g) ==
    FoldLeft(LAMBDA S, n : S \cup UNION {Range(g[m].children) : m \in S}, {1}, g)

\* get_last_subsequence: the sub-sequences without children; more than one is an error.
LastSubsequences(g) == {n \in Reachable(g) : g[n].children = <<>>}

=============================================================================
