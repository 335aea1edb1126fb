------------------------- MODULE StructuredPrograms -------------------------
(***************************************************************************)
(* The control flow that users build with switchers, as the tests do: for  *)
(* loops, do-while loops and exclusive paths, nested in each other.  A     *)
(* program is a sequence of items; Bindings gives the sockets that the     *)
(* tests would bind for it, in their order, and Meaning gives what the     *)
(* program should do: it knows nothing of sub-sequences and switchers.     *)
(***************************************************************************)
EXTENDS Naturals, Sequences, FiniteSets, SequencesExt

Std(n) == [what |-> "std", name |-> n]
Fwd(n) == [what |-> "fwd", name |-> n]      \* a task with a forward socket
Tap(n) == [what |-> "tap", name |-> n]      \* a task whose output nobody reads
For(n, limit, body) == [what |-> "for", name |-> n, limit |-> limit, body |-> body]
DoWhile(n, limit, body) == [what |-> "doWhile", name |-> n, limit |-> limit, body |-> body]
Case(n, controller, branches) ==
    [what |-> "case", name |-> n, controller |-> controller, branches |-> branches]

\* Controllers of the exclusive paths: their kind, first path and, for
\* Controller_limit, the limit.
Static(path) == [type |-> "static", init |-> path, limit |-> 0]
Cyclic(path) == [type |-> "cyclic", init |-> path, limit |-> 0]
Limited(path, limit) == [type |-> "limit", init |-> path, limit |-> limit]

DataKinds == {"std", "fwd", "tap"}

Task(n, kind) == <<n, kind>>
Bind(e, src, t, k) == IF src = <<>> THEN e ELSE Append(e, <<src, <<t, k>>>>)

(***************************************************************************)
(* Edges: a pair <<output socket, input socket>> for each binding.  Inputs:*)
(* a std or fwd task 1; a commute 1 (in_data) and 2 (in_ctrl); a select one*)
(* per path; the iterate and control tasks 1, the fake socket that makes   *)
(* them wait.  Outputs: 1 is the data, a commute has one per path, the last*)
(* is the status.  src is the socket that feeds the first item, if any.    *)
(***************************************************************************)
RECURSIVE Wire(_, _)
WireItem(acc, item) ==
    LET n == item.name
        sel == Task(n, "select")
        com == Task(n, "commute")
        ite == Task(n, "iterate")
        ctr == Task(n, "control") IN
    CASE item.what \in {"std", "fwd"} ->
            [edges |-> Bind(acc.edges, acc.src, Task(n, item.what), 1), src |-> <<Task(n, item.what), 1>>]
      [] item.what = "tap" -> [acc EXCEPT !.edges = Bind(@, acc.src, Task(n, "tap"), 1)]
      [] item.what = "for" ->
            LET head == Bind(acc.edges, acc.src, sel, 2)
                          \o << <<<<sel, 2>>, <<ite, 1>>>>, <<<<sel, 1>>, <<com, 1>>>>, <<<<ite, 1>>, <<com, 2>>>> >>
                body == Wire([edges |-> head, src |-> <<com, 1>>], item.body) IN
            [edges |-> Bind(body.edges, body.src, sel, 1), src |-> <<com, 2>>]
      [] item.what = "doWhile" ->
            LET head == Bind(acc.edges, acc.src, sel, 2)
                          \o << <<<<sel, 2>>, <<ite, 1>>>>, <<<<ite, 1>>, <<com, 2>>>> >>
                body == Wire([edges |-> head, src |-> <<sel, 1>>], item.body) IN
            [edges |-> Append(Bind(body.edges, body.src, com, 1), <<<<com, 1>>, <<sel, 1>>>>), src |-> <<com, 2>>]
      [] item.what = "case" ->
            LET head == Append(Bind(Bind(acc.edges, acc.src, ctr, 1), acc.src, com, 1), <<<<ctr, 1>>, <<com, 2>>>>)
                Branch(e, p) ==
                    LET body == Wire([edges |-> e, src |-> <<com, p>>], item.branches[p]) IN
                    Bind(body.edges, body.src, sel, p) IN
            [edges |-> FoldLeft(Branch, head, [p \in DOMAIN item.branches |-> p]), src |-> <<sel, 1>>]

Wire(acc, items) == FoldLeft(WireItem, acc, items)

Edges(program) == Wire([edges |-> <<>>, src |-> <<>>], program).edges

RECURSIVE Items(_)
Items(program) ==
    LET Inside(item) ==
            CASE item.what \in {"for", "doWhile"} -> Items(item.body)
              [] item.what = "case" -> UNION {Items(item.branches[p]) : p \in DOMAIN item.branches}
              [] OTHER -> {} IN
    UNION {{program[i]} \cup Inside(program[i]) : i \in DOMAIN program}

ItemNamed(program, n) == CHOOSE item \in Items(program) : item.name = n
PathsOf(item) == IF item.what = "case" THEN Len(item.branches) ELSE 2

TasksOf(item) ==
    CASE item.what \in DataKinds -> {Task(item.name, item.what)}
      [] item.what \in {"for", "doWhile"} -> {Task(item.name, k) : k \in {"select", "commute", "iterate"}}
      [] item.what = "case" -> {Task(item.name, k) : k \in {"select", "commute", "control"}}

\* The bindings as SubSequences takes them.
Bindings(program) ==
    LET edges == Edges(program)
        tasks == UNION {TasksOf(item) : item \in Items(program)}
        paths == [t \in tasks |-> PathsOf(ItemNamed(program, t[1]))]
        nOuts(t) == IF t[2] = "commute" THEN paths[t] + 1 ELSE 2
        From(s) == LET picked == SelectSeq(edges, LAMBDA e : e[1] = s) IN [i \in DOMAIN picked |-> picked[i][2]]
        Into(t) == {e \in Range(edges) : e[2][1] = t} IN
    [tasks |-> tasks,
     outs |-> [t \in tasks |-> [k \in 1 .. nOuts(t) |-> From(<<t, k>>)]],
     ins |-> [t \in tasks |-> Cardinality(Into(t))],
     source |-> [s \in {e[2] : e \in Range(edges)} |-> (CHOOSE e \in Range(edges) : e[2] = s)[1]],
     paths |-> paths,
     lasts |-> {},
     exclusions |-> {}]

(***************************************************************************)
(* Meaning: the data tasks that one iteration executes, from the values of *)
(* the iterators and controllers at its start, and these values at its end.*)
(***************************************************************************)
\* A controller's choice among n paths, and its state after it.
Choice(controller, n, c) ==
    LET over == c >= controller.limit IN
    CASE controller.type = "static" -> [path |-> c % n, next |-> c]
      [] controller.type = "cyclic" -> [path |-> c % n, next |-> (c % n) + 1]
      [] controller.type = "limit" -> [path |-> IF over THEN 1 - controller.init ELSE controller.init,
                                       next |-> IF over THEN c ELSE c + 1]

RECURSIVE Meaning(_, _)

\* A for loop executes its body until its count reaches the limit, a do-while
\* loop once more; the count is zero again after both.
Loop(m, item) ==
    LET n == item.name
        turns == item.limit - m.count[n] + (IF item.what = "for" THEN 0 ELSE 1) IN
    FoldLeft(LAMBDA acc, turn : Meaning(acc, item.body),
             [m EXCEPT !.count[n] = 0], [turn \in 1 .. turns |-> turn])

MeaningItem(m, item) ==
    LET n == item.name IN
    CASE item.what \in DataKinds -> [m EXCEPT !.trace = Append(@, Task(n, item.what))]
      [] item.what \in {"for", "doWhile"} -> Loop(m, item)
      [] item.what = "case" ->
            LET choice == Choice(item.controller, Len(item.branches), m.count[n]) IN
            Meaning([m EXCEPT !.count[n] = choice.next], item.branches[choice.path + 1])

Meaning(m, items) == FoldLeft(MeaningItem, m, items)

=============================================================================
