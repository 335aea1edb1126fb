--------------------------- MODULE StagePolicies ---------------------------
(***************************************************************************)
(* Which processing units the threads of a pipeline are asked to run on:   *)
(* the pinning policies (tools::Thread_pinning_utils), the files that      *)
(* sched::Scheduler_from_file reads and the mapping of sched::Scheduler.   *)
(*                                                                         *)
(* A policy is a text: a sequence of objects and separators, | between     *)
(* stages, ; between threads and , between objects.                        *)
(***************************************************************************)
EXTENDS Integers, Sequences, FiniteSets, SequencesExt, FiniteSetsExt

CONSTANT Cores          \* the machine: sequence of cores, each a sequence of PUs

PUs == UNION {Range(Cores[c]) : c \in DOMAIN Cores}

PU(k) == <<"PU", k>>
CORE(k) == <<"CORE", k>>
MACHINE == <<"MACHINE">>
NO_PIN == <<"NO_PIN">>
Stages == <<"|">>
Threads == <<";">>
Objects == <<",">>

\* PUs of an object; none if the object does not exist.
PusOf(object) ==
    CASE object[1] = "PU" -> {object[2]} \cap PUs
      [] object[1] = "CORE" -> IF object[2] + 1 \in DOMAIN Cores THEN Range(Cores[object[2] + 1]) ELSE {}
      [] object = MACHINE -> PUs
      [] OTHER -> {}

\* The parts between the separators.
Split(text, separator) ==
    LET ends == {i \in DOMAIN text : text[i] = separator} \cup {Len(text) + 1}
        Nth(k) == CHOOSE i \in ends : Cardinality({j \in ends : j < i}) = k - 1 IN
    [k \in 1 .. Cardinality(ends) |->
        SubSeq(text, IF k = 1 THEN 1 ELSE Nth(k - 1) + 1, Nth(k) - 1)]

Join(texts, separator) ==
    FoldLeft(LAMBDA text, i : (IF i = 1 THEN texts[1] ELSE text \o <<separator>> \o texts[i]),
             <<>>, [i \in DOMAIN texts |-> i])

\* pipeline_parser_unpacker and stage_parser_unpacker: one part stands for all of
\* them; they throw if the result has not n parts.
Unpack(text, separator, n) ==
    LET parts == Split(text, separator) IN
    IF Len(parts) = 1 THEN [i \in 1 .. n |-> parts[1]] ELSE parts

\* What a thread is pinned to; empty if one of its objects does not exist.
Union(text) ==
    LET sets == {IF part = <<>> THEN {} ELSE PusOf(part[1]) : part \in Range(Split(text, Objects))} IN
    IF {} \in sets THEN {} ELSE UNION sets

(***************************************************************************)
(* The resources of a file of version 2: nodes are ranges of PUs or of     *)
(* cores; a list holds the free PUs of each node, and with smt > 1 the     *)
(* siblings come in lists of their own after the first PUs of all cores.   *)
(***************************************************************************)
NodePus(node) ==
    [i \in 1 .. node.to - node.from + 1 |->
        IF node.unit = "PU" THEN <<node.from + i - 1>> ELSE Cores[node.from + i]]

SplitSiblings(list) ==
    LET several == SelectSeq(list, LAMBDA pus : Len(pus) > 1) IN
    [j \in DOMAIN list |-> IF Len(list[j]) > 1 THEN RemoveAt(list[j], 2) ELSE list[j]]
        \o [k \in DOMAIN several |-> <<several[k][2]>>]

PuList(resource) ==
    FoldLeft(LAMBDA list, i : SplitSiblings(list),
             FlattenSeq([i \in DOMAIN resource.nodes |-> NodePus(resource.nodes[i])]),
             [i \in 1 .. resource.smt - 1 |-> i])

(***************************************************************************)
(* build_stage_policy_packed, _guided and _distant.  Here a list is        *)
(* numbered from 0 as in the code, and a stage that finds no PU left is    *)
(* not ok: the code throws.                                                *)
(***************************************************************************)
Consume(list, index) ==
    IF Len(list[index + 1]) = 1 THEN RemoveAt(list, index + 1)
    ELSE [list EXCEPT ![index + 1] = Tail(@)]

TakeAt(acc, index) ==
    [acc EXCEPT !.ids = Append(@, acc.list[index + 1][1]), !.list = Consume(@, index)]

Packed(list, n) ==
    FoldLeft(LAMBDA acc, i :
                IF acc.list = <<>> THEN [acc EXCEPT !.ok = FALSE]
                ELSE LET next == TakeAt(acc, acc.at)
                         after == acc.at + Len(next.list) - Len(acc.list) + 1 IN
                     [next EXCEPT !.at = IF next.list = <<>> THEN 0 ELSE after % Len(next.list)],
             [list |-> list, ids |-> <<>>, ok |-> TRUE, at |-> 0], [i \in 1 .. n |-> i])

Guided(list) == [list |-> list, ids |-> [j \in DOMAIN list |-> list[j][1]], ok |-> TRUE]

Distant(list, n, stage, smt) ==
    FoldLeft(LAMBDA acc, i :
                IF acc.list = <<>> THEN [acc EXCEPT !.ok = FALSE]
                ELSE TakeAt(acc, ((stage + i - 1) % 2) * (Len(acc.list) \div (2 * smt))),
             [list |-> list, ids |-> <<>>, ok |-> TRUE], [i \in 1 .. n |-> i])

\* An unknown policy is loose, which gives {1} and is not used.
Loose(list) == [list |-> list, ids |-> <<1>>, ok |-> TRUE]

StagePolicy(policy, list, n, stage, smt) ==
    CASE policy = "packed" -> Packed(list, n)
      [] policy = "guided" -> Guided(list)
      [] policy = "distant" -> Distant(list, n, stage, smt)
      [] OTHER -> Loose(list)

(***************************************************************************)
(* get_threads_mapping of both classes.                                    *)
(***************************************************************************)
PuTexts(ids) == [i \in DOMAIN ids |-> <<PU(ids[i])>>]

OneText(ids) == Join(PuTexts(ids), Objects)               \* mutant of EachText
EachText(ids) == Join(PuTexts(ids), Threads)

StageText(policy, ids, n) ==
    CASE policy \in {"packed", "distant"} -> IF ids = <<>> THEN <<NO_PIN>> ELSE EachText(ids)
      [] policy = "guided" -> Join([r \in 1 .. n |-> Join(PuTexts(ids), Objects)], Threads)
                                  \o (IF ids = <<>> THEN <<NO_PIN>> ELSE <<>>)
      [] OTHER -> <<MACHINE>>

FileText(policies, puids, threads) ==
    Join([s \in DOMAIN policies |-> StageText(policies[s], puids[s], threads[s])], Stages)

\* Scheduler::get_threads_mapping: PUs in order from 0.
Before(threads, s) == FoldLeft(LAMBDA sum, n : sum + n, 0, SubSeq(threads, 1, s - 1))
InOrder(threads, s) == [t \in 1 .. threads[s] |-> Before(threads, s) + t - 1]
DefaultText(threads) ==
    Join([s \in DOMAIN threads |-> EachText(InOrder(threads, s))], Stages)

=============================================================================
