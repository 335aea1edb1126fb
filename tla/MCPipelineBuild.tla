--------------------------- MODULE MCPipelineBuild ---------------------------
(***************************************************************************)
(* Programs of four tasks for TLC: a task reads one or two of those before *)
(* it, the last three tasks may have a forward socket, one task may wait   *)
(* for another without reading it.                                         *)
(***************************************************************************)
EXTENDS PipelineBuild

Sources(i) == {<<u>> : u \in 1 .. i - 1} \cup {<<u, v>> : u \in 1 .. i - 1, v \in 1 .. i - 1}
Reads(i) == {s \in Sources(i) : Len(s) = 1 \/ s[1] < s[Len(s)]}
Kinds == {"std", "fwd"}

Programs4 ==
    LET ins == {<<<<>>, a, b, c>> : a \in Reads(2), b \in Reads(3), c \in Reads(4)}
        kinds == {<<"std", a, b, c>> : a \in Kinds, b \in Kinds, c \in Kinds}
        plain == {[kind |-> k, ins |-> i, fake |-> <<>>, down |-> d] : k \in kinds, i \in ins, d \in BOOLEAN}
        waits == {<<u, v>> \in (1 .. 4) \X (2 .. 4) : u < v}
        fakes == {[kind |-> <<"std", "std", "std", "std">>, ins |-> i, fake |-> w, down |-> d] :
                      i \in ins, w \in waits, d \in {FALSE}} IN
    plain \cup fakes

\* The pipelines that are used further: one shape, with every forward socket and
\* every wait.
Called4 == {p \in Programs4 : p.ins = <<<<>>, <<1>>, <<2>>, <<1, 3>>>> /\ ~p.down}

AllStyles == {"ends", "lasts", "all"}

=============================================================================
