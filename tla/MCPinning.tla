----------------------------- MODULE MCPinning -----------------------------
(***************************************************************************)
(* Two p-cores with two PUs each and two e-cores with one: they are given  *)
(* as cores or as PUs, with the siblings apart or not.                     *)
(***************************************************************************)
EXTENDS Pinning, TLC

Cores4 == <<<<0, 1>>, <<2, 3>>, <<4>>, <<5>>>>

Nodes(unit, from, to) == <<[unit |-> unit, from |-> from, to |-> to]>>
Resource(p, smt, e) ==
    ("p-core" :> [nodes |-> p, smt |-> smt]) @@ ("e-core" :> [nodes |-> e, smt |-> 1])

TwoResources ==
    {Resource(Nodes("core", 0, 1), 2, Nodes("PU", 4, 5)),
     Resource(Nodes("core", 0, 1), 1, Nodes("core", 2, 3))}

EachFileStage ==
    [tasks : {1}, threads : 1 .. 3, core : {"p-core"}, policy : {"packed", "distant", "guided", "other"}]
        \cup [tasks : {1}, threads : 1 .. 3, core : {"e-core"}, policy : {"packed", "guided"}]
        \cup [tasks : {2}, threads : {1}, core : {"p-core"}, policy : {"distant"}]

EachOldStage == {[tasks |-> 1, threads |-> n, cores |-> c] : n \in {2}, c \in {<<>>, <<0, 2>>}}

Texts == {<<PU(0)>>, <<CORE(1), Objects, PU(4)>>, <<PU(9)>>}
EachUserStage ==
    [threads : 1 .. 2, pin : {TRUE}, wants : {<<t>> : t \in Texts} \cup {<<<<PU(3)>>, <<CORE(0)>>>>}]
        \cup [threads : 1 .. 2, pin : {FALSE}, wants : {<<>>, <<<<PU(0)>>>>}]
        \cup [threads : {1}, pin : {TRUE}, wants : {<<>>}]

OneReplicable == <<FALSE, TRUE>>

=============================================================================
