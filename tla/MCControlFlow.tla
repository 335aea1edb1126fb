--------------------------- MODULE MCControlFlow ---------------------------
(***************************************************************************)
(* Programs for TLC: those of the tests, smaller, and what they nest.      *)
(***************************************************************************)
EXTENDS ControlFlow

Chain == <<Std("i"), Tap("t"), Std("a"), Fwd("b"), Std("z")>>
ForLoop == <<Std("i"), For("L", 2, <<Std("a"), Std("b")>>), Std("z")>>
DoWhileLoop == <<Std("i"), DoWhile("L", 2, <<Std("a"), Tap("t")>>), Std("z")>>
Paths == <<Std("i"), Case("C", Cyclic(1), <<<<Std("a"), Fwd("b")>>, <<Std("c")>>, <<Fwd("d")>>>>), Std("z")>>
NestedFor == <<Std("i"), For("M", 2, <<For("L", 1, <<Std("a"), Std("b")>>)>>), Std("z")>>
NestedDoWhile == <<Std("i"), DoWhile("M", 1, <<DoWhile("L", 2, <<Std("a"), Std("b")>>)>>), Std("z")>>
PathInFor == <<Std("i"), For("L", 2, <<Std("a"), Case("C", Cyclic(0), <<<<Fwd("b")>>, <<Std("c")>>>>), Std("d")>>), Std("z")>>
EmptyPath == <<Std("i"), Case("C", Static(1), <<<<>>, <<Std("c")>>>>), Std("z")>>
EmptyPath2 == <<Std("i"), Case("C", Cyclic(1), <<<<Std("c")>>, <<>>>>), Std("z")>>
EmptyLoop == <<Std("i"), For("L", 2, <<>>), Std("z")>>
TwoLoops == <<Std("i"), For("L", 1, <<Fwd("a")>>), DoWhile("M", 1, <<Std("b")>>), Std("z")>>
EndsWithPaths == <<Std("i"), Case("C", Cyclic(0), <<<<Std("a")>>, <<Std("b")>>>>)>>
ForDo == <<Std("i"), For("M", 2, <<DoWhile("L", 1, <<Std("a")>>)>>), Std("z")>>
DoFor == <<Std("i"), DoWhile("M", 1, <<For("L", 1, <<Std("a")>>)>>), Std("z")>>

ForInLast == <<Std("i"), Case("C", Limited(1, 1), <<<<Std("c")>>, <<Std("a"), For("L", 1, <<Std("b")>>)>>>>), Std("z")>>
PathInLast == <<Std("i"), Case("C", Cyclic(0), <<<<Std("c")>>, <<Case("D", Cyclic(1), <<<<Std("a")>>, <<Std("b")>>>>), Std("d")>>>>), Std("z")>>
PathDo == <<Std("i"), DoWhile("M", 1, <<Case("C", Cyclic(0), <<<<Std("a")>>, <<Std("b")>>>>)>>), Std("z")>>
ThreeDeep == <<Std("i"), For("M", 1, <<Std("a"), DoWhile("L", 1, <<For("K", 1, <<Std("b")>>), Std("c")>>)>>), Std("z")>>

AllPrograms ==
    {Chain, ForLoop, DoWhileLoop, Paths, NestedFor, NestedDoWhile, PathInFor, TwoLoops, EndsWithPaths,
     EmptyPath, EmptyPath2, EmptyLoop, ForInLast, PathDo, PathInLast, ThreeDeep, ForDo, DoFor}
AllModes == {"exec", "noCopy", "seq", "step"}

=============================================================================
