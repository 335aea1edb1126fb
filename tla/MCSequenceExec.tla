--------------------------- MODULE MCSequenceExec ---------------------------
(***************************************************************************)
(* Instances of SequenceExec: the exceptions that tasks may throw, and the *)
(* limits and sources that end the executions.                             *)
(***************************************************************************)
EXTENDS SequenceExec

\* One signature, with a short and a long message.
AnyErrors == {<<"a", 1>>, <<"a", 2>>}

EndlessOrNot == {<<Never, Never>>, <<2, Never>>, <<Never, 2>>}

=============================================================================
