----------------------------- MODULE MCSockets -----------------------------
(***************************************************************************)
(* A source, a task that forwards, and a task that reads.                  *)
(***************************************************************************)
EXTENDS Sockets, TLC

Layout3 == ("a" :> <<<<"out", "x">>>>) @@ ("f" :> <<<<"fwd", "x">>>>) @@ ("r" :> <<<<"in", "x">>>>)

=============================================================================
