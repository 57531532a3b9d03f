--------------------------- MODULE MCClientServer ---------------------------
(***************************************************************************)
(* Instances of ClientServer for TLC.                                      *)
(***************************************************************************)
EXTENDS ClientServer

CONSTANTS c1, c2, c3

\* One file has two calls, one has one, and one has none.
CallsInFiles == (c1 :> 2) @@ (c2 :> 1) @@ (c3 :> 0)

\* No client calls anything.
NoCalls == [c \in Clients |-> 0]

=============================================================================
