--------------------------- MODULE MCSessionQueue ---------------------------
(***************************************************************************)
(* Instances of SessionQueue for TLC.                                      *)
(***************************************************************************)
EXTENDS SessionQueue

=============================================================================
