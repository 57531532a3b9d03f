---------------------------- MODULE MCSortVectors ----------------------------
(***************************************************************************)
(* SortVectors on all the lists of up to four seats of a 2 by 2 event, in  *)
(* all orders and with all repetitions.                                    *)
(***************************************************************************)
EXTENDS SortVectors, SequencesExt

MCInputs == BoundedSeq((1..2) \X (1..2), 4) \ {<<>>}

=============================================================================
