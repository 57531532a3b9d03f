---------------------------- MODULE MCJobThreads ----------------------------
(***************************************************************************)
(* JobThreads on all the files of a few lines.                             *)
(***************************************************************************)
EXTENDS JobThreads, SequencesExt

\* Every file of up to four lines, those on which the program hangs included.
MCFiles == BoundedSeq(Kinds, 4)

=============================================================================
