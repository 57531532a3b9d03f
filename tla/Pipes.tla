------------------------------- MODULE Pipes --------------------------------
(***************************************************************************)
(* The named pipes of Part 2 as both programs use them                     *)
(* (P2/common/rw_aux.c), and the two things that Registration and          *)
(* SessionProtocol share: how far each client is, and whether the server   *)
(* still runs.                                                             *)
(*                                                                         *)
(* A pipe is the sequence of the fields written to it and not read yet.  A *)
(* field is [is |-> what it was written as, n |-> the call it belongs to]. *)
(***************************************************************************)
EXTENDS Integers, Sequences

CONSTANT Clients

VARIABLES
  at,   \* at[c]: the next step of client c
  up    \* FALSE once the server has called exit

Field(is, n) == [is |-> is, n |-> n]

\* A field that nobody wrote: readBuffer clears its buffer first.
Zero == Field("zero", 0)

\* readBuffer calls read once, which returns what there is, up to n fields.
ReadBuffer(pipe, n) == [i \in 1..n |-> IF i <= Len(pipe) THEN pipe[i] ELSE Zero]

AfterRead(pipe, n) == SubSeq(pipe, n + 1, Len(pipe))

\* read waits for something to read, or for the last writer to close the pipe.
CanRead(pipe, open) == pipe # <<>> \/ ~open

\* Client c goes from one step to another.
Move(c, here, there) ==
  /\ at[c] = here
  /\ at' = [at EXCEPT ![c] = there]

=============================================================================
