---------------------------- MODULE MCEventList ----------------------------
(***************************************************************************)
(* EventList with three threads, two events and a file of four commands.   *)
(***************************************************************************)
EXTENDS EventList
=============================================================================
