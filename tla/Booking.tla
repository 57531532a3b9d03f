------------------------------- MODULE Booking -------------------------------
(***************************************************************************)
(* What ems_reserve and ems_show promise about one event, whatever locks   *)
(* they use: a reservation takes all the seats it asks for in one step, or *)
(* none of them; it is refused only for a reason that holds at that step;  *)
(* a show returns the reservations of one instant.                         *)
(***************************************************************************)
EXTENDS Integers, Functions

CONSTANTS
  Threads,   \* the threads that call the operations
  Coords,    \* the coordinates a request may name, valid or not
  Seats      \* the coordinates that are seats of the event

VARIABLES
  booked,    \* booked[s]: the id of the reservation that holds seat s, or 0
  phase,     \* phase[t]: where the call of thread t is
  want,      \* want[t]: the coordinates the reservation of t asks for
  repeats,   \* repeats[t]: whether its request names a coordinate twice
  picture    \* picture[t]: what the show of t returns

bookingVars == <<booked, phase, want, repeats, picture>>

-----------------------------------------------------------------------------

Init ==
  /\ booked = [s \in Seats |-> 0]
  /\ phase = [t \in Threads |-> "idle"]
  /\ want = [t \in Threads |-> {}]
  /\ repeats = [t \in Threads |-> FALSE]
  /\ picture = [t \in Threads |-> [s \in Seats |-> 0]]

\* A thread calls ems_reserve.
AskReserve(t) ==
  /\ phase[t] = "idle"
  /\ phase' = [phase EXCEPT ![t] = "reserving"]
  /\ \E w \in SUBSET Coords : want' = [want EXCEPT ![t] = w]
  /\ \E r \in BOOLEAN : repeats' = [repeats EXCEPT ![t] = r]
  /\ UNCHANGED <<booked, picture>>

\* All the seats are free and become the reservation's, in one step.
Book(t) ==
  /\ phase[t] = "reserving"
  /\ ~repeats[t]
  /\ want[t] \subseteq Seats
  /\ \A s \in want[t] : booked[s] = 0
  /\ booked' \in [Seats -> Nat]
  /\ \A s \in want[t] : booked'[s] # 0 /\ \A r \in want[t] : booked'[s] = booked'[r]
  /\ \A s \in Seats \ want[t] : booked'[s] = booked[s]
  /\ phase' = [phase EXCEPT ![t] = "booked"]
  /\ UNCHANGED <<want, repeats, picture>>

\* The request is malformed, or a seat it asks for is taken at this step by a
\* reservation that succeeded: nothing is taken.
Refuse(t) ==
  /\ phase[t] = "reserving"
  /\ \/ repeats[t]
     \/ ~(want[t] \subseteq Seats)
     \/ \E s \in want[t] \cap Seats : booked[s] # 0
  /\ phase' = [phase EXCEPT ![t] = "refused"]
  /\ UNCHANGED <<booked, want, repeats, picture>>

\* A thread calls ems_show.
AskShow(t) ==
  /\ phase[t] = "idle"
  /\ phase' = [phase EXCEPT ![t] = "showing"]
  /\ UNCHANGED <<booked, want, repeats, picture>>

\* The show returns all the seats as they are at one instant.
Snapshot(t) ==
  /\ phase[t] = "showing"
  /\ picture' = [picture EXCEPT ![t] = booked]
  /\ phase' = [phase EXCEPT ![t] = "shown"]
  /\ UNCHANGED <<booked, want, repeats>>

\* The call returns to its caller.
Return(t) ==
  /\ phase[t] \in {"booked", "refused", "shown"}
  /\ phase' = [phase EXCEPT ![t] = "idle"]
  /\ want' = [want EXCEPT ![t] = {}]
  /\ repeats' = [repeats EXCEPT ![t] = FALSE]
  /\ picture' = [picture EXCEPT ![t] = [s \in Seats |-> 0]]
  /\ UNCHANGED booked

Next ==
  \E t \in Threads :
    AskReserve(t) \/ Book(t) \/ Refuse(t) \/ AskShow(t) \/ Snapshot(t) \/ Return(t)

Spec == Init /\ [][Next]_bookingVars

=============================================================================
