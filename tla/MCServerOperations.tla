------------------------- MODULE MCServerOperations -------------------------
(***************************************************************************)
(* Instances of ServerOperations for TLC.                                  *)
(***************************************************************************)
EXTENDS ServerOperations

CONSTANT TwoSeats   \* the event with two seats; the others have one

\* Requests that reserve seats of TwoSeats, and create, show and list all events.
RequestsFor(lists) ==
  {[op |-> "create", id |-> e, size |-> IF e = TwoSeats THEN 2 ELSE 1] : e \in EventIds}
    \cup [op : {"reserve"}, id : {TwoSeats}, seats : lists]
    \cup [op : {"show"}, id : EventIds]
    \cup {[op |-> "list"]}

\* Both seats, against the order of the array; one of them, named twice.
SeatRequests == RequestsFor({<<2, 1>>, <<2, 2>>})

\* No reservations: requests about the list of events.
ListRequests == RequestsFor({})

=============================================================================
