---------------------------- MODULE MCSeatLocking ----------------------------
(***************************************************************************)
(* Instances of SeatLocking for TLC: an event of three seats 1, 2, 3 and   *)
(* one coordinate, 9, outside it.                                          *)
(***************************************************************************)
EXTENDS SeatLocking

MCSeats == 1..3
MCCoords == 1..3 \cup {9}

\* Overlapping requests in both orders, a duplicate, and a request whose last
\* coordinate is outside the event.
MCRequests == {<<2, 1>>, <<3, 2>>, <<2, 2>>, <<2, 9>>}

\* Two requests that succeed together, for what is about ids.
MCPair == {<<1>>, <<3>>}

=============================================================================
