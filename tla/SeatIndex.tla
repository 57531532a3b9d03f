------------------------------ MODULE SeatIndex ------------------------------
(***************************************************************************)
(* seat_index (P1/operations.c and P2/server/operations.c): where the seat *)
(* of a row and a column is kept in event->data and event->seatsLock.      *)
(*                                                                         *)
(* ems_reserve compares coordinates, but locks and writes indices.  That   *)
(* the two agree, for the coordinates its bounds check lets through, is    *)
(* what allows SeatLocking to name a seat by one number; SortVectorsProofs *)
(* has the theorems.                                                       *)
(***************************************************************************)
EXTENDS Integers

seat_index(cols, row, col) == (row - 1) * cols + col - 1

\* The bounds check of ems_reserve.
InBounds(rows, cols, row, col) == row > 0 /\ row <= rows /\ col > 0 /\ col <= cols

\* The order by which sortVectors compares.
Earlier(row1, col1, row2, col2) == row1 < row2 \/ (row1 = row2 /\ col1 < col2)

=============================================================================
