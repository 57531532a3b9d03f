----------------------------- MODULE SortVectors -----------------------------
(***************************************************************************)
(* sortVectors (P1/auxFunctions.c): a bubble sort, in step, of the rows    *)
(* and the columns of a reservation's seats, which stops at a seat that is *)
(* asked for twice.  ems_reserve relies on both: the order in which it     *)
(* takes the mutexes of the seats, and that it takes none twice.           *)
(*                                                                         *)
(* Indices start at 1, the source's at 0.                                  *)
(***************************************************************************)
EXTENDS Integers, Sequences, Functions

CONSTANTS
  Coordinate,   \* the numbers that rows and columns are given as
  Inputs        \* the reservations' seat lists: sequences of <<row, column>>

ASSUME CoordinateAssumption == Coordinate \subseteq Int
\* thread_execute asks for at least one seat.
ASSUME InputsAssumption == Inputs \subseteq Seq(Coordinate \X Coordinate) \ {<<>>}

VARIABLES
  asked,    \* the seats as the command names them
  xs, ys,   \* firstVector and secondVector
  i, j,     \* the indices of the two loops
  result,   \* "running", or what the function has returned
  from      \* history: seat k of xs and ys is seat from[k] of asked

vars == <<asked, xs, ys, i, j, result, from>>

\* num_seats
num == Len(asked)

\* Seat k comes before seat l: by row, and by column within a row.
Before(k, l) == xs[k] < xs[l] \/ (xs[k] = xs[l] /\ ys[k] < ys[l])

-----------------------------------------------------------------------------

Init ==
  /\ asked \in Inputs
  /\ xs = [k \in 1..num |-> asked[k][1]]
  /\ ys = [k \in 1..num |-> asked[k][2]]
  /\ i = 1
  /\ j = 1
  /\ result = "running"
  /\ from = [k \in 1..num |-> k]

Swapped(f) == [f EXCEPT ![j] = f[j + 1], ![j + 1] = f[j]]

\* The condition of both loops: the inner loop has a pair to look at.
InPass == result = "running" /\ i < num /\ j <= num - i

\* A slip: only the rows change places.
SwapRows ==
  /\ InPass
  /\ Before(j + 1, j)
  /\ xs' = Swapped(xs)
  /\ from' = Swapped(from)
  /\ j' = j + 1
  /\ UNCHANGED <<asked, ys, i, result>>

\* switchPositions
Swap ==
  /\ InPass
  /\ Before(j + 1, j)
  /\ xs' = Swapped(xs)
  /\ ys' = Swapped(ys)
  /\ from' = Swapped(from)
  /\ j' = j + 1
  /\ UNCHANGED <<asked, i, result>>

\* A slip: seats that are equal are left where they are.
KeepEqual ==
  /\ InPass
  /\ ~Before(j + 1, j)
  /\ j' = j + 1
  /\ UNCHANGED <<asked, xs, ys, i, result, from>>

\* A slip: the index stays behind.
KeepForever ==
  /\ InPass
  /\ Before(j, j + 1)
  /\ UNCHANGED vars

Keep ==
  /\ InPass
  /\ Before(j, j + 1)
  /\ j' = j + 1
  /\ UNCHANGED <<asked, xs, ys, i, result, from>>

\* A slip: only the rows are compared.
DuplicateRow ==
  /\ InPass
  /\ xs[j] = xs[j + 1]
  /\ result' = "duplicate"
  /\ UNCHANGED <<asked, xs, ys, i, j, from>>

Duplicate ==
  /\ InPass
  /\ xs[j] = xs[j + 1] /\ ys[j] = ys[j + 1]
  /\ result' = "duplicate"
  /\ UNCHANGED <<asked, xs, ys, i, j, from>>

\* A slip: the outer loop runs to num_seats.
NextPassTooMany ==
  /\ result = "running"
  /\ i <= num
  /\ j > num - i
  /\ i' = i + 1
  /\ j' = 1
  /\ UNCHANGED <<asked, xs, ys, result, from>>

NextPass ==
  /\ result = "running"
  /\ i < num
  /\ j > num - i
  /\ i' = i + 1
  /\ j' = 1
  /\ UNCHANGED <<asked, xs, ys, result, from>>

Finish ==
  /\ result = "running"
  /\ i >= num
  /\ result' = "sorted"
  /\ UNCHANGED <<asked, xs, ys, i, j, from>>

Next == Swap \/ Keep \/ Duplicate \/ NextPass \/ Finish

Spec == Init /\ [][Next]_vars /\ WF_vars(Next)

-----------------------------------------------------------------------------
\* Properties.

\* The type of every variable.
TypeOK ==
  /\ asked \in Seq(Coordinate \X Coordinate) \ {<<>>}
  /\ xs \in [1..num -> Coordinate]
  /\ ys \in [1..num -> Coordinate]
  /\ i \in 1..num
  /\ j \in 1..num
  /\ result \in {"running", "sorted", "duplicate"}
  /\ from \in [1..num -> 1..num]

\* The two vectors move together: what they hold is at every moment a
\* rearrangement of the seats the command named.
Rearranged ==
  /\ IsInjective(from)
  /\ \A k \in 1..num : <<xs[k], ys[k]>> = asked[from[k]]

\* When sortVectors returns 0 the seats are in strictly ascending order: none
\* of them is there twice.
SortedWhenDone ==
  result = "sorted" => \A k, l \in 1..num : k < l => Before(k, l)

\* When it returns 1 the command did name a seat twice.
DuplicateWhenRefused ==
  result = "duplicate" => ~IsInjective(asked)

\* sortVectors returns.
Terminates == <>(result # "running")

=============================================================================
