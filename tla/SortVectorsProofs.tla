-------------------------- MODULE SortVectorsProofs --------------------------
(***************************************************************************)
(* sortVectors sorts, and finds every duplicate, for every list of seats,  *)
(* and the order that it gives the seats is that of their indices.         *)
(***************************************************************************)
EXTENDS SortVectors, SeatIndex, TLAPS

\* After i - 1 passes the last i - 1 seats are in place, and the pass under way
\* has carried to index j a seat that comes after all those before it.
InPlace ==
  \A k, l \in 1..num : k < l /\ l > num - i + 1 => Before(k, l)

Carried ==
  /\ j <= num - i + 1
  /\ \A k \in 1..(j - 1) : Before(k, j)

\* The inductive invariant.
IInv ==
  /\ TypeOK
  /\ Rearranged
  /\ InPlace
  /\ Carried
  /\ result = "sorted" => i >= num
  /\ DuplicateWhenRefused

LEMMA InitIInv == Init => IInv
<1> SUFFICES ASSUME Init PROVE IInv
  OBVIOUS
<1>1. asked \in Seq(Coordinate \X Coordinate) \ {<<>>}
  BY InputsAssumption DEF Init
<1>2. num \in Nat \ {0}
  BY <1>1 DEF num
<1>3. TypeOK
  BY <1>1, <1>2 DEF Init, TypeOK, num
<1>4. Rearranged
  BY <1>1, <1>2 DEF Init, Rearranged, IsInjective, num
<1>5. InPlace /\ Carried
  BY <1>2 DEF Init, InPlace, Carried
<1> QED
  BY <1>3, <1>4, <1>5 DEF IInv, Init, DuplicateWhenRefused

LEMMA NumType == TypeOK => num \in Nat \ {0}
BY DEF TypeOK, num

LEMMA CoordinatesAreIntegers ==
  ASSUME TypeOK, NEW k \in 1..num
  PROVE  xs[k] \in Int /\ ys[k] \in Int
BY CoordinateAssumption DEF TypeOK

\* A swap of neighbours.
LEMMA SwapInv == IInv /\ Swap => IInv'
<1> SUFFICES ASSUME IInv, Swap PROVE IInv'
  OBVIOUS
<1> USE DEF Swap, InPass, Swapped
<1>0. num \in Nat \ {0} /\ num' = num /\ j \in 1..num /\ j + 1 \in 1..num /\ i \in 1..num
  BY NumType DEF IInv, TypeOK, num
<1>1. /\ xs' = [k \in 1..num |-> IF k = j THEN xs[j + 1] ELSE IF k = j + 1 THEN xs[j] ELSE xs[k]]
      /\ ys' = [k \in 1..num |-> IF k = j THEN ys[j + 1] ELSE IF k = j + 1 THEN ys[j] ELSE ys[k]]
      /\ from' = [k \in 1..num |-> IF k = j THEN from[j + 1]
                                   ELSE IF k = j + 1 THEN from[j] ELSE from[k]]
  BY <1>0 DEF IInv, TypeOK
<1>2. TypeOK'
  BY <1>0, <1>1 DEF IInv, TypeOK, num
<1>3. Rearranged'
  <2>1. IsInjective(from)'
    <3>1. \A a, b \in 1..num : from[a] = from[b] => a = b
      BY DEF IInv, TypeOK, Rearranged, IsInjective
    <3>2. \A a, b \in 1..num : from'[a] = from'[b] => a = b
      BY <1>0, <1>1, <3>1
    <3>3. DOMAIN from' = 1..num
      BY <1>1
    <3> QED
      BY <3>2, <3>3 DEF IsInjective
  <2>2. (\A k \in 1..num : <<xs[k], ys[k]>> = asked[from[k]])'
    BY <1>0, <1>1 DEF IInv, Rearranged
  <2> QED
    BY <2>1, <2>2 DEF Rearranged
<1>4. InPlace'
  <2> SUFFICES ASSUME NEW k \in 1..num, NEW l \in 1..num, k < l, l > num - i + 1
               PROVE  Before(k, l)'
    BY <1>0 DEF InPlace
  <2>1. l # j /\ l # j + 1
    BY <1>0
  <2>2. Before(k, l) /\ Before(j, l) /\ Before(j + 1, l)
    BY <1>0 DEF IInv, InPlace
  <2> QED
    BY <1>0, <1>1, <2>1, <2>2 DEF Before
<1>5. Carried'
  <2>1. \A k \in 1..(j - 1) : k \in 1..num /\ Before(k, j) /\ k # j /\ k # j + 1
    BY <1>0 DEF IInv, Carried
  <2>2. \A k \in 1..j : Before(k, j)'
    BY <1>0, <1>1, <2>1 DEF Before
  <2> QED
    BY <1>0, <2>2 DEF Carried
<1> QED
  BY <1>2, <1>3, <1>4, <1>5 DEF IInv, DuplicateWhenRefused

LEMMA KeepInv == IInv /\ Keep => IInv'
<1> SUFFICES ASSUME IInv, Keep PROVE IInv'
  OBVIOUS
<1> USE DEF Keep, InPass
<1>0. num \in Nat \ {0} /\ num' = num /\ j \in 1..num /\ j + 1 \in 1..num /\ i \in 1..num
  BY NumType DEF IInv, TypeOK, num
<1>1. TypeOK'
  BY <1>0 DEF IInv, TypeOK, num
<1>2. Rearranged' /\ InPlace'
  BY <1>0 DEF IInv, Rearranged, InPlace, Before
<1>3. Carried'
  <2>1. \A k \in 1..(j - 1) : k \in 1..num /\ Before(k, j)
    BY <1>0 DEF IInv, Carried
  <2>2. \A k \in 1..(j - 1) : Before(k, j + 1)
    BY <1>0, <2>1, CoordinatesAreIntegers DEF Before, IInv
  <2> QED
    BY <1>0, <2>2 DEF Carried, Before
<1> QED
  BY <1>1, <1>2, <1>3 DEF IInv, DuplicateWhenRefused

LEMMA DuplicateInv == IInv /\ Duplicate => IInv'
<1> SUFFICES ASSUME IInv, Duplicate PROVE IInv'
  OBVIOUS
<1> USE DEF Duplicate, InPass
<1>0. num \in Nat \ {0} /\ num' = num /\ j \in 1..num /\ j + 1 \in 1..num /\ i \in 1..num
  BY NumType DEF IInv, TypeOK, num
<1>1. TypeOK' /\ Rearranged'
  BY <1>0 DEF IInv, TypeOK, Rearranged, num
<1>2. InPlace' /\ Carried'
  BY <1>0 DEF IInv, InPlace, Carried, Before
<1>3. ~IsInjective(asked)
  <2>1. asked[from[j]] = asked[from[j + 1]]
    BY <1>0 DEF IInv, Rearranged
  <2>2. from[j] # from[j + 1]
    BY <1>0 DEF IInv, Rearranged, IsInjective, TypeOK
  <2>3. from[j] \in DOMAIN asked /\ from[j + 1] \in DOMAIN asked
    <3>1. DOMAIN asked = 1..num
      BY DEF IInv, TypeOK, num
    <3> QED
      BY <1>0, <3>1 DEF IInv, TypeOK
  <2> QED
    BY <2>1, <2>2, <2>3 DEF IsInjective
<1> QED
  BY <1>1, <1>2, <1>3 DEF IInv, DuplicateWhenRefused

LEMMA NextPassInv == IInv /\ NextPass => IInv'
<1> SUFFICES ASSUME IInv, NextPass PROVE IInv'
  OBVIOUS
<1> USE DEF NextPass
<1>0. num \in Nat \ {0} /\ num' = num /\ i \in 1..num /\ i + 1 \in 1..num /\ j = num - i + 1
  <2>1. num \in Nat \ {0} /\ num' = num /\ i \in 1..num /\ j \in 1..num
    BY NumType DEF IInv, TypeOK, num
  <2> QED
    BY <2>1 DEF IInv, Carried
<1>1. TypeOK'
  BY <1>0 DEF IInv, TypeOK, num
<1>2. Rearranged'
  BY <1>0 DEF IInv, Rearranged
<1>3. InPlace'
  BY <1>0 DEF IInv, InPlace, Carried, Before
<1>4. Carried'
  BY <1>0 DEF Carried
<1> QED
  BY <1>1, <1>2, <1>3, <1>4 DEF IInv, DuplicateWhenRefused

LEMMA FinishInv == IInv /\ Finish => IInv'
<1> SUFFICES ASSUME IInv, Finish PROVE IInv'
  OBVIOUS
<1> USE DEF Finish
<1>0. num' = num
  BY DEF num
<1> QED
  BY <1>0 DEF IInv, TypeOK, Rearranged, InPlace, Carried, Before, DuplicateWhenRefused

THEOREM Invariance == Spec => []IInv
<1>1. Init => IInv
  BY InitIInv
<1>2. IInv /\ [Next]_vars => IInv'
  <2> SUFFICES ASSUME IInv, [Next]_vars PROVE IInv'
    OBVIOUS
  <2>1. CASE UNCHANGED vars
    BY <2>1 DEF vars, IInv, TypeOK, Rearranged, InPlace, Carried, Before, num,
                DuplicateWhenRefused
  <2> QED
    BY <2>1, SwapInv, KeepInv, DuplicateInv, NextPassInv, FinishInv DEF Next
<1> QED
  BY <1>1, <1>2, PTL DEF Spec

\* The loop indices stay inside the vectors, and the vectors keep their length.
THEOREM Typing == Spec => []TypeOK
<1>1. IInv => TypeOK
  BY DEF IInv
<1> QED
  BY <1>1, Invariance, PTL

\* Whatever seats a reservation names, in whatever order: when sortVectors
\* returns 0, the seats are in strictly ascending order.
THEOREM Sorts == Spec => []SortedWhenDone
<1>1. IInv => SortedWhenDone
  BY NumType DEF IInv, TypeOK, InPlace, SortedWhenDone, Before
<1> QED
  BY <1>1, Invariance, PTL

\* They are at every moment a rearrangement of the seats named.
THEOREM Rearranges == Spec => []Rearranged
<1>1. IInv => Rearranged
  BY DEF IInv
<1> QED
  BY <1>1, Invariance, PTL

\* When it returns 1, a seat is named twice.
THEOREM RefusesDuplicates == Spec => []DuplicateWhenRefused
<1>1. IInv => DuplicateWhenRefused
  BY DEF IInv
<1> QED
  BY <1>1, Invariance, PTL

-----------------------------------------------------------------------------
\* seat_index.

\* A later row begins after the end of an earlier one.
LEMMA RowsAfter ==
  ASSUME NEW cols \in Nat, NEW a \in Nat, NEW b \in Nat, a < b
  PROVE  a * cols + cols <= b * cols
<1>1. PICK d \in Nat : b = a + 1 + d
  <2>1. b - a - 1 \in Nat /\ b = a + 1 + (b - a - 1)
    OBVIOUS
  <2> QED
    BY <2>1
<1>2. b * cols = a * cols + cols + d * cols
  BY <1>1
<1>3. d * cols \in Nat /\ a * cols \in Nat
  OBVIOUS
<1> QED
  BY <1>2, <1>3

\* Seats in the order of sortVectors have ascending indices: locking seats in
\* that order is locking the entries of seatsLock in ascending order.
THEOREM IndexFollowsOrder ==
  ASSUME NEW rows \in Nat, NEW cols \in Nat,
         NEW row1 \in Nat, NEW col1 \in Nat, InBounds(rows, cols, row1, col1),
         NEW row2 \in Nat, NEW col2 \in Nat, InBounds(rows, cols, row2, col2),
         Earlier(row1, col1, row2, col2)
  PROVE  seat_index(cols, row1, col1) < seat_index(cols, row2, col2)
<1> DEFINE a == row1 - 1
<1> DEFINE b == row2 - 1
<1>1. a \in Nat /\ b \in Nat
  BY DEF InBounds
<1>2. a * cols \in Nat /\ b * cols \in Nat
  BY <1>1
<1>3. CASE row1 < row2
  <2>1. a < b
    BY <1>3
  <2> HIDE DEF a, b
  <2>2. a * cols + cols <= b * cols
    BY <1>1, <2>1, RowsAfter
  <2>3. a * cols + col1 - 1 < b * cols + col2 - 1
    BY <1>2, <2>2 DEF InBounds
  <2> QED
    BY <2>3 DEF seat_index, a, b
<1>4. CASE row1 = row2 /\ col1 < col2
  <2> HIDE DEF a, b
  <2>1. a * cols + col1 - 1 < a * cols + col2 - 1
    BY <1>2, <1>4
  <2> QED
    BY <1>4, <2>1 DEF seat_index, a
<1> QED
  BY <1>3, <1>4 DEF Earlier

\* Different seats have different indices: no two share an entry of data or a
\* mutex.
THEOREM IndexInjective ==
  ASSUME NEW rows \in Nat, NEW cols \in Nat,
         NEW row1 \in Nat, NEW col1 \in Nat, InBounds(rows, cols, row1, col1),
         NEW row2 \in Nat, NEW col2 \in Nat, InBounds(rows, cols, row2, col2),
         seat_index(cols, row1, col1) = seat_index(cols, row2, col2)
  PROVE  row1 = row2 /\ col1 = col2
<1>1. seat_index(cols, row1, col1) \in Int
  <2>1. (row1 - 1) * cols \in Int
    OBVIOUS
  <2> QED
    BY <2>1 DEF seat_index
<1>2. CASE Earlier(row1, col1, row2, col2)
  BY <1>1, <1>2, IndexFollowsOrder
<1>3. CASE Earlier(row2, col2, row1, col1)
  BY <1>1, <1>3, IndexFollowsOrder
<1> QED
  BY <1>2, <1>3 DEF Earlier

\* The index is inside event->data, which has rows * cols entries.
THEOREM IndexInRange ==
  ASSUME NEW rows \in Nat, NEW cols \in Nat,
         NEW row \in Nat, NEW col \in Nat, InBounds(rows, cols, row, col)
  PROVE  seat_index(cols, row, col) \in 0..(rows * cols - 1)
<1> DEFINE a == row - 1
<1>1. a \in Nat /\ a < rows
  BY DEF InBounds
<1>2. a * cols \in Nat /\ rows * cols \in Nat
  BY <1>1
<1> HIDE DEF a
<1>3. a * cols + cols <= rows * cols
  BY <1>1, RowsAfter
<1>4. a * cols + col - 1 \in 0..(rows * cols - 1)
  BY <1>2, <1>3 DEF InBounds
<1> QED
  BY <1>4 DEF seat_index, a

\* What ems_reserve relies on when it takes the mutexes of seats: once sortVectors
\* has returned 0, the seats that pass the bounds check have ascending indices in
\* seatsLock, and so no mutex is taken twice.
THEOREM IndicesAscend ==
  ASSUME NEW rows \in Nat, NEW cols \in Nat
  PROVE  Spec => [](result = "sorted" =>
                      \A k, l \in 1..num :
                        k < l /\ InBounds(rows, cols, xs[k], ys[k])
                              /\ InBounds(rows, cols, xs[l], ys[l])
                          => seat_index(cols, xs[k], ys[k]) < seat_index(cols, xs[l], ys[l]))
<1> DEFINE Ascend ==
      result = "sorted" =>
        \A k, l \in 1..num :
          k < l /\ InBounds(rows, cols, xs[k], ys[k]) /\ InBounds(rows, cols, xs[l], ys[l])
            => seat_index(cols, xs[k], ys[k]) < seat_index(cols, xs[l], ys[l])
<1>1. TypeOK /\ SortedWhenDone => Ascend
  <2> SUFFICES ASSUME TypeOK, SortedWhenDone, result = "sorted",
                      NEW k \in 1..num, NEW l \in 1..num, k < l,
                      InBounds(rows, cols, xs[k], ys[k]), InBounds(rows, cols, xs[l], ys[l])
               PROVE  seat_index(cols, xs[k], ys[k]) < seat_index(cols, xs[l], ys[l])
    OBVIOUS
  <2>1. xs[k] \in Nat /\ ys[k] \in Nat /\ xs[l] \in Nat /\ ys[l] \in Nat
    <3>1. xs[k] \in Int /\ ys[k] \in Int /\ xs[l] \in Int /\ ys[l] \in Int
      BY CoordinateAssumption DEF TypeOK
    <3> QED
      BY <3>1 DEF InBounds
  <2>2. Earlier(xs[k], ys[k], xs[l], ys[l])
    BY DEF SortedWhenDone, Before, Earlier
  <2> QED
    BY <2>1, <2>2, IndexFollowsOrder
<1> QED
  BY <1>1, Typing, Sorts, PTL

=============================================================================
