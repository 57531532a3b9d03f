-------------------------- MODULE SeatLockingProofs --------------------------
(***************************************************************************)
(* What holds of ems_reserve and ems_show for every number of threads, of  *)
(* seats, of requests and of calls; and that they implement Booking: each  *)
(* step of the locking is one step of Booking, or none.                    *)
(***************************************************************************)
EXTENDS SeatLocking, TLAPS

USE DEF NotRead

\* Before the first mutex of the call, and outside of ems_reserve.
Early == {"idle", "sort", "rdlock", "load", "store", "wrlock", "read", "print"}

\* While the event's rwlock is held for reading.
Reading == {"load", "store", "lock", "check", "write", "undo", "unlockUndone", "unlock"}

\* The indices of the loops, and the seats behind them.
IndexOK(t) ==
  /\ j[t] <= i[t]
  /\ i[t] <= Len(coords[t]) + 1
  /\ \A k \in 1..Top(t) : coords[t][k] \in Seats
  /\ pc[t] \in Early => i[t] = 1 /\ j[t] = 1
  /\ pc[t] \in {"lock", "check", "write"} => i[t] <= Len(coords[t]) /\ j[t] = 1
  /\ pc[t] = "unlockUndone" => j[t] < i[t]
  /\ pc[t] = "unlock" => i[t] = Len(coords[t]) + 1
  /\ pc[t] = "return" => j[t] = i[t]
  /\ pc[t] \in {"sort", "rdlock", "load", "store"} => Len(coords[t]) > 0
  /\ pc[t] \in Reading \cup {"rdlock"} => Ascending(coords[t])

\* What the seats of t carry.
DataOK(t) ==
  /\ pc[t] \in Reading \ {"load"} => newId[t] > 0
  /\ \A k \in j[t]..(i[t] - 1) :
       data[coords[t][k]] = IF pc[t] = "unlockUndone" /\ k = j[t] THEN 0 ELSE newId[t]
  /\ pc[t] = "write" => data[coords[t][i[t]]] = 0

\* When the outcome is decided, and how.
OutcomeOK(t) ==
  /\ outcome[t] = "undecided" <=>
       pc[t] \in {"idle", "sort", "rdlock", "load", "store", "lock", "check", "write",
                  "wrlock", "read"}
  /\ pc[t] \in {"undo", "unlockUndone"} => outcome[t] = "refused"
  /\ pc[t] = "unlock" => outcome[t] = "booked"
  /\ pc[t] = "print" => outcome[t] = "shown"

\* What the buffer of a show holds.
ViewOK(t) ==
  /\ pc[t] \in {"idle", "wrlock"} => \A s \in Seats : view[t][s] = NotRead
  /\ pc[t] = "read" => \A s \in Seats : view[t][s] \in {NotRead, data[s]}
  /\ outcome[t] = "shown" => \A s \in Seats : view[t][s] # NotRead

\* The event's rwlock.
RwLockOK ==
  /\ \A t \in Threads : t \in readers <=> pc[t] \in Reading
  /\ \A t \in Threads : writer = t <=> pc[t] = "read"
  /\ writer # NoThread => readers = {}

ThreadOK(t) == IndexOK(t) /\ DataOK(t) /\ OutcomeOK(t) /\ ViewOK(t)

\* The inductive invariant.
IInv ==
  /\ TypeOK
  /\ LocksMatch
  /\ RwLockOK
  /\ \A t \in Threads : ThreadOK(t)

-----------------------------------------------------------------------------

LEMMA InitIInv == Init => IInv
<1> SUFFICES ASSUME Init PROVE IInv
  OBVIOUS
<1> USE ThreadsAssumption, CallsAssumption DEF Init
<1>1. TypeOK
  BY DEF TypeOK, Steps
<1>2. LocksMatch
  BY DEF LocksMatch, Held, Top
<1>3. RwLockOK
  BY DEF RwLockOK, Reading
<1>4. \A t \in Threads : ThreadOK(t)
  BY DEF ThreadOK, IndexOK, DataOK, OutcomeOK, ViewOK, Top, Early, Reading
<1> QED
  BY <1>1, <1>2, <1>3, <1>4 DEF IInv

\* A thread is not disturbed by a step that leaves its variables and the seats
\* it holds alone.
LEMMA OtherThread ==
  ASSUME NEW u \in Threads, ThreadOK(u),
         pc'[u] = pc[u], coords'[u] = coords[u], i'[u] = i[u], j'[u] = j[u],
         newId'[u] = newId[u], view'[u] = view[u], outcome'[u] = outcome[u],
         \A k \in j[u]..Top(u) : data'[coords[u][k]] = data[coords[u][k]],
         pc[u] = "read" => data' = data,
         TypeOK
  PROVE  ThreadOK(u)'
<1>0. Top(u)' = Top(u)
  BY DEF Top
<1>1. IndexOK(u)'
  BY <1>0 DEF ThreadOK, IndexOK
<1>2. DataOK(u)'
  <2>1. \A k \in j[u]..(i[u] - 1) : k \in j[u]..Top(u)
    BY DEF Top, TypeOK
  <2>2. pc[u] = "write" => i[u] \in j[u]..Top(u)
    BY DEF Top, TypeOK, ThreadOK, IndexOK
  <2> QED
    BY <2>1, <2>2 DEF ThreadOK, DataOK
<1>3. OutcomeOK(u)'
  BY DEF ThreadOK, OutcomeOK
<1>4. ViewOK(u)'
  BY DEF ThreadOK, ViewOK
<1> QED
  BY <1>1, <1>2, <1>3, <1>4 DEF ThreadOK

\* A sequence in strictly ascending order names no coordinate twice.
LEMMA AscendingInjective ==
  ASSUME NEW q \in Seq(Coords), Ascending(q),
         NEW a \in DOMAIN q, NEW b \in DOMAIN q, a # b
  PROVE  q[a] # q[b]
<1>1. q[a] \in Coords /\ q[b] \in Coords
  OBVIOUS
<1>2. a < b \/ b < a
  OBVIOUS
<1>3. \A c \in Coords : c \in Int
  BY SeatsAssumption
<1> QED
  BY <1>1, <1>2, <1>3 DEF Ascending

LEMMA SortedSeq ==
  ASSUME NEW q \in Seq(Coords), NEW p \in Sorted(q)
  PROVE  /\ p \in Seq(Coords)
         /\ Len(p) = Len(q)
         /\ Ascending(p)
         /\ Range(p) = Range(q)
BY DEF Sorted, Range

\* What of a thread only its own steps change.
Untouched(u) ==
  /\ pc'[u] = pc[u]
  /\ coords'[u] = coords[u]
  /\ i'[u] = i[u]
  /\ j'[u] = j[u]
  /\ newId'[u] = newId[u]
  /\ view'[u] = view[u]
  /\ outcome'[u] = outcome[u]

LEMMA HeldUntouched ==
  ASSUME NEW u \in Threads, Untouched(u)
  PROVE  Held(u)' = Held(u)
BY DEF Untouched, Held, Top

\* Two threads never hold the same seat.
LEMMA HeldDisjoint ==
  ASSUME LocksMatch, IInv, NEW t \in Threads, NEW u \in Threads, u # t
  PROVE  /\ Held(t) \cap Held(u) = {}
         /\ Held(u) \subseteq Seats
<1>1. Held(u) \subseteq Seats
  <2>1. \A k \in j[u]..Top(u) : k \in 1..Top(u)
    BY DEF IInv, TypeOK, Top
  <2>2. \A k \in 1..Top(u) : coords[u][k] \in Seats
    BY DEF IInv, ThreadOK, IndexOK
  <2> QED
    BY <2>1, <2>2 DEF Held
<1> QED
  BY <1>1 DEF LocksMatch

\* The steps that take and give back no mutex, take one, and give one back.
LEMMA LocksKept ==
  ASSUME LocksMatch, seatLock' = seatLock, \A u \in Threads : Held(u)' = Held(u)
  PROVE  LocksMatch'
BY DEF LocksMatch

LEMMA LockTaken ==
  ASSUME LocksMatch, TypeOK, NEW t \in Threads, NEW s \in Seats, seatLock[s] = NoThread,
         seatLock' = [seatLock EXCEPT ![s] = t],
         Held(t)' = Held(t) \cup {s},
         \A u \in Threads \ {t} : Held(u)' = Held(u)
  PROVE  LocksMatch'
<1> SUFFICES ASSUME NEW r \in Seats, NEW u \in Threads
             PROVE  seatLock'[r] = u <=> r \in Held(u)'
  BY DEF LocksMatch
<1>1. seatLock'[r] = IF r = s THEN t ELSE seatLock[r]
  BY DEF TypeOK
<1>2. seatLock[r] = u <=> r \in Held(u)
  BY DEF LocksMatch
<1>3. CASE u = t
  BY <1>1, <1>2, <1>3, ThreadsAssumption
<1>4. CASE u # t
  <2>1. Held(u)' = Held(u) /\ s \notin Held(u)
    BY <1>4, ThreadsAssumption DEF LocksMatch
  <2> QED
    BY <1>1, <1>2, <1>4, <2>1
<1> QED
  BY <1>3, <1>4

LEMMA LockGiven ==
  ASSUME LocksMatch, TypeOK, NEW t \in Threads, NEW s \in Held(t), s \in Seats,
         seatLock' = [seatLock EXCEPT ![s] = NoThread],
         Held(t)' = Held(t) \ {s},
         \A u \in Threads \ {t} : Held(u)' = Held(u)
  PROVE  LocksMatch'
<1> SUFFICES ASSUME NEW r \in Seats, NEW u \in Threads
             PROVE  seatLock'[r] = u <=> r \in Held(u)'
  BY DEF LocksMatch
<1>1. seatLock'[r] = IF r = s THEN NoThread ELSE seatLock[r]
  BY DEF TypeOK
<1>2. seatLock[r] = u <=> r \in Held(u)
  BY DEF LocksMatch
<1>3. CASE u = t
  BY <1>1, <1>2, <1>3, ThreadsAssumption
<1>4. CASE u # t
  <2>1. Held(u)' = Held(u) /\ s \notin Held(u)
    BY <1>4 DEF LocksMatch
  <2> QED
    BY <1>1, <1>2, <2>1, ThreadsAssumption
<1> QED
  BY <1>3, <1>4

LEMMA CallReserveInv ==
  ASSUME IInv, NEW t \in Threads, CallReserve(t)
  PROVE  IInv'
<1> USE DEF CallReserve, Goto, Decide, lockVars, localVars, IInv
<1>1. TypeOK'
  <2>1. coords' \in [Threads -> Seq(Coords)]
    BY RequestsAssumption DEF TypeOK
  <2>2. calls' \in [Threads -> 0..MaxCalls]
    BY CallsAssumption DEF TypeOK
  <2>3. pc' \in [Threads -> Steps]
    BY DEF TypeOK, Steps
  <2> QED
    BY <2>1, <2>2, <2>3 DEF TypeOK
<1>2. ThreadOK(t)'
  <2>1. IndexOK(t)'
    BY RequestsAssumption DEF ThreadOK, IndexOK, TypeOK, Top, Early, Reading
  <2>2. DataOK(t)'
    BY DEF ThreadOK, IndexOK, DataOK, TypeOK, Top, Reading, Early
  <2>3. OutcomeOK(t)'
    BY DEF ThreadOK, OutcomeOK, TypeOK
  <2>4. ViewOK(t)'
    BY DEF ThreadOK, ViewOK, OutcomeOK, TypeOK
  <2> QED
    BY <2>1, <2>2, <2>3, <2>4 DEF ThreadOK
<1>3. \A u \in Threads \ {t} : Untouched(u)
  BY DEF TypeOK, Untouched
<1>4. ThreadOK(t)' /\ \A u \in Threads \ {t} : ThreadOK(u)'
  BY <1>2, <1>3, OtherThread DEF Untouched
<1>5. LocksMatch'
  <2>1. Held(t)' = Held(t)
    BY DEF ThreadOK, IndexOK, TypeOK, Held, Top, Early
  <2> QED
    BY <1>3, <2>1, HeldUntouched, LocksKept
<1>6. RwLockOK'
  BY ThreadsAssumption DEF RwLockOK, Reading, TypeOK
<1> QED
  BY <1>1, <1>2, <1>4, <1>5, <1>6

LEMMA SortSeatsInv ==
  ASSUME IInv, NEW t \in Threads, SortSeats(t)
  PROVE  IInv'
<1> USE DEF SortSeats, Goto, Decide, lockVars, localVars, IInv
<1>1. TypeOK'
  <2>1. CASE ~IsInjective(coords[t])
    BY <2>1 DEF TypeOK, Steps
  <2>2. CASE IsInjective(coords[t])
    <3>1. PICK p \in Sorted(coords[t]) : coords' = [coords EXCEPT ![t] = p]
      BY <2>2
    <3>2. p \in Seq(Coords)
      BY SortedSeq DEF TypeOK
    <3> QED
      BY <2>2, <3>1, <3>2 DEF TypeOK, Steps
  <2> QED
    BY <2>1, <2>2
<1>2. ThreadOK(t)'
  <2>1. IndexOK(t)'
    BY SeatsAssumption, SortedSeq DEF ThreadOK, IndexOK, TypeOK, Top, Early, Reading
  <2>2. DataOK(t)'
    BY DEF ThreadOK, IndexOK, DataOK, TypeOK, Top, Reading, Early
  <2>3. OutcomeOK(t)'
    BY DEF ThreadOK, OutcomeOK, TypeOK
  <2>4. ViewOK(t)'
    BY DEF ThreadOK, ViewOK, OutcomeOK, TypeOK
  <2> QED
    BY <2>1, <2>2, <2>3, <2>4 DEF ThreadOK
<1>3. \A u \in Threads \ {t} : Untouched(u)
  BY DEF TypeOK, Untouched
<1>4. ThreadOK(t)' /\ \A u \in Threads \ {t} : ThreadOK(u)'
  BY <1>2, <1>3, OtherThread DEF Untouched
<1>5. LocksMatch'
  <2>1. Held(t)' = Held(t)
    BY DEF ThreadOK, IndexOK, TypeOK, Held, Top, Early
  <2> QED
    BY <1>3, <2>1, HeldUntouched, LocksKept
<1>6. RwLockOK'
  BY ThreadsAssumption DEF RwLockOK, Reading, TypeOK
<1> QED
  BY <1>1, <1>2, <1>4, <1>5, <1>6

LEMMA LockForReadingInv ==
  ASSUME IInv, NEW t \in Threads, LockForReading(t)
  PROVE  IInv'
<1> USE DEF LockForReading, Goto, Decide, lockVars, localVars, IInv
<1>1. TypeOK'
  BY SeatsAssumption DEF TypeOK, Steps
<1>2. ThreadOK(t)'
  <2>1. IndexOK(t)'
    BY DEF ThreadOK, IndexOK, TypeOK, Top, Early, Reading
  <2>2. DataOK(t)'
    BY DEF ThreadOK, IndexOK, DataOK, TypeOK, Top, Reading, Early
  <2>3. OutcomeOK(t)'
    BY DEF ThreadOK, OutcomeOK, TypeOK
  <2>4. ViewOK(t)'
    BY DEF ThreadOK, ViewOK, OutcomeOK, TypeOK
  <2> QED
    BY <2>1, <2>2, <2>3, <2>4 DEF ThreadOK
<1>3. \A u \in Threads \ {t} : Untouched(u)
  BY DEF TypeOK, Untouched
<1>4. ThreadOK(t)' /\ \A u \in Threads \ {t} : ThreadOK(u)'
  BY <1>2, <1>3, OtherThread DEF Untouched
<1>5. LocksMatch'
  <2>1. Held(t)' = Held(t)
    BY DEF ThreadOK, IndexOK, TypeOK, Held, Top, Early
  <2> QED
    BY <1>3, <2>1, HeldUntouched, LocksKept
<1>6. RwLockOK'
  BY ThreadsAssumption DEF RwLockOK, Reading, TypeOK
<1> QED
  BY <1>1, <1>2, <1>4, <1>5, <1>6

LEMMA LoadCounterInv ==
  ASSUME IInv, NEW t \in Threads, LoadCounter(t)
  PROVE  IInv'
<1> USE DEF LoadCounter, Goto, Decide, lockVars, localVars, IInv
<1>1. TypeOK'
  BY SeatsAssumption DEF TypeOK, Steps
<1>2. ThreadOK(t)'
  <2>1. IndexOK(t)'
    BY DEF ThreadOK, IndexOK, TypeOK, Top, Early, Reading
  <2>2. DataOK(t)'
    BY DEF ThreadOK, IndexOK, DataOK, TypeOK, Top, Reading, Early
  <2>3. OutcomeOK(t)'
    BY DEF ThreadOK, OutcomeOK, TypeOK
  <2>4. ViewOK(t)'
    BY DEF ThreadOK, ViewOK, OutcomeOK, TypeOK
  <2> QED
    BY <2>1, <2>2, <2>3, <2>4 DEF ThreadOK
<1>3. \A u \in Threads \ {t} : Untouched(u)
  BY DEF TypeOK, Untouched
<1>4. ThreadOK(t)' /\ \A u \in Threads \ {t} : ThreadOK(u)'
  BY <1>2, <1>3, OtherThread DEF Untouched
<1>5. LocksMatch'
  <2>1. Held(t)' = Held(t)
    BY DEF ThreadOK, IndexOK, TypeOK, Held, Top, Early
  <2> QED
    BY <1>3, <2>1, HeldUntouched, LocksKept
<1>6. RwLockOK'
  BY ThreadsAssumption DEF RwLockOK, Reading, TypeOK
<1> QED
  BY <1>1, <1>2, <1>4, <1>5, <1>6

LEMMA StoreCounterInv ==
  ASSUME IInv, NEW t \in Threads, StoreCounter(t)
  PROVE  IInv'
<1> USE DEF StoreCounter, Goto, Decide, lockVars, localVars, IInv
<1>1. TypeOK'
  BY SeatsAssumption DEF TypeOK, Steps
<1>2. ThreadOK(t)'
  <2>1. IndexOK(t)'
    BY DEF ThreadOK, IndexOK, TypeOK, Top, Early, Reading
  <2>2. DataOK(t)'
    BY DEF ThreadOK, IndexOK, DataOK, TypeOK, Top, Reading, Early
  <2>3. OutcomeOK(t)'
    BY DEF ThreadOK, OutcomeOK, TypeOK
  <2>4. ViewOK(t)'
    BY DEF ThreadOK, ViewOK, OutcomeOK, TypeOK
  <2> QED
    BY <2>1, <2>2, <2>3, <2>4 DEF ThreadOK
<1>3. \A u \in Threads \ {t} : Untouched(u)
  BY DEF TypeOK, Untouched
<1>4. ThreadOK(t)' /\ \A u \in Threads \ {t} : ThreadOK(u)'
  BY <1>2, <1>3, OtherThread DEF Untouched
<1>5. LocksMatch'
  <2>1. Held(t)' = Held(t)
    BY DEF ThreadOK, IndexOK, TypeOK, Held, Top, Early
  <2> QED
    BY <1>3, <2>1, HeldUntouched, LocksKept
<1>6. RwLockOK'
  BY ThreadsAssumption DEF RwLockOK, Reading, TypeOK
<1> QED
  BY <1>1, <1>2, <1>4, <1>5, <1>6

LEMMA InvalidSeatInv ==
  ASSUME IInv, NEW t \in Threads, InvalidSeat(t)
  PROVE  IInv'
<1> USE DEF InvalidSeat, Goto, Decide, lockVars, localVars, IInv
<1>1. TypeOK'
  BY SeatsAssumption DEF TypeOK, Steps
<1>2. ThreadOK(t)'
  <2>1. IndexOK(t)'
    BY DEF ThreadOK, IndexOK, TypeOK, Top, Early, Reading
  <2>2. DataOK(t)'
    BY DEF ThreadOK, IndexOK, DataOK, TypeOK, Top, Reading, Early
  <2>3. OutcomeOK(t)'
    BY DEF ThreadOK, OutcomeOK, TypeOK
  <2>4. ViewOK(t)'
    BY DEF ThreadOK, ViewOK, OutcomeOK, TypeOK
  <2> QED
    BY <2>1, <2>2, <2>3, <2>4 DEF ThreadOK
<1>3. \A u \in Threads \ {t} : Untouched(u)
  BY DEF TypeOK, Untouched
<1>4. ThreadOK(t)' /\ \A u \in Threads \ {t} : ThreadOK(u)'
  BY <1>2, <1>3, OtherThread DEF Untouched
<1>5. LocksMatch'
  <2>1. Held(t)' = Held(t)
    BY DEF ThreadOK, IndexOK, TypeOK, Held, Top, Early
  <2> QED
    BY <1>3, <2>1, HeldUntouched, LocksKept
<1>6. RwLockOK'
  BY ThreadsAssumption DEF RwLockOK, Reading, TypeOK
<1> QED
  BY <1>1, <1>2, <1>4, <1>5, <1>6

LEMMA LockSeatInv ==
  ASSUME IInv, NEW t \in Threads, LockSeat(t)
  PROVE  IInv'
<1> USE DEF LockSeat, Goto, Decide, lockVars, localVars, IInv
<1>1. TypeOK'
  BY SeatsAssumption DEF TypeOK, Steps
<1>2. ThreadOK(t)'
  <2>1. IndexOK(t)'
    BY DEF ThreadOK, IndexOK, TypeOK, Top, Early, Reading
  <2>2. DataOK(t)'
    BY DEF ThreadOK, IndexOK, DataOK, TypeOK, Top, Reading, Early
  <2>3. OutcomeOK(t)'
    BY DEF ThreadOK, OutcomeOK, TypeOK
  <2>4. ViewOK(t)'
    BY DEF ThreadOK, ViewOK, OutcomeOK, TypeOK
  <2> QED
    BY <2>1, <2>2, <2>3, <2>4 DEF ThreadOK
<1>3. \A u \in Threads \ {t} : Untouched(u)
  BY DEF TypeOK, Untouched
<1>4. ThreadOK(t)' /\ \A u \in Threads \ {t} : ThreadOK(u)'
  BY <1>2, <1>3, OtherThread DEF Untouched
<1>5. LocksMatch'
  <2>1. Held(t)' = Held(t) \cup {coords[t][i[t]]}
    BY DEF ThreadOK, IndexOK, TypeOK, Held, Top
  <2> QED
    BY <1>3, <2>1, HeldUntouched, LockTaken
<1>6. RwLockOK'
  BY ThreadsAssumption DEF RwLockOK, Reading, TypeOK
<1> QED
  BY <1>1, <1>2, <1>4, <1>5, <1>6

LEMMA SeatTakenInv ==
  ASSUME IInv, NEW t \in Threads, SeatTaken(t)
  PROVE  IInv'
<1> USE DEF SeatTaken, Goto, Decide, lockVars, localVars, IInv
<1>1. TypeOK'
  BY SeatsAssumption DEF TypeOK, Steps
<1>2. ThreadOK(t)'
  <2>1. IndexOK(t)'
    BY DEF ThreadOK, IndexOK, TypeOK, Top, Early, Reading
  <2>2. DataOK(t)'
    BY DEF ThreadOK, IndexOK, DataOK, TypeOK, Top, Reading, Early
  <2>3. OutcomeOK(t)'
    BY DEF ThreadOK, OutcomeOK, TypeOK
  <2>4. ViewOK(t)'
    BY DEF ThreadOK, ViewOK, OutcomeOK, TypeOK
  <2> QED
    BY <2>1, <2>2, <2>3, <2>4 DEF ThreadOK
<1>3. \A u \in Threads \ {t} : Untouched(u)
  BY DEF TypeOK, Untouched
<1>4. ThreadOK(t)' /\ \A u \in Threads \ {t} : ThreadOK(u)'
  BY <1>2, <1>3, OtherThread DEF Untouched
<1>5. LocksMatch'
  <2>1. coords[t][i[t]] \in Held(t) /\ coords[t][i[t]] \in Seats
    BY DEF ThreadOK, IndexOK, TypeOK, Held, Top
  <2>2. \A k \in j[t]..Top(t) : k # i[t] => coords[t][k] # coords[t][i[t]]
    <3>1. Ascending(coords[t]) /\ j[t]..Top(t) \subseteq DOMAIN coords[t] /\ i[t] \in j[t]..Top(t)
      BY DEF ThreadOK, IndexOK, TypeOK, Top, Reading
    <3> QED
      BY <3>1, AscendingInjective DEF TypeOK
  <2>3. (j[t]..Top(t))' = (j[t]..Top(t)) \ {i[t]}
    BY DEF ThreadOK, IndexOK, TypeOK, Top
  <2>4. Held(t)' = Held(t) \ {coords[t][i[t]]}
    BY <2>2, <2>3 DEF Held
  <2> QED
    BY <1>3, <2>1, <2>4, HeldUntouched, LockGiven
<1>6. RwLockOK'
  BY ThreadsAssumption DEF RwLockOK, Reading, TypeOK
<1> QED
  BY <1>1, <1>2, <1>4, <1>5, <1>6

LEMMA SeatFreeInv ==
  ASSUME IInv, NEW t \in Threads, SeatFree(t)
  PROVE  IInv'
<1> USE DEF SeatFree, Goto, Decide, lockVars, localVars, IInv
<1>1. TypeOK'
  BY SeatsAssumption DEF TypeOK, Steps
<1>2. ThreadOK(t)'
  <2>1. IndexOK(t)'
    BY DEF ThreadOK, IndexOK, TypeOK, Top, Early, Reading
  <2>2. DataOK(t)'
    BY DEF ThreadOK, IndexOK, DataOK, TypeOK, Top, Reading, Early
  <2>3. OutcomeOK(t)'
    BY DEF ThreadOK, OutcomeOK, TypeOK
  <2>4. ViewOK(t)'
    BY DEF ThreadOK, ViewOK, OutcomeOK, TypeOK
  <2> QED
    BY <2>1, <2>2, <2>3, <2>4 DEF ThreadOK
<1>3. \A u \in Threads \ {t} : Untouched(u)
  BY DEF TypeOK, Untouched
<1>4. ThreadOK(t)' /\ \A u \in Threads \ {t} : ThreadOK(u)'
  BY <1>2, <1>3, OtherThread DEF Untouched
<1>5. LocksMatch'
  <2>1. Held(t)' = Held(t)
    BY DEF ThreadOK, IndexOK, TypeOK, Held, Top, Early
  <2> QED
    BY <1>3, <2>1, HeldUntouched, LocksKept
<1>6. RwLockOK'
  BY ThreadsAssumption DEF RwLockOK, Reading, TypeOK
<1> QED
  BY <1>1, <1>2, <1>4, <1>5, <1>6

LEMMA WriteSeatInv ==
  ASSUME IInv, NEW t \in Threads, WriteSeat(t)
  PROVE  IInv'
<1> USE DEF WriteSeat, Goto, Decide, lockVars, localVars, IInv
<1>1. TypeOK'
  <2>1. i' \in [Threads -> Nat \ {0}]
    BY DEF TypeOK
  <2>2. data' \in [Seats -> Nat]
    BY DEF TypeOK
  <2>3. pc' \in [Threads -> Steps]
    BY DEF TypeOK, Steps
  <2> QED
    BY <2>1, <2>2, <2>3 DEF TypeOK, Steps
<1>2. ThreadOK(t)'
  <2>1. IndexOK(t)'
    <3>1. i'[t] = i[t] + 1 /\ i[t] \in Nat \ {0}
      BY DEF TypeOK
    <3>2. Top(t) = i[t] /\ Top(t)' = i[t]
      BY <3>1 DEF TypeOK, Top, Steps
    <3>3. IndexOK(t) /\ Len(coords[t]) \in Nat
      BY DEF ThreadOK, TypeOK
    <3>4. \A k \in 1..Top(t)' : coords[t][k] \in Seats
      BY <3>2, <3>3 DEF IndexOK
    <3>5. j[t] = 1 /\ Ascending(coords[t])
      BY <3>3 DEF IndexOK, Reading
    <3>6. CASE i[t] < Len(coords[t])
      <4>1. pc'[t] = "lock"
        BY <3>6 DEF TypeOK
      <4> QED
        BY <3>1, <3>3, <3>4, <3>5, <3>6, <4>1 DEF IndexOK, Early, Reading
    <3>7. CASE i[t] = Len(coords[t])
      <4>1. pc'[t] = "unlock"
        BY <3>7 DEF TypeOK
      <4> QED
        BY <3>1, <3>3, <3>4, <3>5, <3>7, <4>1 DEF IndexOK, Early, Reading
    <3> QED
      BY <3>6, <3>7
  <2>2. DataOK(t)'
    <3>1. Ascending(coords[t])
      BY DEF ThreadOK, IndexOK, Reading
    <3>2. \A k \in j[t]..(i[t] - 1) : k \in DOMAIN coords[t] /\ i[t] \in DOMAIN coords[t] /\ k # i[t]
      <4>1. i[t] \in Nat \ {0} /\ j[t] \in Nat \ {0} /\ coords[t] \in Seq(Coords)
        BY DEF TypeOK
      <4>2. i[t] <= Len(coords[t])
        BY DEF ThreadOK, IndexOK
      <4> QED
        BY <4>1, <4>2
    <3>3. \A k \in j[t]..(i[t] - 1) : data'[coords[t][k]] = data[coords[t][k]]
      BY <3>1, <3>2, AscendingInjective DEF TypeOK
    <3>4. data'[coords[t][i[t]]] = newId[t]
      BY DEF ThreadOK, IndexOK, TypeOK, Top
    <3>5. \A k \in j[t]..(i[t] - 1) : data[coords[t][k]] = newId[t]
      BY DEF ThreadOK, DataOK
    <3>6. (j[t]..(i[t] - 1))' = (j[t]..(i[t] - 1)) \cup {i[t]}
      BY DEF ThreadOK, IndexOK, TypeOK
    <3>7. \A k \in (j[t]..(i[t] - 1))' : data'[coords[t][k]] = newId[t]
      BY <3>3, <3>4, <3>5, <3>6
    <3> QED
      BY <3>7 DEF ThreadOK, DataOK, TypeOK, Reading
  <2>3. OutcomeOK(t)'
    BY DEF ThreadOK, OutcomeOK, TypeOK
  <2>4. ViewOK(t)'
    BY DEF ThreadOK, ViewOK, OutcomeOK, TypeOK
  <2> QED
    BY <2>1, <2>2, <2>3, <2>4 DEF ThreadOK
<1>3. \A u \in Threads \ {t} : Untouched(u)
  BY DEF TypeOK, Untouched
<1>4. coords[t][i[t]] \in Held(t)
  BY DEF ThreadOK, IndexOK, TypeOK, Held, Top
<1>5. \A u \in Threads \ {t} : ThreadOK(u)'
  <2> SUFFICES ASSUME NEW u \in Threads \ {t} PROVE ThreadOK(u)'
    OBVIOUS
  <2>1. \A k \in j[u]..Top(u) : data'[coords[u][k]] = data[coords[u][k]]
    <3>1. \A k \in j[u]..Top(u) : coords[u][k] \in Held(u)
      BY DEF Held
    <3> QED
      BY <3>1, <1>4, HeldDisjoint DEF TypeOK
  <2>2. pc[u] # "read"
    BY ThreadsAssumption DEF RwLockOK, Reading, TypeOK
  <2> QED
    BY <1>3, <2>1, <2>2, OtherThread DEF Untouched, ThreadOK
<1>6. LocksMatch'
  <2>1. i'[t] = i[t] + 1 /\ i[t] \in Nat /\ pc'[t] \in {"lock", "unlock"}
    BY DEF TypeOK
  <2>2. Top(t)' = Top(t)
    BY <2>1 DEF Top
  <2>3. Held(t)' = Held(t)
    BY <2>2 DEF Held
  <2> QED
    BY <1>3, <2>3, HeldUntouched, LocksKept
<1>7. RwLockOK'
  BY ThreadsAssumption DEF RwLockOK, Reading, TypeOK
<1> QED
  BY <1>1, <1>2, <1>5, <1>6, <1>7

LEMMA UndoSeatInv ==
  ASSUME IInv, NEW t \in Threads, UndoSeat(t)
  PROVE  IInv'
<1> USE DEF UndoSeat, Goto, Decide, lockVars, localVars, IInv
<1>1. TypeOK'
  BY SeatsAssumption DEF TypeOK, Steps
<1>2. ThreadOK(t)'
  <2>1. IndexOK(t)'
    BY DEF ThreadOK, IndexOK, TypeOK, Top, Early, Reading
  <2>2. DataOK(t)'
    <3>1. Ascending(coords[t])
      BY DEF ThreadOK, IndexOK, Reading
    <3>2. \A k \in j[t]..(i[t] - 1) : k \in DOMAIN coords[t] /\ j[t] \in DOMAIN coords[t]
      BY DEF ThreadOK, IndexOK, TypeOK, Top
    <3>3. \A k \in j[t]..(i[t] - 1) : k # j[t] => data'[coords[t][k]] = data[coords[t][k]]
      BY <3>1, <3>2, AscendingInjective DEF TypeOK
    <3>4. data'[coords[t][j[t]]] = 0
      BY DEF ThreadOK, IndexOK, TypeOK, Top
    <3>5. \A k \in j[t]..(i[t] - 1) : data[coords[t][k]] = newId[t]
      BY DEF ThreadOK, DataOK
    <3> QED
      BY <3>3, <3>4, <3>5 DEF ThreadOK, DataOK, TypeOK, Reading
  <2>3. OutcomeOK(t)'
    BY DEF ThreadOK, OutcomeOK, TypeOK
  <2>4. ViewOK(t)'
    BY DEF ThreadOK, ViewOK, OutcomeOK, TypeOK
  <2> QED
    BY <2>1, <2>2, <2>3, <2>4 DEF ThreadOK
<1>3. \A u \in Threads \ {t} : Untouched(u)
  BY DEF TypeOK, Untouched
<1>4. coords[t][j[t]] \in Held(t)
  BY DEF ThreadOK, IndexOK, TypeOK, Held, Top
<1>5. \A u \in Threads \ {t} : ThreadOK(u)'
  <2> SUFFICES ASSUME NEW u \in Threads \ {t} PROVE ThreadOK(u)'
    OBVIOUS
  <2>1. \A k \in j[u]..Top(u) : data'[coords[u][k]] = data[coords[u][k]]
    <3>1. \A k \in j[u]..Top(u) : coords[u][k] \in Held(u)
      BY DEF Held
    <3> QED
      BY <3>1, <1>4, HeldDisjoint DEF TypeOK
  <2>2. pc[u] # "read"
    BY ThreadsAssumption DEF RwLockOK, Reading, TypeOK
  <2> QED
    BY <1>3, <2>1, <2>2, OtherThread DEF Untouched, ThreadOK
<1>6. LocksMatch'
  <2>1. Held(t)' = Held(t)
    BY DEF ThreadOK, IndexOK, TypeOK, Held, Top, Early
  <2> QED
    BY <1>3, <2>1, HeldUntouched, LocksKept
<1>7. RwLockOK'
  BY ThreadsAssumption DEF RwLockOK, Reading, TypeOK
<1> QED
  BY <1>1, <1>2, <1>5, <1>6, <1>7

LEMMA UnlockUndoneInv ==
  ASSUME IInv, NEW t \in Threads, UnlockUndone(t)
  PROVE  IInv'
<1> USE DEF UnlockUndone, Goto, Decide, lockVars, localVars, IInv
<1>1. TypeOK'
  <2>1. j' \in [Threads -> Nat \ {0}]
    BY DEF TypeOK
  <2>2. seatLock' \in [Seats -> Threads \cup {NoThread}]
    BY DEF TypeOK
  <2> QED
    BY <2>1, <2>2 DEF TypeOK, Steps
<1>2. ThreadOK(t)'
  <2>1. IndexOK(t)'
    BY DEF ThreadOK, IndexOK, TypeOK, Top, Early, Reading
  <2>2. DataOK(t)'
    BY DEF ThreadOK, IndexOK, DataOK, TypeOK, Top, Reading, Early
  <2>3. OutcomeOK(t)'
    BY DEF ThreadOK, OutcomeOK, TypeOK
  <2>4. ViewOK(t)'
    BY DEF ThreadOK, ViewOK, OutcomeOK, TypeOK
  <2> QED
    BY <2>1, <2>2, <2>3, <2>4 DEF ThreadOK
<1>3. \A u \in Threads \ {t} : Untouched(u)
  BY DEF TypeOK, Untouched
<1>4. ThreadOK(t)' /\ \A u \in Threads \ {t} : ThreadOK(u)'
  BY <1>2, <1>3, OtherThread DEF Untouched
<1>5. LocksMatch'
  <2>1. coords[t][j[t]] \in Held(t) /\ coords[t][j[t]] \in Seats
    BY DEF ThreadOK, IndexOK, TypeOK, Held, Top
  <2>2. \A k \in j[t]..Top(t) : k # j[t] => coords[t][k] # coords[t][j[t]]
    <3>1. Ascending(coords[t]) /\ j[t]..Top(t) \subseteq DOMAIN coords[t] /\ j[t] \in j[t]..Top(t)
      BY DEF ThreadOK, IndexOK, TypeOK, Top, Reading
    <3> QED
      BY <3>1, AscendingInjective DEF TypeOK
  <2>3. (j[t]..Top(t))' = (j[t]..Top(t)) \ {j[t]}
    BY DEF ThreadOK, IndexOK, TypeOK, Top
  <2>4. Held(t)' = Held(t) \ {coords[t][j[t]]}
    BY <2>2, <2>3 DEF Held
  <2> QED
    BY <1>3, <2>1, <2>4, HeldUntouched, LockGiven
<1>6. RwLockOK'
  BY ThreadsAssumption DEF RwLockOK, Reading, TypeOK
<1> QED
  BY <1>1, <1>2, <1>4, <1>5, <1>6

LEMMA UnlockSeatInv ==
  ASSUME IInv, NEW t \in Threads, UnlockSeat(t)
  PROVE  IInv'
<1> USE DEF UnlockSeat, Goto, Decide, lockVars, localVars, IInv
<1>1. TypeOK'
  <2>1. j' \in [Threads -> Nat \ {0}]
    BY DEF TypeOK
  <2>2. seatLock' \in [Seats -> Threads \cup {NoThread}]
    BY DEF TypeOK
  <2> QED
    BY <2>1, <2>2 DEF TypeOK, Steps
<1>2. ThreadOK(t)'
  <2>1. IndexOK(t)'
    BY DEF ThreadOK, IndexOK, TypeOK, Top, Early, Reading
  <2>2. DataOK(t)'
    BY DEF ThreadOK, IndexOK, DataOK, TypeOK, Top, Reading, Early
  <2>3. OutcomeOK(t)'
    BY DEF ThreadOK, OutcomeOK, TypeOK
  <2>4. ViewOK(t)'
    BY DEF ThreadOK, ViewOK, OutcomeOK, TypeOK
  <2> QED
    BY <2>1, <2>2, <2>3, <2>4 DEF ThreadOK
<1>3. \A u \in Threads \ {t} : Untouched(u)
  BY DEF TypeOK, Untouched
<1>4. ThreadOK(t)' /\ \A u \in Threads \ {t} : ThreadOK(u)'
  BY <1>2, <1>3, OtherThread DEF Untouched
<1>5. LocksMatch'
  <2>1. coords[t][j[t]] \in Held(t) /\ coords[t][j[t]] \in Seats
    BY DEF ThreadOK, IndexOK, TypeOK, Held, Top
  <2>2. \A k \in j[t]..Top(t) : k # j[t] => coords[t][k] # coords[t][j[t]]
    <3>1. Ascending(coords[t]) /\ j[t]..Top(t) \subseteq DOMAIN coords[t] /\ j[t] \in j[t]..Top(t)
      BY DEF ThreadOK, IndexOK, TypeOK, Top, Reading
    <3> QED
      BY <3>1, AscendingInjective DEF TypeOK
  <2>3. (j[t]..Top(t))' = (j[t]..Top(t)) \ {j[t]}
    BY DEF ThreadOK, IndexOK, TypeOK, Top
  <2>4. Held(t)' = Held(t) \ {coords[t][j[t]]}
    BY <2>2, <2>3 DEF Held
  <2> QED
    BY <1>3, <2>1, <2>4, HeldUntouched, LockGiven
<1>6. RwLockOK'
  BY ThreadsAssumption DEF RwLockOK, Reading, TypeOK
<1> QED
  BY <1>1, <1>2, <1>4, <1>5, <1>6

LEMMA UnlockForReadingInv ==
  ASSUME IInv, NEW t \in Threads, UnlockForReading(t)
  PROVE  IInv'
<1> USE DEF UnlockForReading, Goto, Decide, lockVars, localVars, IInv
<1>1. TypeOK'
  BY SeatsAssumption DEF TypeOK, Steps
<1>2. ThreadOK(t)'
  <2>1. IndexOK(t)'
    BY DEF ThreadOK, IndexOK, TypeOK, Top, Early, Reading
  <2>2. DataOK(t)'
    BY DEF ThreadOK, IndexOK, DataOK, TypeOK, Top, Reading, Early
  <2>3. OutcomeOK(t)'
    BY DEF ThreadOK, OutcomeOK, TypeOK
  <2>4. ViewOK(t)'
    BY DEF ThreadOK, ViewOK, OutcomeOK, TypeOK
  <2> QED
    BY <2>1, <2>2, <2>3, <2>4 DEF ThreadOK
<1>3. \A u \in Threads \ {t} : Untouched(u)
  BY DEF TypeOK, Untouched
<1>4. ThreadOK(t)' /\ \A u \in Threads \ {t} : ThreadOK(u)'
  BY <1>2, <1>3, OtherThread DEF Untouched
<1>5. LocksMatch'
  <2>1. Held(t)' = Held(t)
    BY DEF ThreadOK, IndexOK, TypeOK, Held, Top, Early
  <2> QED
    BY <1>3, <2>1, HeldUntouched, LocksKept
<1>6. RwLockOK'
  BY ThreadsAssumption DEF RwLockOK, Reading, TypeOK
<1> QED
  BY <1>1, <1>2, <1>4, <1>5, <1>6

LEMMA CallShowInv ==
  ASSUME IInv, NEW t \in Threads, CallShow(t)
  PROVE  IInv'
<1> USE DEF CallShow, Goto, Decide, lockVars, localVars, IInv
<1>1. TypeOK'
  BY CallsAssumption DEF TypeOK, Steps
<1>2. ThreadOK(t)'
  <2>1. IndexOK(t)'
    BY DEF ThreadOK, IndexOK, TypeOK, Top, Early, Reading
  <2>2. DataOK(t)'
    BY DEF ThreadOK, IndexOK, DataOK, TypeOK, Top, Reading, Early
  <2>3. OutcomeOK(t)'
    BY DEF ThreadOK, OutcomeOK, TypeOK
  <2>4. ViewOK(t)'
    BY DEF ThreadOK, ViewOK, OutcomeOK, TypeOK
  <2> QED
    BY <2>1, <2>2, <2>3, <2>4 DEF ThreadOK
<1>3. \A u \in Threads \ {t} : Untouched(u)
  BY DEF TypeOK, Untouched
<1>4. ThreadOK(t)' /\ \A u \in Threads \ {t} : ThreadOK(u)'
  BY <1>2, <1>3, OtherThread DEF Untouched
<1>5. LocksMatch'
  <2>1. Held(t)' = Held(t)
    BY DEF ThreadOK, IndexOK, TypeOK, Held, Top, Early
  <2> QED
    BY <1>3, <2>1, HeldUntouched, LocksKept
<1>6. RwLockOK'
  BY ThreadsAssumption DEF RwLockOK, Reading, TypeOK
<1> QED
  BY <1>1, <1>2, <1>4, <1>5, <1>6

LEMMA LockForWritingInv ==
  ASSUME IInv, NEW t \in Threads, LockForWriting(t)
  PROVE  IInv'
<1> USE DEF LockForWriting, Goto, Decide, lockVars, localVars, IInv
<1>1. TypeOK'
  BY SeatsAssumption DEF TypeOK, Steps
<1>2. ThreadOK(t)'
  <2>1. IndexOK(t)'
    BY DEF ThreadOK, IndexOK, TypeOK, Top, Early, Reading
  <2>2. DataOK(t)'
    BY DEF ThreadOK, IndexOK, DataOK, TypeOK, Top, Reading, Early
  <2>3. OutcomeOK(t)'
    BY DEF ThreadOK, OutcomeOK, TypeOK
  <2>4. ViewOK(t)'
    BY DEF ThreadOK, ViewOK, OutcomeOK, TypeOK
  <2> QED
    BY <2>1, <2>2, <2>3, <2>4 DEF ThreadOK
<1>3. \A u \in Threads \ {t} : Untouched(u)
  BY DEF TypeOK, Untouched
<1>4. ThreadOK(t)' /\ \A u \in Threads \ {t} : ThreadOK(u)'
  BY <1>2, <1>3, OtherThread DEF Untouched
<1>5. LocksMatch'
  <2>1. Held(t)' = Held(t)
    BY DEF ThreadOK, IndexOK, TypeOK, Held, Top, Early
  <2> QED
    BY <1>3, <2>1, HeldUntouched, LocksKept
<1>6. RwLockOK'
  BY ThreadsAssumption DEF RwLockOK, Reading, TypeOK
<1> QED
  BY <1>1, <1>2, <1>4, <1>5, <1>6

LEMMA ReadSeatInv ==
  ASSUME IInv, NEW t \in Threads, ReadSeat(t)
  PROVE  IInv'
<1> USE DEF ReadSeat, Goto, Decide, lockVars, localVars, IInv
<1>1. TypeOK'
  <2>1. PICK s \in Seats : view' = [view EXCEPT ![t][s] = data[s]]
    BY DEF Unread
  <2>2. [view[t] EXCEPT ![s] = data[s]] \in [Seats -> Nat \cup {NotRead}]
    BY DEF TypeOK
  <2>3. view' \in [Threads -> [Seats -> Nat \cup {NotRead}]]
    BY <2>1, <2>2 DEF TypeOK
  <2> QED
    BY <2>3 DEF TypeOK, Steps
<1>2. ThreadOK(t)'
  <2>1. IndexOK(t)'
    BY DEF ThreadOK, IndexOK, TypeOK, Top, Early, Reading
  <2>2. DataOK(t)'
    BY DEF ThreadOK, IndexOK, DataOK, TypeOK, Top, Reading, Early
  <2>3. OutcomeOK(t)'
    BY DEF ThreadOK, OutcomeOK, TypeOK
  <2>4. ViewOK(t)'
    BY DEF ThreadOK, ViewOK, OutcomeOK, TypeOK
  <2> QED
    BY <2>1, <2>2, <2>3, <2>4 DEF ThreadOK
<1>3. \A u \in Threads \ {t} : Untouched(u)
  BY DEF TypeOK, Untouched
<1>4. ThreadOK(t)' /\ \A u \in Threads \ {t} : ThreadOK(u)'
  BY <1>2, <1>3, OtherThread DEF Untouched
<1>5. LocksMatch'
  <2>1. Held(t)' = Held(t)
    BY DEF ThreadOK, IndexOK, TypeOK, Held, Top, Early
  <2> QED
    BY <1>3, <2>1, HeldUntouched, LocksKept
<1>6. RwLockOK'
  BY ThreadsAssumption DEF RwLockOK, Reading, TypeOK
<1> QED
  BY <1>1, <1>2, <1>4, <1>5, <1>6

LEMMA UnlockForWritingInv ==
  ASSUME IInv, NEW t \in Threads, UnlockForWriting(t)
  PROVE  IInv'
<1> USE DEF UnlockForWriting, Goto, Decide, lockVars, localVars, IInv
<1>1. TypeOK'
  BY SeatsAssumption DEF TypeOK, Steps
<1>2. ThreadOK(t)'
  <2>1. IndexOK(t)'
    BY DEF ThreadOK, IndexOK, TypeOK, Top, Early, Reading
  <2>2. DataOK(t)'
    BY DEF ThreadOK, IndexOK, DataOK, TypeOK, Top, Reading, Early
  <2>3. OutcomeOK(t)'
    BY DEF ThreadOK, OutcomeOK, TypeOK
  <2>4. ViewOK(t)'
    BY DEF ThreadOK, ViewOK, OutcomeOK, TypeOK, Unread
  <2> QED
    BY <2>1, <2>2, <2>3, <2>4 DEF ThreadOK
<1>3. \A u \in Threads \ {t} : Untouched(u)
  BY DEF TypeOK, Untouched
<1>4. ThreadOK(t)' /\ \A u \in Threads \ {t} : ThreadOK(u)'
  BY <1>2, <1>3, OtherThread DEF Untouched
<1>5. LocksMatch'
  <2>1. Held(t)' = Held(t)
    BY DEF ThreadOK, IndexOK, TypeOK, Held, Top, Early
  <2> QED
    BY <1>3, <2>1, HeldUntouched, LocksKept
<1>6. RwLockOK'
  BY ThreadsAssumption DEF RwLockOK, Reading, TypeOK
<1> QED
  BY <1>1, <1>2, <1>4, <1>5, <1>6

LEMMA PrintViewInv ==
  ASSUME IInv, NEW t \in Threads, PrintView(t)
  PROVE  IInv'
<1> USE DEF PrintView, Goto, Decide, lockVars, localVars, IInv
<1>1. TypeOK'
  <2>1. view[t] \in [Seats -> Nat]
    BY DEF TypeOK, ThreadOK, ViewOK, OutcomeOK
  <2>2. output' \in Seq([Seats -> Nat])
    BY <2>1 DEF TypeOK
  <2> QED
    BY <2>2 DEF TypeOK, Steps
<1>2. ThreadOK(t)'
  <2>1. IndexOK(t)'
    BY DEF ThreadOK, IndexOK, TypeOK, Top, Early, Reading
  <2>2. DataOK(t)'
    BY DEF ThreadOK, IndexOK, DataOK, TypeOK, Top, Reading, Early
  <2>3. OutcomeOK(t)'
    BY DEF ThreadOK, OutcomeOK, TypeOK
  <2>4. ViewOK(t)'
    BY DEF ThreadOK, ViewOK, OutcomeOK, TypeOK
  <2> QED
    BY <2>1, <2>2, <2>3, <2>4 DEF ThreadOK
<1>3. \A u \in Threads \ {t} : Untouched(u)
  BY DEF TypeOK, Untouched
<1>4. ThreadOK(t)' /\ \A u \in Threads \ {t} : ThreadOK(u)'
  BY <1>2, <1>3, OtherThread DEF Untouched
<1>5. LocksMatch'
  <2>1. Held(t)' = Held(t)
    BY DEF ThreadOK, IndexOK, TypeOK, Held, Top, Early
  <2> QED
    BY <1>3, <2>1, HeldUntouched, LocksKept
<1>6. RwLockOK'
  BY ThreadsAssumption DEF RwLockOK, Reading, TypeOK
<1> QED
  BY <1>1, <1>2, <1>4, <1>5, <1>6

LEMMA ReturnInv ==
  ASSUME IInv, NEW t \in Threads, Return(t)
  PROVE  IInv'
<1> USE DEF Return, Goto, Decide, lockVars, localVars, IInv
<1>1. TypeOK'
  BY SeatsAssumption DEF TypeOK, Steps
<1>2. ThreadOK(t)'
  <2>1. IndexOK(t)'
    BY DEF ThreadOK, IndexOK, TypeOK, Top, Early, Reading
  <2>2. DataOK(t)'
    BY DEF ThreadOK, IndexOK, DataOK, TypeOK, Top, Reading, Early
  <2>3. OutcomeOK(t)'
    BY DEF ThreadOK, OutcomeOK, TypeOK
  <2>4. ViewOK(t)'
    BY DEF ThreadOK, ViewOK, OutcomeOK, TypeOK
  <2> QED
    BY <2>1, <2>2, <2>3, <2>4 DEF ThreadOK
<1>3. \A u \in Threads \ {t} : Untouched(u)
  BY DEF TypeOK, Untouched
<1>4. ThreadOK(t)' /\ \A u \in Threads \ {t} : ThreadOK(u)'
  BY <1>2, <1>3, OtherThread DEF Untouched
<1>5. LocksMatch'
  <2>1. Held(t)' = Held(t)
    BY DEF ThreadOK, IndexOK, TypeOK, Held, Top, Early
  <2> QED
    BY <1>3, <2>1, HeldUntouched, LocksKept
<1>6. RwLockOK'
  BY ThreadsAssumption DEF RwLockOK, Reading, TypeOK
<1> QED
  BY <1>1, <1>2, <1>4, <1>5, <1>6

-----------------------------------------------------------------------------

LEMMA StutterInv ==
  ASSUME IInv, UNCHANGED vars
  PROVE  IInv'
<1> USE DEF vars, lockVars, localVars
<1>1. TypeOK'
  BY DEF IInv, TypeOK
<1>2. \A t \in Threads : Top(t)' = Top(t) /\ Held(t)' = Held(t)
  BY DEF Top, Held
<1>3. LocksMatch'
  BY <1>2 DEF IInv, LocksMatch
<1>4. RwLockOK'
  BY DEF IInv, RwLockOK
<1>5. \A t \in Threads : ThreadOK(t)'
  BY OtherThread DEF IInv
<1> QED
  BY <1>1, <1>3, <1>4, <1>5 DEF IInv

LEMMA StepInv ==
  ASSUME IInv, NEW t \in Threads, Step(t)
  PROVE  IInv'
<1>1. CASE Reserve(t)
  BY <1>1, CallReserveInv, SortSeatsInv, LockForReadingInv, LoadCounterInv,
     StoreCounterInv, InvalidSeatInv, LockSeatInv, SeatTakenInv, SeatFreeInv,
     WriteSeatInv, UndoSeatInv, UnlockUndoneInv, UnlockSeatInv, UnlockForReadingInv
     DEF Reserve
<1>2. CASE Show(t)
  BY <1>2, CallShowInv, LockForWritingInv, ReadSeatInv, UnlockForWritingInv, PrintViewInv
     DEF Show
<1>3. CASE Return(t)
  BY <1>3, ReturnInv
<1> QED
  BY <1>1, <1>2, <1>3 DEF Step

\* Every reachable state satisfies the inductive invariant, whatever the number
\* of threads, seats, requests and calls.
THEOREM Invariance == Spec => []IInv
<1>1. Init => IInv
  BY InitIInv
<1>2. IInv /\ [Next]_vars => IInv'
  <2> SUFFICES ASSUME IInv, [Next]_vars PROVE IInv'
    OBVIOUS
  <2>1. CASE \E t \in Threads : Step(t)
    BY <2>1, StepInv
  <2>2. CASE Finished \/ UNCHANGED vars
    BY <2>2, StutterInv DEF Finished
  <2> QED
    BY <2>1, <2>2 DEF Next
<1> QED
  BY <1>1, <1>2, PTL DEF Spec

\* The variables keep their types.
THEOREM Typing == Spec => []TypeOK
<1>1. IInv => TypeOK
  BY DEF IInv
<1> QED
  BY <1>1, Invariance, PTL

\* A seat's mutex is held by exactly the reservation between taking that seat
\* and giving it back.
THEOREM MutexesMatch == Spec => []LocksMatch
<1>1. IInv => LocksMatch
  BY DEF IInv
<1> QED
  BY <1>1, Invariance, PTL

\* A thread that waits for a seat holds only seats before it: a cycle of
\* reservations that wait for one another is impossible.
THEOREM WaitsAscend == Spec => []LockOrder
<1>1. IInv => LockOrder
  <2> SUFFICES ASSUME IInv, NEW t \in Threads, pc[t] = "lock", NEW s \in Held(t)
               PROVE  s < coords[t][i[t]]
    BY DEF LockOrder
  <2>1. PICK k \in j[t]..(i[t] - 1) : s = coords[t][k]
    BY DEF Held, Top
  <2>2. k \in DOMAIN coords[t] /\ i[t] \in DOMAIN coords[t] /\ k < i[t]
    BY DEF IInv, TypeOK, ThreadOK, IndexOK
  <2>3. Ascending(coords[t])
    BY DEF IInv, ThreadOK, IndexOK, Reading
  <2> QED
    BY <2>1, <2>2, <2>3 DEF Ascending
<1> QED
  BY <1>1, Invariance, PTL

\* While ems_show reads, no reservation is half done.
LEMMA NoHalves == IInv => ShowSeesNoHalves
<1> SUFFICES ASSUME IInv, writer # NoThread PROVE data = booked
  BY DEF ShowSeesNoHalves
<1>1. \A t \in Threads : Marked(t) = {}
  BY DEF IInv, RwLockOK, Marked, Tentative, Reading
<1> QED
  BY <1>1 DEF booked, IInv, TypeOK

THEOREM ShowsWhole == Spec => []ShowSeesNoHalves
BY NoHalves, Invariance, PTL

-----------------------------------------------------------------------------
\* The operations implement Booking.

\* A thread whose variables a step leaves alone looks the same to Booking.
LEMMA AbstractUntouched ==
  ASSUME NEW u \in Threads, Untouched(u)
  PROVE  /\ phase'[u] = phase[u]
         /\ want'[u] = want[u]
         /\ repeats'[u] = repeats[u]
         /\ picture'[u] = picture[u]
         /\ Marked(u)' = Marked(u)
BY DEF Untouched, phase, want, repeats, picture, Marked, Tentative

\* Marks are on seats whose mutex is held.
LEMMA MarkedHeld ==
  ASSUME IInv, NEW u \in Threads
  PROVE  Marked(u) \subseteq Held(u)
BY DEF Marked, Held, Top, IInv, TypeOK

\* The bookings stay if neither data nor marks change.
LEMMA BookedKept ==
  ASSUME data' = data, \A u \in Threads : Marked(u)' = Marked(u)
  PROVE  booked' = booked
BY DEF booked

\* How the parts of Booking's state change when only thread t moves.
LEMMA OneThreadMoves ==
  ASSUME NEW t \in Threads, \A u \in Threads \ {t} : Untouched(u)
  PROVE  /\ phase' = [phase EXCEPT ![t] = phase'[t]]
         /\ want' = [want EXCEPT ![t] = want'[t]]
         /\ repeats' = [repeats EXCEPT ![t] = repeats'[t]]
         /\ picture' = [picture EXCEPT ![t] = picture'[t]]
<1>1. \A u \in Threads \ {t} : /\ phase'[u] = phase[u]
                               /\ want'[u] = want[u]
                               /\ repeats'[u] = repeats[u]
                               /\ picture'[u] = picture[u]
  BY AbstractUntouched
<1>2. phase' = [phase EXCEPT ![t] = phase'[t]]
  <2>1. /\ phase = [u \in Threads |-> phase[u]]
        /\ phase' = [u \in Threads |-> phase'[u]]
    BY DEF phase
  <2> QED
    BY <1>1, <2>1
<1>3. want' = [want EXCEPT ![t] = want'[t]]
  <2>1. /\ want = [u \in Threads |-> want[u]]
        /\ want' = [u \in Threads |-> want'[u]]
    BY DEF want
  <2> QED
    BY <1>1, <2>1
<1>4. repeats' = [repeats EXCEPT ![t] = repeats'[t]]
  <2>1. /\ repeats = [u \in Threads |-> repeats[u]]
        /\ repeats' = [u \in Threads |-> repeats'[u]]
    BY DEF repeats
  <2> QED
    BY <1>1, <2>1
<1>5. picture' = [picture EXCEPT ![t] = picture'[t]]
  <2>1. /\ picture = [u \in Threads |-> picture[u]]
        /\ picture' = [u \in Threads |-> picture'[u]]
    BY DEF picture
  <2> QED
    BY <1>1, <2>1
<1> QED
  BY <1>2, <1>3, <1>4, <1>5

\* Booking sees nothing of a step of t that changes none of these.
LEMMA AbstractStutter ==
  ASSUME NEW t \in Threads, \A u \in Threads \ {t} : Untouched(u),
         phase'[t] = phase[t], want'[t] = want[t], repeats'[t] = repeats[t],
         picture'[t] = picture[t], booked' = booked
  PROVE  UNCHANGED Abstract!bookingVars
<1>1. phase' = phase
  <2>1. phase = [phase EXCEPT ![t] = phase[t]]
    BY DEF phase
  <2> QED
    BY <2>1, OneThreadMoves
<1>2. want' = want
  <2>1. want = [want EXCEPT ![t] = want[t]]
    BY DEF want
  <2> QED
    BY <2>1, OneThreadMoves
<1>3. repeats' = repeats
  <2>1. repeats = [repeats EXCEPT ![t] = repeats[t]]
    BY DEF repeats
  <2> QED
    BY <2>1, OneThreadMoves
<1>4. picture' = picture
  <2>1. picture = [picture EXCEPT ![t] = picture[t]]
    BY DEF picture
  <2> QED
    BY <2>1, OneThreadMoves
<1> QED
  BY <1>1, <1>2, <1>3, <1>4 DEF Abstract!bookingVars

-----------------------------------------------------------------------------

LEMMA LockForReadingStutters ==
  ASSUME IInv, NEW t \in Threads, LockForReading(t)
  PROVE  UNCHANGED Abstract!bookingVars
<1> USE DEF LockForReading, Goto, Decide, lockVars, localVars
<1>1. \A u \in Threads \ {t} : Untouched(u)
  BY DEF Untouched, IInv, TypeOK
<1>2. phase'[t] = phase[t]
  BY DEF phase, IInv, TypeOK, ThreadOK, OutcomeOK
<1>3. want'[t] = want[t] /\ repeats'[t] = repeats[t]
  BY DEF want, repeats, IInv, TypeOK
<1>4. picture'[t] = picture[t]
  BY DEF picture, IInv, TypeOK, ThreadOK, OutcomeOK
<1>5. booked' = booked
  <2>1. Marked(t)' = Marked(t)
    BY DEF Marked, Tentative, IInv, TypeOK, ThreadOK, IndexOK, Early
  <2> QED
    BY <1>1, <2>1, AbstractUntouched, BookedKept
<1> QED
  BY <1>1, <1>2, <1>3, <1>4, <1>5, AbstractStutter

LEMMA LoadCounterStutters ==
  ASSUME IInv, NEW t \in Threads, LoadCounter(t)
  PROVE  UNCHANGED Abstract!bookingVars
<1> USE DEF LoadCounter, Goto, Decide, lockVars, localVars
<1>1. \A u \in Threads \ {t} : Untouched(u)
  BY DEF Untouched, IInv, TypeOK
<1>2. phase'[t] = phase[t]
  BY DEF phase, IInv, TypeOK, ThreadOK, OutcomeOK
<1>3. want'[t] = want[t] /\ repeats'[t] = repeats[t]
  BY DEF want, repeats, IInv, TypeOK
<1>4. picture'[t] = picture[t]
  BY DEF picture, IInv, TypeOK, ThreadOK, OutcomeOK
<1>5. booked' = booked
  <2>1. Marked(t)' = Marked(t)
    BY DEF Marked, Tentative, IInv, TypeOK, ThreadOK, IndexOK, Early
  <2> QED
    BY <1>1, <2>1, AbstractUntouched, BookedKept
<1> QED
  BY <1>1, <1>2, <1>3, <1>4, <1>5, AbstractStutter

LEMMA StoreCounterStutters ==
  ASSUME IInv, NEW t \in Threads, StoreCounter(t)
  PROVE  UNCHANGED Abstract!bookingVars
<1> USE DEF StoreCounter, Goto, Decide, lockVars, localVars
<1>1. \A u \in Threads \ {t} : Untouched(u)
  BY DEF Untouched, IInv, TypeOK
<1>2. phase'[t] = phase[t]
  BY DEF phase, IInv, TypeOK, ThreadOK, OutcomeOK
<1>3. want'[t] = want[t] /\ repeats'[t] = repeats[t]
  BY DEF want, repeats, IInv, TypeOK
<1>4. picture'[t] = picture[t]
  BY DEF picture, IInv, TypeOK, ThreadOK, OutcomeOK
<1>5. booked' = booked
  <2>1. Marked(t)' = Marked(t)
    BY DEF Marked, Tentative, IInv, TypeOK, ThreadOK, IndexOK, Early
  <2> QED
    BY <1>1, <2>1, AbstractUntouched, BookedKept
<1> QED
  BY <1>1, <1>2, <1>3, <1>4, <1>5, AbstractStutter

LEMMA LockSeatStutters ==
  ASSUME IInv, NEW t \in Threads, LockSeat(t)
  PROVE  UNCHANGED Abstract!bookingVars
<1> USE DEF LockSeat, Goto, Decide, lockVars, localVars
<1>1. \A u \in Threads \ {t} : Untouched(u)
  BY DEF Untouched, IInv, TypeOK
<1>2. phase'[t] = phase[t]
  BY DEF phase, IInv, TypeOK, ThreadOK, OutcomeOK
<1>3. want'[t] = want[t] /\ repeats'[t] = repeats[t]
  BY DEF want, repeats, IInv, TypeOK
<1>4. picture'[t] = picture[t]
  BY DEF picture, IInv, TypeOK, ThreadOK, OutcomeOK
<1>5. booked' = booked
  <2>1. Marked(t)' = Marked(t)
    BY DEF Marked, Tentative, IInv, TypeOK, ThreadOK, IndexOK, Early
  <2> QED
    BY <1>1, <2>1, AbstractUntouched, BookedKept
<1> QED
  BY <1>1, <1>2, <1>3, <1>4, <1>5, AbstractStutter

LEMMA SeatFreeStutters ==
  ASSUME IInv, NEW t \in Threads, SeatFree(t)
  PROVE  UNCHANGED Abstract!bookingVars
<1> USE DEF SeatFree, Goto, Decide, lockVars, localVars
<1>1. \A u \in Threads \ {t} : Untouched(u)
  BY DEF Untouched, IInv, TypeOK
<1>2. phase'[t] = phase[t]
  BY DEF phase, IInv, TypeOK, ThreadOK, OutcomeOK
<1>3. want'[t] = want[t] /\ repeats'[t] = repeats[t]
  BY DEF want, repeats, IInv, TypeOK
<1>4. picture'[t] = picture[t]
  BY DEF picture, IInv, TypeOK, ThreadOK, OutcomeOK
<1>5. booked' = booked
  <2>1. Marked(t)' = Marked(t)
    BY DEF Marked, Tentative, IInv, TypeOK, ThreadOK, IndexOK, Early
  <2> QED
    BY <1>1, <2>1, AbstractUntouched, BookedKept
<1> QED
  BY <1>1, <1>2, <1>3, <1>4, <1>5, AbstractStutter

LEMMA UnlockSeatStutters ==
  ASSUME IInv, NEW t \in Threads, UnlockSeat(t)
  PROVE  UNCHANGED Abstract!bookingVars
<1> USE DEF UnlockSeat, Goto, Decide, lockVars, localVars
<1>1. \A u \in Threads \ {t} : Untouched(u)
  BY DEF Untouched, IInv, TypeOK
<1>2. phase'[t] = phase[t]
  BY DEF phase, IInv, TypeOK, ThreadOK, OutcomeOK
<1>3. want'[t] = want[t] /\ repeats'[t] = repeats[t]
  BY DEF want, repeats, IInv, TypeOK
<1>4. picture'[t] = picture[t]
  BY DEF picture, IInv, TypeOK, ThreadOK, OutcomeOK
<1>5. booked' = booked
  <2>1. Marked(t)' = Marked(t)
    BY DEF Marked, Tentative, IInv, TypeOK, ThreadOK, IndexOK, Early
  <2> QED
    BY <1>1, <2>1, AbstractUntouched, BookedKept
<1> QED
  BY <1>1, <1>2, <1>3, <1>4, <1>5, AbstractStutter

LEMMA UnlockForReadingStutters ==
  ASSUME IInv, NEW t \in Threads, UnlockForReading(t)
  PROVE  UNCHANGED Abstract!bookingVars
<1> USE DEF UnlockForReading, Goto, Decide, lockVars, localVars
<1>1. \A u \in Threads \ {t} : Untouched(u)
  BY DEF Untouched, IInv, TypeOK
<1>2. phase'[t] = phase[t]
  BY DEF phase, IInv, TypeOK, ThreadOK, OutcomeOK
<1>3. want'[t] = want[t] /\ repeats'[t] = repeats[t]
  BY DEF want, repeats, IInv, TypeOK
<1>4. picture'[t] = picture[t]
  BY DEF picture, IInv, TypeOK, ThreadOK, OutcomeOK
<1>5. booked' = booked
  <2>1. Marked(t)' = Marked(t)
    BY DEF Marked, Tentative, IInv, TypeOK, ThreadOK, IndexOK, Early
  <2> QED
    BY <1>1, <2>1, AbstractUntouched, BookedKept
<1> QED
  BY <1>1, <1>2, <1>3, <1>4, <1>5, AbstractStutter

LEMMA LockForWritingStutters ==
  ASSUME IInv, NEW t \in Threads, LockForWriting(t)
  PROVE  UNCHANGED Abstract!bookingVars
<1> USE DEF LockForWriting, Goto, Decide, lockVars, localVars
<1>1. \A u \in Threads \ {t} : Untouched(u)
  BY DEF Untouched, IInv, TypeOK
<1>2. phase'[t] = phase[t]
  BY DEF phase, IInv, TypeOK, ThreadOK, OutcomeOK
<1>3. want'[t] = want[t] /\ repeats'[t] = repeats[t]
  BY DEF want, repeats, IInv, TypeOK
<1>4. picture'[t] = picture[t]
  BY DEF picture, IInv, TypeOK, ThreadOK, OutcomeOK
<1>5. booked' = booked
  <2>1. Marked(t)' = Marked(t)
    BY DEF Marked, Tentative, IInv, TypeOK, ThreadOK, IndexOK, Early
  <2> QED
    BY <1>1, <2>1, AbstractUntouched, BookedKept
<1> QED
  BY <1>1, <1>2, <1>3, <1>4, <1>5, AbstractStutter

LEMMA ReadSeatStutters ==
  ASSUME IInv, NEW t \in Threads, ReadSeat(t)
  PROVE  UNCHANGED Abstract!bookingVars
<1> USE DEF ReadSeat, Goto, Decide, lockVars, localVars
<1>1. \A u \in Threads \ {t} : Untouched(u)
  BY DEF Untouched, IInv, TypeOK
<1>2. phase'[t] = phase[t]
  BY DEF phase, IInv, TypeOK, ThreadOK, OutcomeOK
<1>3. want'[t] = want[t] /\ repeats'[t] = repeats[t]
  BY DEF want, repeats, IInv, TypeOK
<1>4. picture'[t] = picture[t]
  BY DEF picture, IInv, TypeOK, ThreadOK, OutcomeOK
<1>5. booked' = booked
  <2>1. Marked(t)' = Marked(t)
    BY DEF Marked, Tentative, IInv, TypeOK, ThreadOK, IndexOK, Early
  <2> QED
    BY <1>1, <2>1, AbstractUntouched, BookedKept
<1> QED
  BY <1>1, <1>2, <1>3, <1>4, <1>5, AbstractStutter

LEMMA PrintViewStutters ==
  ASSUME IInv, NEW t \in Threads, PrintView(t)
  PROVE  UNCHANGED Abstract!bookingVars
<1> USE DEF PrintView, Goto, Decide, lockVars, localVars
<1>1. \A u \in Threads \ {t} : Untouched(u)
  BY DEF Untouched, IInv, TypeOK
<1>2. phase'[t] = phase[t]
  BY DEF phase, IInv, TypeOK, ThreadOK, OutcomeOK
<1>3. want'[t] = want[t] /\ repeats'[t] = repeats[t]
  BY DEF want, repeats, IInv, TypeOK
<1>4. picture'[t] = picture[t]
  BY DEF picture, IInv, TypeOK, ThreadOK, OutcomeOK
<1>5. booked' = booked
  <2>1. Marked(t)' = Marked(t)
    BY DEF Marked, Tentative, IInv, TypeOK, ThreadOK, IndexOK, Early
  <2> QED
    BY <1>1, <2>1, AbstractUntouched, BookedKept
<1> QED
  BY <1>1, <1>2, <1>3, <1>4, <1>5, AbstractStutter

LEMMA UnlockUndoneStutters ==
  ASSUME IInv, NEW t \in Threads, UnlockUndone(t)
  PROVE  UNCHANGED Abstract!bookingVars
<1> USE DEF UnlockUndone, Goto, Decide, lockVars, localVars
<1>1. \A u \in Threads \ {t} : Untouched(u)
  BY DEF Untouched, IInv, TypeOK
<1>2. phase'[t] = phase[t]
  BY DEF phase, IInv, TypeOK, ThreadOK, OutcomeOK
<1>3. want'[t] = want[t] /\ repeats'[t] = repeats[t]
  BY DEF want, repeats, IInv, TypeOK
<1>4. picture'[t] = picture[t]
  BY DEF picture, IInv, TypeOK, ThreadOK, OutcomeOK
<1>5. booked' = booked
  <2>1. data[coords[t][j[t]]] = 0
    <3>1. j[t] \in j[t]..(i[t] - 1)
      BY DEF IInv, ThreadOK, IndexOK, TypeOK
    <3> QED
      BY <3>1 DEF IInv, ThreadOK, DataOK
  <2>2. Marked(t) = Marked(t)' \cup {coords[t][j[t]]}
    <3>1. j[t]..(i[t] - 1) = ((j[t] + 1)..(i[t] - 1)) \cup {j[t]}
      BY DEF IInv, ThreadOK, IndexOK, TypeOK
    <3>2. Marked(t)' = {coords[t][k] : k \in (j[t] + 1)..(i[t] - 1)}
      BY DEF Marked, Tentative, IInv, TypeOK
    <3>3. Marked(t) = {coords[t][k] : k \in j[t]..(i[t] - 1)}
      BY DEF Marked, Tentative
    <3> QED
      BY <3>1, <3>2, <3>3
  <2>3. \A u \in Threads \ {t} : Marked(u)' = Marked(u)
    BY <1>1, AbstractUntouched
  <2>4. \A s \in Seats : data[s] # 0 =>
          ((\E u \in Threads : s \in Marked(u)') <=> \E u \in Threads : s \in Marked(u))
    BY <2>1, <2>2, <2>3
  <2> QED
    BY <2>4 DEF booked
<1> QED
  BY <1>1, <1>2, <1>3, <1>4, <1>5, AbstractStutter

LEMMA UndoSeatStutters ==
  ASSUME IInv, NEW t \in Threads, UndoSeat(t)
  PROVE  UNCHANGED Abstract!bookingVars
<1> USE DEF UndoSeat, Goto, Decide, lockVars, localVars
<1>1. \A u \in Threads \ {t} : Untouched(u)
  BY DEF Untouched, IInv, TypeOK
<1>2. phase'[t] = phase[t]
  BY DEF phase, IInv, TypeOK, ThreadOK, OutcomeOK
<1>3. want'[t] = want[t] /\ repeats'[t] = repeats[t]
  BY DEF want, repeats, IInv, TypeOK
<1>4. picture'[t] = picture[t]
  BY DEF picture, IInv, TypeOK, ThreadOK, OutcomeOK
<1>5. booked' = booked
  <2>1. coords[t][j[t]] \in Marked(t)
    <3>1. j[t] \in j[t]..(i[t] - 1)
      BY DEF IInv, TypeOK
    <3> QED
      BY <3>1 DEF Marked, Tentative
  <2>2. \A u \in Threads : Marked(u)' = Marked(u)
    <3>1. Marked(t)' = Marked(t)
      BY DEF Marked, Tentative, IInv, TypeOK
    <3> QED
      BY <1>1, <3>1, AbstractUntouched
  <2>3. \A s \in Seats : s # coords[t][j[t]] => data'[s] = data[s]
    BY DEF IInv, TypeOK
  <2> QED
    BY <2>1, <2>2, <2>3 DEF booked
<1> QED
  BY <1>1, <1>2, <1>3, <1>4, <1>5, AbstractStutter

\* The steps that Booking sees.

LEMMA CallReserveAsks ==
  ASSUME IInv, NEW t \in Threads, CallReserve(t)
  PROVE  Abstract!AskReserve(t)
<1> USE DEF CallReserve, Goto, Decide, lockVars, localVars
<1>1. \A u \in Threads \ {t} : Untouched(u)
  BY DEF Untouched, IInv, TypeOK
<1>2. phase[t] = "idle" /\ phase'[t] = "reserving"
  BY DEF phase, IInv, TypeOK, ThreadOK, OutcomeOK
<1>3. phase' = [phase EXCEPT ![t] = "reserving"]
  BY <1>1, <1>2, OneThreadMoves
<1>4. PICK q \in Requests : coords' = [coords EXCEPT ![t] = q]
  OBVIOUS
<1>5. want' = [want EXCEPT ![t] = Range(q)] /\ Range(q) \in SUBSET Coords
  <2>1. want'[t] = Range(q)
    BY <1>4 DEF want, IInv, TypeOK
  <2>2. Range(q) \subseteq Coords
    BY RequestsAssumption DEF Range
  <2> QED
    BY <1>1, <2>1, <2>2, OneThreadMoves
<1>6. repeats' = [repeats EXCEPT ![t] = ~IsInjective(q)]
  <2>1. repeats'[t] = ~IsInjective(q)
    BY <1>4 DEF repeats, IInv, TypeOK
  <2> QED
    BY <1>1, <2>1, OneThreadMoves
<1>7. picture' = picture
  <2>1. picture'[t] = picture[t]
    BY DEF picture, IInv, TypeOK, ThreadOK, OutcomeOK
  <2>2. picture = [picture EXCEPT ![t] = picture[t]]
    BY DEF picture
  <2> QED
    BY <1>1, <2>1, <2>2, OneThreadMoves
<1>8. booked' = booked
  <2>1. Marked(t)' = Marked(t)
    BY DEF Marked, Tentative, IInv, TypeOK, ThreadOK, IndexOK, Early
  <2> QED
    BY <1>1, <2>1, AbstractUntouched, BookedKept
<1> QED
  BY <1>2, <1>3, <1>5, <1>6, <1>7, <1>8 DEF Abstract!AskReserve

LEMMA DuplicateRefused ==
  ASSUME IInv, NEW t \in Threads, SortSeats(t),
         ~IsInjective(coords[t])
  PROVE  Abstract!Refuse(t)
<1> USE DEF SortSeats, Goto, Decide, lockVars, localVars
<1>1. \A u \in Threads \ {t} : Untouched(u)
  BY DEF Untouched, IInv, TypeOK
<1>2. phase[t] = "reserving" /\ phase'[t] = "refused"
  BY DEF phase, IInv, TypeOK, ThreadOK, OutcomeOK
<1>3. phase' = [phase EXCEPT ![t] = "refused"]
  BY <1>1, <1>2, OneThreadMoves
<1>4. want' = want
  <2>1. want'[t] = want[t]
    BY DEF want, IInv, TypeOK, ThreadOK, OutcomeOK
  <2>2. want = [want EXCEPT ![t] = want[t]]
    BY DEF want
  <2> QED
    BY <1>1, <2>1, <2>2, OneThreadMoves
<1>5. repeats' = repeats
  <2>1. repeats'[t] = repeats[t]
    BY DEF repeats, IInv, TypeOK, ThreadOK, OutcomeOK
  <2>2. repeats = [repeats EXCEPT ![t] = repeats[t]]
    BY DEF repeats
  <2> QED
    BY <1>1, <2>1, <2>2, OneThreadMoves
<1>6. picture' = picture
  <2>1. picture'[t] = picture[t]
    BY DEF picture, IInv, TypeOK, ThreadOK, OutcomeOK
  <2>2. picture = [picture EXCEPT ![t] = picture[t]]
    BY DEF picture
  <2> QED
    BY <1>1, <2>1, <2>2, OneThreadMoves
<1>7. booked' = booked
  <2>1. Marked(t)' = Marked(t)
    BY DEF Marked, Tentative, IInv, TypeOK, ThreadOK, IndexOK, Early
  <2> QED
    BY <1>1, <2>1, AbstractUntouched, BookedKept
<1>8. repeats[t]
  BY DEF repeats
<1> QED
  BY <1>2, <1>3, <1>4, <1>5, <1>6, <1>7, <1>8 DEF Abstract!Refuse

LEMMA SortStutters ==
  ASSUME IInv, NEW t \in Threads, SortSeats(t), IsInjective(coords[t])
  PROVE  UNCHANGED Abstract!bookingVars
<1> USE DEF SortSeats, Goto, Decide, lockVars, localVars
<1>1. \A u \in Threads \ {t} : Untouched(u)
  BY DEF Untouched, IInv, TypeOK
<1>2. phase'[t] = phase[t]
  BY DEF phase, IInv, TypeOK, ThreadOK, OutcomeOK
<1>3. PICK p \in Sorted(coords[t]) : coords' = [coords EXCEPT ![t] = p]
  OBVIOUS
<1>4. p \in Seq(Coords) /\ Ascending(p) /\ Range(p) = Range(coords[t])
  BY SortedSeq DEF IInv, TypeOK
<1>5. IsInjective(p)
  BY <1>4, AscendingInjective DEF IsInjective
<1>6. want'[t] = want[t] /\ repeats'[t] = repeats[t]
  BY <1>3, <1>4, <1>5 DEF want, repeats, IInv, TypeOK
<1>7. picture'[t] = picture[t]
  BY DEF picture, IInv, TypeOK, ThreadOK, OutcomeOK
<1>8. booked' = booked
  <2>1. Marked(t)' = Marked(t)
    BY DEF Marked, Tentative, IInv, TypeOK, ThreadOK, IndexOK, Early
  <2> QED
    BY <1>1, <2>1, AbstractUntouched, BookedKept
<1> QED
  BY <1>1, <1>2, <1>6, <1>7, <1>8, AbstractStutter

LEMMA InvalidRefused ==
  ASSUME IInv, NEW t \in Threads, InvalidSeat(t)
  PROVE  Abstract!Refuse(t)
<1> USE DEF InvalidSeat, Goto, Decide, lockVars, localVars
<1>1. \A u \in Threads \ {t} : Untouched(u)
  BY DEF Untouched, IInv, TypeOK
<1>2. phase[t] = "reserving" /\ phase'[t] = "refused"
  BY DEF phase, IInv, TypeOK, ThreadOK, OutcomeOK
<1>3. phase' = [phase EXCEPT ![t] = "refused"]
  BY <1>1, <1>2, OneThreadMoves
<1>4. want' = want
  <2>1. want'[t] = want[t]
    BY DEF want, IInv, TypeOK, ThreadOK, OutcomeOK
  <2>2. want = [want EXCEPT ![t] = want[t]]
    BY DEF want
  <2> QED
    BY <1>1, <2>1, <2>2, OneThreadMoves
<1>5. repeats' = repeats
  <2>1. repeats'[t] = repeats[t]
    BY DEF repeats, IInv, TypeOK, ThreadOK, OutcomeOK
  <2>2. repeats = [repeats EXCEPT ![t] = repeats[t]]
    BY DEF repeats
  <2> QED
    BY <1>1, <2>1, <2>2, OneThreadMoves
<1>6. picture' = picture
  <2>1. picture'[t] = picture[t]
    BY DEF picture, IInv, TypeOK, ThreadOK, OutcomeOK
  <2>2. picture = [picture EXCEPT ![t] = picture[t]]
    BY DEF picture
  <2> QED
    BY <1>1, <2>1, <2>2, OneThreadMoves
<1>7. booked' = booked
  <2>1. Marked(t)' = Marked(t)
    BY DEF Marked, Tentative, IInv, TypeOK, ThreadOK, IndexOK, Early
  <2> QED
    BY <1>1, <2>1, AbstractUntouched, BookedKept
<1>8. ~(want[t] \subseteq Seats)
  <2>1. i[t] \in DOMAIN coords[t]
    BY DEF IInv, ThreadOK, IndexOK, TypeOK
  <2> QED
    BY <2>1 DEF want, Range
<1> QED
  BY <1>2, <1>3, <1>4, <1>5, <1>6, <1>7, <1>8 DEF Abstract!Refuse

\* The seat of index i, whose mutex t holds and which it has not written,
\* carries no mark.
LEMMA NextSeatUnmarked ==
  ASSUME IInv, NEW t \in Threads, pc[t] \in {"check", "write"}
  PROVE  /\ coords[t][i[t]] \in Seats
         /\ i[t] \in DOMAIN coords[t]
         /\ \A u \in Threads : coords[t][i[t]] \notin Marked(u)
<1>1. i[t] \in DOMAIN coords[t] /\ i[t] \in j[t]..Top(t) /\ i[t] \in 1..Top(t)
  BY DEF IInv, ThreadOK, IndexOK, TypeOK, Top
<1>2. coords[t][i[t]] \in Seats /\ coords[t][i[t]] \in Held(t)
  BY <1>1 DEF IInv, ThreadOK, IndexOK, Held
<1>3. coords[t][i[t]] \notin Marked(t)
  <2>1. Ascending(coords[t])
    BY DEF IInv, ThreadOK, IndexOK, Reading
  <2>2. \A k \in j[t]..(i[t] - 1) : k \in DOMAIN coords[t] /\ k # i[t]
    BY <1>1 DEF IInv, ThreadOK, IndexOK, TypeOK
  <2>3. \A k \in j[t]..(i[t] - 1) : coords[t][k] # coords[t][i[t]]
    BY <1>1, <2>1, <2>2, AscendingInjective DEF IInv, TypeOK
  <2> QED
    BY <2>3 DEF Marked
<1>4. \A u \in Threads \ {t} : coords[t][i[t]] \notin Marked(u)
  BY <1>2, MarkedHeld, HeldDisjoint DEF IInv
<1> QED
  BY <1>1, <1>2, <1>3, <1>4

LEMMA TakenRefused ==
  ASSUME IInv, NEW t \in Threads, SeatTaken(t)
  PROVE  Abstract!Refuse(t)
<1> USE DEF SeatTaken, Goto, Decide, lockVars, localVars
<1>1. \A u \in Threads \ {t} : Untouched(u)
  BY DEF Untouched, IInv, TypeOK
<1>2. phase[t] = "reserving" /\ phase'[t] = "refused"
  BY DEF phase, IInv, TypeOK, ThreadOK, OutcomeOK
<1>3. phase' = [phase EXCEPT ![t] = "refused"]
  BY <1>1, <1>2, OneThreadMoves
<1>4. want' = want
  <2>1. want'[t] = want[t]
    BY DEF want, IInv, TypeOK, ThreadOK, OutcomeOK
  <2>2. want = [want EXCEPT ![t] = want[t]]
    BY DEF want
  <2> QED
    BY <1>1, <2>1, <2>2, OneThreadMoves
<1>5. repeats' = repeats
  <2>1. repeats'[t] = repeats[t]
    BY DEF repeats, IInv, TypeOK, ThreadOK, OutcomeOK
  <2>2. repeats = [repeats EXCEPT ![t] = repeats[t]]
    BY DEF repeats
  <2> QED
    BY <1>1, <2>1, <2>2, OneThreadMoves
<1>6. picture' = picture
  <2>1. picture'[t] = picture[t]
    BY DEF picture, IInv, TypeOK, ThreadOK, OutcomeOK
  <2>2. picture = [picture EXCEPT ![t] = picture[t]]
    BY DEF picture
  <2> QED
    BY <1>1, <2>1, <2>2, OneThreadMoves
<1>7. booked' = booked
  <2>1. Marked(t)' = Marked(t)
    BY DEF Marked, Tentative, IInv, TypeOK, ThreadOK, IndexOK, Early
  <2> QED
    BY <1>1, <2>1, AbstractUntouched, BookedKept
<1>8. \E s \in want[t] \cap Seats : booked[s] # 0
  <2>1. coords[t][i[t]] \in want[t]
    BY NextSeatUnmarked DEF want, Range
  <2>2. booked[coords[t][i[t]]] = data[coords[t][i[t]]]
    BY NextSeatUnmarked DEF booked
  <2> QED
    BY <2>1, <2>2, NextSeatUnmarked
<1> QED
  BY <1>2, <1>3, <1>4, <1>5, <1>6, <1>7, <1>8 DEF Abstract!Refuse

LEMMA CallShowAsks ==
  ASSUME IInv, NEW t \in Threads, CallShow(t)
  PROVE  Abstract!AskShow(t)
<1> USE DEF CallShow, Goto, Decide, lockVars, localVars
<1>1. \A u \in Threads \ {t} : Untouched(u)
  BY DEF Untouched, IInv, TypeOK
<1>2. phase[t] = "idle" /\ phase'[t] = "showing"
  BY DEF phase, IInv, TypeOK, ThreadOK, OutcomeOK
<1>3. phase' = [phase EXCEPT ![t] = "showing"]
  BY <1>1, <1>2, OneThreadMoves
<1>4. want' = want
  <2>1. want'[t] = want[t]
    BY DEF want, IInv, TypeOK, ThreadOK, OutcomeOK
  <2>2. want = [want EXCEPT ![t] = want[t]]
    BY DEF want
  <2> QED
    BY <1>1, <2>1, <2>2, OneThreadMoves
<1>5. repeats' = repeats
  <2>1. repeats'[t] = repeats[t]
    BY DEF repeats, IInv, TypeOK, ThreadOK, OutcomeOK
  <2>2. repeats = [repeats EXCEPT ![t] = repeats[t]]
    BY DEF repeats
  <2> QED
    BY <1>1, <2>1, <2>2, OneThreadMoves
<1>6. picture' = picture
  <2>1. picture'[t] = picture[t]
    BY DEF picture, IInv, TypeOK, ThreadOK, OutcomeOK
  <2>2. picture = [picture EXCEPT ![t] = picture[t]]
    BY DEF picture
  <2> QED
    BY <1>1, <2>1, <2>2, OneThreadMoves
<1>7. booked' = booked
  <2>1. Marked(t)' = Marked(t)
    BY DEF Marked, Tentative, IInv, TypeOK, ThreadOK, IndexOK, Early
  <2> QED
    BY <1>1, <2>1, AbstractUntouched, BookedKept
<1> QED
  BY <1>2, <1>3, <1>4, <1>5, <1>6, <1>7 DEF Abstract!AskShow

LEMMA ShowSnapshots ==
  ASSUME IInv, NEW t \in Threads, UnlockForWriting(t)
  PROVE  Abstract!Snapshot(t)
<1> USE DEF UnlockForWriting, Goto, Decide, lockVars, localVars
<1>1. \A u \in Threads \ {t} : Untouched(u)
  BY DEF Untouched, IInv, TypeOK
<1>2. phase[t] = "showing" /\ phase'[t] = "shown"
  BY DEF phase, IInv, TypeOK, ThreadOK, OutcomeOK
<1>3. phase' = [phase EXCEPT ![t] = "shown"]
  BY <1>1, <1>2, OneThreadMoves
<1>4. want' = want
  <2>1. want'[t] = want[t]
    BY DEF want, IInv, TypeOK, ThreadOK, OutcomeOK
  <2>2. want = [want EXCEPT ![t] = want[t]]
    BY DEF want
  <2> QED
    BY <1>1, <2>1, <2>2, OneThreadMoves
<1>5. repeats' = repeats
  <2>1. repeats'[t] = repeats[t]
    BY DEF repeats, IInv, TypeOK, ThreadOK, OutcomeOK
  <2>2. repeats = [repeats EXCEPT ![t] = repeats[t]]
    BY DEF repeats
  <2> QED
    BY <1>1, <2>1, <2>2, OneThreadMoves
<1>6. picture' = [picture EXCEPT ![t] = booked]
  <2>1. view[t] = data
    BY DEF IInv, ThreadOK, ViewOK, TypeOK, Unread
  <2>2. data = booked
    BY NoHalves, ThreadsAssumption DEF IInv, RwLockOK, ShowSeesNoHalves
  <2>3. picture'[t] = view[t]
    BY DEF picture, IInv, TypeOK
  <2> QED
    BY <1>1, <2>1, <2>2, <2>3, OneThreadMoves
<1>7. booked' = booked
  <2>1. Marked(t)' = Marked(t)
    BY DEF Marked, Tentative, IInv, TypeOK, ThreadOK, IndexOK, Early
  <2> QED
    BY <1>1, <2>1, AbstractUntouched, BookedKept
<1> QED
  BY <1>2, <1>3, <1>4, <1>5, <1>6, <1>7 DEF Abstract!Snapshot

LEMMA ReturnReturns ==
  ASSUME IInv, NEW t \in Threads, Return(t)
  PROVE  Abstract!Return(t)
<1> USE DEF Return, Goto, Decide, lockVars, localVars
<1>1. \A u \in Threads \ {t} : Untouched(u)
  BY DEF Untouched, IInv, TypeOK
<1>2. phase[t] \in {"booked", "refused", "shown"}
  BY DEF phase, IInv, TypeOK, ThreadOK, OutcomeOK
<1>3. phase' = [phase EXCEPT ![t] = "idle"]
  <2>1. phase'[t] = "idle"
    BY DEF phase, IInv, TypeOK
  <2> QED
    BY <1>1, <2>1, OneThreadMoves
<1>4. want' = [want EXCEPT ![t] = {}]
  <2>1. want'[t] = {}
    BY DEF want, Range, IInv, TypeOK
  <2> QED
    BY <1>1, <2>1, OneThreadMoves
<1>5. repeats' = [repeats EXCEPT ![t] = FALSE]
  <2>1. coords'[t] = << >> /\ DOMAIN << >> = {}
    BY DEF IInv, TypeOK
  <2>2. repeats'[t] = FALSE
    BY <2>1 DEF repeats, IsInjective
  <2> QED
    BY <1>1, <2>2, OneThreadMoves
<1>6. picture' = [picture EXCEPT ![t] = [s \in Seats |-> 0]]
  <2>1. picture'[t] = [s \in Seats |-> 0]
    BY DEF picture, IInv, TypeOK
  <2> QED
    BY <1>1, <2>1, OneThreadMoves
<1>7. booked' = booked
  <2>1. Marked(t)' = Marked(t)
    BY DEF Marked, Tentative, IInv, TypeOK
  <2> QED
    BY <1>1, <2>1, AbstractUntouched, BookedKept
<1> QED
  BY <1>2, <1>3, <1>4, <1>5, <1>6, <1>7 DEF Abstract!Return

\* Every write but the last leaves a mark that is not a booking yet.
LEMMA WriteStutters ==
  ASSUME IInv, NEW t \in Threads, WriteSeat(t), i[t] < Len(coords[t])
  PROVE  UNCHANGED Abstract!bookingVars
<1> USE DEF WriteSeat, Goto, Decide, lockVars, localVars
<1>1. \A u \in Threads \ {t} : Untouched(u)
  BY DEF Untouched, IInv, TypeOK
<1>2. phase'[t] = phase[t]
  BY DEF phase, IInv, TypeOK, ThreadOK, OutcomeOK
<1>3. want'[t] = want[t] /\ repeats'[t] = repeats[t]
  BY DEF want, repeats, IInv, TypeOK
<1>4. picture'[t] = picture[t]
  BY DEF picture, IInv, TypeOK, ThreadOK, OutcomeOK
<1>5. booked' = booked
  <2> DEFINE x == coords[t][i[t]]
  <2>1. Marked(t)' = Marked(t) \cup {x}
    <3>1. j[t]..i[t] = (j[t]..(i[t] - 1)) \cup {i[t]}
      BY DEF IInv, ThreadOK, IndexOK, TypeOK
    <3>2. Marked(t)' = {coords[t][k] : k \in j[t]..i[t]}
      BY DEF Marked, Tentative, IInv, TypeOK
    <3>3. Marked(t) = {coords[t][k] : k \in j[t]..(i[t] - 1)}
      BY DEF Marked, Tentative
    <3> QED
      BY <3>1, <3>2, <3>3
  <2>2. \A u \in Threads \ {t} : Marked(u)' = Marked(u)
    BY <1>1, AbstractUntouched
  <2>3. \A s \in Seats : s # x => data'[s] = data[s]
    BY DEF IInv, TypeOK
  <2>4. data[x] = 0
    BY DEF IInv, ThreadOK, DataOK
  <2>5. \A s \in Seats : s # x =>
          ((\E u \in Threads : s \in Marked(u)') <=> \E u \in Threads : s \in Marked(u))
    BY <2>1, <2>2
  <2>6. \A s \in Seats : booked'[s] = booked[s]
    BY <2>1, <2>3, <2>4, <2>5 DEF booked
  <2> QED
    BY <2>6 DEF booked
<1> QED
  BY <1>1, <1>2, <1>3, <1>4, <1>5, AbstractStutter

\* The last write books all the seats at once.
LEMMA LastWriteBooks ==
  ASSUME IInv, NEW t \in Threads, WriteSeat(t), i[t] = Len(coords[t])
  PROVE  Abstract!Book(t)
<1> USE DEF WriteSeat, Goto, Decide, lockVars, localVars
<1>1. \A u \in Threads \ {t} : Untouched(u)
  BY DEF Untouched, IInv, TypeOK
<1>2. phase[t] = "reserving" /\ phase'[t] = "booked"
  BY DEF phase, IInv, TypeOK, ThreadOK, OutcomeOK
<1>3. phase' = [phase EXCEPT ![t] = "booked"]
  BY <1>1, <1>2, OneThreadMoves
<1>4. want' = want
  <2>1. want'[t] = want[t]
    BY DEF want, IInv, TypeOK, ThreadOK, OutcomeOK
  <2>2. want = [want EXCEPT ![t] = want[t]]
    BY DEF want
  <2> QED
    BY <1>1, <2>1, <2>2, OneThreadMoves
<1>5. repeats' = repeats
  <2>1. repeats'[t] = repeats[t]
    BY DEF repeats, IInv, TypeOK, ThreadOK, OutcomeOK
  <2>2. repeats = [repeats EXCEPT ![t] = repeats[t]]
    BY DEF repeats
  <2> QED
    BY <1>1, <2>1, <2>2, OneThreadMoves
<1>6. picture' = picture
  <2>1. picture'[t] = picture[t]
    BY DEF picture, IInv, TypeOK, ThreadOK, OutcomeOK
  <2>2. picture = [picture EXCEPT ![t] = picture[t]]
    BY DEF picture
  <2> QED
    BY <1>1, <2>1, <2>2, OneThreadMoves
<1> DEFINE x == coords[t][i[t]]
<1>7. /\ DOMAIN coords[t] = (j[t]..(i[t] - 1)) \cup {i[t]}
      /\ DOMAIN coords[t] = 1..Top(t)
  BY DEF IInv, ThreadOK, IndexOK, TypeOK, Top
<1>8. want[t] = Marked(t) \cup {x}
  BY <1>7 DEF want, Range, Marked, Tentative
<1>9. want[t] \subseteq Seats
  <2>1. \A k \in DOMAIN coords[t] : coords[t][k] \in Seats
    BY <1>7 DEF IInv, ThreadOK, IndexOK
  <2> QED
    BY <2>1 DEF want, Range
<1>10. ~repeats[t]
  <2>1. Ascending(coords[t])
    BY DEF IInv, ThreadOK, IndexOK, Reading
  <2> QED
    BY <2>1, AscendingInjective DEF repeats, IsInjective, IInv, TypeOK
<1>11. \A s \in want[t] : booked[s] = 0
  <2>1. data[x] = 0 /\ x \in Seats
    BY NextSeatUnmarked DEF IInv, ThreadOK, DataOK
  <2> QED
    BY <1>8, <1>9, <2>1 DEF booked
<1>12. Marked(t)' = {}
  BY DEF Marked, Tentative, IInv, TypeOK
<1>13. \A u \in Threads \ {t} : Marked(u)' = Marked(u)
  BY <1>1, AbstractUntouched
<1>14. \A u \in Threads \ {t} : want[t] \cap Marked(u) = {}
  <2>1. \A u \in Threads \ {t} : Held(t) \cap Held(u) = {}
    BY HeldDisjoint DEF IInv
  <2>2. want[t] \subseteq Held(t)
    BY <1>7 DEF want, Range, Held, IInv, ThreadOK, IndexOK, Top
  <2> QED
    BY <2>1, <2>2, MarkedHeld
<1>15. \A s \in want[t] : data'[s] = newId[t]
  <2>1. \A s \in Marked(t) : data[s] = newId[t]
    BY DEF Marked, Tentative, IInv, ThreadOK, DataOK
  <2>2. x \in Seats
    BY NextSeatUnmarked
  <2> QED
    BY <1>8, <1>9, <2>1, <2>2 DEF IInv, TypeOK
<1>16. \A s \in Seats \ want[t] : data'[s] = data[s]
  BY <1>8 DEF IInv, TypeOK
<1>17. \A s \in want[t] : booked'[s] = newId[t]
  BY <1>9, <1>12, <1>13, <1>14, <1>15 DEF booked
<1>18. \A s \in Seats \ want[t] : booked'[s] = booked[s]
  BY <1>8, <1>12, <1>13, <1>16 DEF booked
<1>19. newId[t] # 0
  <2>1. newId[t] > 0
    BY DEF IInv, ThreadOK, DataOK, Reading
  <2> QED
    BY <2>1
<1>20. booked' \in [Seats -> Nat]
  <2>1. data' \in [Seats -> Nat]
    BY WriteSeatInv DEF IInv, TypeOK
  <2> QED
    BY <2>1 DEF booked
<1> QED
  BY <1>2, <1>3, <1>4, <1>5, <1>6, <1>9, <1>10, <1>11, <1>17, <1>18, <1>19, <1>20
     DEF Abstract!Book

-----------------------------------------------------------------------------

LEMMA StepRefines ==
  ASSUME IInv, NEW t \in Threads, Step(t)
  PROVE  Abstract!Next \/ UNCHANGED Abstract!bookingVars
<1>1. CASE CallReserve(t)
  BY <1>1, CallReserveAsks DEF Abstract!Next
<1>2. CASE SortSeats(t)
  BY <1>2, DuplicateRefused, SortStutters DEF Abstract!Next
<1>3. CASE InvalidSeat(t)
  BY <1>3, InvalidRefused DEF Abstract!Next
<1>4. CASE SeatTaken(t)
  BY <1>4, TakenRefused DEF Abstract!Next
<1>5. CASE WriteSeat(t)
  <2>1. i[t] < Len(coords[t]) \/ i[t] = Len(coords[t])
    BY <1>5 DEF WriteSeat
  <2> QED
    BY <1>5, <2>1, WriteStutters, LastWriteBooks DEF Abstract!Next
<1>6. CASE CallShow(t)
  BY <1>6, CallShowAsks DEF Abstract!Next
<1>7. CASE UnlockForWriting(t)
  BY <1>7, ShowSnapshots DEF Abstract!Next
<1>8. CASE Return(t)
  BY <1>8, ReturnReturns DEF Abstract!Next
<1>9. CASE \/ LockForReading(t) \/ LoadCounter(t) \/ StoreCounter(t) \/ LockSeat(t)
           \/ SeatFree(t) \/ UndoSeat(t) \/ UnlockUndone(t) \/ UnlockSeat(t)
           \/ UnlockForReading(t)
  BY <1>9, LockForReadingStutters, LoadCounterStutters, StoreCounterStutters,
     LockSeatStutters, SeatFreeStutters, UndoSeatStutters, UnlockUndoneStutters,
     UnlockSeatStutters, UnlockForReadingStutters
<1>10. CASE LockForWriting(t) \/ ReadSeat(t) \/ PrintView(t)
  BY <1>10, LockForWritingStutters, ReadSeatStutters, PrintViewStutters
<1> QED
  BY <1>1, <1>2, <1>3, <1>4, <1>5, <1>6, <1>7, <1>8, <1>9, <1>10 DEF Step, Reserve, Show

LEMMA NoStepRefines ==
  ASSUME UNCHANGED vars
  PROVE  UNCHANGED Abstract!bookingVars
BY DEF vars, lockVars, localVars, Abstract!bookingVars, booked, Marked, Tentative, phase,
       want, repeats, picture

LEMMA NextRefines ==
  ASSUME IInv, [Next]_vars
  PROVE  [Abstract!Next]_(Abstract!bookingVars)
<1>1. CASE \E t \in Threads : Step(t)
  BY <1>1, StepRefines
<1>2. CASE Finished \/ UNCHANGED vars
  BY <1>2, NoStepRefines DEF Finished
<1> QED
  BY <1>1, <1>2 DEF Next

LEMMA InitRefines ==
  ASSUME Init
  PROVE  Abstract!Init
<1>1. booked = [s \in Seats |-> 0]
  BY DEF Init, booked
<1>2. phase = [t \in Threads |-> "idle"]
  BY DEF Init, phase
<1>3. want = [t \in Threads |-> {}]
  BY DEF Init, want, Range
<1>4. repeats = [t \in Threads |-> FALSE]
  <2>1. \A t \in Threads : coords[t] = << >> /\ DOMAIN << >> = {}
    BY DEF Init
  <2>2. \A t \in Threads : IsInjective(coords[t])
    BY <2>1 DEF IsInjective
  <2> QED
    BY <2>2 DEF repeats
<1>5. picture = [t \in Threads |-> [s \in Seats |-> 0]]
  BY DEF Init, picture
<1> QED
  BY <1>1, <1>2, <1>3, <1>4, <1>5 DEF Abstract!Init

\* ems_reserve and ems_show, with all their locks, do what Booking promises: a
\* reservation is all or nothing, it is refused only for a reason, and a show
\* returns the bookings of one instant.
THEOREM Implements == Spec => ImplementsBooking
<1>1. Init => Abstract!Init
  BY InitRefines
<1>2. IInv /\ [Next]_vars => [Abstract!Next]_(Abstract!bookingVars)
  BY NextRefines
<1> QED
  BY <1>1, <1>2, Invariance, PTL DEF Spec, Abstract!Spec, ImplementsBooking

LEMMA BookedStays ==
  ASSUME IInv, [Next]_vars
  PROVE  \A s \in Seats : booked[s] # 0 => booked'[s] = booked[s]
<1>1. [Abstract!Next]_(Abstract!bookingVars)
  BY NextRefines
<1>2. CASE UNCHANGED Abstract!bookingVars
  BY <1>2 DEF Abstract!bookingVars
<1>3. CASE Abstract!Next
  BY <1>3 DEF Abstract!Next, Abstract!AskReserve, Abstract!Book, Abstract!Refuse,
              Abstract!AskShow, Abstract!Snapshot, Abstract!Return
<1> QED
  BY <1>1, <1>2, <1>3

\* A reservation that succeeded keeps its seats.
THEOREM BookingsStay == Spec => BookedForever
<1>1. ASSUME IInv, [Next]_vars
      PROVE  [\A s \in Seats : booked[s] # 0 => booked'[s] = booked[s]]_vars
  BY <1>1, BookedStays
<1> QED
  BY <1>1, Invariance, PTL DEF Spec, BookedForever

-----------------------------------------------------------------------------
\* Dumps that are written out of order.

\* Whatever dump v shows as reserved, w shows so too.
Extends(v, w) == \A s \in Seats : v[s] # 0 => w[s] = v[s]

\* The dumps that are written, and those of shows that are still to write them.
Dumps == {output[n] : n \in 1..Len(output)} \cup {view[t] : t \in {u \in Threads : outcome[u] = "shown"}}

\* Each has been the state of the bookings at some time; so has any two's union.
DumpsOK ==
  /\ \A v \in Dumps : Extends(v, booked)
  /\ \A v, w \in Dumps : Extends(v, w) \/ Extends(w, v)

\* What a show has read when it lets the rwlock go are the bookings.
LEMMA ShowReadsBooked ==
  ASSUME IInv, NEW t \in Threads, UnlockForWriting(t)
  PROVE  view[t] = booked
<1>1. writer = t
  BY DEF UnlockForWriting, Goto, IInv, RwLockOK
<1>2. data = booked
  BY <1>1, NoHalves, ThreadsAssumption DEF ShowSeesNoHalves
<1>3. \A s \in Seats : view[t][s] # NotRead
  BY DEF UnlockForWriting, Unread
<1>4. \A s \in Seats : view[t][s] \in {NotRead, data[s]}
  BY DEF UnlockForWriting, Goto, IInv, ThreadOK, ViewOK
<1>5. view[t] = data
  BY <1>3, <1>4 DEF IInv, TypeOK
<1> QED
  BY <1>2, <1>5

\* The only new dump is one of the bookings.
LEMMA DumpsGrow ==
  ASSUME IInv, [Next]_vars
  PROVE  Dumps' \subseteq Dumps \cup {booked}
<1> USE DEF IInv, TypeOK
<1>1. ASSUME NEW t \in Threads, UnlockForWriting(t)
      PROVE  Dumps' \subseteq Dumps \cup {booked}
  <2>1. output' = output /\ view' = view
    BY <1>1 DEF UnlockForWriting
  <2>2. \A u \in Threads \ {t} : outcome'[u] = outcome[u]
    BY <1>1 DEF UnlockForWriting, Decide
  <2>3. view[t] = booked
    BY <1>1, ShowReadsBooked
  <2> QED
    BY <2>1, <2>2, <2>3 DEF Dumps
<1>2. ASSUME NEW t \in Threads, PrintView(t)
      PROVE  Dumps' \subseteq Dumps
  <2>1. outcome[t] = "shown"
    BY <1>2 DEF PrintView, Goto, ThreadOK, OutcomeOK
  <2>2. view' = view /\ outcome' = outcome /\ output' = Append(output, view[t])
    BY <1>2 DEF PrintView, localVars
  <2>3. \A n \in 1..Len(output') : output'[n] = view[t] \/ (n \in 1..Len(output) /\ output'[n] = output[n])
    BY <2>2
  <2> QED
    BY <2>1, <2>2, <2>3 DEF Dumps
<1>3. ASSUME NEW t \in Threads, Step(t), ~UnlockForWriting(t), ~PrintView(t)
      PROVE  Dumps' \subseteq Dumps
  <2>1. output' = output
    BY <1>3 DEF Step, Reserve, Show, CallReserve, SortSeats, LockForReading, LoadCounter,
                StoreCounter, InvalidSeat, LockSeat, SeatTaken, SeatFree, WriteSeat, UndoSeat,
                UnlockUndone, UnlockSeat, UnlockForReading, CallShow, LockForWriting, ReadSeat,
                Return
  <2>2. \A u \in Threads : outcome'[u] = "shown" => outcome[u] = "shown" /\ view'[u] = view[u]
    BY <1>3 DEF Step, Reserve, Show, CallReserve, SortSeats, LockForReading, LoadCounter,
                StoreCounter, InvalidSeat, LockSeat, SeatTaken, SeatFree, WriteSeat, UndoSeat,
                UnlockUndone, UnlockSeat, UnlockForReading, CallShow, LockForWriting, ReadSeat,
                Return, Goto, Decide, localVars, ThreadOK, OutcomeOK
  <2> QED
    BY <2>1, <2>2 DEF Dumps
<1>4. CASE Finished \/ UNCHANGED vars
  BY <1>4 DEF Finished, vars, localVars, Dumps
<1> QED
  BY <1>1, <1>2, <1>3, <1>4 DEF Next

LEMMA DumpsKept ==
  ASSUME IInv, DumpsOK, [Next]_vars
  PROVE  DumpsOK'
<1>1. Dumps' \subseteq Dumps \cup {booked}
  BY DumpsGrow
<1>2. \A s \in Seats : booked[s] # 0 => booked'[s] = booked[s]
  BY BookedStays
<1>3. \A v \in Dumps' : Extends(v, booked')
  BY <1>1, <1>2 DEF DumpsOK, Extends
<1>4. \A v \in Dumps \cup {booked} : Extends(v, booked)
  BY DEF DumpsOK, Extends
<1>5. \A v, w \in Dumps' : Extends(v, w) \/ Extends(w, v)
  BY <1>1, <1>4 DEF DumpsOK
<1> QED
  BY <1>3, <1>5 DEF DumpsOK, Extends

\* The dumps in the output file may be out of order, since the rwlock is let go
\* before they are written; but of any two one has all that the other has.
THEOREM DumpsCompare == Spec => []DumpsComparable
<1>1. Init => DumpsOK
  BY DEF Init, DumpsOK, Dumps
<1>2. IInv /\ DumpsOK /\ [Next]_vars => DumpsOK'
  BY DumpsKept
<1>3. DumpsOK => DumpsComparable
  BY DEF DumpsOK, DumpsComparable, Dumps, Extends
<1> QED
  BY <1>1, <1>2, <1>3, Invariance, PTL DEF Spec

=============================================================================
