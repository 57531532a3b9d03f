----------------------------- MODULE SeatLocking -----------------------------
(***************************************************************************)
(* ems_reserve and ems_show of Part 1 on one event, lock by lock           *)
(* (P1/operations.c, P1/auxFunctions.c).                                   *)
(*                                                                         *)
(* Reservations share the event: each takes the event's rwlock for reading *)
(* and then the mutexes of its seats, in ascending order and one by one,   *)
(* keeping them until its fate is known.  A show takes the rwlock for      *)
(* writing.  The id of a reservation comes from a counter that is loaded   *)
(* and stored by two separate atomic accesses.                             *)
(*                                                                         *)
(* A coordinate <<row, col>> is a number: its rank in the order by which   *)
(* sortVectors compares (row first, then column), so that "<" is that      *)
(* order.  Coordinates outside the event are the members of Coords that    *)
(* are not in Seats.                                                       *)
(***************************************************************************)
EXTENDS Integers, Sequences, Functions

CONSTANTS
  Threads,      \* the worker threads of one process
  NoThread,     \* the holder of a lock that nobody holds
  Coords,       \* the coordinates that requests name
  Seats,        \* those inside the event's rows and columns
  Requests,     \* the seat lists that RESERVE commands carry
  MaxCalls      \* bound: how many calls one thread makes

ASSUME ThreadsAssumption == NoThread \notin Threads
ASSUME SeatsAssumption == Coords \subseteq Int /\ Seats \subseteq Coords
\* thread_execute calls ems_reserve with at least one coordinate.
ASSUME RequestsAssumption == Requests \subseteq Seq(Coords) \ {<<>>}
ASSUME CallsAssumption == MaxCalls \in Nat

VARIABLES
  data,          \* event->data
  reservations,  \* event->reservations
  seatLock,      \* seatLock[s]: the holder of event->seatsLock[s]
  readers,       \* the threads that hold event->rwlock for reading
  writer,        \* the thread that holds it for writing, or NoThread
  output,        \* the dumps written to the output file, oldest first
  pc,            \* pc[t]: the next step of thread t
  coords,        \* coords[t]: xs and ys of the reservation t makes
  i, j,          \* i[t], j[t]: the two loop indices of ems_reserve, from 1
  newId,         \* newId[t]: myValue, then newId
  view,          \* view[t]: the buffer of the show t makes
  outcome,       \* outcome[t]: how the call ends, once that is decided
  calls          \* calls[t]: how many calls t has made

lockVars == <<seatLock, readers, writer>>
localVars == <<coords, i, j, newId, view, outcome, calls>>
vars == <<data, reservations, output, pc, lockVars, localVars>>

\* The mark, in a show's buffer, of a seat not read yet.
NotRead == -1

Ascending(q) == \A a, b \in DOMAIN q : a < b => q[a] < q[b]

\* A slip: the seats are taken in the order the command names them.
SortedNot(q) == {q}

\* What sortVectors leaves in xs and ys, for a request without duplicates.
Sorted(q) == {p \in [1..Len(q) -> Range(q)] : Ascending(p) /\ Range(p) = Range(q)}

-----------------------------------------------------------------------------

Init ==
  /\ data = [s \in Seats |-> 0]
  /\ reservations = 0
  /\ seatLock = [s \in Seats |-> NoThread]
  /\ readers = {}
  /\ writer = NoThread
  /\ output = <<>>
  /\ pc = [t \in Threads |-> "idle"]
  /\ coords = [t \in Threads |-> <<>>]
  /\ i = [t \in Threads |-> 1]
  /\ j = [t \in Threads |-> 1]
  /\ newId = [t \in Threads |-> 0]
  /\ view = [t \in Threads |-> [s \in Seats |-> NotRead]]
  /\ outcome = [t \in Threads |-> "undecided"]
  /\ calls = [t \in Threads |-> 0]

Goto(t, from, to) ==
  /\ pc[t] = from
  /\ pc' = [pc EXCEPT ![t] = to]

Decide(t, o) == outcome' = [outcome EXCEPT ![t] = o]

-----------------------------------------------------------------------------
\* ems_reserve.  The event is in the list; the search for it keeps no lock.

CallReserve(t) ==
  /\ calls[t] < MaxCalls
  /\ Goto(t, "idle", "sort")
  /\ \E q \in Requests : coords' = [coords EXCEPT ![t] = q]
  /\ calls' = [calls EXCEPT ![t] = calls[t] + 1]
  /\ UNCHANGED <<data, reservations, output, lockVars, i, j, newId, view, outcome>>

\* sortVectors puts the seats in order, or reports a duplicate.
SortSeats(t) ==
  /\ \/ /\ ~IsInjective(coords[t])
        /\ Goto(t, "sort", "return")
        /\ Decide(t, "refused")
        /\ UNCHANGED coords
     \/ /\ IsInjective(coords[t])
        /\ Goto(t, "sort", "rdlock")
        /\ \E p \in Sorted(coords[t]) : coords' = [coords EXCEPT ![t] = p]
        /\ UNCHANGED outcome
  /\ UNCHANGED <<data, reservations, output, lockVars, i, j, newId, view, calls>>

LockForReading(t) ==
  /\ writer = NoThread
  /\ Goto(t, "rdlock", "load")
  /\ readers' = readers \cup {t}
  /\ UNCHANGED <<data, reservations, output, seatLock, writer, localVars>>

\* myValue = atomic_load(&event->reservations), newId = myValue + 1
LoadCounter(t) ==
  /\ Goto(t, "load", "store")
  /\ newId' = [newId EXCEPT ![t] = reservations + 1]
  /\ UNCHANGED <<data, reservations, output, lockVars, coords, i, j, view, outcome, calls>>

\* atomic_store(&event->reservations, newId)
StoreCounter(t) ==
  /\ Goto(t, "store", "lock")
  /\ reservations' = newId[t]
  /\ UNCHANGED <<data, output, lockVars, localVars>>

\* The loop over the seats breaks at a coordinate outside the event...
InvalidSeat(t) ==
  /\ Goto(t, "lock", "undo")
  /\ coords[t][i[t]] \notin Seats
  /\ Decide(t, "refused")
  /\ UNCHANGED <<data, reservations, output, lockVars, coords, i, j, newId, view, calls>>

\* ... or takes the mutex of the next seat...
LockSeat(t) ==
  /\ Goto(t, "lock", "check")
  /\ coords[t][i[t]] \in Seats
  /\ seatLock[coords[t][i[t]]] = NoThread
  /\ seatLock' = [seatLock EXCEPT ![coords[t][i[t]]] = t]
  /\ UNCHANGED <<data, reservations, output, readers, writer, localVars>>

\* A slip: the mutex of the seat that was taken is not given back.
SeatTakenKeepsMutex(t) ==
  /\ Goto(t, "check", "undo")
  /\ data[coords[t][i[t]]] # 0
  /\ Decide(t, "refused")
  /\ UNCHANGED <<data, reservations, output, lockVars, coords, i, j, newId, view, calls>>

\* ... and breaks if the seat is taken, after it let the mutex go.
SeatTaken(t) ==
  /\ Goto(t, "check", "undo")
  /\ data[coords[t][i[t]]] # 0
  /\ seatLock' = [seatLock EXCEPT ![coords[t][i[t]]] = NoThread]
  /\ Decide(t, "refused")
  /\ UNCHANGED <<data, reservations, output, readers, writer, coords, i, j, newId, view, calls>>

\* A slip: the seat is not looked at.
SeatFreeUnchecked(t) ==
  /\ Goto(t, "check", "write")
  /\ UNCHANGED <<data, reservations, output, lockVars, localVars>>

SeatFree(t) ==
  /\ Goto(t, "check", "write")
  /\ data[coords[t][i[t]]] = 0
  /\ UNCHANGED <<data, reservations, output, lockVars, localVars>>

\* The seat gets the id; with the last one the reservation has succeeded.
WriteSeat(t) ==
  /\ pc[t] = "write"
  /\ data' = [data EXCEPT ![coords[t][i[t]]] = newId[t]]
  /\ i' = [i EXCEPT ![t] = i[t] + 1]
  /\ \/ /\ i[t] < Len(coords[t])
        /\ Goto(t, "write", "lock")
        /\ UNCHANGED outcome
     \/ /\ i[t] = Len(coords[t])
        /\ Goto(t, "write", "unlock")
        /\ Decide(t, "booked")
  /\ UNCHANGED <<reservations, output, lockVars, coords, j, newId, view, calls>>

\* A slip: the mutexes are given back, the seats are not.
UndoSeatForgotten(t) ==
  /\ Goto(t, "undo", "unlockUndone")
  /\ j[t] < i[t]
  /\ UNCHANGED <<data, reservations, output, lockVars, localVars>>

\* A failed reservation frees its seats, from the first: the id goes...
UndoSeat(t) ==
  /\ Goto(t, "undo", "unlockUndone")
  /\ j[t] < i[t]
  /\ data' = [data EXCEPT ![coords[t][j[t]]] = 0]
  /\ UNCHANGED <<reservations, output, lockVars, localVars>>

\* A slip: the loop index stays behind.
UnlockUndoneForever(t) ==
  /\ Goto(t, "unlockUndone", "undo")
  /\ seatLock' = [seatLock EXCEPT ![coords[t][j[t]]] = NoThread]
  /\ UNCHANGED <<data, reservations, output, readers, writer, localVars>>

\* ... and then the mutex.
UnlockUndone(t) ==
  /\ Goto(t, "unlockUndone", "undo")
  /\ seatLock' = [seatLock EXCEPT ![coords[t][j[t]]] = NoThread]
  /\ j' = [j EXCEPT ![t] = j[t] + 1]
  /\ UNCHANGED <<data, reservations, output, readers, writer, coords, i, newId, view, outcome, calls>>

\* A successful reservation gives its seats' mutexes back, from the first.
UnlockSeat(t) ==
  /\ pc[t] = "unlock"
  /\ j[t] < i[t]
  /\ seatLock' = [seatLock EXCEPT ![coords[t][j[t]]] = NoThread]
  /\ j' = [j EXCEPT ![t] = j[t] + 1]
  /\ UNCHANGED <<data, reservations, output, pc, readers, writer, coords, i, newId, view, outcome, calls>>

\* A slip that the source has in a comment (operations.c:242): a reservation
\* that fails takes back its increment of the counter.
UnlockAndDecrement(t) ==
  /\ pc[t] \in {"undo", "unlock"}
  /\ j[t] = i[t]
  /\ pc' = [pc EXCEPT ![t] = "return"]
  /\ readers' = readers \ {t}
  /\ reservations' = IF outcome[t] = "refused" THEN reservations - 1 ELSE reservations
  /\ UNCHANGED <<data, output, seatLock, writer, localVars>>

\* Either way the last lock to go is the event's.
UnlockForReading(t) ==
  /\ pc[t] \in {"undo", "unlock"}
  /\ j[t] = i[t]
  /\ pc' = [pc EXCEPT ![t] = "return"]
  /\ readers' = readers \ {t}
  /\ UNCHANGED <<data, reservations, output, seatLock, writer, localVars>>

-----------------------------------------------------------------------------
\* ems_show.

CallShow(t) ==
  /\ calls[t] < MaxCalls
  /\ Goto(t, "idle", "wrlock")
  /\ calls' = [calls EXCEPT ![t] = calls[t] + 1]
  /\ UNCHANGED <<data, reservations, output, lockVars, coords, i, j, newId, view, outcome>>

\* A slip: the show takes the rwlock for reading.
LockForReadingToo(t) ==
  /\ writer = NoThread
  /\ Goto(t, "wrlock", "read")
  /\ writer' = t
  /\ UNCHANGED <<data, reservations, output, seatLock, readers, localVars>>

LockForWriting(t) ==
  /\ writer = NoThread
  /\ readers = {}
  /\ Goto(t, "wrlock", "read")
  /\ writer' = t
  /\ UNCHANGED <<data, reservations, output, seatLock, readers, localVars>>

Unread(t) == {s \in Seats : view[t][s] = NotRead}

\* The seats are read one by one, row by row.
ReadSeat(t) ==
  /\ pc[t] = "read"
  /\ \E s \in Unread(t) :
       /\ \A r \in Unread(t) : s <= r
       /\ view' = [view EXCEPT ![t][s] = data[s]]
  /\ UNCHANGED <<data, reservations, output, pc, lockVars, coords, i, j, newId, outcome, calls>>

UnlockForWriting(t) ==
  /\ Unread(t) = {}
  /\ Goto(t, "read", "print")
  /\ writer' = NoThread
  /\ Decide(t, "shown")
  /\ UNCHANGED <<data, reservations, output, seatLock, readers, coords, i, j, newId, view, calls>>

\* global_mutex is held around one call of writeFile, and nothing else.
PrintView(t) ==
  /\ Goto(t, "print", "return")
  /\ output' = Append(output, view[t])
  /\ UNCHANGED <<data, reservations, lockVars, localVars>>

-----------------------------------------------------------------------------

Return(t) ==
  /\ Goto(t, "return", "idle")
  /\ coords' = [coords EXCEPT ![t] = <<>>]
  /\ i' = [i EXCEPT ![t] = 1]
  /\ j' = [j EXCEPT ![t] = 1]
  /\ newId' = [newId EXCEPT ![t] = 0]
  /\ view' = [view EXCEPT ![t] = [s \in Seats |-> NotRead]]
  /\ Decide(t, "undecided")
  /\ UNCHANGED <<data, reservations, output, lockVars, calls>>

\* The commands are used up and every thread is idle.
Finished ==
  /\ \A t \in Threads : pc[t] = "idle" /\ calls[t] = MaxCalls
  /\ UNCHANGED vars

Reserve(t) ==
  \/ CallReserve(t) \/ SortSeats(t) \/ LockForReading(t)
  \/ LoadCounter(t) \/ StoreCounter(t)
  \/ InvalidSeat(t) \/ LockSeat(t) \/ SeatTaken(t) \/ SeatFree(t) \/ WriteSeat(t)
  \/ UndoSeat(t) \/ UnlockUndone(t) \/ UnlockSeat(t) \/ UnlockForReading(t)

Show(t) ==
  \/ CallShow(t) \/ LockForWriting(t) \/ ReadSeat(t)
  \/ UnlockForWriting(t) \/ PrintView(t)

Step(t) == Reserve(t) \/ Show(t) \/ Return(t)

Next == (\E t \in Threads : Step(t)) \/ Finished

\* Every thread that can run does: the kernel schedules it, and a bounded
\* number of calls lets every lock come free.
Fairness == \A t \in Threads : WF_vars(Step(t))

Spec == Init /\ [][Next]_vars

FairSpec == Spec /\ Fairness

-----------------------------------------------------------------------------
\* What the locks stand for.

\* A reservation whose fate is not known, or which is being undone.
Tentative(t) == pc[t] \in {"lock", "check", "write", "undo", "unlockUndone"}

\* The last index of coords whose mutex is taken: in the midst of an iteration
\* the seat of index i is, else the one before.
Top(t) == IF pc[t] \in {"check", "write"} THEN i[t] ELSE i[t] - 1

\* The seats whose mutex t holds.
Held(t) == {coords[t][k] : k \in j[t]..Top(t)}

\* The seats t has written and not committed.  The seat just zeroed still
\* belongs here; its id is gone but its mutex is not.
Marked(t) == IF Tentative(t) THEN {coords[t][k] : k \in j[t]..(i[t] - 1)} ELSE {}

\* The reservations that have succeeded: tentative marks do not count.
booked == [s \in Seats |-> IF \E t \in Threads : s \in Marked(t) THEN 0 ELSE data[s]]

\* How far the call of t has come, as its caller will know it.
phase ==
  [t \in Threads |->
     IF outcome[t] # "undecided" THEN outcome[t]
     ELSE IF pc[t] = "idle" THEN "idle"
     ELSE IF pc[t] \in {"wrlock", "read"} THEN "showing"
     ELSE "reserving"]

\* What the reservation of t asks for, and whether it names a seat twice.
want == [t \in Threads |-> Range(coords[t])]
repeats == [t \in Threads |-> ~IsInjective(coords[t])]

\* What the show of t returns.
picture ==
  [t \in Threads |-> IF outcome[t] = "shown" THEN view[t] ELSE [s \in Seats |-> 0]]

\* The specification this module implements, its variables the five functions
\* above.
Abstract == INSTANCE Booking

-----------------------------------------------------------------------------
\* Properties.

Steps == {"idle", "sort", "rdlock", "load", "store", "lock", "check", "write",
          "undo", "unlockUndone", "unlock", "wrlock", "read", "print", "return"}

\* The type of every variable.
TypeOK ==
  /\ data \in [Seats -> Nat]
  /\ reservations \in Nat
  /\ seatLock \in [Seats -> Threads \cup {NoThread}]
  /\ readers \subseteq Threads
  /\ writer \in Threads \cup {NoThread}
  /\ output \in Seq([Seats -> Nat])
  /\ pc \in [Threads -> Steps]
  /\ coords \in [Threads -> Seq(Coords)]
  /\ i \in [Threads -> Nat \ {0}]
  /\ j \in [Threads -> Nat \ {0}]
  /\ newId \in [Threads -> Nat]
  /\ view \in [Threads -> [Seats -> Nat \cup {NotRead}]]
  /\ outcome \in [Threads -> {"undecided", "booked", "refused", "shown"}]
  /\ calls \in [Threads -> 0..MaxCalls]

\* The mutexes of ems_reserve: a seat's holder is the one reservation that is
\* between taking and giving back that seat, in all four loops of the code.
LocksMatch ==
  \A s \in Seats, t \in Threads : seatLock[s] = t <=> s \in Held(t)

\* The order in which ems_reserve takes mutexes, and why sortVectors comes
\* first: a thread that waits for a seat holds only seats before it, so no
\* cycle of threads can wait for one another.
LockOrder ==
  \A t \in Threads :
    pc[t] = "lock" => \A s \in Held(t) : s < coords[t][i[t]]

\* The rwlock of the event: while ems_show reads, no seat carries the id of a
\* reservation that may still be refused.
ShowSeesNoHalves ==
  writer # NoThread => data = booked

\* Two dumps of one event: since reservations are never cancelled, whatever the
\* threads that wrote them did, one of the two has all that the other has.
DumpsComparable ==
  LET Extends(v, w) == \A s \in Seats : v[s] # 0 => w[s] = v[s]
  IN  \A m, n \in 1..Len(output) :
        Extends(output[m], output[n]) \/ Extends(output[n], output[m])

\* A reservation that succeeded keeps its seats: no other reservation, whether
\* it succeeds or is undone, writes over them.
BookedForever ==
  [][\A s \in Seats : booked[s] # 0 => booked'[s] = booked[s]]_vars

\* All or nothing, no refusal without a reason, dumps of one instant: lock by
\* lock the code does what Booking promises.
ImplementsBooking == Abstract!Spec

\* Every call of ems_reserve and of ems_show returns.
CallsReturn == \A t \in Threads : pc[t] # "idle" ~> pc[t] = "idle"

\* The statement (p. 1): a reservation is identified by its id.  Two
\* reservations that have both succeeded have different ids.
IdsIdentify ==
  \A t, u \in Threads :
    (t # u /\ outcome[t] = "booked" /\ outcome[u] = "booked") => newId[t] # newId[u]

=============================================================================
