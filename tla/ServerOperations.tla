-------------------------- MODULE ServerOperations --------------------------
(***************************************************************************)
(* The operations of the server of Part 2 (P2/server/operations.c,         *)
(* P2/server/eventlist.c), as the workers call them for their clients      *)
(* (execute_client) and the main thread for SIGUSR1 (show_events).         *)
(*                                                                         *)
(* The list of events has an rwlock, each event a mutex.  Create holds the *)
(* rwlock for writing from its search to the append.  Reserve and show     *)
(* hold it for reading while they search, then take the event's mutex.     *)
(* List holds it for reading while it walks the list; so does show_events, *)
(* which calls show_id for each event, and show_id takes the rwlock again. *)
(*                                                                         *)
(* A seat is its index in event->data, from 1; a number that is no index   *)
(* of the event stands for coordinates outside it.                         *)
(***************************************************************************)
EXTENDS Integers, Sequences, FiniteSets, Functions

CONSTANTS
  Workers,       \* the threads that serve sessions
  Main,          \* the main thread
  NoThread,      \* the holder of a lock that nobody holds
  EventIds,
  Requests,      \* what the clients ask for
  MaxFailures,   \* bound: how many calls of malloc fail
  SignalAt       \* bound: how many events there are when a SIGUSR1 comes

Threads == Workers \cup {Main}

ShowOf(e) == [op |-> "show", id |-> e]

ASSUME ThreadsAssumption == Main \notin Workers /\ NoThread \notin Threads
ASSUME BoundsAssumption == MaxFailures \in Nat /\ SignalAt \subseteq Nat
ASSUME RequestsAssumption ==
  \A r \in Requests :
    \/ r \in [op : {"create"}, id : EventIds, size : Nat \ {0}]
    \/ r \in [op : {"reserve"}, id : EventIds, seats : Seq(Nat) \ {<<>>}]
    \/ r \in [op : {"show"}, id : EventIds]
    \/ r \in [op : {"list"}]
ASSUME ShowsAssumption == \A e \in EventIds : ShowOf(e) \in Requests

VARIABLES
  list,          \* the ids of the events in the list, from head to tail
  numEvents,
  reservations,  \* reservations[e]: event->reservations
  data,          \* data[e]: event->data
  writer,        \* the thread that holds the rwlock for writing, or NoThread
  readers,       \* readers[t]: how many times t holds it for reading
  mutex,         \* mutex[e]: the holder of event->mutex, or NoThread
  pc,            \* pc[t]: the next step of thread t
  asked,         \* asked[t]: the request that t serves, or NoRequest
  answer,        \* answer[t]: what the operation returns or writes, or NoAnswer
  left,          \* left[t]: the seats that t has still to mark
  copy,          \* copy[t]: show_seats or list_ids, as far as it is filled
  to,            \* to[t]: the last node of the list that t will visit
  total,         \* total[t]: num_events
  current,       \* show_events' current: which node of the list
  failures,      \* how many calls of malloc have failed
  showDetails,   \* show_details
  owed           \* history: how many events a dump is still to show, the first
                 \* of the list, for the last SIGUSR1

lockVars == <<writer, readers, mutex>>
eventVars == <<list, numEvents, reservations, data>>
walkVars == <<copy, to, total, current>>
signalVars == <<showDetails, owed>>
localVars == <<asked, answer, left, failures, walkVars, signalVars>>
vars == <<eventVars, lockVars, pc, localVars>>

NoRequest == [op |-> "none"]
NoAnswer == <<>>
Refused == <<1>>
Done == <<0>>

\* ems_init.  The workers have been created.
Init ==
  /\ list = <<>>
  /\ numEvents = 0
  /\ reservations = [e \in EventIds |-> 0]
  /\ data = [e \in EventIds |-> <<>>]
  /\ writer = NoThread
  /\ readers = [t \in Threads |-> 0]
  /\ mutex = [e \in EventIds |-> NoThread]
  /\ pc = [t \in Threads |-> "idle"]
  /\ asked = [t \in Threads |-> NoRequest]
  /\ answer = [t \in Threads |-> NoAnswer]
  /\ left = [t \in Threads |-> <<>>]
  /\ copy = [t \in Threads |-> <<>>]
  /\ to = [t \in Threads |-> 0]
  /\ total = [t \in Threads |-> 0]
  /\ current = 0
  /\ failures = 0
  /\ showDetails = FALSE
  /\ owed = 0

Goto(t, here, there) ==
  /\ pc[t] = here
  /\ pc' = [pc EXCEPT ![t] = there]

Answer(t, a) == answer' = [answer EXCEPT ![t] = a]

Id(t) == asked[t].id

InList(e) == e \in Range(list)

-----------------------------------------------------------------------------
\* The session.

\* The worker reads a request from its client's pipe.
Ask(t) ==
  /\ \E r \in Requests :
       /\ Goto(t, "idle", IF r.op = "create" THEN "wrlock" ELSE "rdlock")
       /\ asked' = [asked EXCEPT ![t] = r]
  /\ UNCHANGED <<eventVars, lockVars, answer, left, failures, walkVars, signalVars>>

\* The operation is over, and its locals are gone: the worker waits for the next
\* request, show_events goes on with its walk.
Return(t) ==
  /\ Goto(t, "return", IF t = Main THEN "advance" ELSE "idle")
  /\ asked' = [asked EXCEPT ![t] = NoRequest]
  /\ Answer(t, NoAnswer)
  /\ copy' = [copy EXCEPT ![t] = <<>>]
  /\ IF t = Main THEN UNCHANGED to ELSE to' = [to EXCEPT ![t] = 0]
  /\ total' = [total EXCEPT ![t] = 0]
  /\ UNCHANGED <<eventVars, lockVars, left, current, failures, signalVars>>

-----------------------------------------------------------------------------
\* ems_create.

\* A slip: create takes the rwlock for reading.
WriteLockShared(t) ==
  /\ Goto(t, "wrlock", "searchFree")
  /\ writer = NoThread
  /\ UNCHANGED <<eventVars, lockVars, localVars>>

WriteLock(t) ==
  /\ Goto(t, "wrlock", "searchFree")
  /\ writer = NoThread
  /\ \A u \in Threads : readers[u] = 0
  /\ writer' = t
  /\ UNCHANGED <<eventVars, readers, mutex, localVars>>

\* get_event_with_delay looks for an event with the id.
SearchFree(t) ==
  /\ \/ /\ Goto(t, "searchFree", "wrunlock")
        /\ InList(Id(t))
        /\ Answer(t, Refused)
     \/ /\ Goto(t, "searchFree", "link")
        /\ ~InList(Id(t))
        /\ UNCHANGED answer
  /\ UNCHANGED <<eventVars, lockVars, asked, left, failures, walkVars, signalVars>>

\* The new event becomes the list's tail.
Link(t) ==
  /\ Goto(t, "link", "count")
  /\ list' = Append(list, Id(t))
  /\ data' = [data EXCEPT ![Id(t)] = [s \in 1..asked[t].size |-> 0]]
  /\ reservations' = [reservations EXCEPT ![Id(t)] = 0]
  /\ UNCHANGED <<numEvents, lockVars, localVars>>

\* list->numEvents++
Count(t) ==
  /\ Goto(t, "count", "wrunlock")
  /\ numEvents' = numEvents + 1
  /\ Answer(t, Done)
  /\ UNCHANGED <<list, reservations, data, lockVars, asked, left, failures, walkVars, signalVars>>

\* There is no memory for the event, its data or its node: nothing is kept.
CreateFails(t) ==
  /\ failures < MaxFailures
  /\ Goto(t, "link", "wrunlock")
  /\ Answer(t, Refused)
  /\ failures' = failures + 1
  /\ UNCHANGED <<eventVars, lockVars, asked, left, walkVars, signalVars>>

WriteUnlock(t) ==
  /\ Goto(t, "wrunlock", "return")
  /\ writer' = NoThread
  /\ UNCHANGED <<eventVars, readers, mutex, localVars>>

-----------------------------------------------------------------------------
\* The search that ems_reserve, ems_show and show_id begin with.

\* ems_show and ems_list_events have no memory for an answer: they give up.
AnswerFails(t) ==
  /\ t # Main
  /\ asked[t].op \in {"show", "list"}
  /\ failures < MaxFailures
  /\ Goto(t, "rdlock", "return")
  /\ failures' = failures + 1
  /\ UNCHANGED <<eventVars, lockVars, asked, answer, left, walkVars, signalVars>>

\* A read lock is granted when no thread has the write lock, whoever waits for
\* it: the rwlock has the default attributes, under which glibc puts readers
\* first.  So a thread may hold it twice.
ReadLock(t) ==
  /\ Goto(t, "rdlock", IF asked[t].op = "list" THEN "start" ELSE "search")
  /\ writer = NoThread
  /\ readers' = [readers EXCEPT ![t] = @ + 1]
  /\ UNCHANGED <<eventVars, writer, mutex, localVars>>

Search(t) ==
  /\ Goto(t, "search", "rdunlock")
  /\ IF InList(Id(t)) THEN UNCHANGED answer ELSE Answer(t, Refused)
  /\ UNCHANGED <<eventVars, lockVars, asked, left, failures, walkVars, signalVars>>

\* A slip: the path on which the event is not found keeps the rwlock.
ReadUnlockIfFound(t) ==
  /\ Goto(t, "rdunlock", IF answer[t] = NoAnswer THEN "lock" ELSE "return")
  /\ readers' = [readers EXCEPT ![t] = IF answer[t] = Refused THEN @ ELSE @ - 1]
  /\ UNCHANGED <<eventVars, writer, mutex, localVars>>

\* The rwlock is released before the answer is looked at.
ReadUnlock(t) ==
  /\ Goto(t, "rdunlock", IF answer[t] = NoAnswer THEN "lock" ELSE "return")
  /\ readers' = [readers EXCEPT ![t] = @ - 1]
  /\ UNCHANGED <<eventVars, writer, mutex, localVars>>

\* A slip: show does without the event's mutex.
LockEventUnlessShow(t) ==
  /\ Goto(t, "lock", IF asked[t].op = "show" THEN "read" ELSE "check")
  /\ \/ asked[t].op = "show" /\ UNCHANGED mutex
     \/ /\ asked[t].op # "show"
        /\ mutex[Id(t)] = NoThread
        /\ mutex' = [mutex EXCEPT ![Id(t)] = t]
  /\ UNCHANGED <<eventVars, writer, readers, localVars>>

LockEvent(t) ==
  /\ Goto(t, "lock", IF asked[t].op = "show" THEN "read" ELSE "check")
  /\ mutex[Id(t)] = NoThread
  /\ mutex' = [mutex EXCEPT ![Id(t)] = t]
  /\ UNCHANGED <<eventVars, writer, readers, localVars>>

UnlockEvent(t) ==
  /\ Goto(t, "unlock", "return")
  /\ mutex' = [mutex EXCEPT ![Id(t)] = NoThread]
  /\ UNCHANGED <<eventVars, writer, readers, localVars>>

-----------------------------------------------------------------------------
\* The rest of ems_reserve.

CanReserve(e, seats) == \A s \in Range(seats) : s \in DOMAIN data[e] /\ data[e][s] = 0

\* A slip: the number is taken before the seats are looked at.
CheckSeatsNumbered(t) ==
  /\ \/ /\ Goto(t, "check", "unlock")
        /\ ~CanReserve(Id(t), asked[t].seats)
        /\ Answer(t, Refused)
        /\ reservations' = [reservations EXCEPT ![Id(t)] = @ + 1]
     \/ /\ Goto(t, "check", "number")
        /\ CanReserve(Id(t), asked[t].seats)
        /\ UNCHANGED <<answer, reservations>>
  /\ UNCHANGED <<list, numEvents, data, lockVars, asked, left, failures, walkVars, signalVars>>

\* Two loops look for a seat outside the event, and for one that is taken.
CheckSeats(t) ==
  /\ \/ /\ Goto(t, "check", "unlock")
        /\ ~CanReserve(Id(t), asked[t].seats)
        /\ Answer(t, Refused)
     \/ /\ Goto(t, "check", "number")
        /\ CanReserve(Id(t), asked[t].seats)
        /\ UNCHANGED answer
  /\ UNCHANGED <<eventVars, lockVars, asked, left, failures, walkVars, signalVars>>

\* reservation_id = ++event->reservations
Number(t) ==
  /\ Goto(t, "number", "mark")
  /\ reservations' = [reservations EXCEPT ![Id(t)] = @ + 1]
  /\ left' = [left EXCEPT ![t] = asked[t].seats]
  /\ UNCHANGED <<list, numEvents, data, lockVars, asked, answer, failures, walkVars, signalVars>>

\* The seats are marked one by one, in the order of the request.
Mark(t) ==
  /\ Goto(t, "mark", IF Len(left[t]) = 1 THEN "unlock" ELSE "mark")
  /\ data' = [data EXCEPT ![Id(t)][Head(left[t])] = reservations[Id(t)]]
  /\ left' = [left EXCEPT ![t] = Tail(@)]
  /\ IF Len(left[t]) = 1 THEN Answer(t, Done) ELSE UNCHANGED answer
  /\ UNCHANGED <<list, numEvents, reservations, lockVars, asked, failures, walkVars, signalVars>>

-----------------------------------------------------------------------------
\* The rest of ems_show and of show_id.

\* The seats are copied one by one.  The answer is written, or printed, with
\* the mutex held.
ReadSeat(t) ==
  LET next == Len(copy[t]) + 1
      all == Append(copy[t], data[Id(t)][next]) IN
  /\ Goto(t, "read", IF next = Len(data[Id(t)]) THEN "unlock" ELSE "read")
  /\ copy' = [copy EXCEPT ![t] = all]
  /\ IF next = Len(data[Id(t)]) THEN Answer(t, <<0, all>>) ELSE UNCHANGED answer
  /\ UNCHANGED <<eventVars, lockVars, asked, left, to, total, current, failures, signalVars>>

\* ems_show has no memory for the answer's buffer: it returns at once, without
\* an answer, and keeps the mutex.
ShowFails(t) ==
  /\ t # Main
  /\ failures < MaxFailures
  /\ Goto(t, "read", "return")
  /\ Len(copy[t]) = Len(data[Id(t)]) - 1
  /\ failures' = failures + 1
  /\ UNCHANGED <<eventVars, lockVars, asked, answer, left, walkVars, signalVars>>

-----------------------------------------------------------------------------
\* ems_list_events.

\* to = event_list->tail, num_events = event_list->numEvents
StartList(t) ==
  /\ Goto(t, "start", "walk")
  /\ to' = [to EXCEPT ![t] = Len(list)]
  /\ total' = [total EXCEPT ![t] = numEvents]
  /\ UNCHANGED <<eventVars, lockVars, asked, answer, left, copy, current, failures, signalVars>>

\* The ids are copied node by node.
Walk(t) ==
  /\ Len(copy[t]) < to[t]
  /\ Goto(t, "walk", "walk")
  /\ copy' = [copy EXCEPT ![t] = Append(@, list[Len(@) + 1])]
  /\ UNCHANGED <<eventVars, lockVars, asked, answer, left, to, total, current, failures, signalVars>>

\* The answer is written with the rwlock held.
WriteList(t) ==
  /\ Len(copy[t]) = to[t]
  /\ Goto(t, "walk", "rdunlock")
  /\ Answer(t, <<0, total[t], copy[t]>>)
  /\ UNCHANGED <<eventVars, lockVars, asked, left, failures, walkVars, signalVars>>

\* ems_list_events has no memory for the answer's buffer: it returns at once,
\* without an answer, and keeps the rwlock.
ListFails(t) ==
  /\ failures < MaxFailures
  /\ Len(copy[t]) = to[t]
  /\ Goto(t, "walk", "return")
  /\ failures' = failures + 1
  /\ UNCHANGED <<eventVars, lockVars, asked, answer, left, walkVars, signalVars>>

-----------------------------------------------------------------------------
\* SIGUSR1 and show_events, which the main thread calls for it.

\* Whether the main thread has ended its walk and not yet cleared the flag.
Clearing == pc[Main] = "clear"

\* The handler interrupts the main thread, wherever it is; the other threads
\* have the signal blocked.
Signal ==
  /\ Len(list) \in SignalAt
  /\ showDetails' = TRUE
  /\ owed' = IF Clearing THEN owed ELSE Len(list)
  /\ UNCHANGED <<eventVars, lockVars, pc, asked, answer, left, failures, walkVars>>

\* A slip: the list is walked without its rwlock.
StartDumpUnlocked ==
  /\ showDetails
  /\ Goto(Main, "idle", IF list = <<>> THEN "dumped" ELSE "next")
  /\ writer = NoThread
  /\ to' = [to EXCEPT ![Main] = Len(list)]
  /\ current' = IF list = <<>> THEN 0 ELSE 1
  /\ UNCHANGED <<eventVars, lockVars, asked, answer, left, copy, total, failures, signalVars>>

StartDump ==
  /\ showDetails
  /\ Goto(Main, "idle", IF list = <<>> THEN "dumped" ELSE "next")
  /\ writer = NoThread
  /\ readers' = [readers EXCEPT ![Main] = @ + 1]
  /\ to' = [to EXCEPT ![Main] = Len(list)]
  /\ current' = IF list = <<>> THEN 0 ELSE 1
  /\ UNCHANGED <<eventVars, writer, mutex, asked, answer, left, copy, total, failures, signalVars>>

\* show_id(current->event->id)
ShowNext ==
  /\ Goto(Main, "next", "rdlock")
  /\ asked' = [asked EXCEPT ![Main] = ShowOf(list[current])]
  /\ UNCHANGED <<eventVars, lockVars, answer, left, failures, walkVars, signalVars>>

Advance ==
  /\ \/ /\ current = to[Main]
        /\ Goto(Main, "advance", "dumped")
        /\ UNCHANGED current
     \/ /\ current # to[Main]
        /\ Goto(Main, "advance", "next")
        /\ current' = current + 1
  /\ UNCHANGED <<eventVars, lockVars, asked, answer, left, copy, to, total, failures, signalVars>>

EndDump ==
  /\ Goto(Main, "dumped", "clear")
  /\ readers' = [readers EXCEPT ![Main] = @ - 1]
  /\ current' = 0
  /\ to' = [to EXCEPT ![Main] = 0]
  /\ owed' = IF to[Main] < owed THEN owed ELSE 0
  /\ UNCHANGED <<eventVars, writer, mutex, asked, answer, left, copy, total, failures, showDetails>>

\* show_details = 0
ClearFlag ==
  /\ Goto(Main, "clear", "idle")
  /\ showDetails' = FALSE
  /\ UNCHANGED <<eventVars, lockVars, asked, answer, left, failures, walkVars, owed>>

-----------------------------------------------------------------------------

\* What a thread does once an operation has begun.
Step(t) ==
  \/ WriteLock(t) \/ SearchFree(t) \/ Link(t) \/ Count(t) \/ WriteUnlock(t)
  \/ ReadLock(t) \/ Search(t) \/ ReadUnlock(t) \/ LockEvent(t) \/ UnlockEvent(t)
  \/ CheckSeats(t) \/ Number(t) \/ Mark(t)
  \/ ReadSeat(t)
  \/ StartList(t) \/ Walk(t) \/ WriteList(t)
  \/ Return(t)

Fails(t) == CreateFails(t) \/ AnswerFails(t) \/ ShowFails(t) \/ ListFails(t)

DumpStep == ShowNext \/ Advance \/ EndDump \/ ClearFlag

Next ==
  \/ \E t \in Workers : Ask(t)
  \/ Signal
  \/ StartDump
  \/ DumpStep
  \/ \E t \in Threads : Step(t) \/ Fails(t)

Spec == Init /\ [][Next]_vars

\* The kernel runs every thread that can run; it prefers none at a lock.
FairSpec == Spec /\ WF_vars(DumpStep) /\ \A t \in Threads : WF_vars(Step(t))

-----------------------------------------------------------------------------
\* Properties.

\* The type of every variable.
TypeOK ==
  /\ list \in Seq(EventIds)
  /\ numEvents \in Nat
  /\ reservations \in [EventIds -> Nat]
  /\ data \in [EventIds -> Seq(Nat)]
  /\ writer \in Threads \cup {NoThread}
  /\ readers \in [Threads -> Nat]
  /\ mutex \in [EventIds -> Threads \cup {NoThread}]
  /\ pc \in [Threads -> {"idle", "wrlock", "searchFree", "link", "count", "wrunlock",
        "rdlock", "search", "rdunlock", "lock", "check", "number", "mark", "read",
        "unlock", "start", "walk", "return", "next", "advance", "dumped", "clear"}]
  /\ asked \in [Threads -> Requests \cup {NoRequest}]
  /\ left \in [Threads -> Seq(Nat)]
  /\ to \in [Threads -> Nat]
  /\ total \in [Threads -> Nat]
  /\ current \in 0..Len(list)
  /\ failures \in 0..MaxFailures
  /\ showDetails \in BOOLEAN
  /\ owed \in 0..Len(list)

\* No two events of the list have the same id, whoever creates them when.
IdsUnique == \A m, n \in DOMAIN list : m # n => list[m] # list[n]

\* list_ids has room for num_events ids; the walk of the list, which ends at the
\* tail, writes no more than that.
ListFits == \A t \in Threads : pc[t] = "walk" => to[t] = total[t] /\ Len(copy[t]) <= total[t]

\* The seats of event e once the reservation under way has marked all of its.
Settled(e) ==
  [s \in DOMAIN data[e] |->
     IF \E t \in Threads : pc[t] = "mark" /\ Id(t) = e /\ s \in Range(left[t])
       THEN reservations[e] ELSE data[e][s]]

\* A reservation's id marks seats of its own, and every id up to the counter is
\* marked: no number is spent on a refusal, given twice, or overwritten.
ReservationsDense ==
  \A e \in Range(list) : Range(Settled(e)) \ {0} = 1..reservations[e]

\* When show_events ends it has printed every event there is: none has been
\* added behind the tail it read at the beginning.
DumpCoversAll == pc[Main] = "dumped" => current = Len(list)

\* When the flag is cleared, every event there was when the last signal came has
\* been shown, also if the signal came during the walk: the walk has the list
\* locked.  (Only a signal that comes after the walk and before the flag is
\* cleared is forgotten.)
SignalsAnswered == ~showDetails => owed = 0

\* The specification that the operations implement.  Create takes effect when
\* the node is linked, reserve when the number is taken.
booked == [e \in EventIds |-> Settled(e)]
outcome == [t \in Threads |-> IF pc[t] \in {"count", "mark"} THEN Done ELSE answer[t]]

Abstract == INSTANCE EventService WITH order <- list, seats <- booked, answer <- outcome

\* Every request takes effect at one instant, or not at all, and its answer
\* tells the state of that instant.
ImplementsService == Abstract!Spec

\* When the clients ask no more, and no signal comes, every operation that has
\* begun returns, unless malloc failed: no lock is kept and no threads wait for
\* each other.
CallsReturn ==
  <>[][\A t \in Threads : pc[t] = "idle" => pc'[t] = "idle"]_vars
    => <>[](failures = 0 => \A t \in Threads : pc[t] = "idle")

=============================================================================
