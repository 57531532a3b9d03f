----------------------- MODULE ServerOperationsProofs -----------------------
(***************************************************************************)
(* What holds of the server's operations for every number of workers and   *)
(* of events, for all requests, whatever calls of malloc fail and whenever *)
(* SIGUSR1 comes; and that they implement EventService.                    *)
(***************************************************************************)
EXTENDS ServerOperations, SequenceTheorems, FiniteSetTheorems, TLAPS

\* The types of answer and copy, which TypeOK leaves out.
LocalsOK ==
  /\ answer = [t \in Threads |-> answer[t]]
  /\ copy \in [Threads -> Seq(Nat \cup EventIds)]

\* Where a request may be.
Placed(t) ==
  /\ pc[t] \in {"idle", "next", "advance", "dumped", "clear"} <=> asked[t] = NoRequest
  /\ pc[t] \in {"wrlock", "searchFree", "link", "count", "wrunlock"} => asked[t].op = "create"
  /\ pc[t] \in {"search", "lock", "unlock"} => asked[t].op \in {"reserve", "show"}
  /\ pc[t] \in {"check", "number", "mark"} => asked[t].op = "reserve"
  /\ pc[t] = "read" => asked[t].op = "show"
  /\ pc[t] \in {"start", "walk"} => asked[t].op = "list"
  /\ pc[t] \in {"rdlock", "rdunlock"} => asked[t].op \in {"reserve", "show", "list"}
  /\ pc[t] \in {"next", "advance", "dumped", "clear"} => t = Main
  /\ t = Main => asked[t] = NoRequest \/ asked[t].op = "show"

\* While show_events walks the list.
Dumping ==
  pc[Main] \in {"next", "rdlock", "search", "rdunlock", "lock", "read", "unlock", "return",
                "advance", "dumped"}

\* What t holds, at least, of the list's rwlock for reading: show_events holds
\* it for the walk.  (A list that fails does not give it back.)
Reading(t) == pc[t] \in {"search", "rdunlock", "start", "walk"}
ReadsAtLeast(t) == (IF Reading(t) THEN 1 ELSE 0) + (IF t = Main /\ Dumping THEN 1 ELSE 0)

\* The thread that creates has the rwlock for writing, and then nobody reads.
Writing(t) == pc[t] \in {"searchFree", "link", "count", "wrunlock"}
WriterOK ==
  /\ \A t \in Threads : Writing(t) <=> writer = t
  /\ writer # NoThread => \A t \in Threads : readers[t] = 0
ReadersOK == \A t \in Threads : readers[t] >= ReadsAtLeast(t)

\* Who has the mutex of an event.  (A show that fails does not give it back.)
Holding(t) == pc[t] \in {"check", "number", "mark", "read", "unlock"}
MutexOK == \A t \in Threads : Holding(t) => mutex[Id(t)] = t

\* What an operation has come to, and where.
Answered(t) ==
  /\ answer[t] # NoAnswer => pc[t] \in {"wrunlock", "rdunlock", "unlock", "return"}
  /\ pc[t] \in {"wrunlock", "unlock"} => answer[t] # NoAnswer
  /\ pc[t] = "rdunlock" /\ answer[t] = NoAnswer => asked[t].op \in {"reserve", "show"}
  /\ pc[t] = "return" /\ answer[t] = NoAnswer => asked[t].op \in {"show", "list"}

\* An event that an operation has found is in the list, one that a create has not
\* found is not, and numEvents lags behind only while an event is being added.
Found(t) ==
  \/ pc[t] = "lock" \/ Holding(t)
  \/ pc[t] = "rdunlock" /\ answer[t] = NoAnswer
FoundOK ==
  \A t \in Threads :
    /\ pc[t] = "link" => Id(t) \notin Range(list)
    /\ Found(t) => Id(t) \in Range(list)
CountOK ==
  /\ \A t \in Threads : pc[t] = "count" => numEvents + 1 = Len(list)
  /\ (\A t \in Threads : pc[t] # "count") => numEvents = Len(list)

\* How far ems_list_events is: it has the list locked.
Walking(t) ==
  /\ pc[t] = "walk" =>
       /\ to[t] = Len(list) /\ total[t] = Len(list)
       /\ Len(copy[t]) <= Len(list)
       /\ \A k \in 1..Len(copy[t]) : copy[t][k] = list[k]
  /\ pc[t] \notin {"walk", "read", "unlock", "rdunlock", "return"} => copy[t] = <<>>
  /\ pc[t] = "rdunlock" /\ asked[t].op # "list" => copy[t] = <<>>

\* How far show_events is: it has the list locked, too.  What it still owes is
\* in the list that it walks.
DumpOK ==
  /\ Dumping => to[Main] = Len(list)
  /\ Dumping /\ pc[Main] # "dumped" => current \in 1..Len(list)
  /\ pc[Main] = "dumped" => current = Len(list)
  /\ ~Dumping => current = 0
  /\ pc[Main] = "clear" \/ ~showDetails => owed = 0

\* What the threads do with an event whose mutex they have.
Seating(t) ==
  /\ pc[t] = "number" => CanReserve(Id(t), asked[t].seats)
  /\ pc[t] = "mark" =>
       /\ left[t] # <<>>
       /\ Range(left[t]) \subseteq DOMAIN data[Id(t)]
  /\ pc[t] = "read" =>
       /\ Len(copy[t]) < Len(data[Id(t)])
       /\ \A k \in 1..Len(copy[t]) : copy[t][k] = data[Id(t)][k]

\* The inductive invariant.
ThreadsOK == \A t \in Threads : Placed(t) /\ Answered(t) /\ Walking(t) /\ Seating(t)
IInv ==
  /\ TypeOK
  /\ LocalsOK
  /\ ThreadsOK
  /\ WriterOK
  /\ ReadersOK
  /\ MutexOK
  /\ IdsUnique
  /\ FoundOK
  /\ CountOK
  /\ DumpOK
  /\ \A e \in Range(list) : data[e] # <<>>
  /\ ReservationsDense

-----------------------------------------------------------------------------

USE ThreadsAssumption DEF eventVars, lockVars, localVars, walkVars, signalVars

\* A step of thread t.
Moves(t) ==
  \/ t \in Workers /\ Ask(t)
  \/ Step(t) \/ Fails(t)
  \/ t = Main /\ (StartDump \/ DumpStep)

\* What the proofs of single steps need of the types.
Shapes ==
  /\ Threads = DOMAIN pc /\ Threads = DOMAIN asked /\ Threads = DOMAIN answer
  /\ Threads = DOMAIN left /\ Threads = DOMAIN copy /\ Threads = DOMAIN to
  /\ Threads = DOMAIN total /\ Threads = DOMAIN readers
  /\ EventIds = DOMAIN mutex /\ EventIds = DOMAIN data /\ EventIds = DOMAIN reservations

\* The types give the shapes.
LEMMA ShapesOK == TypeOK /\ LocalsOK => Shapes
BY DEF TypeOK, LocalsOK, Shapes

\* The main thread is one of the threads.
LEMMA MainIsThread == Main \in Threads
BY DEF Threads

\* What a request is.
LEMMA RequestOf ==
  ASSUME NEW r \in Requests
  PROVE  /\ r.op \in {"create", "reserve", "show", "list"}
         /\ r # NoRequest
         /\ r.op # "list" => r.id \in EventIds
         /\ r.op = "create" => r.size \in Nat \ {0}
         /\ r.op = "reserve" => r.seats \in Seq(Nat) \ {<<>>}
BY RequestsAssumption DEF NoRequest

\* What show_id asks is a request like the clients'.
LEMMA ShowRequest ==
  ASSUME NEW e \in EventIds
  PROVE  ShowOf(e) \in Requests /\ ShowOf(e).op = "show" /\ ShowOf(e).id = e
BY ShowsAssumption DEF ShowOf

\* Answers are told from none.
LEMMA Answers ==
  /\ Refused # NoAnswer /\ Done # NoAnswer
  /\ \A a : <<0, a>> # NoAnswer
  /\ \A a, b : <<0, a, b>> # NoAnswer
BY DEF NoAnswer, Refused, Done

\* What the other threads and the rest of the state see of a step of t.
OthersStay(t) ==
  \A u \in Threads \ {t} :
    /\ pc'[u] = pc[u] /\ asked'[u] = asked[u] /\ answer'[u] = answer[u]
    /\ left'[u] = left[u] /\ copy'[u] = copy[u] /\ to'[u] = to[u] /\ total'[u] = total[u]
    /\ readers'[u] = readers[u]

Effects(t) ==
  /\ Link(t) \/ list' = list
  /\ Count(t) \/ numEvents' = numEvents
  /\ Link(t) \/ Number(t) \/ reservations' = reservations
  /\ Link(t) \/ Mark(t) \/ data' = data
  /\ WriteLock(t) \/ WriteUnlock(t) \/ writer' = writer
  /\ ReadLock(t) \/ ReadUnlock(t) \/ (t = Main /\ (StartDump \/ EndDump)) \/ readers' = readers
  /\ LockEvent(t) \/ UnlockEvent(t) \/ mutex' = mutex
  /\ t = Main \/ UNCHANGED <<current, showDetails, owed>>

\* A step of a thread leaves the other threads where they are.
LEMMA Others ==
  ASSUME NEW t \in Threads, Shapes, Moves(t)
  PROVE  OthersStay(t)
<1> USE DEF Shapes, OthersStay
<1>1. CASE t \in Workers /\ Ask(t)
  BY <1>1 DEF Ask, Goto
<1>2. CASE WriteLock(t)
  BY <1>2 DEF WriteLock, Goto
<1>3. CASE SearchFree(t)
  BY <1>3 DEF SearchFree, Goto, Answer
<1>4. CASE Link(t)
  BY <1>4 DEF Link, Goto
<1>5. CASE Count(t)
  BY <1>5 DEF Count, Goto, Answer
<1>6. CASE WriteUnlock(t)
  BY <1>6 DEF WriteUnlock, Goto
<1>7. CASE ReadLock(t)
  BY <1>7 DEF ReadLock, Goto
<1>8. CASE Search(t)
  BY <1>8 DEF Search, Goto, Answer
<1>9. CASE ReadUnlock(t)
  BY <1>9 DEF ReadUnlock, Goto
<1>10. CASE LockEvent(t)
  BY <1>10 DEF LockEvent, Goto
<1>11. CASE UnlockEvent(t)
  BY <1>11 DEF UnlockEvent, Goto
<1>12. CASE CheckSeats(t)
  BY <1>12 DEF CheckSeats, Goto, Answer
<1>13. CASE Number(t)
  BY <1>13 DEF Number, Goto
<1>14. CASE Mark(t)
  BY <1>14 DEF Mark, Goto, Answer
<1>15. CASE ReadSeat(t)
  BY <1>15 DEF ReadSeat, Goto, Answer
<1>16. CASE StartList(t)
  BY <1>16 DEF StartList, Goto
<1>17. CASE Walk(t)
  BY <1>17 DEF Walk, Goto
<1>18. CASE WriteList(t)
  BY <1>18 DEF WriteList, Goto, Answer
<1>19. CASE Return(t)
  BY <1>19 DEF Return, Goto, Answer
<1>20. CASE CreateFails(t)
  BY <1>20 DEF CreateFails, Goto, Answer
<1>21. CASE AnswerFails(t)
  BY <1>21 DEF AnswerFails, Goto
<1>22. CASE ShowFails(t)
  BY <1>22 DEF ShowFails, Goto
<1>23. CASE ListFails(t)
  BY <1>23 DEF ListFails, Goto
<1>24. CASE t = Main /\ StartDump
  BY <1>24 DEF StartDump, Goto
<1>25. CASE t = Main /\ ShowNext
  BY <1>25 DEF ShowNext, Goto
<1>26. CASE t = Main /\ Advance
  BY <1>26 DEF Advance, Goto
<1>27. CASE t = Main /\ EndDump
  BY <1>27 DEF EndDump, Goto
<1>28. CASE t = Main /\ ClearFlag
  BY <1>28 DEF ClearFlag, Goto
<1> QED
  BY <1>1, <1>2, <1>3, <1>4, <1>5, <1>6, <1>7, <1>8, <1>9, <1>10, <1>11, <1>12,
             <1>13, <1>14, <1>15, <1>16, <1>17, <1>18, <1>19, <1>20, <1>21, <1>22, <1>23,
             <1>24, <1>25, <1>26, <1>27, <1>28 DEF Moves, Step, Fails, DumpStep

\* Each part of the shared state is changed by few steps.
LEMMA Parts ==
  ASSUME NEW t \in Threads, Shapes, Moves(t)
  PROVE  Effects(t)
<1> USE DEF Effects
<1>1. CASE t \in Workers /\ Ask(t)
  BY <1>1 DEF Ask, Goto
<1>2. CASE WriteLock(t)
  BY <1>2 DEF WriteLock, Goto
<1>3. CASE SearchFree(t)
  BY <1>3 DEF SearchFree, Goto, Answer
<1>4. CASE Link(t)
  BY <1>4 DEF Link, Goto
<1>5. CASE Count(t)
  BY <1>5 DEF Count, Goto, Answer
<1>6. CASE WriteUnlock(t)
  BY <1>6 DEF WriteUnlock, Goto
<1>7. CASE ReadLock(t)
  BY <1>7 DEF ReadLock, Goto
<1>8. CASE Search(t)
  BY <1>8 DEF Search, Goto, Answer
<1>9. CASE ReadUnlock(t)
  BY <1>9 DEF ReadUnlock, Goto
<1>10. CASE LockEvent(t)
  BY <1>10 DEF LockEvent, Goto
<1>11. CASE UnlockEvent(t)
  BY <1>11 DEF UnlockEvent, Goto
<1>12. CASE CheckSeats(t)
  BY <1>12 DEF CheckSeats, Goto, Answer
<1>13. CASE Number(t)
  BY <1>13 DEF Number, Goto
<1>14. CASE Mark(t)
  BY <1>14 DEF Mark, Goto, Answer
<1>15. CASE ReadSeat(t)
  BY <1>15 DEF ReadSeat, Goto, Answer
<1>16. CASE StartList(t)
  BY <1>16 DEF StartList, Goto
<1>17. CASE Walk(t)
  BY <1>17 DEF Walk, Goto
<1>18. CASE WriteList(t)
  BY <1>18 DEF WriteList, Goto, Answer
<1>19. CASE Return(t)
  BY <1>19 DEF Return, Goto, Answer
<1>20. CASE CreateFails(t)
  BY <1>20 DEF CreateFails, Goto, Answer
<1>21. CASE AnswerFails(t)
  BY <1>21 DEF AnswerFails, Goto
<1>22. CASE ShowFails(t)
  BY <1>22 DEF ShowFails, Goto
<1>23. CASE ListFails(t)
  BY <1>23 DEF ListFails, Goto
<1>24. CASE t = Main /\ StartDump
  BY <1>24 DEF StartDump, Goto
<1>25. CASE t = Main /\ ShowNext
  BY <1>25 DEF ShowNext, Goto
<1>26. CASE t = Main /\ Advance
  BY <1>26 DEF Advance, Goto
<1>27. CASE t = Main /\ EndDump
  BY <1>27 DEF EndDump, Goto
<1>28. CASE t = Main /\ ClearFlag
  BY <1>28 DEF ClearFlag, Goto
<1> QED
  BY <1>1, <1>2, <1>3, <1>4, <1>5, <1>6, <1>7, <1>8, <1>9, <1>10, <1>11, <1>12,
             <1>13, <1>14, <1>15, <1>16, <1>17, <1>18, <1>19, <1>20, <1>21, <1>22, <1>23,
             <1>24, <1>25, <1>26, <1>27, <1>28 DEF Moves, Step, Fails, DumpStep

\* The place of a request.
LEMMA PlacedOwn ==
  ASSUME NEW t \in Threads, Shapes, Placed(t), Answered(t), Moves(t)
  PROVE  Placed(t)'
<1> USE DEF Shapes, Placed
<1>1. CASE t \in Workers /\ Ask(t)
  <2>1. PICK r \in Requests : /\ Goto(t, "idle", IF r.op = "create" THEN "wrlock" ELSE "rdlock")
                            /\ asked' = [asked EXCEPT ![t] = r]
    BY <1>1 DEF Ask
  <2>2. asked'[t] = r /\ pc'[t] = IF r.op = "create" THEN "wrlock" ELSE "rdlock"
    BY <2>1 DEF Goto
  <2>3. t # Main
    BY <1>1
  <2> QED
    BY <2>2, <2>3, RequestOf
<1>2. CASE WriteLock(t)
  BY <1>2 DEF WriteLock, Goto
<1>3. CASE SearchFree(t)
  BY <1>3 DEF SearchFree, Goto, Answer
<1>4. CASE Link(t)
  BY <1>4 DEF Link, Goto
<1>5. CASE Count(t)
  BY <1>5 DEF Count, Goto, Answer
<1>6. CASE WriteUnlock(t)
  BY <1>6 DEF WriteUnlock, Goto
<1>7. CASE ReadLock(t)
  BY <1>7 DEF ReadLock, Goto
<1>8. CASE Search(t)
  BY <1>8 DEF Search, Goto, Answer
<1>9. CASE ReadUnlock(t)
  BY <1>9 DEF ReadUnlock, Goto, Answered
<1>10. CASE LockEvent(t)
  BY <1>10 DEF LockEvent, Goto
<1>11. CASE UnlockEvent(t)
  BY <1>11 DEF UnlockEvent, Goto
<1>12. CASE CheckSeats(t)
  BY <1>12 DEF CheckSeats, Goto, Answer
<1>13. CASE Number(t)
  BY <1>13 DEF Number, Goto
<1>14. CASE Mark(t)
  BY <1>14 DEF Mark, Goto, Answer
<1>15. CASE ReadSeat(t)
  BY <1>15 DEF ReadSeat, Goto, Answer
<1>16. CASE StartList(t)
  BY <1>16 DEF StartList, Goto
<1>17. CASE Walk(t)
  BY <1>17 DEF Walk, Goto
<1>18. CASE WriteList(t)
  BY <1>18 DEF WriteList, Goto, Answer
<1>19. CASE Return(t)
  BY <1>19 DEF Return, Goto, Answer
<1>20. CASE CreateFails(t)
  BY <1>20 DEF CreateFails, Goto, Answer
<1>21. CASE AnswerFails(t)
  BY <1>21 DEF AnswerFails, Goto
<1>22. CASE ShowFails(t)
  BY <1>22 DEF ShowFails, Goto
<1>23. CASE ListFails(t)
  BY <1>23 DEF ListFails, Goto
<1>24. CASE t = Main /\ StartDump
  BY <1>24 DEF StartDump, Goto
<1>25. CASE t = Main /\ ShowNext
  <2>1. asked'[Main] = ShowOf(list[current]) /\ pc'[Main] = "rdlock"
    BY <1>25 DEF ShowNext, Goto
  <2>2. ShowOf(list[current]).op = "show" /\ ShowOf(list[current]) # NoRequest
    BY DEF ShowOf, NoRequest
  <2> QED
    BY <1>25, <2>1, <2>2
<1>26. CASE t = Main /\ Advance
  BY <1>26 DEF Advance, Goto
<1>27. CASE t = Main /\ EndDump
  BY <1>27 DEF EndDump, Goto
<1>28. CASE t = Main /\ ClearFlag
  BY <1>28 DEF ClearFlag, Goto
<1> QED
  BY <1>1, <1>2, <1>3, <1>4, <1>5, <1>6, <1>7, <1>8, <1>9, <1>10, <1>11, <1>12,
             <1>13, <1>14, <1>15, <1>16, <1>17, <1>18, <1>19, <1>20, <1>21, <1>22, <1>23,
             <1>24, <1>25, <1>26, <1>27, <1>28 DEF Moves, Step, Fails, DumpStep

\* The answers.
LEMMA AnsweredOwn ==
  ASSUME NEW t \in Threads, Shapes, Placed(t), Answered(t), Moves(t)
  PROVE  Answered(t)'
<1> USE Answers DEF Shapes, Answered
<1>1. CASE t \in Workers /\ Ask(t)
  BY <1>1 DEF Ask, Goto
<1>2. CASE WriteLock(t)
  BY <1>2 DEF WriteLock, Goto
<1>3. CASE SearchFree(t)
  BY <1>3 DEF SearchFree, Goto, Answer
<1>4. CASE Link(t)
  BY <1>4 DEF Link, Goto
<1>5. CASE Count(t)
  BY <1>5 DEF Count, Goto, Answer
<1>6. CASE WriteUnlock(t)
  BY <1>6 DEF WriteUnlock, Goto
<1>7. CASE ReadLock(t)
  BY <1>7 DEF ReadLock, Goto
<1>8. CASE Search(t)
  BY <1>8 DEF Search, Goto, Answer, Placed
<1>9. CASE ReadUnlock(t)
  BY <1>9 DEF ReadUnlock, Goto, Placed
<1>10. CASE LockEvent(t)
  BY <1>10 DEF LockEvent, Goto
<1>11. CASE UnlockEvent(t)
  BY <1>11 DEF UnlockEvent, Goto
<1>12. CASE CheckSeats(t)
  BY <1>12 DEF CheckSeats, Goto, Answer
<1>13. CASE Number(t)
  BY <1>13 DEF Number, Goto
<1>14. CASE Mark(t)
  BY <1>14 DEF Mark, Goto, Answer
<1>15. CASE ReadSeat(t)
  BY <1>15 DEF ReadSeat, Goto, Answer
<1>16. CASE StartList(t)
  BY <1>16 DEF StartList, Goto
<1>17. CASE Walk(t)
  BY <1>17 DEF Walk, Goto
<1>18. CASE WriteList(t)
  BY <1>18 DEF WriteList, Goto, Answer, Placed
<1>19. CASE Return(t)
  BY <1>19 DEF Return, Goto, Answer
<1>20. CASE CreateFails(t)
  BY <1>20 DEF CreateFails, Goto, Answer
<1>21. CASE AnswerFails(t)
  BY <1>21 DEF AnswerFails, Goto, Placed
<1>22. CASE ShowFails(t)
  BY <1>22 DEF ShowFails, Goto, Placed
<1>23. CASE ListFails(t)
  BY <1>23 DEF ListFails, Goto, Placed
<1>24. CASE t = Main /\ StartDump
  BY <1>24 DEF StartDump, Goto
<1>25. CASE t = Main /\ ShowNext
  BY <1>25 DEF ShowNext, Goto
<1>26. CASE t = Main /\ Advance
  BY <1>26 DEF Advance, Goto
<1>27. CASE t = Main /\ EndDump
  BY <1>27 DEF EndDump, Goto
<1>28. CASE t = Main /\ ClearFlag
  BY <1>28 DEF ClearFlag, Goto
<1> QED
  BY <1>1, <1>2, <1>3, <1>4, <1>5, <1>6, <1>7, <1>8, <1>9, <1>10, <1>11, <1>12,
             <1>13, <1>14, <1>15, <1>16, <1>17, <1>18, <1>19, <1>20, <1>21, <1>22, <1>23,
             <1>24, <1>25, <1>26, <1>27, <1>28 DEF Moves, Step, Fails, DumpStep

\* The event that an operation is for.
LEMMA EventOf ==
  ASSUME TypeOK, NEW t \in Threads, asked[t].op \in {"create", "reserve", "show"}
  PROVE  asked[t] \in Requests /\ Id(t) \in EventIds
<1>1. asked[t] \in Requests
  BY DEF TypeOK, NoRequest
<1> QED
  BY <1>1, RequestOf DEF Id

\* So is the event at the steps that deal with one.
LEMMA EventAt ==
  ASSUME TypeOK, NEW t \in Threads, Placed(t),
         Writing(t) \/ Holding(t) \/ pc[t] \in {"search", "lock"}
  PROVE  Id(t) \in EventIds
BY EventOf DEF Placed, Writing, Holding

\* A thread that reads has the rwlock.
LEMMA ReadsWhile ==
  ASSUME TypeOK, ReadersOK, NEW t \in Threads, Reading(t) \/ (t = Main /\ Dumping)
  PROVE  readers[t] > 0
<1>1. readers[t] \in Nat /\ readers[t] >= ReadsAtLeast(t)
  BY DEF TypeOK, ReadersOK
<1>2. ReadsAtLeast(t) \in 1..2
  BY DEF ReadsAtLeast
<1> QED
  BY <1>1, <1>2

\* The first element of a sequence is one of its elements.
LEMMA RangeOfHead ==
  ASSUME NEW S, NEW s \in Seq(S), s # <<>>
  PROVE  Head(s) \in Range(s)
BY DEF Range

\* The types.
LEMMA TypeKept ==
  ASSUME NEW t \in Threads, TypeOK, Placed(t), Seating(t), ReadersOK, DumpOK, Moves(t)
  PROVE  TypeOK'
<1> USE DEF TypeOK
<1>1. CASE t \in Workers /\ Ask(t)
  <2>1. asked' \in [Threads -> Requests \cup {NoRequest}]
    BY <1>1 DEF Ask
  <2>2. pc' = [pc EXCEPT ![t] = "wrlock"] \/ pc' = [pc EXCEPT ![t] = "rdlock"]
    BY <1>1 DEF Ask, Goto
  <2> QED
    BY <1>1, <2>1, <2>2 DEF Ask
<1>2. CASE WriteLock(t)
  BY <1>2 DEF WriteLock, Goto
<1>3. CASE SearchFree(t)
  BY <1>3 DEF SearchFree, Goto, Answer
<1>4. CASE Link(t)
  <2>1. asked[t].op = "create" /\ Id(t) \in EventIds
    BY <1>4, EventAt DEF Link, Goto, Placed, Writing
  <2>2. asked[t].size \in Nat \ {0}
    BY <2>1, EventOf, RequestOf
  <2>3. [s \in 1..asked[t].size |-> 0] \in Seq(Nat)
    BY <2>2
  <2>4. data' \in [EventIds -> Seq(Nat)]
    BY <1>4, <2>3 DEF Link
  <2>5. list' \in Seq(EventIds) /\ Len(list') = Len(list) + 1
    BY <1>4, <2>1 DEF Link
  <2>6. current \in 0..Len(list') /\ owed \in 0..Len(list')
    BY <2>5
  <2> QED
    BY <1>4, <2>4, <2>5, <2>6 DEF Link, Goto
<1>5. CASE Count(t)
  BY <1>5 DEF Count, Goto, Answer
<1>6. CASE WriteUnlock(t)
  BY <1>6 DEF WriteUnlock, Goto
<1>7. CASE ReadLock(t)
  <2>1. readers' \in [Threads -> Nat]
    BY <1>7 DEF ReadLock
  <2>2. pc' = [pc EXCEPT ![t] = "start"] \/ pc' = [pc EXCEPT ![t] = "search"]
    BY <1>7 DEF ReadLock, Goto
  <2> QED
    BY <1>7, <2>1, <2>2 DEF ReadLock
<1>8. CASE Search(t)
  BY <1>8 DEF Search, Goto, Answer
<1>9. CASE ReadUnlock(t)
  <2>1. readers[t] > 0
    BY <1>9, ReadsWhile DEF ReadUnlock, Goto, Reading
  <2>2. readers' \in [Threads -> Nat]
    BY <1>9, <2>1 DEF ReadUnlock
  <2>3. pc' = [pc EXCEPT ![t] = "lock"] \/ pc' = [pc EXCEPT ![t] = "return"]
    BY <1>9 DEF ReadUnlock, Goto
  <2> QED
    BY <1>9, <2>2, <2>3 DEF ReadUnlock
<1>10. CASE LockEvent(t)
  BY <1>10 DEF LockEvent, Goto
<1>11. CASE UnlockEvent(t)
  BY <1>11 DEF UnlockEvent, Goto
<1>12. CASE CheckSeats(t)
  BY <1>12 DEF CheckSeats, Goto, Answer
<1>13. CASE Number(t)
  <2>1. asked[t].op = "reserve"
    BY <1>13 DEF Number, Goto, Placed
  <2>2. asked[t].seats \in Seq(Nat)
    BY <2>1, EventOf, RequestOf
  <2>3. reservations' \in [EventIds -> Nat]
    <3>1. Id(t) \in EventIds
      BY <1>13, EventAt DEF Number, Goto, Holding
    <3>2. reservations[Id(t)] + 1 \in Nat
      BY <3>1
    <3> QED
      BY <1>13, <3>2 DEF Number
  <2>4. left' \in [Threads -> Seq(Nat)]
    BY <1>13, <2>2 DEF Number
  <2> QED
    BY <1>13, <2>3, <2>4 DEF Number, Goto
<1>14. CASE Mark(t)
  <2>1. pc[t] = "mark" /\ Id(t) \in EventIds
    BY <1>14, EventAt DEF Mark, Goto, Holding
  <2> DEFINE s == Head(left[t])
  <2>2. left[t] \in Seq(Nat) /\ left[t] # <<>> /\ s \in DOMAIN data[Id(t)]
    BY <2>1, HeadTailProperties, RangeOfHead DEF Seating
  <2>3. data[Id(t)] \in Seq(Nat) /\ reservations[Id(t)] \in Nat
    BY <2>1
  <2>4. [data[Id(t)] EXCEPT ![s] = reservations[Id(t)]] \in Seq(Nat)
    <3>0. DOMAIN data[Id(t)] = 1..Len(data[Id(t)])
      BY <2>3, LenProperties
    <3>1. s \in 1..Len(data[Id(t)])
      BY <2>2, <3>0
    <3> QED
      BY <2>3, <3>1, ExceptSeq
  <2>5. data' \in [EventIds -> Seq(Nat)]
    BY <1>14, <2>4 DEF Mark
  <2>6. left' \in [Threads -> Seq(Nat)]
    BY <1>14, <2>2, HeadTailProperties DEF Mark
  <2>7. pc' = [pc EXCEPT ![t] = "unlock"] \/ pc' = [pc EXCEPT ![t] = "mark"]
    BY <1>14 DEF Mark, Goto
  <2> QED
    BY <1>14, <2>5, <2>6, <2>7 DEF Mark
<1>15. CASE ReadSeat(t)
  BY <1>15 DEF ReadSeat, Goto, Answer
<1>16. CASE StartList(t)
  BY <1>16 DEF StartList, Goto
<1>17. CASE Walk(t)
  BY <1>17 DEF Walk, Goto
<1>18. CASE WriteList(t)
  BY <1>18 DEF WriteList, Goto, Answer
<1>19. CASE Return(t)
  <2>1. to' \in [Threads -> Nat] /\ total' \in [Threads -> Nat]
    BY <1>19 DEF Return
  <2>2. pc' = [pc EXCEPT ![t] = "advance"] \/ pc' = [pc EXCEPT ![t] = "idle"]
    BY <1>19 DEF Return, Goto
  <2> QED
    BY <1>19, <2>1, <2>2 DEF Return
<1>20. CASE CreateFails(t)
  <2>1. failures' \in 0..MaxFailures
    BY <1>20, BoundsAssumption DEF CreateFails
  <2> QED
    BY <1>20, <2>1 DEF CreateFails, Goto
<1>21. CASE AnswerFails(t)
  <2>1. failures' \in 0..MaxFailures
    BY <1>21, BoundsAssumption DEF AnswerFails
  <2> QED
    BY <1>21, <2>1 DEF AnswerFails, Goto
<1>22. CASE ShowFails(t)
  <2>1. failures' \in 0..MaxFailures
    BY <1>22, BoundsAssumption DEF ShowFails
  <2> QED
    BY <1>22, <2>1 DEF ShowFails, Goto
<1>23. CASE ListFails(t)
  <2>1. failures' \in 0..MaxFailures
    BY <1>23, BoundsAssumption DEF ListFails
  <2> QED
    BY <1>23, <2>1 DEF ListFails, Goto
<1>24. CASE t = Main /\ StartDump
  <2>1. readers' \in [Threads -> Nat] /\ to' \in [Threads -> Nat] /\ current' \in 0..Len(list)
    BY <1>24 DEF StartDump
  <2>2. pc' = [pc EXCEPT ![Main] = "dumped"] \/ pc' = [pc EXCEPT ![Main] = "next"]
    BY <1>24 DEF StartDump, Goto
  <2> QED
    BY <1>24, <2>1, <2>2 DEF StartDump
<1>25. CASE t = Main /\ ShowNext
  <2>1. pc[Main] = "next" /\ current \in 1..Len(list)
    BY <1>25 DEF ShowNext, Goto, DumpOK, Dumping
  <2>2. list[current] \in EventIds
    BY <2>1
  <2>3. ShowOf(list[current]) \in Requests
    BY <2>2, ShowRequest
  <2> QED
    BY <1>25, <2>3 DEF ShowNext, Goto
<1>26. CASE t = Main /\ Advance
  <2>1. pc[Main] = "advance" /\ current \in 1..Len(list) /\ to[Main] = Len(list)
    BY <1>26 DEF Advance, Goto, DumpOK, Dumping
  <2>2. current' \in 0..Len(list)
    BY <1>26, <2>1 DEF Advance
  <2>3. pc' = [pc EXCEPT ![Main] = "dumped"] \/ pc' = [pc EXCEPT ![Main] = "next"]
    BY <1>26 DEF Advance, Goto
  <2> QED
    BY <1>26, <2>2, <2>3 DEF Advance
<1>27. CASE t = Main /\ EndDump
  <2>1. readers[Main] > 0
    BY <1>27, ReadsWhile, MainIsThread DEF EndDump, Goto, Dumping
  <2>2. readers[Main] - 1 \in Nat
    BY <2>1, MainIsThread
  <2>4. readers' \in [Threads -> Nat]
    BY <1>27, <2>2 DEF EndDump
  <2>3. to' \in [Threads -> Nat] /\ owed' \in 0..Len(list) /\ current' \in 0..Len(list)
    BY <1>27 DEF EndDump
  <2> QED
    BY <1>27, <2>3, <2>4 DEF EndDump, Goto
<1>28. CASE t = Main /\ ClearFlag
  BY <1>28 DEF ClearFlag, Goto
<1> QED
  BY <1>1, <1>2, <1>3, <1>4, <1>5, <1>6, <1>7, <1>8, <1>9, <1>10, <1>11, <1>12,
             <1>13, <1>14, <1>15, <1>16, <1>17, <1>18, <1>19, <1>20, <1>21, <1>22, <1>23,
             <1>24, <1>25, <1>26, <1>27, <1>28 DEF Moves, Step, Fails, DumpStep

\* The types of answer and copy.
LEMMA LocalsKept ==
  ASSUME NEW t \in Threads, TypeOK, LocalsOK, Placed(t), Seating(t), Walking(t), Moves(t)
  PROVE  LocalsOK'
<1> USE DEF LocalsOK
<1>1. CASE t \in Workers /\ Ask(t)
  BY <1>1 DEF Ask, Goto
<1>2. CASE WriteLock(t)
  BY <1>2 DEF WriteLock, Goto
<1>3. CASE SearchFree(t)
  BY <1>3 DEF SearchFree, Goto, Answer
<1>4. CASE Link(t)
  BY <1>4 DEF Link, Goto
<1>5. CASE Count(t)
  BY <1>5 DEF Count, Goto, Answer
<1>6. CASE WriteUnlock(t)
  BY <1>6 DEF WriteUnlock, Goto
<1>7. CASE ReadLock(t)
  BY <1>7 DEF ReadLock, Goto
<1>8. CASE Search(t)
  BY <1>8 DEF Search, Goto, Answer
<1>9. CASE ReadUnlock(t)
  BY <1>9 DEF ReadUnlock, Goto
<1>10. CASE LockEvent(t)
  BY <1>10 DEF LockEvent, Goto
<1>11. CASE UnlockEvent(t)
  BY <1>11 DEF UnlockEvent, Goto
<1>12. CASE CheckSeats(t)
  BY <1>12 DEF CheckSeats, Goto, Answer
<1>13. CASE Number(t)
  BY <1>13 DEF Number, Goto
<1>14. CASE Mark(t)
  BY <1>14 DEF Mark, Goto, Answer
<1>15. CASE ReadSeat(t)
  <2>1. pc[t] = "read" /\ Id(t) \in EventIds
    BY <1>15, EventAt DEF ReadSeat, Goto, Holding
  <2>2. Len(copy[t]) + 1 \in 1..Len(data[Id(t)]) /\ data[Id(t)] \in Seq(Nat)
    BY <2>1 DEF Seating, TypeOK
  <2>3. data[Id(t)][Len(copy[t]) + 1] \in Nat \cup EventIds
    BY <2>2
  <2>4. copy' \in [Threads -> Seq(Nat \cup EventIds)]
    BY <1>15, <2>3 DEF ReadSeat
  <2> QED
    BY <1>15, <2>4 DEF ReadSeat, Answer
<1>16. CASE StartList(t)
  BY <1>16 DEF StartList, Goto
<1>17. CASE Walk(t)
  <2>1. pc[t] = "walk" /\ Len(copy[t]) + 1 \in 1..Len(list) /\ list \in Seq(EventIds)
    BY <1>17 DEF Walk, Goto, Walking, TypeOK
  <2>2. list[Len(copy[t]) + 1] \in Nat \cup EventIds
    BY <2>1
  <2>3. copy' \in [Threads -> Seq(Nat \cup EventIds)]
    BY <1>17, <2>2 DEF Walk
  <2> QED
    BY <1>17, <2>3 DEF Walk
<1>18. CASE WriteList(t)
  BY <1>18 DEF WriteList, Goto, Answer
<1>19. CASE Return(t)
  <2>1. copy' \in [Threads -> Seq(Nat \cup EventIds)]
    BY <1>19, EmptySeq DEF Return
  <2> QED
    BY <1>19, <2>1 DEF Return, Answer
<1>20. CASE CreateFails(t)
  BY <1>20 DEF CreateFails, Goto, Answer
<1>21. CASE AnswerFails(t)
  BY <1>21 DEF AnswerFails, Goto
<1>22. CASE ShowFails(t)
  BY <1>22 DEF ShowFails, Goto
<1>23. CASE ListFails(t)
  BY <1>23 DEF ListFails, Goto
<1>24. CASE t = Main /\ StartDump
  BY <1>24 DEF StartDump, Goto
<1>25. CASE t = Main /\ ShowNext
  BY <1>25 DEF ShowNext, Goto
<1>26. CASE t = Main /\ Advance
  BY <1>26 DEF Advance, Goto
<1>27. CASE t = Main /\ EndDump
  BY <1>27 DEF EndDump, Goto
<1>28. CASE t = Main /\ ClearFlag
  BY <1>28 DEF ClearFlag, Goto
<1> QED
  BY <1>1, <1>2, <1>3, <1>4, <1>5, <1>6, <1>7, <1>8, <1>9, <1>10, <1>11, <1>12,
             <1>13, <1>14, <1>15, <1>16, <1>17, <1>18, <1>19, <1>20, <1>21, <1>22, <1>23,
             <1>24, <1>25, <1>26, <1>27, <1>28 DEF Moves, Step, Fails, DumpStep

\* Who has the rwlock for writing.
LEMMA WritingOwn ==
  ASSUME NEW t \in Threads, Shapes, WriterOK, Moves(t)
  PROVE  Writing(t)' <=> writer' = t
<1> USE DEF Shapes, WriterOK, Writing
<1>1. CASE t \in Workers /\ Ask(t)
  BY <1>1 DEF Ask, Goto
<1>2. CASE WriteLock(t)
  BY <1>2 DEF WriteLock, Goto
<1>3. CASE SearchFree(t)
  BY <1>3 DEF SearchFree, Goto, Answer
<1>4. CASE Link(t)
  BY <1>4 DEF Link, Goto
<1>5. CASE Count(t)
  BY <1>5 DEF Count, Goto, Answer
<1>6. CASE WriteUnlock(t)
  BY <1>6 DEF WriteUnlock, Goto
<1>7. CASE ReadLock(t)
  BY <1>7 DEF ReadLock, Goto
<1>8. CASE Search(t)
  BY <1>8 DEF Search, Goto, Answer
<1>9. CASE ReadUnlock(t)
  BY <1>9 DEF ReadUnlock, Goto
<1>10. CASE LockEvent(t)
  BY <1>10 DEF LockEvent, Goto
<1>11. CASE UnlockEvent(t)
  BY <1>11 DEF UnlockEvent, Goto
<1>12. CASE CheckSeats(t)
  BY <1>12 DEF CheckSeats, Goto, Answer
<1>13. CASE Number(t)
  BY <1>13 DEF Number, Goto
<1>14. CASE Mark(t)
  BY <1>14 DEF Mark, Goto, Answer
<1>15. CASE ReadSeat(t)
  BY <1>15 DEF ReadSeat, Goto, Answer
<1>16. CASE StartList(t)
  BY <1>16 DEF StartList, Goto
<1>17. CASE Walk(t)
  BY <1>17 DEF Walk, Goto
<1>18. CASE WriteList(t)
  BY <1>18 DEF WriteList, Goto, Answer
<1>19. CASE Return(t)
  BY <1>19 DEF Return, Goto, Answer
<1>20. CASE CreateFails(t)
  BY <1>20 DEF CreateFails, Goto, Answer
<1>21. CASE AnswerFails(t)
  BY <1>21 DEF AnswerFails, Goto
<1>22. CASE ShowFails(t)
  BY <1>22 DEF ShowFails, Goto
<1>23. CASE ListFails(t)
  BY <1>23 DEF ListFails, Goto
<1>24. CASE t = Main /\ StartDump
  BY <1>24 DEF StartDump, Goto
<1>25. CASE t = Main /\ ShowNext
  BY <1>25 DEF ShowNext, Goto
<1>26. CASE t = Main /\ Advance
  BY <1>26 DEF Advance, Goto
<1>27. CASE t = Main /\ EndDump
  BY <1>27 DEF EndDump, Goto
<1>28. CASE t = Main /\ ClearFlag
  BY <1>28 DEF ClearFlag, Goto
<1> QED
  BY <1>1, <1>2, <1>3, <1>4, <1>5, <1>6, <1>7, <1>8, <1>9, <1>10, <1>11, <1>12,
             <1>13, <1>14, <1>15, <1>16, <1>17, <1>18, <1>19, <1>20, <1>21, <1>22, <1>23,
             <1>24, <1>25, <1>26, <1>27, <1>28 DEF Moves, Step, Fails, DumpStep

\* One thread writes, and then nobody reads: a read lock waits for the writer, a write
\* lock for every reader.
LEMMA WriterKept ==
  ASSUME NEW t \in Threads, TypeOK, Shapes, OthersStay(t), Effects(t), WriterOK, ReadersOK,
         Moves(t)
  PROVE  WriterOK'
<1>1. ASSUME NEW u \in Threads, u # t
      PROVE  Writing(u)' <=> writer' = u
  <2>1. pc'[u] = pc[u] /\ (Writing(u) <=> writer = u)
    BY <1>1 DEF OthersStay, WriterOK
  <2>2. Writing(u)' <=> Writing(u)
    BY <2>1 DEF Writing
  <2>3. CASE WriteLock(t)
    BY <1>1, <2>1, <2>2, <2>3 DEF WriteLock, Threads
  <2>4. CASE WriteUnlock(t)
    BY <1>1, <2>1, <2>2, <2>4 DEF WriteUnlock, Goto, WriterOK, Writing, Threads
  <2>5. CASE writer' = writer
    BY <2>1, <2>2, <2>5
  <2> QED
    BY <2>3, <2>4, <2>5 DEF Effects
<1>2. Writing(t)' <=> writer' = t
  BY WritingOwn
<1>3. ASSUME NEW u \in Threads, writer' # NoThread
      PROVE  readers'[u] = 0
  <2>1. CASE WriteLock(t)
    BY <2>1 DEF WriteLock
  <2>2. CASE ReadLock(t) \/ (t = Main /\ StartDump)
    BY <1>3, <2>2 DEF ReadLock, StartDump
  <2>3. CASE ReadUnlock(t)
    <3>1. readers[t] > 0 /\ writer # NoThread
      BY <1>3, <2>3, ReadsWhile DEF ReadUnlock, Goto, Reading
    <3> QED
      BY <3>1 DEF WriterOK
  <2>4. CASE t = Main /\ EndDump
    <3>1. readers[t] > 0 /\ writer # NoThread
      BY <1>3, <2>4, ReadsWhile DEF EndDump, Goto, Dumping
    <3> QED
      BY <3>1 DEF WriterOK
  <2>5. CASE readers' = readers /\ ~WriteLock(t)
    <3>1. writer # NoThread
      BY <1>3, <2>5 DEF Effects, WriteUnlock
    <3> QED
      BY <2>5, <3>1 DEF WriterOK
  <2> QED
    BY <2>1, <2>2, <2>3, <2>4, <2>5 DEF Effects
<1> QED
  BY <1>1, <1>2, <1>3 DEF WriterOK

\* Who has the rwlock for reading.
LEMMA ReadsOwn ==
  ASSUME NEW t \in Threads, TypeOK, Shapes, Placed(t), ReadersOK, readers[t] \in Nat,
         readers[t] >= ReadsAtLeast(t), Moves(t)
  PROVE  readers'[t] >= ReadsAtLeast(t)'
<1> USE DEF Shapes, Placed, ReadsAtLeast, Reading, Dumping
<1>1. CASE t \in Workers /\ Ask(t)
  BY <1>1 DEF Ask, Goto, Threads
<1>2. CASE WriteLock(t)
  BY <1>2 DEF WriteLock, Goto
<1>3. CASE SearchFree(t)
  BY <1>3 DEF SearchFree, Goto, Answer
<1>4. CASE Link(t)
  BY <1>4 DEF Link, Goto
<1>5. CASE Count(t)
  BY <1>5 DEF Count, Goto, Answer
<1>6. CASE WriteUnlock(t)
  BY <1>6 DEF WriteUnlock, Goto
<1>7. CASE ReadLock(t)
  BY <1>7 DEF ReadLock, Goto
<1>8. CASE Search(t)
  BY <1>8 DEF Search, Goto, Answer
<1>9. CASE ReadUnlock(t)
  <2>1. pc[t] = "rdunlock" /\ pc'[t] \in {"lock", "return"} /\ readers'[t] = readers[t] - 1
    BY <1>9 DEF ReadUnlock, Goto
  <2> QED
    BY <1>9, <2>1
<1>10. CASE LockEvent(t)
  BY <1>10 DEF LockEvent, Goto
<1>11. CASE UnlockEvent(t)
  BY <1>11 DEF UnlockEvent, Goto
<1>12. CASE CheckSeats(t)
  BY <1>12 DEF CheckSeats, Goto, Answer
<1>13. CASE Number(t)
  BY <1>13 DEF Number, Goto
<1>14. CASE Mark(t)
  BY <1>14 DEF Mark, Goto, Answer
<1>15. CASE ReadSeat(t)
  BY <1>15 DEF ReadSeat, Goto, Answer
<1>16. CASE StartList(t)
  BY <1>16 DEF StartList, Goto
<1>17. CASE Walk(t)
  BY <1>17 DEF Walk, Goto
<1>18. CASE WriteList(t)
  BY <1>18 DEF WriteList, Goto, Answer
<1>19. CASE Return(t)
  BY <1>19 DEF Return, Goto, Answer
<1>20. CASE CreateFails(t)
  BY <1>20 DEF CreateFails, Goto, Answer
<1>21. CASE AnswerFails(t)
  BY <1>21 DEF AnswerFails, Goto
<1>22. CASE ShowFails(t)
  BY <1>22 DEF ShowFails, Goto
<1>23. CASE ListFails(t)
  BY <1>23 DEF ListFails, Goto
<1>24. CASE t = Main /\ StartDump
  BY <1>24 DEF StartDump, Goto
<1>25. CASE t = Main /\ ShowNext
  BY <1>25 DEF ShowNext, Goto
<1>26. CASE t = Main /\ Advance
  BY <1>26 DEF Advance, Goto
<1>27. CASE t = Main /\ EndDump
  <2>1. t = Main /\ pc[t] = "dumped" /\ pc'[t] = "clear" /\ readers'[t] = readers[t] - 1
    BY <1>27 DEF EndDump, Goto
  <2> QED
    BY <2>1
<1>28. CASE t = Main /\ ClearFlag
  BY <1>28 DEF ClearFlag, Goto
<1> QED
  BY <1>1, <1>2, <1>3, <1>4, <1>5, <1>6, <1>7, <1>8, <1>9, <1>10, <1>11, <1>12,
             <1>13, <1>14, <1>15, <1>16, <1>17, <1>18, <1>19, <1>20, <1>21, <1>22, <1>23,
             <1>24, <1>25, <1>26, <1>27, <1>28 DEF Moves, Step, Fails, DumpStep

\* Nobody releases the rwlock while it still counts on it.
LEMMA ReadersKept ==
  ASSUME NEW t \in Threads, TypeOK, Shapes, OthersStay(t), Placed(t), ReadersOK, Moves(t)
  PROVE  ReadersOK'
<1>1. readers[t] \in Nat /\ readers[t] >= ReadsAtLeast(t)
  BY DEF TypeOK, ReadersOK
<1>2. readers'[t] >= ReadsAtLeast(t)'
  BY <1>1, ReadsOwn
<1>3. ASSUME NEW u \in Threads, u # t
      PROVE  readers'[u] >= ReadsAtLeast(u)'
  <2>1. pc'[u] = pc[u] /\ readers'[u] = readers[u]
    BY <1>3 DEF OthersStay
  <2>2. ReadsAtLeast(u)' = ReadsAtLeast(u)
    BY <2>1 DEF ReadsAtLeast, Reading, Dumping
  <2> QED
    BY <2>1, <2>2 DEF ReadersOK
<1> QED
  BY <1>2, <1>3 DEF ReadersOK

\* Who has the mutex of an event.
LEMMA HoldsOwn ==
  ASSUME NEW t \in Threads, Shapes, Placed(t), Holding(t) => mutex[Id(t)] = t,
         pc[t] = "lock" => Id(t) \in EventIds, Moves(t)
  PROVE  Holding(t)' => mutex'[Id(t)'] = t
<1> USE DEF Shapes, Holding, Id
<1>1. CASE t \in Workers /\ Ask(t)
  BY <1>1 DEF Ask, Goto
<1>2. CASE WriteLock(t)
  BY <1>2 DEF WriteLock, Goto
<1>3. CASE SearchFree(t)
  BY <1>3 DEF SearchFree, Goto, Answer
<1>4. CASE Link(t)
  BY <1>4 DEF Link, Goto
<1>5. CASE Count(t)
  BY <1>5 DEF Count, Goto, Answer
<1>6. CASE WriteUnlock(t)
  BY <1>6 DEF WriteUnlock, Goto
<1>7. CASE ReadLock(t)
  BY <1>7 DEF ReadLock, Goto
<1>8. CASE Search(t)
  BY <1>8 DEF Search, Goto, Answer
<1>9. CASE ReadUnlock(t)
  BY <1>9 DEF ReadUnlock, Goto
<1>10. CASE LockEvent(t)
  BY <1>10 DEF LockEvent, Goto
<1>11. CASE UnlockEvent(t)
  BY <1>11 DEF UnlockEvent, Goto
<1>12. CASE CheckSeats(t)
  BY <1>12 DEF CheckSeats, Goto, Answer
<1>13. CASE Number(t)
  BY <1>13 DEF Number, Goto
<1>14. CASE Mark(t)
  BY <1>14 DEF Mark, Goto, Answer
<1>15. CASE ReadSeat(t)
  BY <1>15 DEF ReadSeat, Goto, Answer
<1>16. CASE StartList(t)
  BY <1>16 DEF StartList, Goto
<1>17. CASE Walk(t)
  BY <1>17 DEF Walk, Goto
<1>18. CASE WriteList(t)
  BY <1>18 DEF WriteList, Goto, Answer
<1>19. CASE Return(t)
  BY <1>19 DEF Return, Goto, Answer
<1>20. CASE CreateFails(t)
  BY <1>20 DEF CreateFails, Goto, Answer
<1>21. CASE AnswerFails(t)
  BY <1>21 DEF AnswerFails, Goto
<1>22. CASE ShowFails(t)
  BY <1>22 DEF ShowFails, Goto
<1>23. CASE ListFails(t)
  BY <1>23 DEF ListFails, Goto
<1>24. CASE t = Main /\ StartDump
  BY <1>24 DEF StartDump, Goto
<1>25. CASE t = Main /\ ShowNext
  BY <1>25 DEF ShowNext, Goto
<1>26. CASE t = Main /\ Advance
  BY <1>26 DEF Advance, Goto
<1>27. CASE t = Main /\ EndDump
  BY <1>27 DEF EndDump, Goto
<1>28. CASE t = Main /\ ClearFlag
  BY <1>28 DEF ClearFlag, Goto
<1> QED
  BY <1>1, <1>2, <1>3, <1>4, <1>5, <1>6, <1>7, <1>8, <1>9, <1>10, <1>11, <1>12,
             <1>13, <1>14, <1>15, <1>16, <1>17, <1>18, <1>19, <1>20, <1>21, <1>22, <1>23,
             <1>24, <1>25, <1>26, <1>27, <1>28 DEF Moves, Step, Fails, DumpStep

\* The mutex of an event is given to who finds it free, and taken from who has it.
LEMMA MutexKept ==
  ASSUME NEW t \in Threads, TypeOK, Shapes, OthersStay(t), Effects(t), Placed(t), MutexOK,
         Moves(t)
  PROVE  MutexOK'
<1>1. Holding(t)' => mutex'[Id(t)'] = t
  <2>1. pc[t] = "lock" => Id(t) \in EventIds
    BY EventAt
  <2> QED
    BY <2>1, HoldsOwn DEF MutexOK
<1>2. ASSUME NEW u \in Threads, u # t, Holding(u)'
      PROVE  mutex'[Id(u)'] = u
  <2>1. Holding(u) /\ mutex[Id(u)] = u /\ Id(u)' = Id(u)
    BY <1>2 DEF OthersStay, Holding, Id, MutexOK
  <2>2. CASE LockEvent(t)
    BY <2>1, <2>2 DEF LockEvent, Shapes
  <2>3. CASE UnlockEvent(t)
    <3>1. mutex[Id(t)] = t
      BY <2>3 DEF UnlockEvent, Goto, MutexOK, Holding
    <3> QED
      BY <1>2, <2>1, <2>3, <3>1 DEF UnlockEvent
  <2> QED
    BY <2>1, <2>2, <2>3 DEF Effects
<1> QED
  BY <1>1, <1>2 DEF MutexOK

\* What an append adds.
LEMMA RangeOfAppend ==
  ASSUME NEW S, NEW s \in Seq(S), NEW e \in S
  PROVE  Range(Append(s, e)) = Range(s) \cup {e}
<1> DEFINE a == Append(s, e)
<1>1. /\ a \in Seq(S) /\ Len(a) = Len(s) + 1 /\ a[Len(s) + 1] = e
      /\ \A k \in 1..Len(s) : a[k] = s[k]
  BY AppendProperties
<1>2. DOMAIN s = 1..Len(s) /\ DOMAIN a = 1..(Len(s) + 1) /\ Len(s) \in Nat
  BY <1>1, LenProperties
<1> QED
  BY <1>1, <1>2 DEF Range

\* The list holds ids.
LEMMA RangeInIds ==
  ASSUME TypeOK
  PROVE  \A e \in Range(list) : e \in EventIds
BY LenProperties DEF TypeOK, Range

\* The list grows, by an event that was not there, and its writer alone does it.
LEMMA Grows ==
  ASSUME NEW t \in Threads, TypeOK, Placed(t), FoundOK, Link(t)
  PROVE  /\ Id(t) \in EventIds /\ Id(t) \notin Range(list)
         /\ list' \in Seq(EventIds) /\ Len(list') = Len(list) + 1
         /\ \A k \in 1..Len(list) : list'[k] = list[k]
         /\ list'[Len(list) + 1] = Id(t)
         /\ Range(list') = Range(list) \cup {Id(t)}
<1>1. Id(t) \in EventIds /\ Id(t) \notin Range(list) /\ list' = Append(list, Id(t))
  BY EventAt DEF Link, Goto, FoundOK, Writing
<1> QED
  BY <1>1, AppendProperties, RangeOfAppend DEF TypeOK

\* No id is added that is there.
LEMMA IdsKept ==
  ASSUME NEW t \in Threads, TypeOK, Effects(t), Placed(t), FoundOK, IdsUnique
  PROVE  IdsUnique'
<1>1. CASE Link(t)
  <2>1. DOMAIN list = 1..Len(list) /\ DOMAIN list' = 1..(Len(list) + 1) /\ Len(list) \in Nat
    BY <1>1, Grows, LenProperties DEF TypeOK
  <2>2. \A k \in 1..Len(list) : list[k] # Id(t)
    BY <1>1, <2>1, Grows DEF Range
  <2> QED
    BY <1>1, <2>1, <2>2, Grows DEF IdsUnique
<1>2. CASE list' = list
  BY <1>2 DEF IdsUnique
<1> QED
  BY <1>1, <1>2 DEF Effects

\* An event that create has not found.
LEMMA FoundOwn ==
  ASSUME NEW t \in Threads, TypeOK, Shapes, Placed(t), Answered(t), FoundOK, Moves(t)
  PROVE  (pc[t] = "link")' => (Id(t) \notin Range(list))'
<1> USE DEF Shapes, Id
<1>1. CASE t \in Workers /\ Ask(t)
  BY <1>1 DEF Ask, Goto
<1>2. CASE WriteLock(t)
  BY <1>2 DEF WriteLock, Goto
<1>3. CASE SearchFree(t)
  BY <1>3 DEF SearchFree, Goto, Answer, InList, Range
<1>4. CASE Link(t)
  BY <1>4 DEF Link, Goto
<1>5. CASE Count(t)
  BY <1>5 DEF Count, Goto, Answer
<1>6. CASE WriteUnlock(t)
  BY <1>6 DEF WriteUnlock, Goto
<1>7. CASE ReadLock(t)
  BY <1>7 DEF ReadLock, Goto
<1>8. CASE Search(t)
  BY <1>8 DEF Search, Goto, Answer
<1>9. CASE ReadUnlock(t)
  BY <1>9 DEF ReadUnlock, Goto
<1>10. CASE LockEvent(t)
  BY <1>10 DEF LockEvent, Goto
<1>11. CASE UnlockEvent(t)
  BY <1>11 DEF UnlockEvent, Goto
<1>12. CASE CheckSeats(t)
  BY <1>12 DEF CheckSeats, Goto, Answer
<1>13. CASE Number(t)
  BY <1>13 DEF Number, Goto
<1>14. CASE Mark(t)
  BY <1>14 DEF Mark, Goto, Answer
<1>15. CASE ReadSeat(t)
  BY <1>15 DEF ReadSeat, Goto, Answer
<1>16. CASE StartList(t)
  BY <1>16 DEF StartList, Goto
<1>17. CASE Walk(t)
  BY <1>17 DEF Walk, Goto
<1>18. CASE WriteList(t)
  BY <1>18 DEF WriteList, Goto, Answer
<1>19. CASE Return(t)
  BY <1>19 DEF Return, Goto, Answer
<1>20. CASE CreateFails(t)
  BY <1>20 DEF CreateFails, Goto, Answer
<1>21. CASE AnswerFails(t)
  BY <1>21 DEF AnswerFails, Goto
<1>22. CASE ShowFails(t)
  BY <1>22 DEF ShowFails, Goto
<1>23. CASE ListFails(t)
  BY <1>23 DEF ListFails, Goto
<1>24. CASE t = Main /\ StartDump
  BY <1>24 DEF StartDump, Goto
<1>25. CASE t = Main /\ ShowNext
  BY <1>25 DEF ShowNext, Goto
<1>26. CASE t = Main /\ Advance
  BY <1>26 DEF Advance, Goto
<1>27. CASE t = Main /\ EndDump
  BY <1>27 DEF EndDump, Goto
<1>28. CASE t = Main /\ ClearFlag
  BY <1>28 DEF ClearFlag, Goto
<1> QED
  BY <1>1, <1>2, <1>3, <1>4, <1>5, <1>6, <1>7, <1>8, <1>9, <1>10, <1>11, <1>12,
             <1>13, <1>14, <1>15, <1>16, <1>17, <1>18, <1>19, <1>20, <1>21, <1>22, <1>23,
             <1>24, <1>25, <1>26, <1>27, <1>28 DEF Moves, Step, Fails, DumpStep

\* An event that an operation has found.
LEMMA FoundOwn2 ==
  ASSUME NEW t \in Threads, TypeOK, Shapes, Placed(t), Answered(t),
         Found(t) => Id(t) \in Range(list), Moves(t)
  PROVE  Found(t)' => (Id(t) \in Range(list))'
<1> USE Answers DEF Shapes, Found, Holding, Id, InList, Answered
<1>1. CASE t \in Workers /\ Ask(t)
  BY <1>1 DEF Ask, Goto
<1>2. CASE WriteLock(t)
  BY <1>2 DEF WriteLock, Goto
<1>3. CASE SearchFree(t)
  BY <1>3 DEF SearchFree, Goto, Answer
<1>4. CASE Link(t)
  BY <1>4 DEF Link, Goto
<1>5. CASE Count(t)
  BY <1>5 DEF Count, Goto, Answer
<1>6. CASE WriteUnlock(t)
  BY <1>6 DEF WriteUnlock, Goto
<1>7. CASE ReadLock(t)
  BY <1>7 DEF ReadLock, Goto
<1>8. CASE Search(t)
  BY <1>8 DEF Search, Goto, Answer
<1>9. CASE ReadUnlock(t)
  BY <1>9 DEF ReadUnlock, Goto
<1>10. CASE LockEvent(t)
  BY <1>10 DEF LockEvent, Goto
<1>11. CASE UnlockEvent(t)
  BY <1>11 DEF UnlockEvent, Goto
<1>12. CASE CheckSeats(t)
  BY <1>12 DEF CheckSeats, Goto, Answer
<1>13. CASE Number(t)
  BY <1>13 DEF Number, Goto
<1>14. CASE Mark(t)
  BY <1>14 DEF Mark, Goto, Answer
<1>15. CASE ReadSeat(t)
  BY <1>15 DEF ReadSeat, Goto, Answer
<1>16. CASE StartList(t)
  BY <1>16 DEF StartList, Goto
<1>17. CASE Walk(t)
  BY <1>17 DEF Walk, Goto
<1>18. CASE WriteList(t)
  BY <1>18 DEF WriteList, Goto, Answer
<1>19. CASE Return(t)
  BY <1>19 DEF Return, Goto, Answer
<1>20. CASE CreateFails(t)
  BY <1>20 DEF CreateFails, Goto, Answer
<1>21. CASE AnswerFails(t)
  BY <1>21 DEF AnswerFails, Goto
<1>22. CASE ShowFails(t)
  BY <1>22 DEF ShowFails, Goto
<1>23. CASE ListFails(t)
  BY <1>23 DEF ListFails, Goto
<1>24. CASE t = Main /\ StartDump
  BY <1>24 DEF StartDump, Goto
<1>25. CASE t = Main /\ ShowNext
  BY <1>25 DEF ShowNext, Goto
<1>26. CASE t = Main /\ Advance
  BY <1>26 DEF Advance, Goto
<1>27. CASE t = Main /\ EndDump
  BY <1>27 DEF EndDump, Goto
<1>28. CASE t = Main /\ ClearFlag
  BY <1>28 DEF ClearFlag, Goto
<1> QED
  BY <1>1, <1>2, <1>3, <1>4, <1>5, <1>6, <1>7, <1>8, <1>9, <1>10, <1>11, <1>12,
             <1>13, <1>14, <1>15, <1>16, <1>17, <1>18, <1>19, <1>20, <1>21, <1>22, <1>23,
             <1>24, <1>25, <1>26, <1>27, <1>28 DEF Moves, Step, Fails, DumpStep

\* What a search has found stays true after its lock is released: events are never taken
\* out, and none is added while a create is between its search and its append.
LEMMA FoundKept ==
  ASSUME NEW t \in Threads, TypeOK, Shapes, OthersStay(t), Effects(t), Placed(t), Answered(t),
         WriterOK, FoundOK, Moves(t)
  PROVE  FoundOK'
<1>1. Range(list) \subseteq Range(list')
  BY Grows DEF Effects
<1>2. ASSUME NEW u \in Threads, u # t
      PROVE  /\ (pc[u] = "link")' => (Id(u) \notin Range(list))'
             /\ Found(u)' => (Id(u) \in Range(list))'
  <2>1. pc'[u] = pc[u] /\ Id(u)' = Id(u) /\ (Found(u)' <=> Found(u))
    BY <1>2 DEF OthersStay, Id, Found, Holding
  <2>2. pc[u] = "link" => list' = list
    BY <1>2 DEF Effects, Link, Goto, WriterOK, Writing
  <2> QED
    BY <1>1, <2>1, <2>2 DEF FoundOK
<1>3. (pc[t] = "link")' => (Id(t) \notin Range(list))'
  BY FoundOwn
<1>4. Found(t)' => (Id(t) \in Range(list))'
  BY FoundOwn2 DEF FoundOK
<1> QED
  BY <1>2, <1>3, <1>4 DEF FoundOK

\* Who is adding an event.
LEMMA CountsOwn ==
  ASSUME NEW t \in Threads, Shapes, Moves(t)
  PROVE  \/ Link(t) \/ Count(t)
         \/ pc'[t] = "count" <=> pc[t] = "count"
<1> USE DEF Shapes
<1>1. CASE t \in Workers /\ Ask(t)
  BY <1>1 DEF Ask, Goto
<1>2. CASE WriteLock(t)
  BY <1>2 DEF WriteLock, Goto
<1>3. CASE SearchFree(t)
  BY <1>3 DEF SearchFree, Goto, Answer
<1>4. CASE Link(t)
  BY <1>4
<1>5. CASE Count(t)
  BY <1>5
<1>6. CASE WriteUnlock(t)
  BY <1>6 DEF WriteUnlock, Goto
<1>7. CASE ReadLock(t)
  BY <1>7 DEF ReadLock, Goto
<1>8. CASE Search(t)
  BY <1>8 DEF Search, Goto, Answer
<1>9. CASE ReadUnlock(t)
  BY <1>9 DEF ReadUnlock, Goto
<1>10. CASE LockEvent(t)
  BY <1>10 DEF LockEvent, Goto
<1>11. CASE UnlockEvent(t)
  BY <1>11 DEF UnlockEvent, Goto
<1>12. CASE CheckSeats(t)
  BY <1>12 DEF CheckSeats, Goto, Answer
<1>13. CASE Number(t)
  BY <1>13 DEF Number, Goto
<1>14. CASE Mark(t)
  BY <1>14 DEF Mark, Goto, Answer
<1>15. CASE ReadSeat(t)
  BY <1>15 DEF ReadSeat, Goto, Answer
<1>16. CASE StartList(t)
  BY <1>16 DEF StartList, Goto
<1>17. CASE Walk(t)
  BY <1>17 DEF Walk, Goto
<1>18. CASE WriteList(t)
  BY <1>18 DEF WriteList, Goto, Answer
<1>19. CASE Return(t)
  BY <1>19 DEF Return, Goto, Answer
<1>20. CASE CreateFails(t)
  BY <1>20 DEF CreateFails, Goto, Answer
<1>21. CASE AnswerFails(t)
  BY <1>21 DEF AnswerFails, Goto
<1>22. CASE ShowFails(t)
  BY <1>22 DEF ShowFails, Goto
<1>23. CASE ListFails(t)
  BY <1>23 DEF ListFails, Goto
<1>24. CASE t = Main /\ StartDump
  BY <1>24 DEF StartDump, Goto
<1>25. CASE t = Main /\ ShowNext
  BY <1>25 DEF ShowNext, Goto
<1>26. CASE t = Main /\ Advance
  BY <1>26 DEF Advance, Goto
<1>27. CASE t = Main /\ EndDump
  BY <1>27 DEF EndDump, Goto
<1>28. CASE t = Main /\ ClearFlag
  BY <1>28 DEF ClearFlag, Goto
<1> QED
  BY <1>1, <1>2, <1>3, <1>4, <1>5, <1>6, <1>7, <1>8, <1>9, <1>10, <1>11, <1>12,
             <1>13, <1>14, <1>15, <1>16, <1>17, <1>18, <1>19, <1>20, <1>21, <1>22, <1>23,
             <1>24, <1>25, <1>26, <1>27, <1>28 DEF Moves, Step, Fails, DumpStep

\* numEvents lags behind the list only while its writer is between the two steps.
LEMMA CountKept ==
  ASSUME NEW t \in Threads, TypeOK, Shapes, OthersStay(t), Effects(t), Placed(t), WriterOK,
         FoundOK, CountOK, Moves(t)
  PROVE  CountOK'
<1>1. \A u \in Threads \ {t} : pc'[u] = pc[u]
  BY DEF OthersStay
<1>2. Writing(t) => \A u \in Threads \ {t} : pc[u] # "count"
  BY DEF WriterOK, Writing
<1>3. CASE Link(t)
  <2>1. pc[t] = "link" /\ pc'[t] = "count" /\ numEvents' = numEvents
    BY <1>3 DEF Link, Goto, Shapes
  <2>2. numEvents = Len(list)
    BY <1>2, <2>1 DEF CountOK, Writing
  <2> QED
    BY <1>3, <2>1, <2>2, Grows DEF CountOK
<1>4. CASE Count(t)
  <2>1. pc[t] = "count" /\ pc'[t] = "wrunlock" /\ numEvents' = numEvents + 1 /\ list' = list
    BY <1>4 DEF Count, Goto, Shapes
  <2>2. \A u \in Threads : pc'[u] # "count"
    BY <1>1, <1>2, <2>1 DEF Writing
  <2> QED
    BY <2>1, <2>2 DEF CountOK
<1>5. CASE ~Link(t) /\ ~Count(t)
  <2>1. list' = list /\ numEvents' = numEvents /\ (pc'[t] = "count" <=> pc[t] = "count")
    BY <1>5, CountsOwn DEF Effects
  <2> QED
    BY <1>1, <2>1 DEF CountOK
<1> QED
  BY <1>3, <1>4, <1>5

\* The list is not added to while anyone reads it.
LEMMA ListStays ==
  ASSUME NEW t \in Threads, TypeOK, Effects(t), WriterOK, ReadersOK,
         NEW u \in Threads, Reading(u) \/ (u = Main /\ Dumping)
  PROVE  list' = list
<1>1. readers[u] > 0
  BY ReadsWhile
<1>2. ~Link(t)
  BY <1>1 DEF Link, Goto, WriterOK, Writing
<1> QED
  BY <1>2 DEF Effects

\* How far a list is.
LEMMA WalkingOwn ==
  ASSUME NEW t \in Threads, TypeOK, LocalsOK, Shapes, Placed(t), Answered(t), Walking(t),
         pc[t] = "start" => numEvents = Len(list), Moves(t)
  PROVE  Walking(t)'
<1> USE DEF Shapes, Walking
<1>1. CASE t \in Workers /\ Ask(t)
  BY <1>1 DEF Ask, Goto
<1>2. CASE WriteLock(t)
  BY <1>2 DEF WriteLock, Goto
<1>3. CASE SearchFree(t)
  BY <1>3 DEF SearchFree, Goto, Answer
<1>4. CASE Link(t)
  BY <1>4 DEF Link, Goto
<1>5. CASE Count(t)
  BY <1>5 DEF Count, Goto, Answer
<1>6. CASE WriteUnlock(t)
  BY <1>6 DEF WriteUnlock, Goto
<1>7. CASE ReadLock(t)
  BY <1>7 DEF ReadLock, Goto
<1>8. CASE Search(t)
  BY <1>8 DEF Search, Goto, Answer
<1>9. CASE ReadUnlock(t)
  BY <1>9 DEF ReadUnlock, Goto, Answered
<1>10. CASE LockEvent(t)
  BY <1>10 DEF LockEvent, Goto
<1>11. CASE UnlockEvent(t)
  BY <1>11 DEF UnlockEvent, Goto
<1>12. CASE CheckSeats(t)
  BY <1>12 DEF CheckSeats, Goto, Answer
<1>13. CASE Number(t)
  BY <1>13 DEF Number, Goto
<1>14. CASE Mark(t)
  BY <1>14 DEF Mark, Goto, Answer
<1>15. CASE ReadSeat(t)
  BY <1>15 DEF ReadSeat, Goto, Answer
<1>16. CASE StartList(t)
  <2>1. pc'[t] = "walk" /\ copy'[t] = <<>> /\ to'[t] = Len(list) /\ total'[t] = Len(list) /\ list' = list
    BY <1>16 DEF StartList, Goto
  <2>2. list \in Seq(EventIds)
    BY DEF TypeOK
  <2> QED
    BY <2>1, <2>2
<1>17. CASE Walk(t)
  <2>1. copy[t] \in Seq(Nat \cup EventIds) /\ list \in Seq(EventIds) /\ to[t] \in Nat
    BY DEF TypeOK, LocalsOK
  <2>2. pc[t] = "walk" /\ Len(copy[t]) < Len(list) /\ list' = list
    BY <1>17 DEF Walk, Goto
  <2>3. list[Len(copy[t]) + 1] \in Nat \cup EventIds
    BY <2>1, <2>2
  <2>4. /\ Len(copy'[t]) = Len(copy[t]) + 1
        /\ \A k \in 1..Len(copy[t]) : copy'[t][k] = copy[t][k]
        /\ copy'[t][Len(copy[t]) + 1] = list[Len(copy[t]) + 1]
    <3>1. copy'[t] = Append(copy[t], list[Len(copy[t]) + 1])
      BY <1>17 DEF Walk
    <3> QED
      BY <2>1, <2>3, <3>1, AppendProperties
  <2>5. pc'[t] = "walk" /\ to' = to /\ total' = total /\ asked' = asked
    BY <1>17 DEF Walk, Goto
  <2> QED
    BY <2>1, <2>2, <2>4, <2>5
<1>18. CASE WriteList(t)
  BY <1>18 DEF WriteList, Goto, Answer, Placed
<1>19. CASE Return(t)
  BY <1>19 DEF Return, Goto, Answer
<1>20. CASE CreateFails(t)
  BY <1>20 DEF CreateFails, Goto, Answer
<1>21. CASE AnswerFails(t)
  BY <1>21 DEF AnswerFails, Goto
<1>22. CASE ShowFails(t)
  BY <1>22 DEF ShowFails, Goto
<1>23. CASE ListFails(t)
  BY <1>23 DEF ListFails, Goto
<1>24. CASE t = Main /\ StartDump
  BY <1>24 DEF StartDump, Goto
<1>25. CASE t = Main /\ ShowNext
  BY <1>25 DEF ShowNext, Goto
<1>26. CASE t = Main /\ Advance
  BY <1>26 DEF Advance, Goto
<1>27. CASE t = Main /\ EndDump
  BY <1>27 DEF EndDump, Goto
<1>28. CASE t = Main /\ ClearFlag
  BY <1>28 DEF ClearFlag, Goto
<1> QED
  BY <1>1, <1>2, <1>3, <1>4, <1>5, <1>6, <1>7, <1>8, <1>9, <1>10, <1>11, <1>12,
             <1>13, <1>14, <1>15, <1>16, <1>17, <1>18, <1>19, <1>20, <1>21, <1>22, <1>23,
             <1>24, <1>25, <1>26, <1>27, <1>28 DEF Moves, Step, Fails, DumpStep

\* Every walk sees the list that it began with.
LEMMA WalkingKept ==
  ASSUME NEW t \in Threads, TypeOK, LocalsOK, Shapes, OthersStay(t), Effects(t), ThreadsOK,
         WriterOK, ReadersOK, CountOK, Moves(t)
  PROVE  \A u \in Threads : Walking(u)'
<1>1. Walking(t)'
  <2>1. pc[t] = "start" => readers[t] > 0
    BY ReadsWhile DEF Reading
  <2>2. pc[t] = "start" => numEvents = Len(list)
    BY <2>1 DEF WriterOK, Writing, CountOK
  <2> QED
    BY <2>2, WalkingOwn DEF ThreadsOK
<1>2. ASSUME NEW u \in Threads, u # t
      PROVE  Walking(u)'
  <2>1. /\ pc'[u] = pc[u] /\ copy'[u] = copy[u] /\ to'[u] = to[u] /\ total'[u] = total[u]
        /\ asked'[u] = asked[u]
    BY <1>2 DEF OthersStay
  <2>2. pc[u] = "walk" => list' = list
    BY ListStays DEF Reading
  <2>3. Walking(u)
    BY DEF ThreadsOK
  <2> QED
    BY <2>1, <2>2, <2>3 DEF Walking
<1> QED
  BY <1>1, <1>2

\* How far show_events is.
LEMMA DumpOwn ==
  ASSUME NEW t \in Threads, TypeOK, Shapes, Placed(t), DumpOK, t = Main, current \in Nat,
         owed \in 0..Len(list), list \in Seq(EventIds), Moves(t)
  PROVE  DumpOK'
<1> USE DEF Shapes, DumpOK, Dumping
<1>1. CASE t \in Workers /\ Ask(t)
  BY <1>1 DEF Ask, Goto, Threads
<1>2. CASE WriteLock(t)
  BY <1>2 DEF WriteLock, Goto, Placed
<1>3. CASE SearchFree(t)
  BY <1>3 DEF SearchFree, Goto, Answer, Placed
<1>4. CASE Link(t)
  <2>1. asked[t].op = "create" /\ asked[t] # NoRequest
    BY <1>4, EventAt, EventOf, RequestOf DEF Link, Goto, Placed, Writing
  <2> QED
    BY <2>1 DEF Placed
<1>5. CASE Count(t)
  BY <1>5 DEF Count, Goto, Answer
<1>6. CASE WriteUnlock(t)
  BY <1>6 DEF WriteUnlock, Goto, Placed
<1>7. CASE ReadLock(t)
  BY <1>7 DEF ReadLock, Goto, Placed
<1>8. CASE Search(t)
  BY <1>8 DEF Search, Goto, Answer
<1>9. CASE ReadUnlock(t)
  BY <1>9 DEF ReadUnlock, Goto
<1>10. CASE LockEvent(t)
  BY <1>10 DEF LockEvent, Goto, Placed
<1>11. CASE UnlockEvent(t)
  BY <1>11 DEF UnlockEvent, Goto
<1>12. CASE CheckSeats(t)
  BY <1>12 DEF CheckSeats, Goto, Answer, Placed
<1>13. CASE Number(t)
  BY <1>13 DEF Number, Goto
<1>14. CASE Mark(t)
  BY <1>14 DEF Mark, Goto, Answer, Placed
<1>15. CASE ReadSeat(t)
  BY <1>15 DEF ReadSeat, Goto, Answer
<1>16. CASE StartList(t)
  BY <1>16 DEF StartList, Goto, Placed
<1>17. CASE Walk(t)
  BY <1>17 DEF Walk, Goto, Placed
<1>18. CASE WriteList(t)
  BY <1>18 DEF WriteList, Goto, Answer, Placed
<1>19. CASE Return(t)
  BY <1>19 DEF Return, Goto, Answer
<1>20. CASE CreateFails(t)
  BY <1>20 DEF CreateFails, Goto, Answer
<1>21. CASE AnswerFails(t)
  BY <1>21 DEF AnswerFails, Goto
<1>22. CASE ShowFails(t)
  BY <1>22 DEF ShowFails, Goto
<1>23. CASE ListFails(t)
  BY <1>23 DEF ListFails, Goto, Placed
<1>24. CASE t = Main /\ StartDump
  <2>1. CASE list = <<>>
    <3>1. pc'[t] = "dumped" /\ current' = 0 /\ to'[t] = 0 /\ list' = list /\ pc[t] = "idle"
      BY <1>24, <2>1 DEF StartDump, Goto
    <3>2. showDetails' = showDetails /\ owed' = owed /\ showDetails
      BY <1>24 DEF StartDump
    <3> QED
      BY <1>24, <2>1, <3>1, <3>2
  <2>2. CASE list # <<>>
    <3>1. pc'[t] = "next" /\ current' = 1 /\ to'[t] = Len(list) /\ list' = list /\ pc[t] = "idle"
      BY <1>24, <2>2 DEF StartDump, Goto
    <3>2. showDetails' = showDetails /\ owed' = owed /\ showDetails
      BY <1>24 DEF StartDump
    <3>3. 1 \in 1..Len(list)
      BY <2>2
    <3> QED
      BY <1>24, <3>1, <3>2, <3>3
  <2> QED
    BY <2>1, <2>2
<1>25. CASE t = Main /\ ShowNext
  BY <1>25 DEF ShowNext, Goto
<1>26. CASE t = Main /\ Advance
  <2>1. pc[t] = "advance" /\ pc'[t] \in {"dumped", "next"} /\ list' = list /\ to' = to
    BY <1>26 DEF Advance, Goto
  <2>2. to[t] = Len(list) /\ current \in 1..Len(list)
    BY <1>26, <2>1
  <2>3. pc'[t] = "dumped" => current' = Len(list)
    BY <1>26, <2>2 DEF Advance, Goto
  <2>4. pc'[t] = "next" => current' \in 1..Len(list)
    BY <1>26, <2>2 DEF Advance, Goto
  <2>5. showDetails' = showDetails /\ owed' = owed
    BY <1>26 DEF Advance
  <2> QED
    BY <1>26, <2>1, <2>2, <2>3, <2>4, <2>5
<1>27. CASE t = Main /\ EndDump
  <2>1. /\ pc[t] = "dumped" /\ pc'[t] = "clear" /\ list' = list
        /\ current' = 0 /\ owed' = IF to[t] < owed THEN owed ELSE 0
    BY <1>27 DEF EndDump, Goto
  <2>2. to[t] = Len(list)
    BY <1>27, <2>1
  <2>3. owed' = 0
    BY <2>1, <2>2
  <2> QED
    BY <1>27, <2>1, <2>3
<1>28. CASE t = Main /\ ClearFlag
  BY <1>28 DEF ClearFlag, Goto
<1> QED
  BY <1>1, <1>2, <1>3, <1>4, <1>5, <1>6, <1>7, <1>8, <1>9, <1>10, <1>11, <1>12,
             <1>13, <1>14, <1>15, <1>16, <1>17, <1>18, <1>19, <1>20, <1>21, <1>22, <1>23,
             <1>24, <1>25, <1>26, <1>27, <1>28 DEF Moves, Step, Fails, DumpStep

\* So does show_events.
LEMMA DumpKept ==
  ASSUME NEW t \in Threads, TypeOK, Shapes, OthersStay(t), Effects(t), Placed(t), WriterOK,
         ReadersOK, FoundOK, DumpOK, Moves(t)
  PROVE  DumpOK'
<1>1. CASE t = Main
  BY <1>1, DumpOwn DEF TypeOK
<1>2. CASE t # Main
  <2>1. /\ pc'[Main] = pc[Main] /\ to'[Main] = to[Main]
        /\ current' = current /\ showDetails' = showDetails /\ owed' = owed
    BY <1>2, MainIsThread DEF OthersStay, Effects
  <2>2. Dumping => list' = list
    BY ListStays, MainIsThread
  <2> QED
    BY <2>1, <2>2 DEF DumpOK, Dumping
<1> QED
  BY <1>1, <1>2

\* A sequence's first element and the others are its elements.
LEMMA RangeOfTail ==
  ASSUME NEW S, NEW s \in Seq(S), s # <<>>
  PROVE  /\ Range(s) = {Head(s)} \cup Range(Tail(s))
         /\ Len(s) = 1 <=> Tail(s) = <<>>
<1> DEFINE r == Tail(s)
<1>1. /\ r \in Seq(S) /\ Len(r) = Len(s) - 1 /\ Len(s) \in Nat \ {0}
      /\ \A k \in 1..Len(r) : r[k] = s[k + 1]
      /\ Head(s) = s[1]
  BY HeadTailProperties, EmptySeq
<1>2. DOMAIN s = 1..Len(s) /\ DOMAIN r = 1..(Len(s) - 1)
  BY <1>1, LenProperties
<1> HIDE DEF r
<1>3. Range(s) = {s[1]} \cup Range(r)
  <2>1. ASSUME NEW x \in Range(s) PROVE x \in {s[1]} \cup Range(r)
    <3>1. PICK k \in 1..Len(s) : x = s[k]
      BY <2>1, <1>2 DEF Range
    <3>2. k # 1 => k - 1 \in 1..(Len(s) - 1) /\ r[k - 1] = s[k]
      BY <1>1
    <3> QED
      BY <1>2, <3>1, <3>2 DEF Range
  <2>2. ASSUME NEW x \in Range(r) PROVE x \in Range(s)
    <3>1. PICK k \in 1..(Len(s) - 1) : x = r[k]
      BY <2>2, <1>2 DEF Range
    <3>2. k + 1 \in 1..Len(s) /\ r[k] = s[k + 1]
      BY <1>1
    <3> QED
      BY <1>2, <3>1, <3>2 DEF Range
  <2>3. s[1] \in Range(s)
    BY <1>1, <1>2 DEF Range
  <2> QED
    BY <2>1, <2>2, <2>3
<1>4. Len(s) = 1 <=> r = <<>>
  BY <1>1, EmptySeq
<1> QED
  BY <1>1, <1>3, <1>4 DEF r

\* A mutex keeps the others from the seats of its event.
LEMMA SeatsStay ==
  ASSUME NEW t \in Threads, TypeOK, Shapes, Effects(t), Placed(t), MutexOK, FoundOK,
         NEW u \in Threads, u # t, Holding(u)
  PROVE  /\ data'[Id(u)] = data[Id(u)]
         /\ Link(t) \/ reservations'[Id(u)] = reservations[Id(u)]
<1>1. mutex[Id(u)] = u /\ Id(u) \in Range(list)
  BY DEF MutexOK, FoundOK, Found
<1>2. Link(t) => Id(t) # Id(u)
  BY <1>1, Grows
<1>3. Mark(t) \/ Number(t) => Id(t) # Id(u)
  BY <1>1 DEF MutexOK, Holding, Mark, Number, Goto
<1>4. Link(t) \/ Mark(t) => data'[Id(u)] = data[Id(u)]
  <2>1. Id(u) \in DOMAIN data
    BY <1>1, RangeInIds DEF Shapes
  <2>2. CASE Link(t)
    BY <1>2, <2>1, <2>2 DEF Link
  <2>3. CASE Mark(t)
    BY <1>3, <2>1, <2>3 DEF Mark
  <2> QED
    BY <2>2, <2>3
<1>5. Number(t) => reservations'[Id(u)] = reservations[Id(u)]
  BY <1>3 DEF Number
<1> QED
  BY <1>4, <1>5 DEF Effects

\* What a thread does with the seats.
LEMMA SeatingOwn ==
  ASSUME NEW t \in Threads, TypeOK, LocalsOK, Shapes, Placed(t), Walking(t), Seating(t),
         pc[t] = "lock" => data[Id(t)] # <<>>, Moves(t)
  PROVE  Seating(t)'
<1> USE DEF Shapes, Seating
<1>1. CASE t \in Workers /\ Ask(t)
  BY <1>1 DEF Ask, Goto
<1>2. CASE WriteLock(t)
  BY <1>2 DEF WriteLock, Goto
<1>3. CASE SearchFree(t)
  BY <1>3 DEF SearchFree, Goto, Answer
<1>4. CASE Link(t)
  BY <1>4 DEF Link, Goto
<1>5. CASE Count(t)
  BY <1>5 DEF Count, Goto, Answer
<1>6. CASE WriteUnlock(t)
  BY <1>6 DEF WriteUnlock, Goto
<1>7. CASE ReadLock(t)
  BY <1>7 DEF ReadLock, Goto
<1>8. CASE Search(t)
  BY <1>8 DEF Search, Goto, Answer
<1>9. CASE ReadUnlock(t)
  BY <1>9 DEF ReadUnlock, Goto
<1>10. CASE LockEvent(t)
  <2>1. /\ pc[t] = "lock" /\ pc'[t] \in {"read", "check"} /\ asked' = asked /\ data' = data
        /\ copy'[t] = <<>>
    BY <1>10 DEF LockEvent, Goto, Walking
  <2>2. data[Id(t)] \in Seq(Nat) /\ data[Id(t)] # <<>>
    BY <2>1, EventAt DEF TypeOK
  <2>3. Len(data[Id(t)]) > 0
    BY <2>2
  <2> QED
    BY <2>1, <2>3 DEF Id
<1>11. CASE UnlockEvent(t)
  BY <1>11 DEF UnlockEvent, Goto
<1>12. CASE CheckSeats(t)
  BY <1>12 DEF CheckSeats, Goto, Answer, CanReserve, Id
<1>13. CASE Number(t)
  <2>1. /\ pc[t] = "number" /\ pc'[t] = "mark" /\ asked' = asked /\ data' = data
        /\ left'[t] = asked[t].seats
    BY <1>13 DEF Number, Goto
  <2>2. asked[t].seats \in Seq(Nat) \ {<<>>}
    BY <2>1, EventOf, RequestOf DEF Placed
  <2>3. Range(asked[t].seats) \subseteq DOMAIN data[Id(t)]
    BY <2>1 DEF CanReserve
  <2> QED
    BY <2>1, <2>2, <2>3 DEF Id
<1>14. CASE Mark(t)
  <2>1. /\ pc[t] = "mark" /\ asked' = asked /\ left'[t] = Tail(left[t])
        /\ pc'[t] = IF Len(left[t]) = 1 THEN "unlock" ELSE "mark"
    BY <1>14 DEF Mark, Goto
  <2>2. left[t] # <<>> /\ left[t] \in Seq(Nat) /\ Range(left[t]) \subseteq DOMAIN data[Id(t)]
    BY <2>1 DEF TypeOK
  <2>3. Range(left'[t]) \subseteq Range(left[t]) /\ (Len(left[t]) # 1 => left'[t] # <<>>)
    BY <2>1, <2>2, RangeOfTail
  <2>4. DOMAIN data'[Id(t)] = DOMAIN data[Id(t)]
    BY <1>14 DEF Mark
  <2> QED
    BY <2>1, <2>2, <2>3, <2>4 DEF Id
<1>15. CASE ReadSeat(t)
  <2> DEFINE seats == data[Id(t)]
  <2>1. /\ pc[t] = "read" /\ asked' = asked /\ data' = data
        /\ pc'[t] = IF Len(copy[t]) + 1 = Len(seats) THEN "unlock" ELSE "read"
        /\ copy'[t] = Append(copy[t], seats[Len(copy[t]) + 1])
    BY <1>15 DEF ReadSeat, Goto
  <2>2. copy[t] \in Seq(Nat \cup EventIds) /\ seats \in Seq(Nat)
    BY <2>1, EventAt DEF TypeOK, LocalsOK, Holding
  <2>3. Len(copy[t]) < Len(seats) /\ \A k \in 1..Len(copy[t]) : copy[t][k] = seats[k]
    BY <2>1
  <2> HIDE DEF seats
  <2>4. seats[Len(copy[t]) + 1] \in Nat \cup EventIds
    BY <2>2, <2>3
  <2>5. /\ Len(copy'[t]) = Len(copy[t]) + 1
        /\ \A k \in 1..Len(copy[t]) : copy'[t][k] = copy[t][k]
        /\ copy'[t][Len(copy[t]) + 1] = seats[Len(copy[t]) + 1]
    BY <2>1, <2>2, <2>4, AppendProperties
  <2>6. \A k \in 1..Len(copy'[t]) : copy'[t][k] = seats[k]
    <3>1. Len(copy[t]) \in Nat
      BY <2>2
    <3>2. ASSUME NEW k \in 1..Len(copy'[t])
          PROVE  k \in 1..Len(copy[t]) \/ k = Len(copy[t]) + 1
      BY <2>5, <3>1
    <3> QED
      BY <2>3, <2>5, <3>2
  <2>7. pc'[t] = "read" => Len(copy'[t]) < Len(seats)
    BY <2>1, <2>2, <2>3, <2>5
  <2>8. data'[Id(t)'] = seats /\ pc'[t] \in {"unlock", "read"}
    BY <2>1 DEF Id, seats
  <2> QED
    BY <2>6, <2>7, <2>8
<1>16. CASE StartList(t)
  BY <1>16 DEF StartList, Goto
<1>17. CASE Walk(t)
  BY <1>17 DEF Walk, Goto
<1>18. CASE WriteList(t)
  BY <1>18 DEF WriteList, Goto, Answer
<1>19. CASE Return(t)
  BY <1>19 DEF Return, Goto, Answer
<1>20. CASE CreateFails(t)
  BY <1>20 DEF CreateFails, Goto, Answer
<1>21. CASE AnswerFails(t)
  BY <1>21 DEF AnswerFails, Goto
<1>22. CASE ShowFails(t)
  BY <1>22 DEF ShowFails, Goto
<1>23. CASE ListFails(t)
  BY <1>23 DEF ListFails, Goto
<1>24. CASE t = Main /\ StartDump
  BY <1>24 DEF StartDump, Goto
<1>25. CASE t = Main /\ ShowNext
  BY <1>25 DEF ShowNext, Goto
<1>26. CASE t = Main /\ Advance
  BY <1>26 DEF Advance, Goto
<1>27. CASE t = Main /\ EndDump
  BY <1>27 DEF EndDump, Goto
<1>28. CASE t = Main /\ ClearFlag
  BY <1>28 DEF ClearFlag, Goto
<1> QED
  BY <1>1, <1>2, <1>3, <1>4, <1>5, <1>6, <1>7, <1>8, <1>9, <1>10, <1>11, <1>12,
             <1>13, <1>14, <1>15, <1>16, <1>17, <1>18, <1>19, <1>20, <1>21, <1>22, <1>23,
             <1>24, <1>25, <1>26, <1>27, <1>28 DEF Moves, Step, Fails, DumpStep

\* What a thread knows of the seats of its event stays true while it has the mutex.
LEMMA SeatingKept ==
  ASSUME NEW t \in Threads, TypeOK, LocalsOK, Shapes, OthersStay(t), Effects(t), ThreadsOK,
         MutexOK, FoundOK, \A e \in Range(list) : data[e] # <<>>, Moves(t)
  PROVE  \A u \in Threads : Seating(u)'
<1>1. Seating(t)'
  <2>1. pc[t] = "lock" => data[Id(t)] # <<>>
    BY DEF FoundOK, Found
  <2> QED
    BY <2>1, SeatingOwn DEF ThreadsOK
<1>2. ASSUME NEW u \in Threads, u # t
      PROVE  Seating(u)'
  <2>1. /\ pc'[u] = pc[u] /\ copy'[u] = copy[u] /\ left'[u] = left[u] /\ asked'[u] = asked[u]
        /\ Id(u)' = Id(u)
    BY <1>2 DEF OthersStay, Id
  <2>2. Holding(u) => data'[Id(u)] = data[Id(u)]
    BY <1>2, SeatsStay DEF ThreadsOK
  <2>3. Seating(u)
    BY DEF ThreadsOK
  <2> QED
    BY <2>1, <2>2, <2>3 DEF Seating, Holding, CanReserve
<1> QED
  BY <1>1, <1>2

\* An event has seats.
LEMMA SomeSeats ==
  ASSUME NEW t \in Threads, TypeOK, Effects(t), Placed(t), FoundOK, Seating(t),
         \A e \in Range(list) : data[e] # <<>>
  PROVE  \A e \in Range(list)' : data'[e] # <<>>
<1>1. CASE Link(t)
  <2>1. Id(t) \in EventIds /\ Range(list)' = Range(list) \cup {Id(t)}
    BY <1>1, Grows
  <2>2. asked[t].size \in Nat \ {0}
    BY <1>1, EventAt, EventOf, RequestOf DEF Link, Goto, Placed, Writing
  <2>3. data'[Id(t)] = [s \in 1..asked[t].size |-> 0]
    BY <1>1, <2>1 DEF Link, TypeOK
  <2>4. 1 \in DOMAIN data'[Id(t)]
    BY <2>2, <2>3
  <2>5. data'[Id(t)] # <<>>
    BY <2>4
  <2>6. \A e \in Range(list) : e \in EventIds
    BY RangeInIds
  <2>7. \A e \in Range(list) : e # Id(t) => data'[e] = data[e]
    BY <1>1, <2>6 DEF Link, TypeOK
  <2> QED
    BY <2>1, <2>5, <2>7
<1>2. CASE Mark(t)
  <2>1. pc[t] = "mark" /\ list' = list
    BY <1>2 DEF Mark, Goto
  <2>2. \A e \in Range(list) : e \in EventIds
    BY RangeInIds
  <2>3. ASSUME NEW e \in Range(list)
        PROVE  DOMAIN data'[e] = DOMAIN data[e] /\ data[e] \in Seq(Nat)
    BY <1>2, <2>2 DEF Mark, TypeOK
  <2>4. ASSUME NEW e \in Range(list)
        PROVE  1 \in DOMAIN data[e]
    BY <2>3
  <2> QED
    BY <2>1, <2>3, <2>4
<1>3. CASE list' = list /\ data' = data
  BY <1>3 DEF Range
<1> QED
  BY <1>1, <1>2, <1>3 DEF Effects

\* Who marks seats.
LEMMA MarkOwn ==
  ASSUME NEW t \in Threads, Shapes, Moves(t)
  PROVE  \/ Number(t) \/ Mark(t)
         \/ pc[t] # "mark" /\ pc'[t] # "mark"
<1> USE DEF Shapes
<1>1. CASE t \in Workers /\ Ask(t)
  BY <1>1 DEF Ask, Goto
<1>2. CASE WriteLock(t)
  BY <1>2 DEF WriteLock, Goto
<1>3. CASE SearchFree(t)
  BY <1>3 DEF SearchFree, Goto, Answer
<1>4. CASE Link(t)
  BY <1>4 DEF Link, Goto
<1>5. CASE Count(t)
  BY <1>5 DEF Count, Goto, Answer
<1>6. CASE WriteUnlock(t)
  BY <1>6 DEF WriteUnlock, Goto
<1>7. CASE ReadLock(t)
  BY <1>7 DEF ReadLock, Goto
<1>8. CASE Search(t)
  BY <1>8 DEF Search, Goto, Answer
<1>9. CASE ReadUnlock(t)
  BY <1>9 DEF ReadUnlock, Goto
<1>10. CASE LockEvent(t)
  BY <1>10 DEF LockEvent, Goto
<1>11. CASE UnlockEvent(t)
  BY <1>11 DEF UnlockEvent, Goto
<1>12. CASE CheckSeats(t)
  BY <1>12 DEF CheckSeats, Goto, Answer
<1>13. CASE Number(t)
  BY <1>13
<1>14. CASE Mark(t)
  BY <1>14
<1>15. CASE ReadSeat(t)
  BY <1>15 DEF ReadSeat, Goto, Answer
<1>16. CASE StartList(t)
  BY <1>16 DEF StartList, Goto
<1>17. CASE Walk(t)
  BY <1>17 DEF Walk, Goto
<1>18. CASE WriteList(t)
  BY <1>18 DEF WriteList, Goto, Answer
<1>19. CASE Return(t)
  BY <1>19 DEF Return, Goto, Answer
<1>20. CASE CreateFails(t)
  BY <1>20 DEF CreateFails, Goto, Answer
<1>21. CASE AnswerFails(t)
  BY <1>21 DEF AnswerFails, Goto
<1>22. CASE ShowFails(t)
  BY <1>22 DEF ShowFails, Goto
<1>23. CASE ListFails(t)
  BY <1>23 DEF ListFails, Goto
<1>24. CASE t = Main /\ StartDump
  BY <1>24 DEF StartDump, Goto
<1>25. CASE t = Main /\ ShowNext
  BY <1>25 DEF ShowNext, Goto
<1>26. CASE t = Main /\ Advance
  BY <1>26 DEF Advance, Goto
<1>27. CASE t = Main /\ EndDump
  BY <1>27 DEF EndDump, Goto
<1>28. CASE t = Main /\ ClearFlag
  BY <1>28 DEF ClearFlag, Goto
<1> QED
  BY <1>1, <1>2, <1>3, <1>4, <1>5, <1>6, <1>7, <1>8, <1>9, <1>10, <1>11, <1>12,
             <1>13, <1>14, <1>15, <1>16, <1>17, <1>18, <1>19, <1>20, <1>21, <1>22, <1>23,
             <1>24, <1>25, <1>26, <1>27, <1>28 DEF Moves, Step, Fails, DumpStep

\* Who is to mark seat s of event e.
Marks(t, e, s) == pc[t] = "mark" /\ Id(t) = e /\ s \in Range(left[t])

\* The seats that are settled, in terms of the marks to come.
LEMMA SettledIs ==
  ASSUME NEW e
  PROVE  Settled(e) = [s \in DOMAIN data[e] |->
           IF \E t \in Threads : Marks(t, e, s) THEN reservations[e] ELSE data[e][s]]
BY DEF Settled, Marks

\* Only a number, and a new event, change what the seats will be.
LEMMA OtherSeatsStay ==
  ASSUME NEW t \in Threads, Shapes, OthersStay(t), Effects(t), NEW e \in EventIds,
         ~((Link(t) \/ Number(t) \/ Mark(t)) /\ Id(t) = e), Moves(t)
  PROVE  Settled(e)' = Settled(e) /\ data'[e] = data[e] /\ reservations'[e] = reservations[e]
<1>1. data'[e] = data[e]
  BY DEF Effects, Link, Mark, Shapes
<1>2. reservations'[e] = reservations[e]
  BY DEF Effects, Link, Number, Shapes
<1>3. ASSUME NEW u \in Threads, NEW s
      PROVE  Marks(u, e, s)' <=> Marks(u, e, s)
  <2>1. CASE u # t
    BY <2>1 DEF OthersStay, Marks, Id
  <2>2. CASE u = t /\ (Number(t) \/ Mark(t))
    <3>1. Id(t) # e /\ asked' = asked
      BY <2>2 DEF Number, Mark
    <3> QED
      BY <2>2, <3>1 DEF Marks, Id
  <2>3. CASE u = t /\ ~Number(t) /\ ~Mark(t)
    BY <2>3, MarkOwn DEF Marks
  <2> QED
    BY <2>1, <2>2, <2>3
<1> QED
  BY <1>1, <1>2, <1>3 DEF Settled, Marks

\* A mark only does what the number has settled.
LEMMA MarkSettled ==
  ASSUME NEW t \in Threads, TypeOK, Shapes, OthersStay(t), Placed(t), Seating(t), MutexOK,
         Mark(t),
         NEW e, e = Id(t)
  PROVE  Settled(e)' = Settled(e) /\ reservations' = reservations
<1>1. /\ pc[t] = "mark" /\ e \in EventIds /\ asked' = asked /\ reservations' = reservations
      /\ left'[t] = Tail(left[t]) /\ pc'[t] = IF Len(left[t]) = 1 THEN "unlock" ELSE "mark"
      /\ data'[e] = [data[e] EXCEPT ![Head(left[t])] = reservations[e]]
  BY EventAt DEF Mark, Goto, Holding, Shapes
<1>2. left[t] \in Seq(Nat) /\ left[t] # <<>> /\ Range(left[t]) \subseteq DOMAIN data[e]
  BY <1>1 DEF TypeOK, Seating
<1>3. /\ Range(left[t]) = {Head(left[t])} \cup Range(left'[t])
      /\ Len(left[t]) = 1 => left'[t] = <<>>
  BY <1>1, <1>2, RangeOfTail
<1>4. ASSUME NEW u \in Threads, u # t, NEW s
      PROVE  ~Marks(u, e, s) /\ ~Marks(u, e, s)'
  <2>1. mutex[e] = t
    BY <1>1 DEF MutexOK, Holding
  <2>2. ~(pc[u] = "mark" /\ Id(u) = e)
    BY <1>4, <2>1 DEF MutexOK, Holding
  <2>3. pc'[u] = pc[u] /\ Id(u)' = Id(u)
    BY <1>1, <1>4 DEF OthersStay, Id
  <2> QED
    BY <2>2, <2>3 DEF Marks
<1>5. ASSUME NEW s
      PROVE  /\ Marks(t, e, s) <=> s \in Range(left[t])
             /\ Marks(t, e, s)' <=> s \in Range(left'[t])
  <2>1. Range(<<>>) = {}
    BY DEF Range
  <2>2. Id(t)' = Id(t)
    BY <1>1 DEF Id
  <2> QED
    BY <1>1, <1>3, <2>1, <2>2 DEF Marks
<1>6. Settled(e) = [s \in DOMAIN data[e] |->
                      IF s \in Range(left[t]) THEN reservations[e] ELSE data[e][s]]
  <2>1. \A s : (\E u \in Threads : Marks(u, e, s)) <=> s \in Range(left[t])
    BY <1>4, <1>5
  <2> QED
    BY <2>1, SettledIs
<1>7. Settled(e)' = [s \in DOMAIN data'[e] |->
                      IF s \in Range(left'[t]) THEN reservations[e] ELSE data'[e][s]]
  <2>1. \A s : (\E u \in Threads : Marks(u, e, s)') <=> s \in Range(left'[t])
    BY <1>4, <1>5
  <2>3. Settled(e)' = [s \in DOMAIN data'[e] |->
           IF \E u \in Threads : Marks(u, e, s)' THEN reservations'[e] ELSE data'[e][s]]
    BY DEF Settled, Marks
  <2> QED
    BY <1>1, <2>1, <2>3
<1>8. DOMAIN data'[e] = DOMAIN data[e]
  BY <1>1
<1>9. ASSUME NEW s \in DOMAIN data[e]
      PROVE  (IF s \in Range(left'[t]) THEN reservations[e] ELSE data'[e][s])
               = (IF s \in Range(left[t]) THEN reservations[e] ELSE data[e][s])
  BY <1>1, <1>3
<1>10. Settled(e)' = Settled(e)
  BY <1>6, <1>7, <1>8, <1>9
<1> QED
  BY <1>1, <1>10

\* A number settles the seats of the request.
LEMMA NumberSettled ==
  ASSUME NEW t \in Threads, TypeOK, Shapes, OthersStay(t), Placed(t), Seating(t), MutexOK,
         Number(t),
         NEW e, e = Id(t)
  PROVE  /\ e \in EventIds
         /\ asked[t].seats \in Seq(Nat) \ {<<>>}
         /\ reservations'[e] = reservations[e] + 1
         /\ DOMAIN Settled(e) = DOMAIN data[e]
         /\ Settled(e) = [s \in DOMAIN data[e] |-> data[e][s]]
         /\ \A s \in Range(asked[t].seats) : s \in DOMAIN data[e] /\ data[e][s] = 0
         /\ Settled(e)' = [s \in DOMAIN data[e] |->
              IF s \in Range(asked[t].seats) THEN reservations[e] + 1 ELSE data[e][s]]
<1>1. /\ pc[t] = "number" /\ pc'[t] = "mark" /\ e \in EventIds /\ asked' = asked /\ data' = data
      /\ reservations'[e] = reservations[e] + 1 /\ left'[t] = asked[t].seats
  BY EventAt DEF Number, Goto, Holding, Shapes
<1>2. asked[t].seats \in Seq(Nat) \ {<<>>}
  BY <1>1, EventOf, RequestOf DEF Placed
<1>3. \A s \in Range(asked[t].seats) : s \in DOMAIN data[e] /\ data[e][s] = 0
  BY <1>1 DEF Seating, CanReserve
<1>4. ASSUME NEW u \in Threads, u # t, NEW s
      PROVE  ~Marks(u, e, s) /\ ~Marks(u, e, s)'
  <2>1. mutex[e] = t
    BY <1>1 DEF MutexOK, Holding
  <2>2. ~(pc[u] = "mark" /\ Id(u) = e)
    BY <1>4, <2>1 DEF MutexOK, Holding
  <2>3. pc'[u] = pc[u] /\ Id(u)' = Id(u)
    BY <1>1, <1>4 DEF OthersStay, Id
  <2> QED
    BY <2>2, <2>3 DEF Marks
<1>5. ASSUME NEW s
      PROVE  ~Marks(t, e, s) /\ (Marks(t, e, s)' <=> s \in Range(asked[t].seats))
  <2>1. Id(t)' = Id(t)
    BY <1>1 DEF Id
  <2> QED
    BY <1>1, <2>1 DEF Marks
<1>6. Settled(e) = [s \in DOMAIN data[e] |-> data[e][s]]
  <2>1. \A s : ~(\E u \in Threads : Marks(u, e, s))
    BY <1>4, <1>5
  <2> QED
    BY <2>1, SettledIs
<1>7. Settled(e)' = [s \in DOMAIN data[e] |->
              IF s \in Range(asked[t].seats) THEN reservations[e] + 1 ELSE data[e][s]]
  <2>1. \A s : (\E u \in Threads : Marks(u, e, s)') <=> s \in Range(asked[t].seats)
    BY <1>4, <1>5
  <2>3. Settled(e)' = [s \in DOMAIN data'[e] |->
           IF \E u \in Threads : Marks(u, e, s)' THEN reservations'[e] ELSE data'[e][s]]
    BY DEF Settled, Marks
  <2> QED
    BY <1>1, <2>1, <2>3
<1> QED
  BY <1>1, <1>2, <1>3, <1>6, <1>7

\* A new event has all of its seats free.
LEMMA LinkSettled ==
  ASSUME NEW t \in Threads, TypeOK, Shapes, Placed(t), Link(t), NEW e, e = Id(t)
  PROVE  /\ e \in EventIds
         /\ reservations'[e] = 0
         /\ Settled(e)' = [s \in 1..asked[t].size |-> 0]
<1>1. /\ e \in EventIds
      /\ reservations'[e] = 0
      /\ data'[e] = [s \in 1..asked[t].size |-> 0]
  BY EventAt DEF Link, Goto, Writing, Shapes, Id
<1>2. Settled(e)' = [s \in DOMAIN data'[e] |->
           IF \E u \in Threads : Marks(u, e, s)' THEN reservations'[e] ELSE data'[e][s]]
  BY DEF Settled, Marks
<1>3. Settled(e)' = [s \in 1..asked[t].size |-> 0]
  BY <1>1, <1>2
<1> QED
  BY <1>1, <1>3

\* The numbers of an event, and the next one.
LEMMA NextDense ==
  ASSUME NEW h, NEW g, NEW R, NEW r \in Nat,
         Range(h) \ {0} = 1..r,
         R # {}, \A s \in R : s \in DOMAIN h /\ h[s] = 0,
         g = [s \in DOMAIN h |-> IF s \in R THEN r + 1 ELSE h[s]]
  PROVE  Range(g) \ {0} = 1..(r + 1)
<1>1. \A x : x \in 1..r <=> (x # 0 /\ \E s \in DOMAIN h : h[s] = x)
  BY DEF Range
<1>2. \A x : x \in Range(g) <=> \E s \in DOMAIN h : x = IF s \in R THEN r + 1 ELSE h[s]
  BY DEF Range
<1>3. ASSUME NEW x \in Range(g) \ {0}
      PROVE  x \in 1..(r + 1)
  <2>1. PICK s \in DOMAIN h : x = IF s \in R THEN r + 1 ELSE h[s]
    BY <1>2, <1>3
  <2> QED
    BY <1>1, <1>3, <2>1
<1>4. ASSUME NEW x \in 1..(r + 1)
      PROVE  x \in Range(g) \ {0}
  <2>1. CASE x = r + 1
    <3>1. PICK s \in R : TRUE
      OBVIOUS
    <3> QED
      BY <1>2, <2>1, <3>1
  <2>2. CASE x # r + 1
    <3>1. x \in 1..r
      BY <2>2
    <3>2. PICK s \in DOMAIN h : h[s] = x /\ x # 0
      BY <1>1, <3>1
    <3>3. s \notin R
      BY <3>2
    <3> QED
      BY <1>2, <3>2, <3>3
  <2> QED
    BY <2>1, <2>2
<1> QED
  BY <1>3, <1>4

\* The reservations of every event remain numbered without a gap.
LEMMA DenseKept ==
  ASSUME NEW t \in Threads, TypeOK, Shapes, OthersStay(t), Effects(t), ThreadsOK, MutexOK,
         FoundOK, ReservationsDense, Moves(t)
  PROVE  ReservationsDense'
<1> USE DEF ThreadsOK
<1> SUFFICES ASSUME NEW e \in Range(list)'
             PROVE  Range(Settled(e)') \ {0} = 1..reservations'[e]
  BY DEF ReservationsDense
<1>1. e \in EventIds /\ (e \in Range(list) \/ (Link(t) /\ Id(t) = e))
  BY Grows, RangeInIds DEF Effects
<1>2. CASE Link(t) /\ Id(t) = e
  <2>1. reservations'[e] = 0 /\ Settled(e)' = [s \in 1..asked[t].size |-> 0]
    BY <1>2, LinkSettled
  <2>2. \A x \in Range(Settled(e)') : x = 0
    BY <2>1 DEF Range
  <2>3. 1..0 = {}
    OBVIOUS
  <2> QED
    BY <2>1, <2>2, <2>3
<1>3. CASE Number(t) /\ Id(t) = e
  <2> DEFINE R == Range(asked[t].seats)
  <2>0. e \in Range(list)
    BY <1>1, <1>3 DEF Link, Number, Goto
  <2>1. /\ asked[t].seats \in Seq(Nat) \ {<<>>}
        /\ reservations'[e] = reservations[e] + 1
        /\ Settled(e) = [s \in DOMAIN data[e] |-> data[e][s]]
        /\ \A s \in R : s \in DOMAIN data[e] /\ data[e][s] = 0
        /\ Settled(e)' = [s \in DOMAIN data[e] |->
             IF s \in R THEN reservations[e] + 1 ELSE data[e][s]]
    BY <1>3, NumberSettled
  <2>2. R # {}
    BY <2>1, RangeOfHead
  <2>3. Range(Settled(e)) \ {0} = 1..reservations[e] /\ reservations[e] \in Nat
    BY <1>1, <2>0 DEF ReservationsDense, TypeOK
  <2> HIDE DEF R
  <2>4. Range(Settled(e)') \ {0} = 1..(reservations[e] + 1)
    <3> DEFINE h == Settled(e)  g == Settled(e)'  r == reservations[e]
    <3>1. /\ Range(h) \ {0} = 1..r /\ r \in Nat /\ R # {}
          /\ \A s \in R : s \in DOMAIN h /\ h[s] = 0
          /\ g = [s \in DOMAIN h |-> IF s \in R THEN r + 1 ELSE h[s]]
      BY <2>1, <2>2, <2>3
    <3> HIDE DEF h, g, r
    <3>2. Range(g) \ {0} = 1..(r + 1)
      BY ONLY <3>1, NextDense
    <3> QED
      BY <3>2 DEF g, r
  <2> QED
    BY <2>1, <2>4
<1>4. CASE Mark(t) /\ Id(t) = e
  <2>1. e \in Range(list)
    BY <1>1, <1>4 DEF Link, Mark, Goto
  <2>2. Settled(e)' = Settled(e) /\ reservations' = reservations
    BY <1>4, MarkSettled
  <2>3. Range(Settled(e)') = Range(Settled(e))
    BY <2>2 DEF Range
  <2> QED
    BY <2>1, <2>2, <2>3 DEF ReservationsDense
<1>5. CASE ~((Link(t) \/ Number(t) \/ Mark(t)) /\ Id(t) = e)
  <2>1. Settled(e)' = Settled(e) /\ reservations'[e] = reservations[e]
    BY <1>1, <1>5, OtherSeatsStay
  <2>2. Range(Settled(e)') = Range(Settled(e))
    BY <2>1 DEF Range
  <2> QED
    BY <1>1, <1>5, <2>1, <2>2 DEF ReservationsDense
<1> QED
  BY <1>2, <1>3, <1>4, <1>5

\* SIGUSR1 changes only what show_events owes.
LEMMA SignalKept ==
  ASSUME IInv, Signal
  PROVE  IInv'
<1>1. /\ UNCHANGED <<list, numEvents, reservations, data, writer, readers, mutex>>
      /\ UNCHANGED <<pc, asked, answer, left, copy, to, total, current, failures>>
  BY DEF Signal
<1>2. owed' = (IF Clearing THEN owed ELSE Len(list)) /\ showDetails' = TRUE
  BY DEF Signal
<1>3. TypeOK'
  <2>1. list \in Seq(EventIds) /\ owed \in 0..Len(list)
    BY DEF IInv, TypeOK
  <2>2. owed' \in 0..Len(list)
    BY <1>2, <2>1
  <2> QED
    BY <1>1, <1>2, <2>2 DEF IInv, TypeOK
<1>4. LocalsOK' /\ WriterOK' /\ ReadersOK' /\ MutexOK' /\ IdsUnique' /\ FoundOK' /\ CountOK'
  BY <1>1 DEF IInv, LocalsOK, WriterOK, Writing, ReadersOK, ReadsAtLeast, Reading, Dumping,
     MutexOK, Holding, Id, IdsUnique, FoundOK, Found, CountOK, Range
<1>5. ThreadsOK'
  BY <1>1 DEF IInv, ThreadsOK, Placed, Answered, Walking, Seating, CanReserve, Id, Range
<1>6. DumpOK'
  BY <1>1, <1>2 DEF IInv, DumpOK, Dumping, Clearing
<1>7. (\A e \in Range(list) : data[e] # <<>>)' /\ ReservationsDense'
  <2>1. \A e : Settled(e)' = Settled(e)
    BY <1>1 DEF Settled, Id, Range
  <2> QED
    BY <1>1, <2>1 DEF IInv, ReservationsDense, Range
<1> QED
  BY <1>3, <1>4, <1>5, <1>6, <1>7 DEF IInv

\* A step of any thread preserves the invariant.
LEMMA StepKept ==
  ASSUME IInv, NEW t \in Threads, Moves(t)
  PROVE  IInv'
<1>1. Shapes /\ Placed(t) /\ Answered(t) /\ Walking(t) /\ Seating(t)
  BY ShapesOK DEF IInv, ThreadsOK
<1>2. OthersStay(t) /\ Effects(t)
  BY <1>1, Others, Parts
<1>3. TypeOK' /\ LocalsOK'
  BY <1>1, TypeKept, LocalsKept DEF IInv
<1>4. WriterOK' /\ ReadersOK' /\ MutexOK' /\ IdsUnique' /\ FoundOK' /\ CountOK' /\ DumpOK'
  BY <1>1, <1>2, WriterKept, ReadersKept, MutexKept, IdsKept, FoundKept, CountKept, DumpKept
     DEF IInv
<1>5. ThreadsOK'
  <2>1. ASSUME NEW u \in Threads
        PROVE  Placed(u)' /\ Answered(u)'
    <3>1. CASE u = t
      BY <1>1, <3>1, PlacedOwn, AnsweredOwn
    <3>2. CASE u # t
      <4>1. pc'[u] = pc[u] /\ asked'[u] = asked[u] /\ answer'[u] = answer[u]
        BY <1>2, <3>2 DEF OthersStay
      <4> QED
        BY <4>1 DEF IInv, ThreadsOK, Placed, Answered
    <3> QED
      BY <3>1, <3>2
  <2>2. \A u \in Threads : Walking(u)' /\ Seating(u)'
    BY <1>1, <1>2, WalkingKept, SeatingKept DEF IInv
  <2> QED
    BY <2>1, <2>2 DEF ThreadsOK
<1>6. (\A e \in Range(list) : data[e] # <<>>)'
  BY <1>1, <1>2, SomeSeats DEF IInv
<1>7. ReservationsDense'
  BY <1>1, <1>2, DenseKept DEF IInv
<1> QED
  BY <1>3, <1>4, <1>5, <1>6, <1>7 DEF IInv

\* When the main thread has called ems_init.
LEMMA InitIInv == Init => IInv
<1> SUFFICES ASSUME Init PROVE IInv
  OBVIOUS
<1>1. TypeOK
  <2>1. list \in Seq(EventIds) /\ current \in 0..Len(list) /\ owed \in 0..Len(list)
    BY EmptySeq DEF Init
  <2>3. failures \in 0..MaxFailures
    BY BoundsAssumption DEF Init
  <2>4. asked \in [Threads -> Requests \cup {NoRequest}] /\ to \in [Threads -> Nat]
        /\ total \in [Threads -> Nat] /\ readers \in [Threads -> Nat]
    BY DEF Init
  <2>2. data \in [EventIds -> Seq(Nat)] /\ left \in [Threads -> Seq(Nat)]
    BY EmptySeq DEF Init
  <2> QED
    BY <2>1, <2>2, <2>3, <2>4 DEF Init, TypeOK
<1>2. LocalsOK
  BY EmptySeq DEF Init, LocalsOK
<1>3. Range(list) = {}
  BY DEF Init, Range
<1>4. ThreadsOK
  BY DEF Init, ThreadsOK, Placed, Answered, Walking, Seating
<1>5. WriterOK /\ ReadersOK /\ MutexOK
  BY DEF Init, WriterOK, Writing, ReadersOK, ReadsAtLeast, Reading, Dumping, MutexOK, Holding
<1>6. IdsUnique /\ FoundOK /\ CountOK
  BY DEF Init, IdsUnique, FoundOK, Found, Holding, CountOK
<1>7. DumpOK
  BY MainIsThread DEF Init, DumpOK, Dumping
<1> QED
  BY <1>1, <1>2, <1>3, <1>4, <1>5, <1>6, <1>7 DEF IInv, ReservationsDense

\* So does a step in which nothing changes,
LEMMA SameIInv == IInv /\ UNCHANGED vars => IInv'
<1> SUFFICES ASSUME IInv, UNCHANGED vars PROVE IInv'
  OBVIOUS
<1>1. /\ UNCHANGED <<list, numEvents, reservations, data, writer, readers, mutex, pc, asked>>
      /\ UNCHANGED <<answer, left, copy, to, total, current, failures, showDetails, owed>>
  BY DEF vars
<1>2. \A e : Settled(e)' = Settled(e)
  BY <1>1 DEF Settled, Id, Range
<1>3. TypeOK' /\ LocalsOK' /\ DumpOK'
  BY <1>1 DEF IInv, TypeOK, LocalsOK, DumpOK, Dumping
<1>4. WriterOK' /\ ReadersOK' /\ MutexOK' /\ IdsUnique' /\ FoundOK' /\ CountOK'
  BY <1>1 DEF IInv, WriterOK, Writing, ReadersOK, ReadsAtLeast, Reading, Dumping, MutexOK,
     Holding, Id, IdsUnique, FoundOK, Found, CountOK, Range
<1>5. ThreadsOK'
  BY <1>1 DEF IInv, ThreadsOK, Placed, Answered, Walking, Seating, CanReserve, Id, Range
<1>6. (\A e \in Range(list) : data[e] # <<>>)' /\ ReservationsDense'
  BY <1>1, <1>2 DEF IInv, ReservationsDense, Range
<1> QED
  BY <1>3, <1>4, <1>5, <1>6 DEF IInv

\* and so does every step.
LEMMA NextIInv == IInv /\ [Next]_vars => IInv'
<1> SUFFICES ASSUME IInv, [Next]_vars PROVE IInv'
  OBVIOUS
<1>1. CASE UNCHANGED vars
  BY <1>1, SameIInv
<1>2. CASE Signal
  BY <1>2, SignalKept
<1>3. CASE Next /\ ~Signal
  <2>1. PICK t \in Threads : Moves(t)
    BY <1>3, MainIsThread DEF Next, Moves, Threads
  <2> QED
    BY <2>1, StepKept
<1> QED
  BY <1>1, <1>2, <1>3

-----------------------------------------------------------------------------
\* The invariant holds in every behaviour of the server's operations.
THEOREM Invariance == Spec => []IInv
<1>1. IInv /\ [Next]_vars => IInv'
  BY NextIInv
<1> QED
  BY InitIInv, <1>1, PTL DEF Spec

\* Every variable keeps its type: failures and owed stay in their ranges, current in
\* the list, and no rwlock is released more often than taken.
THEOREM Typing == Spec => []TypeOK
<1>1. IInv => TypeOK
  BY DEF IInv
<1> QED
  BY Invariance, <1>1, PTL

\* No two events have the same id, however many clients create at once: create holds
\* the rwlock for writing from its search to the append.
THEOREM DistinctIds == Spec => []IdsUnique
<1>1. IInv => IdsUnique
  BY DEF IInv
<1> QED
  BY Invariance, <1>1, PTL

\* ems_list_events never writes past the room that it made for num_events ids, and
\* its walk ends with the room full.
THEOREM ListsFit == Spec => []ListFits
<1>1. IInv => ListFits
  BY DEF IInv, ThreadsOK, Walking, ListFits
<1> QED
  BY Invariance, <1>1, PTL

\* The reservations of an event are numbered 1, 2, 3 ... and each has seats of its own,
\* however the requests of the clients interleave.
THEOREM NumbersDense == Spec => []ReservationsDense
<1>1. IInv => ReservationsDense
  BY DEF IInv
<1> QED
  BY Invariance, <1>1, PTL

\* show_events ends at the tail of the list as it is then.
THEOREM DumpsComplete == Spec => []DumpCoversAll
<1>1. IInv => DumpCoversAll
  BY DEF IInv, DumpOK, DumpCoversAll
<1> QED
  BY Invariance, <1>1, PTL

\* No signal is forgotten but one that comes between the end of a dump and the clearing
\* of the flag.
THEOREM DumpsAnswer == Spec => []SignalsAnswered
<1>1. IInv => SignalsAnswered
  BY DEF IInv, DumpOK, SignalsAnswered
<1> QED
  BY Invariance, <1>1, PTL

-----------------------------------------------------------------------------
\* No deadlock, as long as no call of malloc fails.

\* Then every lock that is held is one that its holder still needs.
LocksExact ==
  failures = 0 =>
    /\ \A t \in Threads : readers[t] = ReadsAtLeast(t)
    /\ \A e \in EventIds :
         mutex[e] # NoThread => Holding(mutex[e]) /\ Id(mutex[e]) = e

\* u holds what t must have next.
WaitsFor(t, u) ==
  \/ pc[t] = "wrlock" /\ (writer = u \/ readers[u] > 0)
  \/ pc[t] = "rdlock" /\ writer = u
  \/ pc[t] = "lock" /\ mutex[Id(t)] = u
  \/ t = Main /\ pc[t] = "idle" /\ showDetails /\ writer = u

\* A create waits for dumps, which wait for events' mutexes, which are held by
\* those that wait for nothing.
Rank(t) ==
  CASE pc[t] = "wrlock" -> 3
    [] pc[t] = "rdlock" -> 2
    [] pc[t] \in {"lock", "idle"} -> 1
    [] OTHER -> 0

WaitsOrdered ==
  failures = 0 => \A t, u \in Threads : WaitsFor(t, u) => Rank(u) < Rank(t)

\* Not every operation that is under way waits.
SomeoneGoesOn ==
  failures = 0 /\ (\E t \in Threads : pc[t] # "idle")
    => \E t \in Threads : pc[t] # "idle" /\ \A u \in Threads : ~WaitsFor(t, u)

\* While nothing has failed, nothing fails.
LEMMA NothingFailed ==
  ASSUME TypeOK, NEW t \in Threads, failures' = 0
  PROVE  ~Fails(t)
<1>1. failures \in Nat
  BY BoundsAssumption DEF TypeOK
<1> QED
  BY <1>1 DEF Fails, CreateFails, AnswerFails, ShowFails, ListFails

\* A thread reads as often as it needs to.
LEMMA ReadsExactly ==
  ASSUME NEW t \in Threads, TypeOK, Shapes, Placed(t), failures' = 0,
         readers[t] = ReadsAtLeast(t), Moves(t)
  PROVE  readers'[t] = ReadsAtLeast(t)'
<1> USE DEF Shapes, Placed, ReadsAtLeast, Reading, Dumping
<1>1. CASE t \in Workers /\ Ask(t)
  BY <1>1 DEF Ask, Goto, Threads
<1>2. CASE WriteLock(t)
  BY <1>2 DEF WriteLock, Goto
<1>3. CASE SearchFree(t)
  BY <1>3 DEF SearchFree, Goto, Answer
<1>4. CASE Link(t)
  BY <1>4 DEF Link, Goto
<1>5. CASE Count(t)
  BY <1>5 DEF Count, Goto, Answer
<1>6. CASE WriteUnlock(t)
  BY <1>6 DEF WriteUnlock, Goto
<1>7. CASE ReadLock(t)
  <2>1. /\ pc[t] = "rdlock" /\ pc'[t] \in {"start", "search"}
        /\ (t = Main => pc'[t] = "search")
        /\ readers'[t] = readers[t] + 1
    BY <1>7 DEF ReadLock, Goto
  <2> QED
    BY <2>1
<1>8. CASE Search(t)
  BY <1>8 DEF Search, Goto, Answer
<1>9. CASE ReadUnlock(t)
  <2>1. pc[t] = "rdunlock" /\ pc'[t] \in {"lock", "return"} /\ readers'[t] = readers[t] - 1
    BY <1>9 DEF ReadUnlock, Goto
  <2> QED
    BY <1>9, <2>1
<1>10. CASE LockEvent(t)
  BY <1>10 DEF LockEvent, Goto
<1>11. CASE UnlockEvent(t)
  BY <1>11 DEF UnlockEvent, Goto
<1>12. CASE CheckSeats(t)
  BY <1>12 DEF CheckSeats, Goto, Answer
<1>13. CASE Number(t)
  BY <1>13 DEF Number, Goto
<1>14. CASE Mark(t)
  BY <1>14 DEF Mark, Goto, Answer
<1>15. CASE ReadSeat(t)
  BY <1>15 DEF ReadSeat, Goto, Answer
<1>16. CASE StartList(t)
  BY <1>16 DEF StartList, Goto
<1>17. CASE Walk(t)
  BY <1>17 DEF Walk, Goto
<1>18. CASE WriteList(t)
  BY <1>18 DEF WriteList, Goto, Answer
<1>19. CASE Return(t)
  BY <1>19 DEF Return, Goto, Answer
<1>20. CASE Fails(t)
  BY <1>20, NothingFailed
<1>24. CASE t = Main /\ StartDump
  <2>1. /\ pc[t] = "idle" /\ pc'[t] \in {"next", "dumped"} /\ t = Main
        /\ readers'[t] = readers[t] + 1
    BY <1>24 DEF StartDump, Goto
  <2> QED
    BY <2>1
<1>25. CASE t = Main /\ ShowNext
  BY <1>25 DEF ShowNext, Goto
<1>26. CASE t = Main /\ Advance
  BY <1>26 DEF Advance, Goto
<1>27. CASE t = Main /\ EndDump
  <2>1. t = Main /\ pc[t] = "dumped" /\ pc'[t] = "clear" /\ readers'[t] = readers[t] - 1
    BY <1>27 DEF EndDump, Goto
  <2> QED
    BY <2>1
<1>28. CASE t = Main /\ ClearFlag
  BY <1>28 DEF ClearFlag, Goto
<1> QED
  BY <1>1, <1>2, <1>3, <1>4, <1>5, <1>6, <1>7, <1>8, <1>9, <1>10, <1>11, <1>12,
             <1>13, <1>14, <1>15, <1>16, <1>17, <1>18, <1>19, <1>20,
             <1>24, <1>25, <1>26, <1>27, <1>28 DEF Moves, Step, DumpStep

\* A thread that has an event's mutex keeps it until it unlocks it.
LEMMA HoldsOn ==
  ASSUME NEW t \in Threads, TypeOK, Shapes, failures' = 0, Holding(t), Moves(t), ~UnlockEvent(t)
  PROVE  Holding(t)' /\ asked'[t] = asked[t]
<1> USE DEF Shapes, Holding
<1>1. CASE CheckSeats(t)
  BY <1>1 DEF CheckSeats, Goto
<1>2. CASE Number(t)
  BY <1>2 DEF Number, Goto
<1>3. CASE Mark(t)
  BY <1>3 DEF Mark, Goto
<1>4. CASE ReadSeat(t)
  BY <1>4 DEF ReadSeat, Goto
<1>5. ~Fails(t)
  BY NothingFailed
<1>6. ~Ask(t) /\ ~WriteLock(t) /\ ~SearchFree(t) /\ ~Link(t) /\ ~Count(t) /\ ~WriteUnlock(t)
  BY DEF Ask, WriteLock, SearchFree, Link, Count, WriteUnlock, Goto
<1>7. ~ReadLock(t) /\ ~Search(t) /\ ~ReadUnlock(t) /\ ~LockEvent(t) /\ ~Return(t)
  BY DEF ReadLock, Search, ReadUnlock, LockEvent, Return, Goto
<1>8. ~StartList(t) /\ ~Walk(t) /\ ~WriteList(t)
  BY DEF StartList, Walk, WriteList, Goto
<1>9. t = Main => ~StartDump /\ ~DumpStep
  BY DEF StartDump, DumpStep, ShowNext, Advance, EndDump, ClearFlag, Goto
<1> QED
  BY <1>1, <1>2, <1>3, <1>4, <1>5, <1>6, <1>7, <1>8, <1>9 DEF Moves, Step

LEMMA LocksKept ==
  ASSUME IInv, LocksExact, NEW t \in Threads, Moves(t)
  PROVE  LocksExact'
<1> DEFINE Held == {"check", "number", "mark", "read", "unlock"}
<1> SUFFICES ASSUME failures' = 0
             PROVE  /\ \A u \in Threads : readers'[u] = ReadsAtLeast(u)'
                    /\ \A e \in EventIds :
                         mutex'[e] # NoThread => pc'[mutex'[e]] \in Held /\ asked'[mutex'[e]].id = e
  BY DEF LocksExact, Id, Holding
<1>1. TypeOK /\ Shapes /\ Placed(t)
  BY ShapesOK DEF IInv, ThreadsOK
<1>2. OthersStay(t) /\ Effects(t)
  BY <1>1, Others, Parts
<1>3. failures = 0
  <2>1. failures \in Nat /\ failures' \in {failures, failures + 1}
    <3>1. failures \in Nat
      BY <1>1, BoundsAssumption DEF TypeOK
    <3>2. ~Fails(t)
      BY <1>1, NothingFailed
    <3>3. failures' = failures
      BY <3>2 DEF Moves, Step, Ask, WriteLock, SearchFree, Link, Count, WriteUnlock, ReadLock,
         Search, ReadUnlock, LockEvent, UnlockEvent, CheckSeats, Number, Mark, ReadSeat, StartList,
         Walk, WriteList, Return, StartDump, DumpStep, ShowNext, Advance, EndDump, ClearFlag
    <3> QED
      BY <3>1, <3>3
  <2> QED
    BY <2>1
<1>4. /\ \A u \in Threads : readers[u] = ReadsAtLeast(u)
      /\ \A e \in EventIds : mutex[e] # NoThread => Holding(mutex[e]) /\ asked[mutex[e]].id = e
  BY <1>3 DEF LocksExact, Id
<1>5. ASSUME NEW u \in Threads
      PROVE  readers'[u] = ReadsAtLeast(u)'
  <2>1. CASE u = t
    BY <1>1, <1>4, <2>1, ReadsExactly
  <2>2. CASE u # t
    <3>1. pc'[u] = pc[u] /\ readers'[u] = readers[u]
      BY <1>2, <2>2 DEF OthersStay
    <3>2. ReadsAtLeast(u)' = ReadsAtLeast(u)
      BY <3>1 DEF ReadsAtLeast, Reading, Dumping
    <3> QED
      BY <1>4, <3>1, <3>2
  <2> QED
    BY <2>1, <2>2
<1>6. ASSUME NEW e \in EventIds, mutex'[e] # NoThread
      PROVE  pc'[mutex'[e]] \in Held /\ asked'[mutex'[e]].id = e
  <2>1. ASSUME mutex'[e] = mutex[e], mutex[e] # t \/ ~UnlockEvent(t)
        PROVE  pc'[mutex'[e]] \in Held /\ asked'[mutex'[e]].id = e
    <3>1. PICK u \in Threads : u = mutex[e] /\ Holding(u) /\ asked[u].id = e
      BY <1>1, <1>4, <1>6, <2>1 DEF TypeOK
    <3>2. Holding(u)' /\ asked'[u] = asked[u]
      <4>1. CASE u = t
        BY <1>1, <2>1, <3>1, <4>1, HoldsOn
      <4>2. CASE u # t
        <5>1. pc'[u] = pc[u] /\ asked'[u] = asked[u]
          BY <1>2, <3>1, <4>2 DEF OthersStay
        <5> QED
          BY <3>1, <5>1 DEF Holding
      <4> QED
        BY <4>1, <4>2
    <3> QED
      BY <2>1, <3>1, <3>2 DEF Holding
  <2>2. CASE LockEvent(t)
    <3>1. /\ mutex' = [mutex EXCEPT ![Id(t)] = t] /\ asked' = asked
          /\ pc'[t] \in {"read", "check"} /\ pc[t] = "lock"
      BY <1>1, <2>2 DEF LockEvent, Goto, Shapes
    <3>2. CASE e = Id(t)
      <4>1. mutex'[e] = t
        BY <1>1, <3>1, <3>2 DEF Shapes
      <4> QED
        BY <3>1, <3>2, <4>1 DEF Id
    <3>3. CASE e # Id(t)
      <4>1. mutex'[e] = mutex[e]
        BY <1>1, <3>1, <3>3 DEF Shapes
      <4>2. ~UnlockEvent(t)
        BY <3>1 DEF UnlockEvent, Goto
      <4> QED
        BY <2>1, <4>1, <4>2
    <3> QED
      BY <3>2, <3>3
  <2>3. CASE UnlockEvent(t)
    <3>1. mutex' = [mutex EXCEPT ![Id(t)] = NoThread]
      BY <2>3 DEF UnlockEvent
    <3>2. e # Id(t) /\ mutex'[e] = mutex[e]
      BY <1>1, <1>6, <3>1 DEF Shapes
    <3>3. mutex[e] # t
      BY <1>4, <1>6, <3>2 DEF Id
    <3> QED
      BY <2>1, <3>2, <3>3
  <2>4. CASE ~LockEvent(t) /\ ~UnlockEvent(t)
    BY <1>2, <2>1, <2>4 DEF Effects
  <2> QED
    BY <2>2, <2>3, <2>4
<1> QED
  BY <1>5, <1>6

LEMMA LocksInvariance == Spec => []LocksExact
<1>1. Init => LocksExact
  BY MainIsThread DEF Init, LocksExact, ReadsAtLeast, Reading, Dumping
<1>2. IInv /\ LocksExact /\ [Next]_vars => LocksExact'
  <2> SUFFICES ASSUME IInv, LocksExact, [Next]_vars PROVE LocksExact'
    OBVIOUS
  <2>1. CASE UNCHANGED vars
    BY <2>1 DEF vars, LocksExact, ReadsAtLeast, Reading, Dumping, Holding, Id
  <2>2. CASE Signal
    BY <2>2 DEF Signal, LocksExact, ReadsAtLeast, Reading, Dumping, Holding, Id
  <2>3. CASE Next /\ ~Signal
    <3>1. PICK t \in Threads : Moves(t)
      BY <2>3, MainIsThread DEF Next, Moves, Threads
    <3> QED
      BY <3>1, LocksKept
  <2> QED
    BY <2>1, <2>2, <2>3
<1> QED
  BY <1>1, <1>2, Invariance, PTL DEF Spec

LEMMA Waits ==
  ASSUME IInv, LocksExact, failures = 0, NEW t \in Threads, NEW u \in Threads, WaitsFor(t, u)
  PROVE  Rank(u) < Rank(t) /\ pc[u] # "idle"
<1>1. writer = u => Writing(u)
  BY DEF IInv, WriterOK
<1>2. readers[u] > 0 => Reading(u) \/ (u = Main /\ Dumping)
  <2>1. readers[u] = ReadsAtLeast(u)
    BY DEF LocksExact
  <2> QED
    BY <2>1 DEF ReadsAtLeast
<1>3. pc[t] = "lock" /\ mutex[Id(t)] = u => Holding(u)
  <2> SUFFICES ASSUME pc[t] = "lock", mutex[Id(t)] = u PROVE Holding(u)
    OBVIOUS
  <2>1. Id(t) \in EventIds
    BY EventAt DEF IInv, ThreadsOK
  <2> QED
    BY <2>1 DEF LocksExact
<1>4. Writing(u) \/ Reading(u) \/ Holding(u) => Rank(u) = 0 /\ pc[u] # "idle"
  BY DEF Writing, Reading, Holding, Rank
<1>5. u = Main /\ Dumping => Rank(u) \in 0..2 /\ pc[u] # "idle"
  BY DEF Dumping, Rank
<1>6. CASE pc[t] = "wrlock" /\ (writer = u \/ readers[u] > 0)
  <2>1. Rank(t) = 3
    BY <1>6 DEF Rank
  <2> QED
    BY <1>1, <1>2, <1>4, <1>5, <1>6, <2>1
<1>7. CASE pc[t] \in {"rdlock", "idle"} /\ writer = u
  <2>1. Rank(t) \in 1..2
    BY <1>7 DEF Rank
  <2> QED
    BY <1>1, <1>4, <1>7, <2>1
<1>8. CASE pc[t] = "lock" /\ mutex[Id(t)] = u
  <2>1. Rank(t) = 1
    BY <1>8 DEF Rank
  <2> QED
    BY <1>3, <1>4, <1>8, <2>1
<1> QED
  BY <1>6, <1>7, <1>8 DEF WaitsFor

\* As long as no malloc has failed, a thread waits only for threads of a lower rank, so
\* there is no circle of threads that wait for each other: the order of the locks (the
\* list's, then one event's) and the readers' precedence at the rwlock exclude it, even with a
\* dump that holds the rwlock while it takes it again and while it takes mutexes.
THEOREM NoCircularWait == Spec => []WaitsOrdered
<1>1. IInv /\ LocksExact => WaitsOrdered
  BY Waits DEF WaitsOrdered
<1> QED
  BY <1>1, Invariance, LocksInvariance, PTL

\* So one of the operations under way can go on, whatever there are of them: no set of
\* requests of any number of clients, and no signal, makes the server stand still.
THEOREM NoDeadlock == Spec => []SomeoneGoesOn
<1>1. IInv /\ LocksExact => SomeoneGoesOn
  <2> SUFFICES ASSUME IInv, LocksExact, failures = 0,
                      \A t \in Threads : pc[t] # "idle" => \E u \in Threads : WaitsFor(t, u),
                      NEW t \in Threads, pc[t] # "idle"
               PROVE  FALSE
    BY DEF SomeoneGoesOn
  <2>1. \A v \in Threads : Rank(v) \in 0..3
    BY DEF Rank
  <2>2. ASSUME NEW v \in Threads, pc[v] # "idle"
        PROVE  \E u \in Threads : Rank(u) < Rank(v) /\ pc[u] # "idle"
    BY <2>2, Waits
  <2>3. PICK u \in Threads : Rank(u) < Rank(t) /\ pc[u] # "idle"
    BY <2>2
  <2>4. PICK v \in Threads : Rank(v) < Rank(u) /\ pc[v] # "idle"
    BY <2>2, <2>3
  <2>5. PICK w \in Threads : Rank(w) < Rank(v) /\ pc[w] # "idle"
    BY <2>2, <2>4
  <2>6. PICK x \in Threads : Rank(x) < Rank(w) /\ pc[x] # "idle"
    BY <2>2, <2>5
  <2> QED
    BY <2>1, <2>3, <2>4, <2>5, <2>6
<1> QED
  BY <1>1, Invariance, LocksInvariance, PTL

-----------------------------------------------------------------------------
\* The operations implement EventService.

\* The operators of EventService are the same ones.
LEMMA SameRange ==
  ASSUME NEW f
  PROVE  Abstract!Range(f) = Range(f)
BY DEF Abstract!Range, Range

\* Sizes are the same.
LEMMA SameCardinality ==
  ASSUME NEW S
  PROVE  Abstract!Cardinality(S) = Cardinality(S)
BY DEF Abstract!Cardinality, Cardinality

\* Requests and answers are written the same.
LEMMA SameAnswers ==
  /\ Abstract!NoRequest = NoRequest /\ Abstract!NoAnswer = NoAnswer
  /\ Abstract!Refused = Refused /\ Abstract!Done = Done
BY DEF Abstract!NoRequest, NoRequest, Abstract!NoAnswer, NoAnswer, Abstract!Refused, Refused,
   Abstract!Done, Done

\* A step changes the answer of its thread only.
LEMMA OutcomeMoves ==
  ASSUME NEW t \in Threads, OthersStay(t)
  PROVE  /\ outcome' = [outcome EXCEPT ![t] = outcome'[t]]
         /\ outcome'[t] = outcome[t] => outcome' = outcome
<1>1. \A u \in Threads : u # t => outcome'[u] = outcome[u]
  BY DEF OthersStay, outcome
<1>2. /\ outcome = [u \in Threads |-> outcome[u]]
      /\ outcome' = [u \in Threads |-> outcome'[u]]
  BY DEF outcome
<1> QED
  BY <1>1, <1>2

\* Only a new event, and a number, change what the seats will be.
LEMMA BookedStays ==
  ASSUME IInv, NEW t \in Threads, Moves(t), Shapes, OthersStay(t), Effects(t), ~Link(t),
         ~Number(t)
  PROVE  booked' = booked
<1>1. ASSUME NEW e \in EventIds PROVE Settled(e)' = Settled(e)
  <2>1. CASE Mark(t) /\ e = Id(t)
    BY <2>1, MarkSettled DEF IInv, ThreadsOK
  <2>2. CASE ~(Mark(t) /\ e = Id(t))
    BY <2>2, OtherSeatsStay
  <2> QED
    BY <2>1, <2>2
<1> QED
  BY <1>1 DEF booked

\* A new event, and a number, change the seats of one event.
LEMMA BookedMoves ==
  ASSUME IInv, NEW t \in Threads, Moves(t), Shapes, OthersStay(t), Effects(t),
         Link(t) \/ Number(t),
         NEW e \in EventIds, e = Id(t)
  PROVE  booked' = [booked EXCEPT ![e] = Settled(e)']
<1>1. ASSUME NEW i \in EventIds, i # e PROVE Settled(i)' = Settled(i)
  BY <1>1, OtherSeatsStay
<1> QED
  BY <1>1 DEF booked

\* While a thread has an event's mutex, and is not marking, the seats are what they are.
LEMMA BookedIs ==
  ASSUME IInv, NEW t \in Threads, pc[t] \in {"check", "read"}
  PROVE  /\ Id(t) \in EventIds
         /\ booked[Id(t)] = data[Id(t)]
<1>1. Id(t) \in EventIds /\ mutex[Id(t)] = t
  BY EventAt DEF IInv, ThreadsOK, MutexOK, Holding
<1>2. \A u \in Threads : ~(pc[u] = "mark" /\ Id(u) = Id(t))
  BY <1>1 DEF IInv, MutexOK, Holding
<1>3. Settled(Id(t)) = [s \in DOMAIN data[Id(t)] |-> data[Id(t)][s]]
  BY <1>2 DEF Settled
<1>4. data[Id(t)] \in Seq(Nat)
  BY <1>1 DEF IInv, TypeOK
<1> QED
  BY <1>1, <1>3, <1>4 DEF booked

\* The steps that the clients do not see.
Quiet(t) ==
  \/ WriteLock(t) \/ Count(t) \/ WriteUnlock(t) \/ ReadLock(t) \/ ReadUnlock(t)
  \/ LockEvent(t) \/ UnlockEvent(t) \/ Mark(t) \/ StartList(t) \/ Walk(t)
  \/ AnswerFails(t) \/ ShowFails(t) \/ ListFails(t)
  \/ t = Main /\ (StartDump \/ Advance \/ EndDump \/ ClearFlag)

\* Those that take effect are others.
LEMMA LinkNotQuiet ==
  ASSUME NEW t \in Threads, Shapes, Quiet(t)
  PROVE  ~Link(t) /\ ~Number(t)
BY MainIsThread DEF Quiet, WriteLock, Count, WriteUnlock, ReadLock, ReadUnlock, LockEvent,
   UnlockEvent, Mark, StartList, Walk, AnswerFails, ShowFails, ListFails, StartDump, Advance,
   EndDump, ClearFlag, Link, Number, Goto

\* The last seat completes the copy.
LEMMA WholeCopy ==
  ASSUME NEW S, NEW a \in Seq(S), NEW b \in Seq(S), Len(a) + 1 = Len(b),
         \A k \in 1..Len(a) : a[k] = b[k]
  PROVE  Append(a, b[Len(a) + 1]) = b
<1>1. Len(a) \in Nat /\ Len(a) + 1 \in 1..Len(b)
  OBVIOUS
<1>2. b[Len(a) + 1] \in S
  BY <1>1
<1> DEFINE c == Append(a, b[Len(a) + 1])
<1>3. /\ c \in Seq(S) /\ Len(c) = Len(a) + 1 /\ c[Len(a) + 1] = b[Len(a) + 1]
      /\ \A k \in 1..Len(a) : c[k] = a[k]
  BY <1>2, AppendProperties
<1> HIDE DEF c
<1>4. \A k \in 1..Len(b) : c[k] = b[k]
  BY <1>1, <1>3
<1> QED
  BY <1>3, <1>4, SeqEqual DEF c

\* They change neither the request nor the answer of their thread.
LEMMA QuietOwn ==
  ASSUME NEW t \in Threads, Shapes, Answered(t), Quiet(t)
  PROVE  asked' = asked /\ outcome'[t] = outcome[t]
<1> USE DEF Shapes, outcome
<1>1. CASE WriteLock(t)
  BY <1>1 DEF WriteLock, Goto
<1>2. CASE Count(t)
  BY <1>2 DEF Count, Goto, Answer, Answered
<1>3. CASE WriteUnlock(t)
  BY <1>3 DEF WriteUnlock, Goto
<1>4. CASE ReadLock(t)
  BY <1>4 DEF ReadLock, Goto
<1>5. CASE ReadUnlock(t)
  BY <1>5 DEF ReadUnlock, Goto
<1>6. CASE LockEvent(t)
  BY <1>6 DEF LockEvent, Goto
<1>7. CASE UnlockEvent(t)
  BY <1>7 DEF UnlockEvent, Goto
<1>8. CASE Mark(t)
  BY <1>8 DEF Mark, Goto, Answer, Answered
<1>9. CASE StartList(t)
  BY <1>9 DEF StartList, Goto
<1>10. CASE Walk(t)
  BY <1>10 DEF Walk, Goto
<1>11. CASE AnswerFails(t)
  BY <1>11 DEF AnswerFails, Goto
<1>12. CASE ShowFails(t)
  BY <1>12 DEF ShowFails, Goto
<1>13. CASE ListFails(t)
  BY <1>13 DEF ListFails, Goto
<1>14. CASE t = Main /\ StartDump
  BY <1>14 DEF StartDump, Goto
<1>15. CASE t = Main /\ Advance
  BY <1>15 DEF Advance, Goto
<1>16. CASE t = Main /\ EndDump
  BY <1>16 DEF EndDump, Goto
<1>17. CASE t = Main /\ ClearFlag
  BY <1>17 DEF ClearFlag, Goto
<1> QED
  BY <1>1, <1>2, <1>3, <1>4, <1>5, <1>6, <1>7, <1>8, <1>9, <1>10, <1>11, <1>12,
             <1>13, <1>14, <1>15, <1>16, <1>17 DEF Quiet

\* Every step is a step of EventService, or none of the clients' business.
LEMMA StepServes ==
  ASSUME IInv, NEW t \in Threads, Moves(t)
  PROVE  Abstract!Next \/ UNCHANGED <<list, booked, asked, outcome>>
<1>1. Shapes /\ Placed(t) /\ Answered(t) /\ Walking(t) /\ Seating(t) /\ TypeOK /\ LocalsOK
  BY ShapesOK DEF IInv, ThreadsOK
<1>2. OthersStay(t) /\ Effects(t)
  BY <1>1, Others, Parts
<1>3. ~Link(t) /\ ~Number(t) => list' = list /\ booked' = booked
  BY <1>1, <1>2, BookedStays DEF Effects
<1>4. /\ outcome' = [outcome EXCEPT ![t] = outcome'[t]]
      /\ outcome'[t] = outcome[t] => outcome' = outcome
  BY <1>2, OutcomeMoves
<1>5. /\ outcome[t] = IF pc[t] \in {"count", "mark"} THEN Done ELSE answer[t]
      /\ outcome'[t] = IF pc'[t] \in {"count", "mark"} THEN Done ELSE answer'[t]
  BY DEF outcome
<1>6. \A r : asked' = [asked EXCEPT ![t] = r] /\ asked[t] = NoRequest /\ r \in Requests
             /\ UNCHANGED <<list, booked, outcome>> => Abstract!Ask(t)
  BY SameAnswers DEF Abstract!Ask
<1>7. CASE t \in Workers /\ Ask(t)
  <2>1. PICK r \in Requests : /\ Goto(t, "idle", IF r.op = "create" THEN "wrlock" ELSE "rdlock")
                              /\ asked' = [asked EXCEPT ![t] = r]
    BY <1>7 DEF Ask
  <2>2. pc[t] = "idle" /\ asked[t] = NoRequest
    BY <1>1, <2>1 DEF Goto, Placed
  <2>3. pc'[t] \in {"wrlock", "rdlock"} /\ answer' = answer
    BY <1>1, <1>7, <2>1 DEF Ask, Goto, Shapes
  <2>4. list' = list /\ booked' = booked /\ outcome' = outcome
    BY <1>3, <1>4, <1>5, <1>7, <2>2, <2>3 DEF Link, Number, Goto
  <2> QED
    BY <1>6, <2>1, <2>2, <2>4 DEF Abstract!Next
<1>8. CASE t = Main /\ ShowNext
  <2>1. pc[t] = "next" /\ asked[t] = NoRequest
    BY <1>1, <1>8 DEF ShowNext, Goto, Placed
  <2>2. pc'[t] = "rdlock" /\ answer' = answer /\ asked' = [asked EXCEPT ![t] = ShowOf(list[current])]
    BY <1>1, <1>8 DEF ShowNext, Goto, Shapes
  <2>3. current \in 1..Len(list)
    BY <1>8, <2>1 DEF IInv, DumpOK, Dumping
  <2>4. list[current] \in EventIds
    BY <1>1, <2>3 DEF TypeOK
  <2>5. ShowOf(list[current]) \in Requests
    BY <2>4, ShowRequest
  <2>6. list' = list /\ booked' = booked /\ outcome' = outcome
    BY <1>3, <1>4, <1>5, <2>1, <2>2 DEF Link, Number, Goto
  <2> QED
    BY <1>6, <2>1, <2>2, <2>5, <2>6 DEF Abstract!Next
<1>9. CASE Quiet(t)
  <2>1. asked' = asked /\ outcome' = outcome
    BY <1>1, <1>4, <1>9, QuietOwn
  <2>2. ~Link(t) /\ ~Number(t)
    BY <1>1, <1>9, LinkNotQuiet
  <2> QED
    BY <1>3, <2>1, <2>2
<1> DEFINE r == asked[t]
<1>20. PICK e : e = Id(t)
  OBVIOUS
<1>10. ASSUME r # NoRequest, outcome[t] = NoAnswer, asked' = asked, outcome'[t] = Refused,
              list' = list, booked' = booked, Abstract!Impossible(r)
       PROVE  Abstract!Next
  <2>1. Abstract!Refuse(t, r)
    BY <1>4, <1>10, SameAnswers DEF Abstract!Refuse, Abstract!Says
  <2>2. Abstract!Serve(t)
    BY <1>10, <2>1, SameAnswers DEF Abstract!Serve
  <2> QED
    BY <2>2 DEF Abstract!Next
<1>11. CASE SearchFree(t)
  <2>1. /\ pc[t] = "searchFree" /\ r.op = "create" /\ asked' = asked /\ r # NoRequest
        /\ outcome[t] = NoAnswer
    BY <1>1, <1>5, <1>11 DEF SearchFree, Goto, Placed, Answered
  <2>2. list' = list /\ booked' = booked
    BY <1>3, <2>1 DEF Link, Number, Goto
  <2>3. CASE InList(e)
    <3>1. pc'[t] = "wrunlock" /\ answer'[t] = Refused
      BY <1>1, <1>11, <1>20, <2>3 DEF SearchFree, Goto, Answer, Shapes
    <3>2. Abstract!Impossible(r)
      BY <1>20, <2>1, <2>3, SameRange DEF Abstract!Impossible, InList, Id
    <3> QED
      BY <1>5, <1>10, <2>1, <2>2, <3>1, <3>2
  <2>4. CASE ~InList(e)
    <3>1. pc'[t] = "link" /\ answer' = answer
      BY <1>1, <1>11, <1>20, <2>4 DEF SearchFree, Goto, Shapes
    <3> QED
      BY <1>4, <1>5, <2>1, <2>2, <3>1
  <2> QED
    BY <2>3, <2>4
<1>12. CASE Search(t)
  <2>1. /\ pc[t] = "search" /\ r.op \in {"reserve", "show"} /\ asked' = asked /\ r # NoRequest
        /\ outcome[t] = NoAnswer /\ pc'[t] = "rdunlock"
    BY <1>1, <1>5, <1>12 DEF Search, Goto, Placed, Answered, Shapes
  <2>2. list' = list /\ booked' = booked
    BY <1>3, <2>1 DEF Link, Number, Goto
  <2>3. CASE InList(e)
    <3>1. answer' = answer
      BY <1>12, <1>20, <2>3 DEF Search
    <3> QED
      BY <1>4, <1>5, <2>1, <2>2, <3>1
  <2>4. CASE ~InList(e)
    <3>1. answer'[t] = Refused
      BY <1>1, <1>12, <1>20, <2>4 DEF Search, Answer, Shapes
    <3>2. Abstract!Impossible(r)
      BY <1>20, <2>1, <2>4, SameRange DEF Abstract!Impossible, InList, Id
    <3> QED
      BY <1>5, <1>10, <2>1, <2>2, <3>1, <3>2
  <2> QED
    BY <2>3, <2>4
<1>13. CASE CheckSeats(t)
  <2>1. /\ pc[t] = "check" /\ r.op = "reserve" /\ asked' = asked /\ r # NoRequest
        /\ outcome[t] = NoAnswer
    BY <1>1, <1>5, <1>13 DEF CheckSeats, Goto, Placed, Answered
  <2>2. list' = list /\ booked' = booked
    BY <1>3, <2>1 DEF Link, Number, Goto
  <2>3. CASE CanReserve(e, r.seats)
    <3>1. pc'[t] = "number" /\ answer' = answer
      BY <1>1, <1>13, <1>20, <2>3 DEF CheckSeats, Goto, Shapes
    <3> QED
      BY <1>4, <1>5, <2>1, <2>2, <3>1
  <2>4. CASE ~CanReserve(e, r.seats)
    <3>1. pc'[t] = "unlock" /\ answer'[t] = Refused
      BY <1>1, <1>13, <1>20, <2>4 DEF CheckSeats, Goto, Answer, Shapes
    <3>2. e \in Range(list) /\ booked[e] = data[e]
      BY <1>20, <2>1, BookedIs DEF IInv, FoundOK, Found, Holding
    <3>3. PICK s \in Range(r.seats) : ~(s \in DOMAIN data[e] /\ data[e][s] = 0)
      BY <2>4 DEF CanReserve
    <3>4. ~Abstract!Free(e, s)
      BY <3>2, <3>3 DEF Abstract!Free
    <3>5. Abstract!Impossible(r)
      BY <1>20, <2>1, <3>2, <3>3, <3>4, SameRange DEF Abstract!Impossible, Id
    <3> QED
      BY <1>5, <1>10, <2>1, <2>2, <3>1, <3>5
  <2> QED
    BY <2>3, <2>4
<1>14. CASE Link(t)
  <2>1. /\ pc[t] = "link" /\ pc'[t] = "count" /\ r.op = "create" /\ asked' = asked /\ r # NoRequest
        /\ outcome[t] = NoAnswer /\ list' = Append(list, e) /\ e \notin Range(list)
    BY <1>1, <1>5, <1>14, <1>20 DEF Link, Goto, Placed, Answered, Shapes, IInv, FoundOK
  <2>2. booked' = [booked EXCEPT ![e] = [s \in 1..r.size |-> 0]]
    <3>1. e \in EventIds /\ Settled(e)' = [s \in 1..r.size |-> 0]
      BY <1>1, <1>14, <1>20, LinkSettled
    <3> QED
      BY <1>1, <1>2, <1>14, <1>20, <3>1, BookedMoves
  <2>3. outcome'[t] = Done
    BY <1>5, <2>1
  <2>4. Abstract!Create(t, r)
    BY <1>4, <1>20, <2>1, <2>2, <2>3, SameRange, SameAnswers DEF Abstract!Create, Abstract!Says, Id
  <2>5. Abstract!Serve(t)
    BY <2>1, <2>4, SameAnswers DEF Abstract!Serve
  <2> QED
    BY <2>5 DEF Abstract!Next
<1>15. CASE Number(t)
  <2>1. /\ pc[t] = "number" /\ pc'[t] = "mark" /\ r.op = "reserve" /\ asked' = asked /\ r # NoRequest
        /\ outcome[t] = NoAnswer /\ list' = list /\ e \in Range(list)
    BY <1>1, <1>5, <1>15, <1>20 DEF Number, Goto, Placed, Answered, Shapes, IInv, FoundOK, Found, Holding
  <2>2. /\ e \in EventIds
        /\ Settled(e) = [s \in DOMAIN data[e] |-> data[e][s]]
        /\ \A s \in Range(r.seats) : s \in DOMAIN data[e] /\ data[e][s] = 0
        /\ Settled(e)' = [s \in DOMAIN data[e] |->
             IF s \in Range(r.seats) THEN reservations[e] + 1 ELSE data[e][s]]
    BY <1>1, <1>2, <1>15, <1>20, NumberSettled DEF IInv
  <2>3. booked[e] = Settled(e)
    BY <2>2 DEF booked
  <2>4. Abstract!NextNumber(e) = reservations[e] + 1
    <3>1. Range(booked[e]) \ {0} = 1..reservations[e] /\ reservations[e] \in Nat
      BY <1>1, <2>1, <2>2, <2>3 DEF IInv, ReservationsDense, TypeOK
    <3>2. Cardinality(1..reservations[e]) = reservations[e]
      BY <3>1, FS_Interval
    <3> QED
      BY <3>1, <3>2, SameRange, SameCardinality DEF Abstract!NextNumber
  <2>5. booked' = [booked EXCEPT ![e] =
          [s \in DOMAIN booked[e] |->
             IF s \in Range(r.seats) THEN Abstract!NextNumber(e) ELSE booked[e][s]]]
    <3>1. Settled(e)' = [s \in DOMAIN booked[e] |->
             IF s \in Range(r.seats) THEN Abstract!NextNumber(e) ELSE booked[e][s]]
      BY <2>2, <2>3, <2>4
    <3> QED
      BY <1>1, <1>2, <1>15, <1>20, <2>2, <3>1, BookedMoves
  <2>6. outcome'[t] = Done
    BY <1>5, <2>1
  <2>7. \A s \in Range(r.seats) : Abstract!Free(e, s)
    BY <2>2, <2>3 DEF Abstract!Free
  <2>8. Abstract!Reserve(t, r)
    BY <1>4, <1>20, <2>1, <2>5, <2>6, <2>7, SameRange, SameAnswers DEF Abstract!Reserve, Abstract!Says, Id
  <2>9. Abstract!Serve(t)
    BY <2>1, <2>8, SameAnswers DEF Abstract!Serve
  <2> QED
    BY <2>9 DEF Abstract!Next
<1>16. CASE ReadSeat(t)
  <2> DEFINE n == Len(copy[t]) + 1  all == Append(copy[t], data[e][n])
  <2>1. /\ pc[t] = "read" /\ r.op = "show" /\ asked' = asked /\ r # NoRequest
        /\ outcome[t] = NoAnswer
    BY <1>1, <1>5, <1>16 DEF ReadSeat, Goto, Placed, Answered
  <2>2. list' = list /\ booked' = booked
    BY <1>3, <2>1 DEF Link, Number, Goto
  <2>3. CASE n # Len(data[e])
    <3>1. pc'[t] = "read" /\ answer' = answer
      BY <1>1, <1>16, <1>20, <2>3 DEF ReadSeat, Goto, Shapes
    <3> QED
      BY <1>4, <1>5, <2>1, <2>2, <3>1
  <2>4. CASE n = Len(data[e])
    <3>1. pc'[t] = "unlock" /\ answer'[t] = <<0, all>>
      BY <1>1, <1>16, <1>20, <2>4 DEF ReadSeat, Goto, Answer, Shapes
    <3>2. e \in Range(list) /\ booked[e] = data[e] /\ e \in EventIds
      BY <1>20, <2>1, BookedIs DEF IInv, FoundOK, Found, Holding
    <3>3. all = data[e]
      BY <1>1, <1>20, <2>1, <2>4, <3>2, WholeCopy DEF TypeOK, LocalsOK, Seating
    <3>4. Abstract!Show(t, r)
      BY <1>4, <1>5, <1>20, <2>2, <3>1, <3>2, <3>3, SameRange DEF Abstract!Show, Abstract!Says, Id
    <3>5. Abstract!Serve(t)
      BY <2>1, <3>4, SameAnswers DEF Abstract!Serve
    <3> QED
      BY <3>5 DEF Abstract!Next
  <2> QED
    BY <2>3, <2>4
<1>17. CASE WriteList(t)
  <2>1. /\ pc[t] = "walk" /\ pc'[t] = "rdunlock" /\ r.op = "list" /\ asked' = asked /\ r # NoRequest
        /\ outcome[t] = NoAnswer /\ answer'[t] = <<0, total[t], copy[t]>> /\ Len(copy[t]) = to[t]
    BY <1>1, <1>5, <1>17 DEF WriteList, Goto, Answer, Placed, Answered, Shapes
  <2>2. list' = list /\ booked' = booked
    BY <1>3, <2>1 DEF Link, Number, Goto
  <2>3. total[t] = Len(list) /\ copy[t] = list
    <3>1. copy[t] \in Seq(Nat \cup EventIds) /\ list \in Seq(Nat \cup EventIds)
      BY <1>1 DEF TypeOK, LocalsOK
    <3>2. total[t] = Len(list) /\ Len(copy[t]) = Len(list) /\ \A k \in 1..Len(list) : copy[t][k] = list[k]
      BY <1>1, <2>1 DEF Walking
    <3> QED
      BY <3>1, <3>2, SeqEqual
  <2>4. Abstract!List(t)
    BY <1>4, <1>5, <2>1, <2>2, <2>3 DEF Abstract!List, Abstract!Says
  <2>5. Abstract!Serve(t)
    BY <2>1, <2>4, SameAnswers DEF Abstract!Serve
  <2> QED
    BY <2>5 DEF Abstract!Next
<1>18. CASE CreateFails(t)
  <2>1. /\ pc[t] = "link" /\ pc'[t] = "wrunlock" /\ r.op = "create" /\ asked' = asked /\ r # NoRequest
        /\ outcome[t] = NoAnswer /\ answer'[t] = Refused
    BY <1>1, <1>5, <1>18 DEF CreateFails, Goto, Answer, Placed, Answered, Shapes
  <2>2. list' = list /\ booked' = booked
    BY <1>1, <1>3, <1>18, <2>1 DEF Link, Number, Goto, Shapes
  <2>3. Abstract!GiveUp(t)
    BY <1>4, <1>5, <2>1, <2>2, SameAnswers DEF Abstract!GiveUp, Abstract!Says
  <2> QED
    BY <2>3 DEF Abstract!Next
<1>19. CASE Return(t)
  <2>1. /\ pc[t] = "return" /\ pc'[t] \in {"advance", "idle"} /\ r # NoRequest
        /\ asked' = [asked EXCEPT ![t] = NoRequest] /\ answer'[t] = NoAnswer
        /\ outcome[t] = answer[t] /\ outcome'[t] = NoAnswer
    BY <1>1, <1>5, <1>19 DEF Return, Goto, Answer, Placed, Shapes
  <2>2. list' = list /\ booked' = booked
    BY <1>3, <2>1 DEF Link, Number, Goto
  <2>3. CASE answer[t] = NoAnswer
    <3>1. r.op \in {"show", "list"}
      BY <1>1, <2>1, <2>3 DEF Answered
    <3>2. outcome' = outcome
      BY <1>4, <2>1, <2>3
    <3>3. Abstract!GiveUp(t)
      BY <2>1, <2>2, <2>3, <3>1, <3>2, SameAnswers DEF Abstract!GiveUp
    <3> QED
      BY <3>3 DEF Abstract!Next
  <2>4. CASE answer[t] # NoAnswer
    <3>1. Abstract!Return(t)
      BY <1>4, <2>1, <2>2, <2>4, SameAnswers DEF Abstract!Return, Abstract!Says
    <3> QED
      BY <3>1 DEF Abstract!Next
  <2> QED
    BY <2>3, <2>4
<1> QED
  BY <1>7, <1>8, <1>9, <1>11, <1>12, <1>13, <1>14, <1>15, <1>16, <1>17, <1>18, <1>19
     DEF Moves, Step, Fails, DumpStep, Quiet

\* The service that the operations implement: every request takes effect at one instant,
\* or not at all, and its answer tells the state of that instant.
THEOREM Implements == Spec => ImplementsService
<1>1. Init => Abstract!Init
  <2>1. ASSUME Init, NEW e \in EventIds PROVE Settled(e) = <<>>
    BY <2>1 DEF Init, Settled
  <2> QED
    BY <2>1, SameAnswers DEF Init, Abstract!Init, booked, outcome, NoRequest, NoAnswer
<1>2. IInv /\ [Next]_vars => [Abstract!Next]_(Abstract!serviceVars)
  <2> SUFFICES ASSUME IInv, [Next]_vars
               PROVE  Abstract!Next \/ UNCHANGED <<list, booked, asked, outcome>>
    BY DEF Abstract!serviceVars
  <2>1. CASE UNCHANGED vars \/ Signal
    <3>1. UNCHANGED <<list, reservations, data, pc, asked, answer, left>>
      BY <2>1 DEF vars, Signal
    <3>2. UNCHANGED <<booked, outcome>>
      BY <3>1 DEF booked, outcome, Settled, Id, Range
    <3> QED
      BY <3>1, <3>2
  <2>2. CASE Next /\ ~Signal
    <3>1. PICK t \in Threads : Moves(t)
      BY <2>2, MainIsThread DEF Next, Moves, Threads
    <3> QED
      BY <3>1, StepServes
  <2> QED
    BY <2>1, <2>2
<1> QED
  BY Invariance, <1>1, <1>2, PTL DEF Spec, ImplementsService, Abstract!Spec

=============================================================================
