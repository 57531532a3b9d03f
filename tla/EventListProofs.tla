--------------------------- MODULE EventListProofs ---------------------------
(***************************************************************************)
(* The list of events of Part 1 implements Catalogue, for every number of  *)
(* threads, events and calls, and whatever fails.                          *)
(***************************************************************************)
EXTENDS EventList, SequenceTheorems, TLAPS

\* The type of every variable.
TypeOK ==
  /\ list \in Seq(EventIds)
  /\ writer \in Threads \cup {NoThread}
  /\ readers \in [Threads -> Nat]
  /\ mutex \in Threads \cup {NoThread}
  /\ pc \in [Threads -> {"idle", "wrlock", "searchFree", "append", "wrunlock", "rdlock",
        "search", "rdunlock", "head", "headUnlock", "headUnlockEmpty", "buffer", "walk",
        "node", "nodeUnlock", "write", "return"}]
  /\ asked \in [Threads -> Calls \cup {NoCall}]
  /\ answer \in [Threads -> {NoAnswer, <<"ok">>, <<"refused">>, <<"failed">>}]
  /\ current \in [Threads -> Nat]
  /\ buffer \in [Threads -> Seq(EventIds)]

Writing(t) == pc[t] \in {"searchFree", "append", "wrunlock"}
Reading(t) == pc[t] \in {"search", "rdunlock", "head", "headUnlock", "headUnlockEmpty",
                         "node", "nodeUnlock"}

\* Who has global_rwlock.  A thread may have kept it for reading, or for writing,
\* where a call has failed; so Writing and Reading are sufficient only.
LockOK ==
  /\ \A t \in Threads : Writing(t) => writer = t
  /\ \A t \in Threads : Reading(t) => readers[t] > 0
  /\ writer # NoThread => \A t \in Threads : readers[t] = 0

\* Where each call may be.
PlaceOK ==
  \A t \in Threads :
    /\ pc[t] = "idle" <=> asked[t] = NoCall
    /\ pc[t] \in {"wrlock", "searchFree", "append", "wrunlock"} => asked[t].op = "create"
    /\ pc[t] \in {"search", "rdunlock"} => asked[t].op = "find"
    /\ pc[t] \in {"head", "headUnlock", "headUnlockEmpty", "buffer", "walk", "node",
                  "nodeUnlock", "write"} => asked[t].op = "list"
    /\ pc[t] = "rdlock" => asked[t].op \in {"find", "list"}

\* What a call has come to, and where.
AnswerOK ==
  \A t \in Threads :
    /\ answer[t] # NoAnswer => pc[t] \in {"wrunlock", "rdunlock", "return"}
    /\ pc[t] \in {"wrunlock", "rdunlock"} => answer[t] # NoAnswer
    /\ pc[t] = "return" => answer[t] # NoAnswer \/ Listed(t)

\* An id that was found free stays free until it is appended, and no two events
\* of the list have the same.
FreeOK ==
  /\ \A t \in Threads : pc[t] = "append" => asked[t].id \notin Range(list)
  /\ IsInjective(list)

\* A list that is under way has the ids up to the node that it reads next, which
\* is in the list; a list's first node may not have been looked for.
WalkOK ==
  \A t \in Threads :
    /\ pc[t] \in {"idle", "wrlock", "rdlock", "head", "headUnlockEmpty", "write"} => current[t] = Null
    /\ pc[t] \in {"headUnlock", "buffer", "node"} => current[t] # Null
    /\ pc[t] \in {"idle", "wrlock", "rdlock", "head"} => buffer[t] = <<>>
    /\ asked[t].op \in {"create", "find"} => current[t] = Null /\ buffer[t] = <<>>
    /\ current[t] # Null =>
         /\ current[t] = Len(buffer[t]) + 1
         /\ current[t] <= Len(list)
         /\ \A k \in 1..Len(buffer[t]) : buffer[t][k] = list[k]

\* The inductive invariant.
IInv ==
  /\ TypeOK
  /\ LockOK
  /\ PlaceOK
  /\ AnswerOK
  /\ FreeOK
  /\ WalkOK

-----------------------------------------------------------------------------

LEMMA InitIInv == Init => IInv
<1> SUFFICES ASSUME Init PROVE IInv
  OBVIOUS
<1> USE ThreadsAssumption
<1>1. TypeOK
  <2>1. list \in Seq(EventIds) /\ <<>> \in Seq(EventIds)
    BY EmptySeq DEF Init
  <2> QED
    BY <2>1 DEF Init, TypeOK, Null
<1>2. LockOK /\ WalkOK
  BY DEF Init, LockOK, WalkOK, Writing, Reading, NoCall
<1>3. PlaceOK /\ AnswerOK
  BY DEF Init, PlaceOK, AnswerOK, NoCall
<1>4. FreeOK
  BY DEF Init, FreeOK, IsInjective
<1> QED
  BY <1>1, <1>2, <1>3, <1>4 DEF IInv

-----------------------------------------------------------------------------
\* The event that a create or a search is for.
LEMMA EventOfCall ==
  ASSUME TypeOK, NEW t \in Threads, asked[t].op \in {"create", "find"}
  PROVE  asked[t].id \in EventIds
<1>1. asked[t] \in Calls \cup {NoCall}
  BY DEF TypeOK
<1>2. asked[t] # NoCall /\ asked[t] \notin [op : {"list"}]
  BY DEF NoCall
<1>3. asked[t] \in [op : {"create", "find"}, id : EventIds]
  BY <1>1, <1>2 DEF Calls
<1> QED
  BY <1>3

\* Answers are told from none.
LEMMA Answers == \A a \in {"ok", "refused", "failed"} : <<a>> # NoAnswer
BY DEF NoAnswer

\* Each part of the invariant is preserved by the actions, one by one.
LEMMA TypeKept ==
  ASSUME TypeOK, LockOK, PlaceOK, WalkOK, NEW t \in Threads, Ask(t) \/ Thread(t)
  PROVE  TypeOK'
<1> USE ThreadsAssumption DEF TypeOK, Null
<1>1. CASE Ask(t)
  BY <1>1 DEF Ask, Goto
<1>2. CASE Return(t)
  BY <1>2 DEF Return, Goto
<1>3. CASE LockFails(t)
  BY <1>3 DEF LockFails, Goto, Answer
<1>4. CASE WriteLock(t)
  BY <1>4 DEF WriteLock, Goto
<1>5. CASE SearchFree(t)
  BY <1>5 DEF SearchFree, Goto, Answer
<1>6. CASE AppendToList(t)
  <2>1. asked[t].id \in EventIds
    BY <1>6, EventOfCall DEF AppendToList, Goto, PlaceOK
  <2>2. list' \in Seq(EventIds)
    BY <1>6, <2>1 DEF AppendToList
  <2> QED
    BY <1>6, <2>2 DEF AppendToList, Goto, Answer
<1>7. CASE CreateFails(t)
  BY <1>7 DEF CreateFails, Fails, Goto, Answer
<1>8. CASE CreateFailsLocked(t)
  BY <1>8 DEF CreateFailsLocked, Fails, Goto, Answer
<1>9. CASE WriteUnlock(t)
  BY <1>9 DEF WriteUnlock, Goto
<1>10. CASE ReadLock(t)
  <2>1. readers' \in [Threads -> Nat]
    BY <1>10 DEF ReadLock
  <2> QED
    BY <1>10, <2>1 DEF ReadLock, Goto
<1>11. CASE Search(t)
  BY <1>11 DEF Search, Goto, Answer
<1>12. CASE ReadHead(t)
  BY <1>12 DEF ReadHead, Goto, Node
<1>13. CASE ReadNode(t)
  <2>1. current[t] \in 1..Len(list)
    BY <1>13 DEF ReadNode, Goto, WalkOK
  <2>2. list[current[t]] \in EventIds
    BY <2>1
  <2>3. buffer' \in [Threads -> Seq(EventIds)]
    BY <1>13, <2>2 DEF ReadNode
  <2>4. current' \in [Threads -> Nat]
    BY <1>13, <2>1 DEF ReadNode, Node
  <2> QED
    BY <1>13, <2>3, <2>4 DEF ReadNode, Goto
<1>14. CASE ReadUnlock(t)
  <2>1. readers[t] > 0
    BY <1>14 DEF ReadUnlock, Goto, LockOK, Reading
  <2>2. readers' \in [Threads -> Nat]
    BY <1>14, <2>1 DEF ReadUnlock
  <2> QED
    BY <1>14, <2>2 DEF ReadUnlock, Goto
<1>15. CASE AllocateBuffer(t)
  BY <1>15 DEF AllocateBuffer, Goto
<1>16. CASE ListFails(t)
  BY <1>16 DEF ListFails, Fails, Goto, Answer
<1>17. CASE ListFailsLocked(t)
  BY <1>17 DEF ListFailsLocked, Fails, Goto, Answer
<1>18. CASE LockOutput(t)
  BY <1>18 DEF LockOutput, Goto
<1>19. CASE WriteOutput(t)
  BY <1>19 DEF WriteOutput, Goto
<1> QED
  BY <1>1, <1>2, <1>3, <1>4, <1>5, <1>6, <1>7, <1>8, <1>9, <1>10, <1>11, <1>12, <1>13, <1>14, <1>15, <1>16, <1>17, <1>18, <1>19 DEF Thread

\* Who has the lock.
LEMMA LockKept ==
  ASSUME TypeOK, LockOK, NEW t \in Threads, Ask(t) \/ Thread(t)
  PROVE  LockOK'
<1> USE ThreadsAssumption DEF TypeOK, LockOK, Writing, Reading
<1>1. CASE Ask(t)
  BY <1>1 DEF Ask, Goto
<1>2. CASE Return(t)
  BY <1>2 DEF Return, Goto
<1>3. CASE LockFails(t)
  BY <1>3 DEF LockFails, Goto, Answer
<1>4. CASE WriteLock(t)
  BY <1>4 DEF WriteLock, Goto
<1>5. CASE SearchFree(t)
  BY <1>5 DEF SearchFree, Goto, Answer
<1>6. CASE AppendToList(t)
  BY <1>6 DEF AppendToList, Goto, Answer
<1>7. CASE CreateFails(t)
  BY <1>7 DEF CreateFails, Fails, Goto, Answer
<1>8. CASE CreateFailsLocked(t)
  BY <1>8 DEF CreateFailsLocked, Fails, Goto, Answer
<1>9. CASE WriteUnlock(t)
  BY <1>9 DEF WriteUnlock, Goto
<1>10. CASE ReadLock(t)
  BY <1>10 DEF ReadLock, Goto
<1>11. CASE Search(t)
  BY <1>11 DEF Search, Goto, Answer
<1>12. CASE ReadHead(t)
  BY <1>12 DEF ReadHead, Goto, Node
<1>13. CASE ReadNode(t)
  BY <1>13 DEF ReadNode, Goto, Node
<1>14. CASE ReadUnlock(t)
  BY <1>14 DEF ReadUnlock, Goto
<1>15. CASE AllocateBuffer(t)
  BY <1>15 DEF AllocateBuffer, Goto
<1>16. CASE ListFails(t)
  BY <1>16 DEF ListFails, Fails, Goto, Answer
<1>17. CASE ListFailsLocked(t)
  BY <1>17 DEF ListFailsLocked, Fails, Goto, Answer
<1>18. CASE LockOutput(t)
  BY <1>18 DEF LockOutput, Goto
<1>19. CASE WriteOutput(t)
  BY <1>19 DEF WriteOutput, Goto
<1> QED
  BY <1>1, <1>2, <1>3, <1>4, <1>5, <1>6, <1>7, <1>8, <1>9, <1>10, <1>11, <1>12, <1>13, <1>14, <1>15, <1>16, <1>17, <1>18, <1>19 DEF Thread

\* Where each call is.
LEMMA PlaceKept ==
  ASSUME TypeOK, PlaceOK, NEW t \in Threads, Ask(t) \/ Thread(t)
  PROVE  PlaceOK'
<1> USE ThreadsAssumption DEF TypeOK, PlaceOK, Calls, NoCall
<1>1. CASE Ask(t)
  BY <1>1 DEF Ask, Goto
<1>2. CASE Return(t)
  BY <1>2 DEF Return, Goto
<1>3. CASE LockFails(t)
  BY <1>3 DEF LockFails, Goto, Answer
<1>4. CASE WriteLock(t)
  BY <1>4 DEF WriteLock, Goto
<1>5. CASE SearchFree(t)
  BY <1>5 DEF SearchFree, Goto, Answer
<1>6. CASE AppendToList(t)
  BY <1>6 DEF AppendToList, Goto, Answer
<1>7. CASE CreateFails(t)
  BY <1>7 DEF CreateFails, Fails, Goto, Answer
<1>8. CASE CreateFailsLocked(t)
  BY <1>8 DEF CreateFailsLocked, Fails, Goto, Answer
<1>9. CASE WriteUnlock(t)
  BY <1>9 DEF WriteUnlock, Goto
<1>10. CASE ReadLock(t)
  BY <1>10 DEF ReadLock, Goto
<1>11. CASE Search(t)
  BY <1>11 DEF Search, Goto, Answer
<1>12. CASE ReadHead(t)
  BY <1>12 DEF ReadHead, Goto, Node
<1>13. CASE ReadNode(t)
  BY <1>13 DEF ReadNode, Goto, Node
<1>14. CASE ReadUnlock(t)
  BY <1>14 DEF ReadUnlock, Goto
<1>15. CASE AllocateBuffer(t)
  BY <1>15 DEF AllocateBuffer, Goto
<1>16. CASE ListFails(t)
  BY <1>16 DEF ListFails, Fails, Goto, Answer
<1>17. CASE ListFailsLocked(t)
  BY <1>17 DEF ListFailsLocked, Fails, Goto, Answer
<1>18. CASE LockOutput(t)
  BY <1>18 DEF LockOutput, Goto
<1>19. CASE WriteOutput(t)
  BY <1>19 DEF WriteOutput, Goto
<1> QED
  BY <1>1, <1>2, <1>3, <1>4, <1>5, <1>6, <1>7, <1>8, <1>9, <1>10, <1>11, <1>12, <1>13, <1>14, <1>15, <1>16, <1>17, <1>18, <1>19 DEF Thread

\* What each call has come to.
LEMMA AnswerKept ==
  ASSUME TypeOK, PlaceOK, AnswerOK, WalkOK, NEW t \in Threads, Ask(t) \/ Thread(t)
  PROVE  AnswerOK'
<1> USE ThreadsAssumption DEF TypeOK, PlaceOK, AnswerOK, WalkOK, Listed
<1>1. CASE Ask(t)
  BY <1>1 DEF Ask, Goto
<1>2. CASE Return(t)
  BY <1>2 DEF Return, Goto
<1>3. CASE LockFails(t)
  BY <1>3, Answers DEF LockFails, Goto, Answer
<1>4. CASE WriteLock(t)
  BY <1>4 DEF WriteLock, Goto
<1>5. CASE SearchFree(t)
  BY <1>5, Answers DEF SearchFree, Goto, Answer
<1>6. CASE AppendToList(t)
  BY <1>6, Answers DEF AppendToList, Goto, Answer
<1>7. CASE CreateFails(t)
  BY <1>7, Answers DEF CreateFails, Fails, Goto, Answer
<1>8. CASE CreateFailsLocked(t)
  BY <1>8, Answers DEF CreateFailsLocked, Fails, Goto, Answer
<1>9. CASE WriteUnlock(t)
  BY <1>9 DEF WriteUnlock, Goto
<1>10. CASE ReadLock(t)
  BY <1>10 DEF ReadLock, Goto
<1>11. CASE Search(t)
  BY <1>11, Answers DEF Search, Goto, Answer
<1>12. CASE ReadHead(t)
  BY <1>12 DEF ReadHead, Goto, Node
<1>13. CASE ReadNode(t)
  BY <1>13 DEF ReadNode, Goto, Node
<1>14. CASE ReadUnlock(t)
  BY <1>14 DEF ReadUnlock, Goto
<1>15. CASE AllocateBuffer(t)
  BY <1>15 DEF AllocateBuffer, Goto
<1>16. CASE ListFails(t)
  BY <1>16, Answers DEF ListFails, Fails, Goto, Answer
<1>17. CASE ListFailsLocked(t)
  BY <1>17, Answers DEF ListFailsLocked, Fails, Goto, Answer
<1>18. CASE LockOutput(t)
  BY <1>18 DEF LockOutput, Goto
<1>19. CASE WriteOutput(t)
  BY <1>19 DEF WriteOutput, Goto
<1> QED
  BY <1>1, <1>2, <1>3, <1>4, <1>5, <1>6, <1>7, <1>8, <1>9, <1>10, <1>11, <1>12, <1>13, <1>14, <1>15, <1>16, <1>17, <1>18, <1>19 DEF Thread

\* What a list has read.
LEMMA WalkKept ==
  ASSUME IInv, NEW t \in Threads, Ask(t) \/ Thread(t)
  PROVE  WalkOK'
<1> USE ThreadsAssumption DEF IInv, TypeOK, PlaceOK, WalkOK, Null
<1>1. CASE Ask(t)
  BY <1>1 DEF Ask, Goto
<1>2. CASE Return(t)
  BY <1>2 DEF Return, Goto
<1>3. CASE LockFails(t)
  BY <1>3 DEF LockFails, Goto, Answer
<1>4. CASE WriteLock(t)
  BY <1>4 DEF WriteLock, Goto
<1>5. CASE SearchFree(t)
  BY <1>5 DEF SearchFree, Goto, Answer
<1>6. CASE AppendToList(t)
  BY <1>6 DEF AppendToList, Goto, Answer
<1>7. CASE CreateFails(t)
  BY <1>7 DEF CreateFails, Fails, Goto, Answer
<1>8. CASE CreateFailsLocked(t)
  BY <1>8 DEF CreateFailsLocked, Fails, Goto, Answer
<1>9. CASE WriteUnlock(t)
  BY <1>9 DEF WriteUnlock, Goto
<1>10. CASE ReadLock(t)
  BY <1>10 DEF ReadLock, Goto
<1>11. CASE Search(t)
  BY <1>11 DEF Search, Goto, Answer
<1>12. CASE ReadHead(t)
  BY <1>12 DEF ReadHead, Goto, Node
<1>13. CASE ReadNode(t)
  BY <1>13 DEF ReadNode, Goto, Node
<1>14. CASE ReadUnlock(t)
  BY <1>14 DEF ReadUnlock, Goto
<1>15. CASE AllocateBuffer(t)
  BY <1>15 DEF AllocateBuffer, Goto
<1>16. CASE ListFails(t)
  BY <1>16 DEF ListFails, Fails, Goto, Answer
<1>17. CASE ListFailsLocked(t)
  BY <1>17 DEF ListFailsLocked, Fails, Goto, Answer
<1>18. CASE LockOutput(t)
  BY <1>18 DEF LockOutput, Goto
<1>19. CASE WriteOutput(t)
  BY <1>19 DEF WriteOutput, Goto
<1> QED
  BY <1>1, <1>2, <1>3, <1>4, <1>5, <1>6, <1>7, <1>8, <1>9, <1>10, <1>11, <1>12, <1>13, <1>14, <1>15, <1>16, <1>17, <1>18, <1>19 DEF Thread

\* Between the search and the append of a create no other thread appends: each of
\* them has the lock.
LEMMA FreeKept ==
  ASSUME TypeOK, LockOK, FreeOK, NEW t \in Threads, Ask(t) \/ Thread(t)
  PROVE  FreeOK'
<1>1. CASE AppendToList(t)
  <2>1. pc[t] = "append" /\ pc'[t] # "append"
    BY <1>1 DEF AppendToList, Goto, TypeOK
  <2>2. \A u \in Threads : pc'[u] # "append"
    BY <1>1, <2>1 DEF AppendToList, Goto, TypeOK, LockOK, Writing
  <2>3. asked[t].id \notin Range(list)
    BY <2>1 DEF FreeOK
  <2>4. list' = Append(list, asked[t].id)
    BY <1>1 DEF AppendToList
  <2>5. /\ DOMAIN list' = 1..(Len(list) + 1)
        /\ \A k \in 1..Len(list) : list'[k] = list[k]
        /\ list'[Len(list) + 1] = asked[t].id
    BY <2>4 DEF TypeOK
  <2>6. \A k \in 1..Len(list) : list[k] # asked[t].id
    BY <2>3 DEF Range, TypeOK
  <2>7. DOMAIN list = 1..Len(list) /\ Len(list) \in Nat
    BY DEF TypeOK
  <2>8. \A j, k \in 1..(Len(list) + 1) : list'[j] = list'[k] => j = k
    BY <2>5, <2>6, <2>7 DEF FreeOK, IsInjective
  <2>9. IsInjective(list')
    BY <2>5, <2>8 DEF IsInjective
  <2> QED
    BY <2>2, <2>9 DEF FreeOK
<1>2. CASE SearchFree(t)
  BY <1>2 DEF SearchFree, Goto, TypeOK, FreeOK
<1>3. ASSUME Ask(t) \/ Thread(t), ~AppendToList(t), ~SearchFree(t)
      PROVE  FreeOK'
  <2>1. list' = list /\ \A u \in Threads : pc'[u] = "append" => pc[u] = "append" /\ asked'[u] = asked[u]
    BY <1>3 DEF Ask, Thread, Return, LockFails, WriteLock, CreateFails, CreateFailsLocked,
                WriteUnlock, ReadLock, Search, ReadHead, ReadNode, ReadUnlock, AllocateBuffer,
                ListFails, ListFailsLocked, LockOutput, WriteOutput, Fails, Goto, TypeOK
  <2> QED
    BY <2>1 DEF FreeOK
<1> QED
  BY <1>1, <1>2, <1>3

LEMMA NextIInv ==
  ASSUME IInv, [Next]_vars
  PROVE  IInv'
<1>1. ASSUME NEW t \in Threads, Ask(t) \/ Thread(t)
      PROVE  IInv'
  BY <1>1, TypeKept, LockKept, PlaceKept, AnswerKept, FreeKept, WalkKept DEF IInv
<1>2. CASE UNCHANGED vars
  BY <1>2 DEF vars, IInv, TypeOK, LockOK, Writing, Reading, PlaceOK, AnswerOK, Listed, FreeOK, WalkOK
<1> QED
  BY <1>1, <1>2 DEF Next

\* The invariant from which the properties below follow.
THEOREM Invariance == Spec => []IInv
<1>1. Init => IInv
  BY InitIInv
<1>2. IInv /\ [Next]_vars => IInv'
  BY NextIInv
<1> QED
  BY <1>1, <1>2, PTL DEF Spec

\* ems_create holds the lock from its search to the append, so that no two events
\* get the same id, whoever creates them and whatever fails.
THEOREM EventsDistinct == Spec => []IsInjective(list)
<1>1. IInv => IsInjective(list)
  BY DEF IInv, FreeOK
<1> QED
  BY <1>1, Invariance, PTL

-----------------------------------------------------------------------------
\* Each step is one of Catalogue's, or leaves Catalogue's variables alone.

\* A call that has read that its list has ended has read the whole list.
LEMMA ListEnds ==
  ASSUME IInv, NEW t \in Threads, ReadNode(t), current'[t] = Null
  PROVE  buffer'[t] = list
<1> USE DEF IInv, TypeOK
<1>1. current[t] \in 1..Len(list) /\ current[t] = Len(buffer[t]) + 1
  BY DEF ReadNode, Goto, WalkOK, Null
<1>2. current[t] = Len(list)
  BY <1>1 DEF ReadNode, Node, Null
<1>3. buffer'[t] = Append(buffer[t], list[Len(list)])
  BY <1>2 DEF ReadNode
<1>4. list[Len(list)] \in EventIds
  BY <1>1, <1>2
<1>5. Len(buffer'[t]) = Len(list) /\ buffer'[t] \in Seq(EventIds)
  BY <1>1, <1>2, <1>3, <1>4
<1>6. \A k \in 1..Len(buffer[t]) : buffer[t][k] = list[k]
  <2>1. current[t] # Null
    BY <1>1 DEF Null
  <2> QED
    BY <2>1 DEF WalkOK
<1>7. \A k \in 1..Len(list) : buffer'[t][k] = list[k]
  BY <1>1, <1>2, <1>3, <1>4, <1>6
<1> QED
  BY <1>5, <1>7, SeqEqual

\* A step that moves only thread t.
OnlyMoves(t) ==
  \A u \in Threads \ {t} : /\ pc'[u] = pc[u] /\ asked'[u] = asked[u]
                           /\ answer'[u] = answer[u] /\ current'[u] = current[u]
                           /\ buffer'[u] = buffer[u]

LEMMA StepMoves ==
  ASSUME TypeOK, NEW t \in Threads, Ask(t) \/ Thread(t)
  PROVE  OnlyMoves(t)
<1> USE DEF TypeOK, OnlyMoves, Goto, Answer
<1>1. CASE Ask(t) \/ Return(t) \/ LockFails(t) \/ WriteLock(t) \/ SearchFree(t)
  BY <1>1 DEF Ask, Return, LockFails, WriteLock, SearchFree
<1>2. CASE AppendToList(t) \/ WriteUnlock(t) \/ ReadLock(t) \/ Search(t)
  BY <1>2 DEF AppendToList, WriteUnlock, ReadLock, Search
<1>3. CASE CreateFails(t) \/ CreateFailsLocked(t) \/ ListFails(t) \/ ListFailsLocked(t)
  BY <1>3 DEF CreateFails, CreateFailsLocked, ListFails, ListFailsLocked, Fails
<1>4. CASE ReadHead(t) \/ ReadNode(t) \/ ReadUnlock(t) \/ AllocateBuffer(t)
  BY <1>4 DEF ReadHead, ReadNode, ReadUnlock, AllocateBuffer
<1>5. CASE LockOutput(t) \/ WriteOutput(t)
  BY <1>5 DEF LockOutput, WriteOutput
<1> QED
  BY <1>1, <1>2, <1>3, <1>4, <1>5 DEF Thread

\* Then outcome changes at t only.
LEMMA OutcomeMoves ==
  ASSUME NEW t \in Threads, OnlyMoves(t)
  PROVE  outcome' = [outcome EXCEPT ![t] = outcome'[t]]
<1>1. \A u \in Threads \ {t} : outcome'[u] = outcome[u]
  BY DEF outcome, Listed, OnlyMoves
<1>2. outcome = [u \in Threads |-> outcome[u]] /\ outcome' = [u \in Threads |-> outcome'[u]]
  BY DEF outcome
<1> QED
  BY <1>1, <1>2

\* Catalogue sees nothing of a step that changes none of these.
LEMMA StepStutters ==
  ASSUME NEW t \in Threads, OnlyMoves(t), list' = list, asked' = asked,
         outcome'[t] = outcome[t]
  PROVE  UNCHANGED Abstract!catalogueVars
<1>1. outcome = [outcome EXCEPT ![t] = outcome[t]]
  BY DEF outcome
<1> QED
  BY <1>1, OutcomeMoves DEF Abstract!catalogueVars

\* A thread that is still to find what its call comes to.
LEMMA NoOutcome ==
  ASSUME IInv, NEW t \in Threads,
         pc[t] \in {"idle", "wrlock", "rdlock", "searchFree", "append", "search", "head",
                    "headUnlock", "buffer", "node"}
  PROVE  outcome[t] = NoAnswer
<1>1. answer[t] = NoAnswer
  BY DEF IInv, AnswerOK
<1>2. ~Listed(t)
  BY DEF Listed, IInv, PlaceOK, WalkOK, NoCall
<1> QED
  BY <1>1, <1>2 DEF outcome

\* A call that has failed, or is no list, has come to its answer.
LEMMA OutcomeIsAnswer ==
  ASSUME NEW t \in Threads, answer[t] # NoAnswer
  PROVE  outcome[t] = answer[t]
BY DEF outcome, Listed

LEMMA AskAsks ==
  ASSUME IInv, NEW t \in Threads, Ask(t)
  PROVE  Abstract!Ask(t)
<1>1. OnlyMoves(t) /\ IInv'
  BY StepMoves, NextIInv DEF IInv, Next
<1>2. outcome[t] = NoAnswer
  BY NoOutcome DEF Ask, Goto
<1>3. outcome'[t] = NoAnswer
  <2>1. pc'[t] \in {"wrlock", "rdlock"}
    BY DEF Ask, Goto, IInv, TypeOK
  <2>2. answer'[t] = NoAnswer /\ ~Listed(t)'
    BY <1>1, <2>1 DEF IInv, AnswerOK, PlaceOK, Listed
  <2> QED
    BY <2>2 DEF outcome
<1>4. outcome' = outcome
  <2>1. outcome = [outcome EXCEPT ![t] = outcome[t]]
    BY DEF outcome
  <2> QED
    BY <1>1, <1>2, <1>3, <2>1, OutcomeMoves
<1>5. asked[t] = NoCall
  BY DEF Ask, Goto, IInv, PlaceOK
<1> QED
  BY <1>4, <1>5 DEF Ask, Abstract!Ask, Abstract!NoCall, NoCall, Abstract!Calls, Calls

LEMMA ReturnReturns ==
  ASSUME IInv, NEW t \in Threads, Return(t)
  PROVE  Abstract!Return(t)
<1>1. OnlyMoves(t)
  BY StepMoves DEF IInv, Thread
<1>2. outcome[t] # NoAnswer
  <2>1. Len(<<"ok", buffer[t]>>) = 2 /\ Len(NoAnswer) = 0
    BY DEF NoAnswer
  <2>2. answer[t] # NoAnswer \/ Listed(t)
    BY DEF Return, Goto, IInv, AnswerOK
  <2> QED
    BY <2>1, <2>2 DEF outcome
<1>3. outcome'[t] = NoAnswer
  BY DEF Return, Goto, IInv, TypeOK, outcome, Listed, NoCall
<1> QED
  BY <1>1, <1>2, <1>3, OutcomeMoves
     DEF Return, Abstract!Return, Abstract!NoCall, NoCall, Abstract!NoAnswer, NoAnswer

\* A call that fails where it has come to nothing has come to that.
LEMMA FailureGivesUp ==
  ASSUME IInv, NEW t \in Threads,
         \/ LockFails(t) \/ CreateFails(t) \/ CreateFailsLocked(t)
         \/ ListFails(t) \/ ListFailsLocked(t)
  PROVE  Abstract!GiveUp(t)
<1> USE DEF LockFails, CreateFails, CreateFailsLocked, ListFails, ListFailsLocked, Fails, Goto,
            Answer
<1>1. OnlyMoves(t)
  BY StepMoves DEF IInv, Thread
<1>2. outcome[t] = NoAnswer
  BY NoOutcome
<1>3. asked[t] # NoCall
  BY DEF IInv, PlaceOK
<1>4. answer'[t] = <<"failed">> /\ asked' = asked /\ list' = list
  BY DEF IInv, TypeOK
<1>5. outcome'[t] = <<"failed">>
  BY <1>4, Answers DEF outcome, Listed
<1> QED
  BY <1>1, <1>2, <1>3, <1>4, <1>5, OutcomeMoves
     DEF Abstract!GiveUp, Abstract!Says, Abstract!NoCall, NoCall, Abstract!NoAnswer, NoAnswer

LEMMA SearchFreeRefuses ==
  ASSUME IInv, NEW t \in Threads, SearchFree(t)
  PROVE  Abstract!Refuse(t) \/ UNCHANGED Abstract!catalogueVars
<1> USE DEF SearchFree, Goto, Answer
<1>1. OnlyMoves(t)
  BY StepMoves DEF IInv, Thread
<1>2. outcome[t] = NoAnswer
  BY NoOutcome
<1>3. asked[t].op = "create" /\ asked[t] # NoCall
  BY DEF IInv, PlaceOK
<1>4. CASE asked[t].id \in Range(list)
  <2>1. answer'[t] = <<"refused">>
    BY <1>4 DEF IInv, TypeOK
  <2>2. outcome'[t] = <<"refused">>
    BY <2>1, Answers DEF outcome, Listed
  <2> QED
    BY <1>1, <1>2, <1>3, <1>4, <2>2, OutcomeMoves
       DEF Abstract!Refuse, Abstract!Says, Abstract!NoCall, NoCall, Abstract!NoAnswer, NoAnswer,
           Abstract!Range, Range
<1>5. CASE asked[t].id \notin Range(list)
  <2>1. outcome'[t] = NoAnswer
    BY <1>2, <1>3, <1>5 DEF outcome, Listed
  <2> QED
    BY <1>1, <1>2, <2>1, StepStutters
<1> QED
  BY <1>4, <1>5

LEMMA AppendCreates ==
  ASSUME IInv, NEW t \in Threads, AppendToList(t)
  PROVE  Abstract!Create(t)
<1> USE DEF AppendToList, Goto, Answer
<1>1. OnlyMoves(t)
  BY StepMoves DEF IInv, Thread
<1>2. outcome[t] = NoAnswer
  BY NoOutcome
<1>3. asked[t].op = "create" /\ asked[t] # NoCall
  BY DEF IInv, PlaceOK
<1>4. asked[t].id \notin Range(list)
  BY DEF IInv, FreeOK
<1>5. answer'[t] = <<"ok">>
  BY DEF IInv, TypeOK
<1>6. outcome'[t] = <<"ok">>
  BY <1>5, Answers DEF outcome, Listed
<1> QED
  BY <1>1, <1>2, <1>3, <1>4, <1>6, OutcomeMoves
     DEF Abstract!Create, Abstract!Says, Abstract!NoCall, NoCall, Abstract!NoAnswer, NoAnswer,
         Abstract!Range, Range

LEMMA SearchFinds ==
  ASSUME IInv, NEW t \in Threads, Search(t)
  PROVE  Abstract!Find(t) \/ Abstract!Refuse(t)
<1> USE DEF Search, Goto, Answer
<1>1. OnlyMoves(t)
  BY StepMoves DEF IInv, Thread
<1>2. outcome[t] = NoAnswer
  BY NoOutcome
<1>3. asked[t].op = "find" /\ asked[t] # NoCall
  BY DEF IInv, PlaceOK
<1>4. answer'[t] = IF asked[t].id \in Range(list) THEN <<"ok">> ELSE <<"refused">>
  BY DEF IInv, TypeOK
<1>5. outcome'[t] = answer'[t]
  BY <1>4, Answers DEF outcome, Listed
<1> QED
  BY <1>1, <1>2, <1>3, <1>4, <1>5, OutcomeMoves
     DEF Abstract!Find, Abstract!Refuse, Abstract!Says, Abstract!NoCall, NoCall,
         Abstract!NoAnswer, NoAnswer, Abstract!Range, Range

\* A step of a list that comes to its end has collected all the list.
LEMMA ListLists ==
  ASSUME IInv, NEW t \in Threads, ReadHead(t) \/ ReadNode(t), current'[t] = Null,
         buffer'[t] = list
  PROVE  Abstract!List(t)
<1> USE DEF ReadHead, ReadNode, Goto
<1>1. OnlyMoves(t)
  BY StepMoves DEF IInv, Thread
<1>2. outcome[t] = NoAnswer
  BY NoOutcome
<1>3. asked[t].op = "list" /\ asked[t] # NoCall
  BY DEF IInv, PlaceOK
<1>4. answer'[t] = NoAnswer
  BY DEF IInv, AnswerOK
<1>5. Listed(t)'
  BY <1>3, <1>4 DEF Listed, IInv, TypeOK
<1>6. outcome'[t] = <<"ok", list>>
  BY <1>5 DEF outcome
<1> QED
  BY <1>1, <1>2, <1>3, <1>6, OutcomeMoves
     DEF Abstract!List, Abstract!Says, Abstract!NoCall, NoCall, Abstract!NoAnswer, NoAnswer

\* A step of a list that does not come to its end.
LEMMA ListGoesOn ==
  ASSUME IInv, NEW t \in Threads, ReadHead(t) \/ ReadNode(t), current'[t] # Null
  PROVE  UNCHANGED Abstract!catalogueVars
<1> USE DEF ReadHead, ReadNode, Goto
<1>1. OnlyMoves(t)
  BY StepMoves DEF IInv, Thread
<1>2. outcome[t] = NoAnswer
  BY NoOutcome
<1>3. answer'[t] = NoAnswer
  BY DEF IInv, AnswerOK
<1>4. outcome'[t] = NoAnswer
  BY <1>3 DEF outcome, Listed
<1> QED
  BY <1>1, <1>2, <1>4, StepStutters

LEMMA ReadHeadRefines ==
  ASSUME IInv, NEW t \in Threads, ReadHead(t)
  PROVE  Abstract!List(t) \/ UNCHANGED Abstract!catalogueVars
<1>1. CASE current'[t] = Null
  <2>1. Len(list) = 0
    BY <1>1 DEF ReadHead, Node, Null, IInv, TypeOK
  <2>2. list = <<>>
    BY <2>1, EmptySeq DEF IInv, TypeOK
  <2>3. buffer'[t] = <<>>
    BY DEF ReadHead, Goto, IInv, WalkOK
  <2> QED
    BY <1>1, <2>2, <2>3, ListLists
<1>2. CASE current'[t] # Null
  BY <1>2, ListGoesOn
<1> QED
  BY <1>1, <1>2

LEMMA ReadNodeRefines ==
  ASSUME IInv, NEW t \in Threads, ReadNode(t)
  PROVE  Abstract!List(t) \/ UNCHANGED Abstract!catalogueVars
BY ListEnds, ListLists, ListGoesOn

\* Taking and releasing locks, and writing what was collected.
LEMMA LocksStutter ==
  ASSUME IInv, NEW t \in Threads,
         \/ WriteLock(t) \/ WriteUnlock(t) \/ ReadLock(t) \/ ReadUnlock(t)
         \/ AllocateBuffer(t) \/ LockOutput(t) \/ WriteOutput(t)
  PROVE  UNCHANGED Abstract!catalogueVars
<1> USE DEF WriteLock, WriteUnlock, ReadLock, ReadUnlock, AllocateBuffer, LockOutput,
            WriteOutput, Goto
<1>1. OnlyMoves(t)
  BY StepMoves DEF IInv, Thread
<1>2. list' = list /\ asked' = asked /\ answer' = answer /\ current' = current /\ buffer' = buffer
  OBVIOUS
<1>3. Listed(t)' <=> Listed(t)
  BY <1>2 DEF Listed, IInv, TypeOK, PlaceOK, WalkOK
<1>4. outcome'[t] = outcome[t]
  BY <1>2, <1>3 DEF outcome
<1> QED
  BY <1>1, <1>2, <1>4, StepStutters

LEMMA InitRefines ==
  ASSUME Init
  PROVE  Abstract!Init
<1>1. outcome = [t \in Threads |-> NoAnswer]
  BY DEF Init, outcome, Listed, NoCall
<1> QED
  BY <1>1 DEF Init, Abstract!Init, Abstract!NoCall, NoCall, Abstract!NoAnswer, NoAnswer

LEMMA NextRefines ==
  ASSUME IInv, [Next]_vars
  PROVE  [Abstract!Next]_(Abstract!catalogueVars)
<1>1. ASSUME NEW t \in Threads, Ask(t) \/ Thread(t)
      PROVE  Abstract!Next \/ UNCHANGED Abstract!catalogueVars
  BY <1>1, AskAsks, ReturnReturns, FailureGivesUp, SearchFreeRefuses, AppendCreates,
     SearchFinds, ReadHeadRefines, ReadNodeRefines, LocksStutter DEF Thread, Abstract!Next
<1>2. CASE UNCHANGED vars
  BY <1>2 DEF vars, Abstract!catalogueVars, outcome, Listed
<1> QED
  BY <1>1, <1>2 DEF Next

\* ems_create, ems_list_events and the search of the other operations take
\* effect at one instant each, and what a list writes is the list of events of one
\* instant, although ems_list_events lets go of the lock after every node.
THEOREM Implements == Spec => ImplementsCatalogue
<1>1. Init => Abstract!Init
  BY InitRefines
<1>2. IInv /\ [Next]_vars => [Abstract!Next]_(Abstract!catalogueVars)
  BY NextRefines
<1> QED
  BY <1>1, <1>2, Invariance, PTL DEF Spec, Abstract!Spec, ImplementsCatalogue

=============================================================================
