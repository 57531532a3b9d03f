------------------------------ MODULE EventList ------------------------------
(***************************************************************************)
(* The list of events of Part 1 (P1/operations.c, P1/eventlist.c) under    *)
(* global_rwlock: ems_create, ems_list_events, and the search with which   *)
(* ems_reserve and ems_show begin.                                         *)
(*                                                                         *)
(* Create holds the lock for writing from its search to the append.  List  *)
(* takes it anew for every node: the list may grow between two of its      *)
(* nodes, and the next node is read together with the id.                  *)
(*                                                                         *)
(* A call of malloc, or of a lock's initialisation, may fail.  Then some   *)
(* paths return with the lock held.                                        *)
(***************************************************************************)
EXTENDS Integers, Sequences, Functions

CONSTANTS
  Threads,
  NoThread,
  EventIds,
  MaxCalls,      \* bound: how many commands the file has
  MaxFailures    \* bound: how many calls of malloc or of an initialisation fail

ASSUME ThreadsAssumption == NoThread \notin Threads
ASSUME BoundsAssumption == MaxCalls \in Nat /\ MaxFailures \in Nat

Null == 0    \* the pointer; node k is the kth of the list

VARIABLES
  list,        \* the ids of the events, from head to tail
  writer,      \* the thread that holds global_rwlock for writing, or NoThread
  readers,     \* readers[t]: how many times t holds it for reading
  mutex,       \* the holder of global_mutex, or NoThread
  pc,          \* pc[t]: the next step of t
  asked,       \* asked[t]: the call of t, or NoCall
  answer,      \* answer[t]: what create or the search returns, or that the call
               \* failed; NoAnswer before
  current,     \* current[t]: ems_list_events' current
  buffer,      \* buffer[t]: the ids that it has collected
  calls,       \* how many calls have begun
  failures     \* how many calls of malloc or of an initialisation have failed

vars == <<list, writer, readers, mutex, pc, asked, answer, current, buffer, calls, failures>>

Calls == [op : {"create", "find"}, id : EventIds] \cup [op : {"list"}]
NoCall == [op |-> "none"]
NoAnswer == <<>>

\* ems_init
Init ==
  /\ list = <<>>
  /\ writer = NoThread
  /\ readers = [t \in Threads |-> 0]
  /\ mutex = NoThread
  /\ pc = [t \in Threads |-> "idle"]
  /\ asked = [t \in Threads |-> NoCall]
  /\ answer = [t \in Threads |-> NoAnswer]
  /\ current = [t \in Threads |-> Null]
  /\ buffer = [t \in Threads |-> <<>>]
  /\ calls = 0
  /\ failures = 0

Goto(t, here, there) ==
  /\ pc[t] = here
  /\ pc' = [pc EXCEPT ![t] = there]

Answer(t, a) == answer' = [answer EXCEPT ![t] = <<a>>]

\* Node k, or NULL past the tail.
Node(k) == IF k <= Len(list) THEN k ELSE Null

-----------------------------------------------------------------------------
\* The call and its return.

\* A thread calls an operation.
Ask(t) ==
  /\ calls < MaxCalls
  /\ calls' = calls + 1
  /\ \E c \in Calls :
       /\ Goto(t, "idle", IF c.op = "create" THEN "wrlock" ELSE "rdlock")
       /\ asked' = [asked EXCEPT ![t] = c]
  /\ UNCHANGED <<list, writer, readers, mutex, answer, current, buffer, failures>>

Return(t) ==
  /\ Goto(t, "return", "idle")
  /\ asked' = [asked EXCEPT ![t] = NoCall]
  /\ answer' = [answer EXCEPT ![t] = NoAnswer]
  /\ buffer' = [buffer EXCEPT ![t] = <<>>]
  /\ current' = [current EXCEPT ![t] = Null]
  /\ UNCHANGED <<list, writer, readers, mutex, calls, failures>>

\* malloc or an initialisation fails: the call goes from here to there.
Fails(t, here, there) ==
  /\ failures < MaxFailures
  /\ failures' = failures + 1
  /\ Goto(t, here, there)
  /\ Answer(t, "failed")
  /\ UNCHANGED <<list, writer, readers, mutex, asked, current, buffer, calls>>

\* A thread that has kept global_rwlock for writing asks for it: glibc answers
\* EDEADLK, and the call fails.
LockFails(t) ==
  /\ \/ Goto(t, "wrlock", "return")
     \/ Goto(t, "rdlock", "return")
  /\ writer = t
  /\ Answer(t, "failed")
  /\ UNCHANGED <<list, writer, readers, mutex, asked, current, buffer, calls, failures>>

-----------------------------------------------------------------------------
\* ems_create.

\* A slip: create takes the lock for reading.
WriteLockShared(t) ==
  /\ Goto(t, "wrlock", "searchFree")
  /\ writer = NoThread
  /\ UNCHANGED <<list, writer, readers, mutex, asked, answer, current, buffer, calls, failures>>

WriteLock(t) ==
  /\ Goto(t, "wrlock", "searchFree")
  /\ writer = NoThread
  /\ \A u \in Threads : readers[u] = 0
  /\ writer' = t
  /\ UNCHANGED <<list, readers, mutex, asked, answer, current, buffer, calls, failures>>

SearchFree(t) ==
  /\ \/ /\ Goto(t, "searchFree", "wrunlock")
        /\ asked[t].id \in Range(list)
        /\ Answer(t, "refused")
     \/ /\ Goto(t, "searchFree", "append")
        /\ asked[t].id \notin Range(list)
        /\ UNCHANGED answer
  /\ UNCHANGED <<list, writer, readers, mutex, asked, current, buffer, calls, failures>>

\* The event is made and append_to_list succeeds.
AppendToList(t) ==
  /\ Goto(t, "append", "wrunlock")
  /\ list' = Append(list, asked[t].id)
  /\ Answer(t, "ok")
  /\ UNCHANGED <<writer, readers, mutex, asked, current, buffer, calls, failures>>

\* No memory for the event, its data or its node: the lock is given back.
CreateFails(t) == Fails(t, "append", "wrunlock")

\* A lock of the event cannot be initialised, or there is no memory for the
\* seats' mutexes: ems_create returns with the lock held.
CreateFailsLocked(t) == Fails(t, "append", "return")

\* A slip: a create that finds the id taken returns at once.
WriteUnlockCreated(t) ==
  /\ Goto(t, "wrunlock", "return")
  /\ writer' = IF answer[t] = <<"refused">> THEN writer ELSE NoThread
  /\ UNCHANGED <<list, readers, mutex, asked, answer, current, buffer, calls, failures>>

WriteUnlock(t) ==
  /\ Goto(t, "wrunlock", "return")
  /\ writer' = NoThread
  /\ UNCHANGED <<list, readers, mutex, asked, answer, current, buffer, calls, failures>>

-----------------------------------------------------------------------------
\* Reading the list.

ReadLock(t) ==
  /\ \/ Goto(t, "rdlock", IF asked[t].op = "find" THEN "search" ELSE "head")
     \/ Goto(t, "walk", "node") /\ current[t] # Null
  /\ writer = NoThread
  /\ readers' = [readers EXCEPT ![t] = @ + 1]
  /\ UNCHANGED <<list, writer, mutex, asked, answer, current, buffer, calls, failures>>

\* get_event_with_delay in ems_reserve and ems_show.
Search(t) ==
  /\ Goto(t, "search", "rdunlock")
  /\ Answer(t, IF asked[t].id \in Range(list) THEN "ok" ELSE "refused")
  /\ UNCHANGED <<list, writer, readers, mutex, asked, current, buffer, calls, failures>>

\* The head; without one "No events" is written.
ReadHead(t) ==
  /\ Goto(t, "head", IF list = <<>> THEN "headUnlockEmpty" ELSE "headUnlock")
  /\ current' = [current EXCEPT ![t] = Node(1)]
  /\ UNCHANGED <<list, writer, readers, mutex, asked, answer, buffer, calls, failures>>

\* The id of the node and the node after it.
ReadNode(t) ==
  /\ Goto(t, "node", "nodeUnlock")
  /\ buffer' = [buffer EXCEPT ![t] = Append(@, list[current[t]])]
  /\ current' = [current EXCEPT ![t] = Node(@ + 1)]
  /\ UNCHANGED <<list, writer, readers, mutex, asked, answer, calls, failures>>

ReadUnlock(t) ==
  /\ \/ Goto(t, "rdunlock", "return")
     \/ Goto(t, "headUnlock", "buffer")
     \/ Goto(t, "headUnlockEmpty", "walk")
     \/ Goto(t, "nodeUnlock", "walk")
  /\ readers' = [readers EXCEPT ![t] = @ - 1]
  /\ UNCHANGED <<list, writer, mutex, asked, answer, current, buffer, calls, failures>>

AllocateBuffer(t) ==
  /\ Goto(t, "buffer", "walk")
  /\ UNCHANGED <<list, writer, readers, mutex, asked, answer, current, buffer, calls, failures>>

\* No memory for the buffer: the lock is not held there.
ListFails(t) == Fails(t, "buffer", "return")

\* No memory for an id: ems_list_events returns with the lock held.
ListFailsLocked(t) == Fails(t, "node", "return")

\* The buffer, or "No events", is written under global_mutex.
LockOutput(t) ==
  /\ Goto(t, "walk", "write")
  /\ current[t] = Null
  /\ mutex = NoThread
  /\ mutex' = t
  /\ UNCHANGED <<list, writer, readers, asked, answer, current, buffer, calls, failures>>

WriteOutput(t) ==
  /\ Goto(t, "write", "return")
  /\ mutex' = NoThread
  /\ UNCHANGED <<list, writer, readers, asked, answer, current, buffer, calls, failures>>

-----------------------------------------------------------------------------

Thread(t) ==
  \/ Return(t) \/ LockFails(t)
  \/ WriteLock(t) \/ SearchFree(t) \/ AppendToList(t) \/ CreateFails(t)
  \/ CreateFailsLocked(t) \/ WriteUnlock(t)
  \/ ReadLock(t) \/ Search(t) \/ ReadHead(t) \/ ReadNode(t) \/ ReadUnlock(t)
  \/ AllocateBuffer(t) \/ ListFails(t) \/ ListFailsLocked(t)
  \/ LockOutput(t) \/ WriteOutput(t)

Next == \E t \in Threads : Ask(t) \/ Thread(t)

Spec == Init /\ [][Next]_vars

\* A thread that has called an operation is scheduled.
FairSpec == Spec /\ \A t \in Threads : WF_vars(Thread(t))

-----------------------------------------------------------------------------
\* Properties.

\* A list has come to its answer when it has read that there is no next node.
Listed(t) ==
  /\ asked[t].op = "list"
  /\ answer[t] = NoAnswer
  /\ current[t] = Null
  /\ pc[t] \notin {"rdlock", "head"}

\* What each call has come to.
outcome == [t \in Threads |-> IF Listed(t) THEN <<"ok", buffer[t]>> ELSE answer[t]]

\* The specification that the operations implement.
Abstract == INSTANCE Catalogue WITH order <- list, answer <- outcome

\* Create, list and search take effect at one instant each, whatever the
\* threads do in between, and what a list writes are the events of one instant,
\* though ems_list_events lets go of the lock after each of them.
ImplementsCatalogue == Abstract!Spec

\* Every call returns, and goes on doing so after most failures: a thread waits
\* for ever only if one has failed and has left global_rwlock locked.
CallsReturn ==
  <>[](\/ \A t \in Threads : pc[t] = "idle"
       \/ /\ failures > 0
          /\ \E t \in Threads : /\ pc[t] \in {"idle", "wrlock"}
                                /\ writer = t \/ readers[t] > 0)

=============================================================================
