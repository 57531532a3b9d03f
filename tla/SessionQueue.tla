---------------------------- MODULE SessionQueue ----------------------------
(***************************************************************************)
(* How the server of Part 2 hands requests for a session to its workers    *)
(* (P2/server/main.c receive_client and execute_client, P2/common/queue.c).*)
(*                                                                         *)
(* One receiver puts requests in a queue; the workers take them out.  The  *)
(* queue is guarded by queueMutex, each access a critical section of its   *)
(* own and so one step here.  The condition variable goes with another     *)
(* mutex, which the workers hold from the look at the head to its removal, *)
(* and which the receiver does not take before it signals.                 *)
(***************************************************************************)
EXTENDS Integers, Sequences, FiniteSets

CONSTANTS
  Workers,    \* the threads that run execute_client
  Clients,    \* the clients, each of which asks for one session
  NoClient,
  NoWorker,
  Spurious    \* whether pthread_cond_wait may return without a signal

ASSUME NothingAssumption == NoClient \notin Clients /\ NoWorker \notin Workers
ASSUME SpuriousAssumption == Spurious \in BOOLEAN
ASSUME WorkersAssumption == IsFiniteSet(Workers)

VARIABLES
  new,        \* the clients whose request is not in the queue yet
  queue,      \* globalQueue, the head first
  receiver,   \* "read", or "signal": a request is in, cond is not signalled
  mutex,      \* the worker that holds it, or NoWorker
  waiters,    \* the workers that pthread_cond_wait keeps asleep
  pc,         \* pc[w]: where worker w is
  serving,    \* serving[w]: the client of its session, or NoClient
  crashed     \* whether a worker has used the head of an empty queue

vars == <<new, queue, receiver, mutex, waiters, pc, serving, crashed>>

\* The workers have been created, and main has let the mutex go.
Init ==
  /\ new = Clients
  /\ queue = <<>>
  /\ receiver = "read"
  /\ mutex = NoWorker
  /\ waiters = {}
  /\ pc = [w \in Workers |-> "lock"]
  /\ serving = [w \in Workers |-> NoClient]
  /\ crashed = FALSE

-----------------------------------------------------------------------------
\* receive_client.

\* A request is read from the server's pipe and put at the tail of the queue.
AddToQueue ==
  /\ ~crashed
  /\ receiver = "read"
  /\ \E c \in new :
       /\ new' = new \ {c}
       /\ queue' = Append(queue, c)
  /\ receiver' = "signal"
  /\ UNCHANGED <<mutex, waiters, pc, serving, crashed>>

\* A slip: nobody is told.
SignalNobody ==
  /\ ~crashed
  /\ receiver = "signal"
  /\ receiver' = "read"
  /\ UNCHANGED <<new, queue, mutex, waiters, pc, serving, crashed>>

\* pthread_cond_signal: one of the workers asleep wakes up, if there is one.
Signal ==
  /\ ~crashed
  /\ receiver = "signal"
  /\ receiver' = "read"
  /\ \/ waiters = {} /\ UNCHANGED <<waiters, pc>>
     \/ \E w \in waiters :
          /\ waiters' = waiters \ {w}
          /\ pc' = [pc EXCEPT ![w] = "woken"]
  /\ UNCHANGED <<new, queue, mutex, serving, crashed>>

Receiver == AddToQueue \/ Signal

-----------------------------------------------------------------------------
\* execute_client.

LockMutex(w) ==
  /\ ~crashed
  /\ pc[w] = "lock"
  /\ mutex = NoWorker
  /\ mutex' = w
  /\ pc' = [pc EXCEPT ![w] = "look"]
  /\ UNCHANGED <<new, queue, receiver, waiters, serving, crashed>>

\* The head is read under queueMutex, and looked at after that is unlocked.
LookAtHead(w) ==
  /\ ~crashed
  /\ pc[w] = "look"
  /\ pc' = [pc EXCEPT ![w] = IF queue = <<>> THEN "wait" ELSE "take"]
  /\ UNCHANGED <<new, queue, receiver, mutex, waiters, serving, crashed>>

\* pthread_cond_wait lets the mutex go and puts the worker to sleep.
Wait(w) ==
  /\ ~crashed
  /\ pc[w] = "wait"
  /\ mutex' = NoWorker
  /\ waiters' = waiters \cup {w}
  /\ pc' = [pc EXCEPT ![w] = "asleep"]
  /\ UNCHANGED <<new, queue, receiver, serving, crashed>>

\* POSIX lets pthread_cond_wait return without a signal.
WakeUpSpuriously(w) ==
  /\ ~crashed
  /\ Spurious
  /\ w \in waiters
  /\ waiters' = waiters \ {w}
  /\ pc' = [pc EXCEPT ![w] = "woken"]
  /\ UNCHANGED <<new, queue, receiver, mutex, serving, crashed>>

\* pthread_cond_wait returns with the mutex; the head is not looked at again.
LockAgain(w) ==
  /\ ~crashed
  /\ pc[w] = "woken"
  /\ mutex = NoWorker
  /\ mutex' = w
  /\ pc' = [pc EXCEPT ![w] = "take"]
  /\ UNCHANGED <<new, queue, receiver, waiters, serving, crashed>>

\* A slip: a copy of the head is taken, the head stays.
TakeHeadKeeping(w) ==
  /\ ~crashed
  /\ pc[w] = "take"
  /\ queue # <<>>
  /\ serving' = [serving EXCEPT ![w] = Head(queue)]
  /\ mutex' = NoWorker
  /\ pc' = [pc EXCEPT ![w] = "serve"]
  /\ UNCHANGED <<new, queue, receiver, waiters, crashed>>

\* getHeadQueue and removeHeadQueue, in one critical section of queueMutex; then
\* the mutex is unlocked.
TakeHead(w) ==
  /\ ~crashed
  /\ pc[w] = "take"
  /\ queue # <<>>
  /\ serving' = [serving EXCEPT ![w] = Head(queue)]
  /\ queue' = Tail(queue)
  /\ mutex' = NoWorker
  /\ pc' = [pc EXCEPT ![w] = "serve"]
  /\ UNCHANGED <<new, receiver, waiters, crashed>>

\* getHeadQueue returns NULL, and strcpy reads through it.
UseNoHead(w) ==
  /\ ~crashed
  /\ pc[w] = "take"
  /\ queue = <<>>
  /\ crashed' = TRUE
  /\ UNCHANGED <<new, queue, receiver, mutex, waiters, pc, serving>>

\* The client has ended its session, or one of its pipes does not open.
EndSession(w) ==
  /\ ~crashed
  /\ pc[w] = "serve"
  /\ serving' = [serving EXCEPT ![w] = NoClient]
  /\ pc' = [pc EXCEPT ![w] = "lock"]
  /\ UNCHANGED <<new, queue, receiver, mutex, waiters, crashed>>

Work(w) ==
  \/ LockMutex(w) \/ LookAtHead(w) \/ Wait(w) \/ LockAgain(w)
  \/ TakeHead(w) \/ UseNoHead(w)

Next ==
  \/ Receiver
  \/ \E w \in Workers : Work(w) \/ WakeUpSpuriously(w) \/ EndSession(w)

\* The kernel runs every thread that can run.  Nothing is assumed of the order
\* in which the mutex is passed on.
WorkFairness == WF_vars(Receiver) /\ \A w \in Workers : WF_vars(Work(w))

\* The clients end their sessions (the statement has them correct).
ClientFairness == \A w \in Workers : WF_vars(EndSession(w))

Spec == Init /\ [][Next]_vars

\* Sessions may go on for ever.
WorkSpec == Spec /\ WorkFairness

FairSpec == Spec /\ WorkFairness /\ ClientFairness

-----------------------------------------------------------------------------
\* Properties.

\* The type of every variable.
TypeOK ==
  /\ new \subseteq Clients
  /\ queue \in Seq(Clients)
  /\ receiver \in {"read", "signal"}
  /\ mutex \in Workers \cup {NoWorker}
  /\ waiters \subseteq Workers
  /\ pc \in [Workers -> {"lock", "look", "wait", "asleep", "woken", "take", "serve"}]
  /\ serving \in [Workers -> Clients \cup {NoClient}]
  /\ \A w \in Workers : pc[w] = "serve" <=> serving[w] \in Clients
  /\ crashed \in BOOLEAN

\* The specification that the queue and its locks implement.
Abstract == INSTANCE Sessions

\* Requests are served in the order of the queue, each by one worker and once.
ImplementsSessions == Abstract!Spec

Asleep == {w \in Workers : pc[w] = "asleep"}

\* A worker that will look at the queue, or take from it, without being told.
OnTheWay(w) == pc[w] \in {"lock", "look", "wait", "woken", "take"}

\* A wakeup may be lost, because the receiver signals without the mutex; but
\* only one worker is left asleep over a queue with requests in it, and so only
\* while all the others are busy.
OneStrandedAtMost ==
  (queue # <<>> /\ receiver = "read" /\ \A w \in Workers : ~OnTheWay(w))
    => Cardinality(Asleep) <= 1

\* With two workers or more and sessions that end, a lost wakeup only delays:
\* every request in the queue gets a session, unless the server crashes.
EveryRequestServed ==
  \A c \in Clients :
    (\E k \in 1..Len(queue) : queue[k] = c)
      ~> (crashed \/ \E w \in Workers : serving[w] = c)

\* The statement, p. 6: the workers take requests from a producer-consumer
\* buffer, synchronised by condition variables.  A worker that takes finds one.
NeverTakesFromEmpty == ~crashed

=============================================================================
