------------------------- MODULE SessionQueueProofs -------------------------
(***************************************************************************)
(* What holds of the hand-over of sessions for every number of workers and *)
(* of clients, with spurious wakeups or without: it implements Sessions,   *)
(* and a lost wakeup strands one worker at most.                           *)
(***************************************************************************)
EXTENDS SessionQueue, SequenceTheorems, FiniteSetTheorems, TLAPS

\* Who holds the mutex, and whom pthread_cond_wait keeps asleep.
MutexOK ==
  /\ \A w \in Workers : mutex = w <=> pc[w] \in {"look", "wait", "take"}
  /\ waiters = Asleep

\* The requests in the queue of which the workers have been told.
Told == Len(queue) - (IF receiver = "signal" THEN 1 ELSE 0)

\* The workers that will take from the queue without another look, or have
\* been woken to do so, and those that sleep or are about to.
Called == {w \in Workers : pc[w] \in {"woken", "take"}}
Sleepy == {w \in Workers : pc[w] \in {"wait", "asleep"}}

\* Unless there is a worker for each request, at most one is asleep or falls
\* asleep: a signal that wakes nobody finds nobody asleep, and one worker at
\* most, the mutex's holder, past its look at the queue.
StrandedOK == Told > Cardinality(Called) => Cardinality(Sleepy) <= 1

\* The inductive invariant.
IInv ==
  /\ TypeOK
  /\ MutexOK
  /\ StrandedOK

-----------------------------------------------------------------------------
\* Counting workers.

LEMMA Counts ==
  ASSUME NEW S \in SUBSET Workers
  PROVE  IsFiniteSet(S) /\ Cardinality(S) \in Nat
BY WorkersAssumption, FS_Subset, FS_CardinalityType

LEMMA CountOneMore ==
  ASSUME NEW S \in SUBSET Workers, NEW w \in Workers \ S
  PROVE  Cardinality(S \cup {w}) = Cardinality(S) + 1
BY Counts, FS_AddElement

LEMMA CountOneLess ==
  ASSUME NEW S \in SUBSET Workers, NEW w \in S
  PROVE  Cardinality(S \ {w}) = Cardinality(S) - 1
BY Counts, FS_RemoveElement

LEMMA CountAtMostOne ==
  ASSUME NEW S \in SUBSET Workers, \A v, w \in S : v = w
  PROVE  Cardinality(S) <= 1
<1>1. CASE S = {}
  BY <1>1, FS_EmptySet
<1>2. ASSUME NEW w \in S
      PROVE  Cardinality(S) <= 1
  <2>1. S = {w}
    BY <1>2
  <2> QED
    BY <2>1, FS_Singleton
<1> QED
  BY <1>1, <1>2

-----------------------------------------------------------------------------

LEMMA InitIInv == Init => IInv
<1> SUFFICES ASSUME Init PROVE IInv
  OBVIOUS
<1>1. TypeOK
  <2>1. queue \in Seq(Clients)
    BY EmptySeq DEF Init
  <2>2. /\ pc \in [Workers -> {"lock", "look", "wait", "asleep", "woken", "take", "serve"}]
        /\ serving \in [Workers -> Clients \cup {NoClient}]
        /\ \A w \in Workers : pc[w] = "serve" <=> serving[w] \in Clients
    BY NothingAssumption DEF Init
  <2> QED
    BY <2>1, <2>2 DEF Init, TypeOK
<1>2. MutexOK
  BY NothingAssumption DEF Init, MutexOK, Asleep
<1>3. StrandedOK
  <2>1. Told = 0
    BY DEF Init, Told
  <2> QED
    BY <2>1, Counts DEF StrandedOK, Called
<1> QED
  BY <1>1, <1>2, <1>3 DEF IInv

LEMMA TypeKept ==
  ASSUME TypeOK, MutexOK, Next
  PROVE  TypeOK'
<1> USE NothingAssumption
<1>1. CASE AddToQueue
  BY <1>1 DEF AddToQueue, TypeOK
<1>2. CASE Signal
  BY <1>2 DEF Signal, TypeOK, MutexOK, Asleep
<1>3. ASSUME NEW w \in Workers, LockMutex(w) \/ LookAtHead(w) \/ Wait(w) \/ LockAgain(w)
      PROVE  TypeOK'
  BY <1>3 DEF LockMutex, LookAtHead, Wait, LockAgain, TypeOK
<1>4. ASSUME NEW w \in Workers, TakeHead(w)
      PROVE  TypeOK'
  <2>1. Head(queue) \in Clients /\ Tail(queue) \in Seq(Clients)
    BY <1>4 DEF TakeHead, TypeOK
  <2> QED
    BY <1>4, <2>1 DEF TakeHead, TypeOK
<1>5. ASSUME NEW w \in Workers, UseNoHead(w) \/ WakeUpSpuriously(w) \/ EndSession(w)
      PROVE  TypeOK'
  BY <1>5 DEF UseNoHead, WakeUpSpuriously, EndSession, TypeOK, MutexOK, Asleep
<1> QED
  BY <1>1, <1>2, <1>3, <1>4, <1>5 DEF Next, Receiver, Work

LEMMA MutexKept ==
  ASSUME TypeOK, MutexOK, Next
  PROVE  MutexOK'
<1> USE NothingAssumption DEF TypeOK, MutexOK, Asleep
<1>1. CASE AddToQueue \/ Signal
  BY <1>1 DEF AddToQueue, Signal
<1>2. ASSUME NEW w \in Workers, LockMutex(w) \/ LookAtHead(w) \/ Wait(w) \/ LockAgain(w)
      PROVE  MutexOK'
  BY <1>2 DEF LockMutex, LookAtHead, Wait, LockAgain
<1>3. ASSUME NEW w \in Workers,
             TakeHead(w) \/ UseNoHead(w) \/ WakeUpSpuriously(w) \/ EndSession(w)
      PROVE  MutexOK'
  BY <1>3 DEF TakeHead, UseNoHead, WakeUpSpuriously, EndSession
<1> QED
  BY <1>1, <1>2, <1>3 DEF Next, Receiver, Work

-----------------------------------------------------------------------------
\* StrandedOK, action by action.

LEMMA AddToQueueStranded ==
  ASSUME IInv, AddToQueue
  PROVE  StrandedOK'
<1>1. Told' = Told
  BY DEF AddToQueue, Told, IInv, TypeOK
<1>2. Called' = Called /\ Sleepy' = Sleepy
  BY DEF AddToQueue, Called, Sleepy
<1> QED
  BY <1>1, <1>2 DEF StrandedOK, IInv

LEMMA SignalStranded ==
  ASSUME IInv, Signal
  PROVE  StrandedOK'
<1> USE DEF IInv
<1>1. Told \in Int /\ Told' = Told + 1
  BY DEF Signal, Told, TypeOK
<1>2. CASE waiters = {} /\ UNCHANGED <<waiters, pc>>
  <2>1. \A v, w \in Sleepy : v = w
    BY <1>2 DEF Sleepy, MutexOK, Asleep
  <2>2. Sleepy' = Sleepy
    BY <1>2 DEF Sleepy
  <2> QED
    BY <2>1, <2>2, CountAtMostOne DEF StrandedOK, Sleepy
<1>3. ASSUME NEW w \in waiters, pc' = [pc EXCEPT ![w] = "woken"]
      PROVE  StrandedOK'
  <2>1. w \in Workers /\ pc[w] = "asleep"
    BY DEF MutexOK, Asleep
  <2>2. Called' = Called \cup {w} /\ w \notin Called
    BY <1>3, <2>1 DEF Called, TypeOK
  <2>3. Sleepy' = Sleepy \ {w} /\ w \in Sleepy
    BY <1>3, <2>1 DEF Sleepy, TypeOK
  <2>4. Cardinality(Called') = Cardinality(Called) + 1
    BY <2>1, <2>2, CountOneMore DEF Called
  <2>5. Cardinality(Sleepy') = Cardinality(Sleepy) - 1
    BY <2>3, CountOneLess DEF Sleepy
  <2>6. Cardinality(Called) \in Nat /\ Cardinality(Sleepy) \in Nat
    BY Counts DEF Called, Sleepy
  <2> QED
    BY <1>1, <2>4, <2>5, <2>6 DEF StrandedOK
<1> QED
  BY <1>2, <1>3 DEF Signal

\* A look at the queue ends in a call, or finds no request: then StrandedOK asks
\* for nothing.
LEMMA LookAtHeadStranded ==
  ASSUME IInv, NEW w \in Workers, LookAtHead(w)
  PROVE  StrandedOK'
<1> USE DEF IInv
<1>1. Told \in Int /\ Told' = Told
  BY DEF LookAtHead, Told, TypeOK
<1>2. Cardinality(Called) \in Nat /\ Cardinality(Called') \in Nat
  BY Counts DEF Called
<1>3. CASE queue = <<>>
  <2>1. Told <= 0
    BY <1>3 DEF Told
  <2> QED
    BY <1>1, <1>2, <2>1 DEF StrandedOK
<1>4. CASE queue # <<>>
  <2>1. Called' = Called \cup {w} /\ w \notin Called
    BY <1>4 DEF LookAtHead, Called, TypeOK
  <2>2. Sleepy' = Sleepy
    BY <1>4 DEF LookAtHead, Sleepy, TypeOK
  <2>3. Cardinality(Called') = Cardinality(Called) + 1
    BY <2>1, CountOneMore DEF Called
  <2> QED
    BY <1>1, <1>2, <2>2, <2>3 DEF StrandedOK
<1> QED
  BY <1>3, <1>4

LEMMA TakeHeadStranded ==
  ASSUME IInv, NEW w \in Workers, TakeHead(w)
  PROVE  StrandedOK'
<1> USE DEF IInv
<1>1. Told \in Int /\ Told' = Told - 1
  <2>1. Len(queue') = Len(queue) - 1
    BY HeadTailProperties DEF TakeHead, TypeOK
  <2> QED
    BY <2>1 DEF TakeHead, Told, TypeOK
<1>2. Called' = Called \ {w} /\ w \in Called
  BY DEF TakeHead, Called, TypeOK
<1>3. Sleepy' = Sleepy
  BY DEF TakeHead, Sleepy, TypeOK
<1>4. Cardinality(Called') = Cardinality(Called) - 1
  BY <1>2, CountOneLess DEF Called
<1>5. Cardinality(Called) \in Nat
  BY Counts DEF Called
<1> QED
  BY <1>1, <1>3, <1>4, <1>5 DEF StrandedOK

LEMMA WakeUpSpuriouslyStranded ==
  ASSUME IInv, NEW w \in Workers, WakeUpSpuriously(w)
  PROVE  StrandedOK'
<1> USE DEF IInv
<1>1. Told \in Int /\ Told' = Told
  BY DEF WakeUpSpuriously, Told, TypeOK
<1>2. Called' = Called \cup {w} /\ w \notin Called
  BY DEF WakeUpSpuriously, Called, TypeOK, MutexOK, Asleep
<1>3. Sleepy' = Sleepy \ {w} /\ w \in Sleepy
  BY DEF WakeUpSpuriously, Sleepy, TypeOK, MutexOK, Asleep
<1>4. Cardinality(Called') = Cardinality(Called) + 1
  BY <1>2, CountOneMore DEF Called
<1>5. Cardinality(Sleepy') = Cardinality(Sleepy) - 1
  BY <1>3, CountOneLess DEF Sleepy
<1>6. Cardinality(Called) \in Nat /\ Cardinality(Sleepy) \in Nat
  BY Counts DEF Called, Sleepy
<1> QED
  BY <1>1, <1>4, <1>5, <1>6 DEF StrandedOK

\* The other actions leave the queue, the called and the sleepy as they are.
LEMMA OthersStranded ==
  ASSUME IInv, NEW w \in Workers,
         LockMutex(w) \/ Wait(w) \/ LockAgain(w) \/ UseNoHead(w) \/ EndSession(w)
  PROVE  StrandedOK'
<1>1. Told' = Told
  BY DEF LockMutex, Wait, LockAgain, UseNoHead, EndSession, Told
<1>2. Called' = Called /\ Sleepy' = Sleepy
  BY DEF LockMutex, Wait, LockAgain, UseNoHead, EndSession, Called, Sleepy, IInv, TypeOK
<1> QED
  BY <1>1, <1>2 DEF StrandedOK, IInv

LEMMA NextIInv ==
  ASSUME IInv, [Next]_vars
  PROVE  IInv'
<1>1. CASE Next
  <2>1. TypeOK' /\ MutexOK'
    BY <1>1, TypeKept, MutexKept DEF IInv
  <2>2. StrandedOK'
    BY <1>1, AddToQueueStranded, SignalStranded, LookAtHeadStranded, TakeHeadStranded,
       WakeUpSpuriouslyStranded, OthersStranded DEF Next, Receiver, Work
  <2> QED
    BY <2>1, <2>2 DEF IInv
<1>2. CASE UNCHANGED vars
  BY <1>2 DEF vars, IInv, TypeOK, MutexOK, Asleep, StrandedOK, Told, Called, Sleepy
<1> QED
  BY <1>1, <1>2

\* The invariant from which the properties below follow.
THEOREM Invariance == Spec => []IInv
<1>1. Init => IInv
  BY InitIInv
<1>2. IInv /\ [Next]_vars => IInv'
  BY NextIInv
<1> QED
  BY <1>1, <1>2, PTL DEF Spec

-----------------------------------------------------------------------------

\* The values of all variables have their types, and the workers that are in a
\* session are those that have a client.
THEOREM Typing == Spec => []TypeOK
<1>1. IInv => TypeOK
  BY DEF IInv
<1> QED
  BY <1>1, Invariance, PTL

\* receive_client signals without the workers' mutex, so that a wakeup may be
\* lost; but over a queue with requests at most one worker is left asleep when
\* no other is on its way to the queue.
THEOREM LostWakeupsBounded == Spec => []OneStrandedAtMost
<1>1. ASSUME IInv
      PROVE  OneStrandedAtMost
  <2> SUFFICES ASSUME queue # <<>>, receiver = "read", \A w \in Workers : ~OnTheWay(w)
               PROVE  Cardinality(Asleep) <= 1
    BY DEF OneStrandedAtMost
  <2> USE <1>1 DEF IInv
  <2>1. Called = {} /\ Cardinality(Called) = 0
    BY FS_EmptySet DEF Called, OnTheWay
  <2>2. Told > 0
    BY EmptySeq DEF Told, TypeOK
  <2>3. Asleep = Sleepy
    BY DEF Asleep, Sleepy, OnTheWay
  <2> QED
    BY <2>1, <2>2, <2>3 DEF StrandedOK
<1> QED
  BY <1>1, Invariance, PTL

-----------------------------------------------------------------------------
\* Each step is one of Sessions', or leaves Sessions' variables alone.

LEMMA InitRefines ==
  ASSUME Init
  PROVE  Abstract!Init
BY DEF Init, Abstract!Init

LEMMA AddToQueueRegisters ==
  ASSUME IInv, AddToQueue
  PROVE  \E c \in Clients : Abstract!Register(c)
BY DEF AddToQueue, Abstract!Register, IInv, TypeOK

LEMMA TakeHeadStarts ==
  ASSUME IInv, NEW w \in Workers, TakeHead(w)
  PROVE  Abstract!Start(w)
BY DEF TakeHead, Abstract!Start, IInv, TypeOK

LEMMA EndSessionEnds ==
  ASSUME IInv, NEW w \in Workers, EndSession(w)
  PROVE  Abstract!End(w)
BY NothingAssumption DEF EndSession, Abstract!End, IInv, TypeOK

LEMMA NextRefines ==
  ASSUME IInv, [Next]_vars
  PROVE  [Abstract!Next]_(Abstract!sessionVars)
<1>1. CASE Receiver
  BY <1>1, AddToQueueRegisters DEF Receiver, Signal, Abstract!Next, Abstract!sessionVars
<1>2. ASSUME NEW w \in Workers, TakeHead(w) \/ EndSession(w)
      PROVE  Abstract!Next
  BY <1>2, TakeHeadStarts, EndSessionEnds DEF Abstract!Next
<1>3. ASSUME NEW w \in Workers,
             \/ LockMutex(w) \/ LookAtHead(w) \/ Wait(w) \/ LockAgain(w)
             \/ UseNoHead(w) \/ WakeUpSpuriously(w)
      PROVE  UNCHANGED Abstract!sessionVars
  BY <1>3 DEF LockMutex, LookAtHead, Wait, LockAgain, UseNoHead, WakeUpSpuriously,
              Abstract!sessionVars
<1>4. CASE UNCHANGED vars
  BY <1>4 DEF vars, Abstract!sessionVars
<1> QED
  BY <1>1, <1>2, <1>3, <1>4 DEF Next, Work

\* The queue, its mutexes and its condition variable do what Sessions promises:
\* requests are served in the order of the pipe, each by one worker and once,
\* whatever wakeups are lost, stolen or spurious.
THEOREM Implements == Spec => ImplementsSessions
<1>1. Init => Abstract!Init
  BY InitRefines
<1>2. IInv /\ [Next]_vars => [Abstract!Next]_(Abstract!sessionVars)
  BY NextRefines
<1> QED
  BY <1>1, <1>2, Invariance, PTL DEF Spec, Abstract!Spec, ImplementsSessions

=============================================================================
