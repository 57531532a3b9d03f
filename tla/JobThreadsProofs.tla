-------------------------- MODULE JobThreadsProofs --------------------------
(***************************************************************************)
(* What holds of the threads of a .jobs file for every number of threads   *)
(* and every file.                                                         *)
(***************************************************************************)
EXTENDS JobThreads, TLAPS

\* Who holds the mutex.  A thread that holds it and asks for it hangs.
MutexOK ==
  \A t \in Threads :
    /\ pc[t] \in {"locked", "sleep"} => mutex = t
    /\ mutex = t => pc[t] \in {"locked", "sleep", "ask"}

\* The operations read so far are done or being carried out.
LinesOK ==
  /\ \A t \in Threads : pc[t] = "execute" => line[t] \in Operations(pos)
  /\ done \subseteq Operations(pos)
  /\ \A k \in Operations(pos) : k \in done \/ \E t \in Threads : pc[t] = "execute" /\ line[t] = k

\* All that comes before a barrier is done, but for a barrier just read, whose
\* flag is still up.
BarriersOK ==
  \A b \in 1..pos : file[b] = "barrier" => Operations(b) \subseteq done \/ (barrierFlag /\ b = pos)

\* Why the threads of this round return.
ReturnsOK ==
  \A t \in Threads : pc[t] = "exited" =>
    \/ returned[t] = "BARRIER" /\ barrierFlag
    \/ returned[t] = "0" /\ ~barrierFlag /\ pos = Len(file)

\* What the main thread has done in this round.
MainOK ==
  /\ main = "create" => next <= N /\ ~flagBarrier /\ \A t \in next..N : pc[t] = "none"
  /\ main \in {"join", "finished"} => \A t \in 1..(next - 1) : pc[t] = "none"
  /\ main = "join" /\ next > 1 =>
       (flagBarrier /\ barrierFlag) \/ (~flagBarrier /\ ~barrierFlag /\ pos = Len(file))
  /\ main = "join" /\ next = 1 => ~flagBarrier
  /\ main = "finished" => next = N + 1 /\ pos = Len(file) /\ ~barrierFlag

\* The inductive invariant.
IInv ==
  /\ TypeOK
  /\ MutexOK
  /\ LinesOK
  /\ BarriersOK
  /\ ReturnsOK
  /\ MainOK

-----------------------------------------------------------------------------

LEMMA InitIInv == Init => IInv
<1> SUFFICES ASSUME Init PROVE IInv
  OBVIOUS
<1> USE NAssumption DEF Init, Threads, NoThread
<1>1. TypeOK
  <2>1. file \in Seq(Kinds)
    BY FilesAssumption
  <2>2. 0 \in 0..Len(file) /\ 1 \in 1..(N + 1)
    BY <2>1
  <2> QED
    BY <2>1, <2>2 DEF TypeOK
<1>2. MutexOK
  BY DEF MutexOK
<1>3. LinesOK /\ BarriersOK
  BY DEF LinesOK, BarriersOK, Operations
<1>4. ReturnsOK /\ MainOK
  BY DEF ReturnsOK, MainOK
<1> QED
  BY <1>1, <1>2, <1>3, <1>4 DEF IInv

\* A line that is no operation, once read, changes nothing of the operations.
LEMMA LinesKept ==
  ASSUME TypeOK, LinesOK, file' = file, done' = done, line' = line,
         pos < Len(file), file[pos + 1] # "operation", pos' = pos + 1,
         \A u \in Threads : pc'[u] = "execute" <=> pc[u] = "execute"
  PROVE  LinesOK'
<1>1. Operations(pos)' = Operations(pos)
  BY DEF Operations, TypeOK
<1> QED
  BY <1>1 DEF LinesOK

\* One lemma for each action: it preserves the invariant.

LEMMA LockMutexInv ==
  ASSUME IInv, NEW t \in Threads, LockMutex(t)
  PROVE  IInv'
<1> USE NAssumption DEF LockMutex, GetNext, ReturnValue, mainVars, IInv
<1>1. TypeOK'
  BY DEF TypeOK, Threads, Kinds
<1>2. MutexOK'
  BY DEF TypeOK, MutexOK, Threads, NoThread
<1>3. LinesOK'
  BY DEF TypeOK, LinesOK, Operations, MainOK, Threads
<1>4. BarriersOK'
  BY DEF TypeOK, BarriersOK, LinesOK, Operations, MainOK, Threads
<1>5. ReturnsOK'
  BY DEF TypeOK, ReturnsOK, MainOK, Threads
<1>6. MainOK'
  BY DEF TypeOK, MainOK, ReturnsOK, Threads
<1> QED
  BY <1>1, <1>2, <1>3, <1>4, <1>5, <1>6

LEMMA SeeBarrierInv ==
  ASSUME IInv, NEW t \in Threads, SeeBarrier(t)
  PROVE  IInv'
<1> USE NAssumption DEF SeeBarrier, GetNext, ReturnValue, mainVars, IInv
<1>1. TypeOK'
  BY DEF TypeOK, Threads, Kinds
<1>2. MutexOK'
  BY DEF TypeOK, MutexOK, Threads, NoThread
<1>3. LinesOK'
  BY DEF TypeOK, LinesOK, Operations, MainOK, Threads
<1>4. BarriersOK'
  BY DEF TypeOK, BarriersOK, LinesOK, Operations, MainOK, Threads
<1>5. ReturnsOK'
  BY DEF TypeOK, ReturnsOK, MainOK, Threads
<1>6. MainOK'
  BY DEF TypeOK, MainOK, ReturnsOK, Threads
<1> QED
  BY <1>1, <1>2, <1>3, <1>4, <1>5, <1>6

LEMMA TakeOperationInv ==
  ASSUME IInv, NEW t \in Threads, TakeOperation(t)
  PROVE  IInv'
<1> USE NAssumption DEF TakeOperation, GetNext, ReturnValue, mainVars, IInv
<1>1. TypeOK'
  BY DEF TypeOK, Threads, Kinds
<1>2. MutexOK'
  BY DEF TypeOK, MutexOK, Threads, NoThread
<1>3. LinesOK'
  BY DEF TypeOK, LinesOK, Operations, MainOK, Threads
<1>4. BarriersOK'
  BY DEF TypeOK, BarriersOK, LinesOK, Operations, MainOK, Threads
<1>5. ReturnsOK'
  BY DEF TypeOK, ReturnsOK, MainOK, Threads
<1>6. MainOK'
  BY DEF TypeOK, MainOK, ReturnsOK, Threads
<1> QED
  BY <1>1, <1>2, <1>3, <1>4, <1>5, <1>6

LEMMA OperationReturnsInv ==
  ASSUME IInv, NEW t \in Threads, OperationReturns(t)
  PROVE  IInv'
<1> USE NAssumption DEF OperationReturns, GetNext, ReturnValue, mainVars, IInv
<1>1. TypeOK'
  <2>1. line[t] \in 1..Len(file)
    BY DEF LinesOK, Operations, TypeOK
  <2>2. done' \subseteq 1..Len(file)
    BY <2>1 DEF TypeOK
  <2> QED
    BY <2>2 DEF TypeOK, Threads
<1>2. MutexOK'
  BY DEF TypeOK, MutexOK, Threads, NoThread
<1>3. LinesOK'
  <2>1. done' = done \cup {line[t]} /\ line[t] \in Operations(pos)
    BY DEF LinesOK
  <2>2. \A u \in Threads \ {t} : pc'[u] = pc[u] /\ line'[u] = line[u]
    BY DEF TypeOK
  <2>3. pc'[t] # "execute"
    BY DEF TypeOK
  <2>4. Operations(pos)' = Operations(pos)
    BY DEF Operations
  <2>5. \A k \in Operations(pos) : k # line[t] =>
          k \in done \/ \E u \in Threads \ {t} : pc[u] = "execute" /\ line[u] = k
    BY DEF LinesOK
  <2> QED
    BY <2>1, <2>2, <2>3, <2>4, <2>5 DEF LinesOK
<1>4. BarriersOK'
  BY DEF TypeOK, BarriersOK, LinesOK, Operations, MainOK, Threads
<1>5. ReturnsOK'
  BY DEF TypeOK, ReturnsOK, MainOK, Threads
<1>6. MainOK'
  BY DEF TypeOK, MainOK, ReturnsOK, Threads
<1> QED
  BY <1>1, <1>2, <1>3, <1>4, <1>5, <1>6

LEMMA SkipLineInv ==
  ASSUME IInv, NEW t \in Threads, SkipLine(t)
  PROVE  IInv'
<1> USE NAssumption DEF SkipLine, GetNext, ReturnValue, mainVars, IInv
<1>1. TypeOK'
  BY DEF TypeOK, Threads, Kinds
<1>2. MutexOK'
  BY DEF TypeOK, MutexOK, Threads, NoThread
<1>3. LinesOK'
  <2>1. \A u \in Threads : pc'[u] = "execute" <=> pc[u] = "execute"
    BY DEF TypeOK
  <2> QED
    BY <2>1, LinesKept DEF mainVars
<1>4. BarriersOK'
  BY DEF TypeOK, BarriersOK, LinesOK, Operations, MainOK, Threads
<1>5. ReturnsOK'
  BY DEF TypeOK, ReturnsOK, MainOK, Threads
<1>6. MainOK'
  BY DEF TypeOK, MainOK, ReturnsOK, Threads
<1> QED
  BY <1>1, <1>2, <1>3, <1>4, <1>5, <1>6

LEMMA StartWaitInv ==
  ASSUME IInv, NEW t \in Threads, StartWait(t)
  PROVE  IInv'
<1> USE NAssumption DEF StartWait, GetNext, ReturnValue, mainVars, IInv
<1>1. TypeOK'
  BY DEF TypeOK, Threads, Kinds
<1>2. MutexOK'
  BY DEF TypeOK, MutexOK, Threads, NoThread
<1>3. LinesOK'
  <2>1. \A u \in Threads : pc'[u] = "execute" <=> pc[u] = "execute"
    BY DEF TypeOK
  <2> QED
    BY <2>1, LinesKept DEF mainVars
<1>4. BarriersOK'
  BY DEF TypeOK, BarriersOK, LinesOK, Operations, MainOK, Threads
<1>5. ReturnsOK'
  BY DEF TypeOK, ReturnsOK, MainOK, Threads
<1>6. MainOK'
  BY DEF TypeOK, MainOK, ReturnsOK, Threads
<1> QED
  BY <1>1, <1>2, <1>3, <1>4, <1>5, <1>6

LEMMA EndWaitInv ==
  ASSUME IInv, NEW t \in Threads, EndWait(t)
  PROVE  IInv'
<1> USE NAssumption DEF EndWait, GetNext, ReturnValue, mainVars, IInv
<1>1. TypeOK'
  BY DEF TypeOK, Threads, Kinds
<1>2. MutexOK'
  BY DEF TypeOK, MutexOK, Threads, NoThread
<1>3. LinesOK'
  BY DEF TypeOK, LinesOK, Operations, MainOK, Threads
<1>4. BarriersOK'
  BY DEF TypeOK, BarriersOK, LinesOK, Operations, MainOK, Threads
<1>5. ReturnsOK'
  BY DEF TypeOK, ReturnsOK, MainOK, Threads
<1>6. MainOK'
  BY DEF TypeOK, MainOK, ReturnsOK, Threads
<1> QED
  BY <1>1, <1>2, <1>3, <1>4, <1>5, <1>6

LEMMA MalformedInv ==
  ASSUME IInv, NEW t \in Threads, Malformed(t)
  PROVE  IInv'
<1> USE NAssumption DEF Malformed, GetNext, ReturnValue, mainVars, IInv
<1>1. TypeOK'
  BY DEF TypeOK, Threads, Kinds
<1>2. MutexOK'
  BY DEF TypeOK, MutexOK, Threads, NoThread
<1>3. LinesOK'
  <2>1. \A u \in Threads : pc'[u] = "execute" <=> pc[u] = "execute"
    BY DEF TypeOK
  <2> QED
    BY <2>1, LinesKept DEF mainVars
<1>4. BarriersOK'
  BY DEF TypeOK, BarriersOK, LinesOK, Operations, MainOK, Threads
<1>5. ReturnsOK'
  BY DEF TypeOK, ReturnsOK, MainOK, Threads
<1>6. MainOK'
  BY DEF TypeOK, MainOK, ReturnsOK, Threads
<1> QED
  BY <1>1, <1>2, <1>3, <1>4, <1>5, <1>6

LEMMA BarrierInv ==
  ASSUME IInv, NEW t \in Threads, Barrier(t)
  PROVE  IInv'
<1> USE NAssumption DEF Barrier, GetNext, ReturnValue, mainVars, IInv
<1>1. TypeOK'
  BY DEF TypeOK, Threads, Kinds
<1>2. MutexOK'
  BY DEF TypeOK, MutexOK, Threads, NoThread
<1>3. LinesOK'
  <2>1. \A u \in Threads : pc'[u] = "execute" <=> pc[u] = "execute"
    BY DEF TypeOK
  <2> QED
    BY <2>1, LinesKept DEF mainVars
<1>4. BarriersOK'
  BY DEF TypeOK, BarriersOK, LinesOK, Operations, MainOK, Threads
<1>5. ReturnsOK'
  BY DEF TypeOK, ReturnsOK, MainOK, Threads
<1>6. MainOK'
  BY DEF TypeOK, MainOK, ReturnsOK, Threads
<1> QED
  BY <1>1, <1>2, <1>3, <1>4, <1>5, <1>6

LEMMA EndOfCommandsInv ==
  ASSUME IInv, NEW t \in Threads, EndOfCommands(t)
  PROVE  IInv'
<1> USE NAssumption DEF EndOfCommands, GetNext, ReturnValue, mainVars, IInv
<1>1. TypeOK'
  BY DEF TypeOK, Threads, Kinds
<1>2. MutexOK'
  BY DEF TypeOK, MutexOK, Threads, NoThread
<1>3. LinesOK'
  BY DEF TypeOK, LinesOK, Operations, MainOK, Threads
<1>4. BarriersOK'
  BY DEF TypeOK, BarriersOK, LinesOK, Operations, MainOK, Threads
<1>5. ReturnsOK'
  BY DEF TypeOK, ReturnsOK, MainOK, Threads
<1>6. MainOK'
  BY DEF TypeOK, MainOK, ReturnsOK, Threads
<1> QED
  BY <1>1, <1>2, <1>3, <1>4, <1>5, <1>6

LEMMA CreateInv ==
  ASSUME IInv, Create
  PROVE  IInv'
<1> USE NAssumption DEF Create, GetNext, ReturnValue, mainVars, IInv
<1>1. TypeOK'
  <2>1. main' \in {"create", "join"} /\ next' \in 1..(N + 1)
    BY DEF TypeOK, MainOK
  <2> QED
    BY <2>1 DEF TypeOK, Threads
<1>2. MutexOK'
  BY DEF TypeOK, MutexOK, Threads, NoThread
<1>3. LinesOK'
  BY DEF TypeOK, LinesOK, Operations, MainOK, Threads
<1>4. BarriersOK'
  BY DEF TypeOK, BarriersOK, LinesOK, Operations, MainOK, Threads
<1>5. ReturnsOK'
  BY DEF TypeOK, ReturnsOK, MainOK, Threads
<1>6. MainOK'
  BY DEF TypeOK, MainOK, ReturnsOK, Threads
<1> QED
  BY <1>1, <1>2, <1>3, <1>4, <1>5, <1>6

LEMMA JoinInv ==
  ASSUME IInv, Join
  PROVE  IInv'
<1> USE NAssumption DEF Join, GetNext, ReturnValue, mainVars, IInv
<1>1. TypeOK'
  BY DEF TypeOK, Threads, Kinds
<1>2. MutexOK'
  BY DEF TypeOK, MutexOK, Threads, NoThread
<1>3. LinesOK'
  BY DEF TypeOK, LinesOK, Operations, MainOK, Threads
<1>4. BarriersOK'
  BY DEF TypeOK, BarriersOK, LinesOK, Operations, MainOK, Threads
<1>5. ReturnsOK'
  BY DEF TypeOK, ReturnsOK, MainOK, Threads
<1>6. MainOK'
  BY DEF TypeOK, MainOK, ReturnsOK, Threads
<1> QED
  BY <1>1, <1>2, <1>3, <1>4, <1>5, <1>6

LEMMA RestartInv ==
  ASSUME IInv, Restart
  PROVE  IInv'
<1> USE NAssumption DEF Restart, GetNext, ReturnValue, mainVars, IInv
<1>1. TypeOK'
  <2>1. next' \in 1..(N + 1)
    OBVIOUS
  <2> QED
    BY <2>1 DEF TypeOK
<1>2. MutexOK'
  BY DEF TypeOK, MutexOK, Threads, NoThread
<1>3. LinesOK'
  BY DEF TypeOK, LinesOK, Operations, MainOK, Threads
<1>4. BarriersOK'
  BY DEF TypeOK, BarriersOK, LinesOK, Operations, MainOK, Threads
<1>5. ReturnsOK'
  BY DEF TypeOK, ReturnsOK, MainOK, Threads
<1>6. MainOK'
  BY DEF TypeOK, MainOK, ReturnsOK, Threads
<1> QED
  BY <1>1, <1>2, <1>3, <1>4, <1>5, <1>6

LEMMA FinishInv ==
  ASSUME IInv, Finish
  PROVE  IInv'
<1> USE NAssumption DEF Finish, GetNext, ReturnValue, mainVars, IInv
<1>1. TypeOK'
  BY DEF TypeOK, Threads, Kinds
<1>2. MutexOK'
  BY DEF TypeOK, MutexOK, Threads, NoThread
<1>3. LinesOK'
  BY DEF TypeOK, LinesOK, Operations, MainOK, Threads
<1>4. BarriersOK'
  BY DEF TypeOK, BarriersOK, LinesOK, Operations, MainOK, Threads
<1>5. ReturnsOK'
  BY DEF TypeOK, ReturnsOK, MainOK, Threads
<1>6. MainOK'
  BY DEF TypeOK, MainOK, ReturnsOK, Threads
<1> QED
  BY <1>1, <1>2, <1>3, <1>4, <1>5, <1>6

LEMMA StutterInv == IInv /\ UNCHANGED vars => IInv'
BY DEF IInv, vars, mainVars, TypeOK, MutexOK, LinesOK, BarriersOK, ReturnsOK, MainOK, Operations

-----------------------------------------------------------------------------

\* Every reachable state satisfies the inductive invariant.
THEOREM Invariance == Spec => []IInv
<1>1. Init => IInv
  BY InitIInv
<1>2. IInv /\ [Next]_vars => IInv'
  <2> SUFFICES ASSUME IInv, [Next]_vars PROVE IInv'
    OBVIOUS
  <2>1. CASE Main
    BY <2>1, CreateInv, JoinInv, RestartInv, FinishInv DEF Main
  <2>2. ASSUME NEW t \in Threads, Thread(t) PROVE IInv'
    BY <2>2, LockMutexInv, SeeBarrierInv, TakeOperationInv, OperationReturnsInv,
       SkipLineInv, StartWaitInv, EndWaitInv, MalformedInv, BarrierInv, EndOfCommandsInv
       DEF Thread
  <2>3. CASE Exited \/ UNCHANGED vars
    BY <2>3, StutterInv DEF Exited
  <2> QED
    BY <2>1, <2>2, <2>3 DEF Next
<1> QED
  BY <1>1, <1>2, PTL DEF Spec

\* The variables keep their types.
THEOREM Typing == Spec => []TypeOK
<1>1. IInv => TypeOK
  BY DEF IInv
<1> QED
  BY <1>1, Invariance, PTL

\* A command does not begin before all the commands that come before a BARRIER
\* before it are done.
THEOREM BarriersSeparate == Spec => []BarrierSeparates
<1>1. IInv => BarrierSeparates
  <2> SUFFICES ASSUME IInv, NEW t \in Threads, pc[t] = "execute",
                      NEW b \in 1..(line[t] - 1), file[b] = "barrier"
               PROVE  Operations(b) \subseteq done
    BY DEF BarrierSeparates
  <2>1. line[t] \in 1..pos
    BY DEF IInv, LinesOK, Operations
  <2>2. b \in 1..pos /\ b # pos
    BY <2>1 DEF IInv, TypeOK
  <2> QED
    BY <2>2 DEF IInv, BarriersOK
<1> QED
  BY <1>1, Invariance, PTL

\* When process_file returns, every line has been read and every operation done.
THEOREM NoLineLeftOut == Spec => []NothingLeftOut
<1>1. IInv => NothingLeftOut
  <2> SUFFICES ASSUME IInv, main = "finished"
               PROVE  pos = Len(file) /\ done = Operations(Len(file))
    BY DEF NothingLeftOut
  <2>1. pos = Len(file) /\ next = N + 1
    BY DEF IInv, MainOK
  <2>2. \A t \in Threads : pc[t] = "none"
    BY <2>1, NAssumption DEF IInv, MainOK, Threads
  <2> QED
    BY <2>1, <2>2 DEF IInv, LinesOK
<1> QED
  BY <1>1, Invariance, PTL

\* The threads of a round return the same value.
THEOREM RoundsUnanimous == Spec => []RoundUnanimous
<1>1. IInv => RoundUnanimous
  BY DEF IInv, ReturnsOK, RoundUnanimous
<1> QED
  BY <1>1, Invariance, PTL

\* While a thread carries out WAIT d, no thread begins a command.
THEOREM WaitsStandStill == Spec => StandstillDuringWait
<1>1. ASSUME IInv, [Next]_vars
      PROVE  [\A t, u \in Threads :
                (pc[t] = "sleep" /\ pc[u] # "execute") => pc'[u] # "execute"]_vars
  <2> SUFFICES ASSUME Next, NEW t \in Threads, NEW u \in Threads,
                      pc[t] = "sleep", pc[u] # "execute"
               PROVE  pc'[u] # "execute"
    BY <1>1
  <2>1. mutex = t
    BY <1>1 DEF IInv, MutexOK
  <2>2. CASE Main
    BY <1>1, <2>2 DEF Main, Create, Join, Restart, Finish, IInv, TypeOK
  <2>3. ASSUME NEW v \in Threads, Thread(v) PROVE pc'[u] # "execute"
    <3>1. CASE TakeOperation(v)
      <4>1. mutex = v
        BY <1>1, <3>1 DEF TakeOperation, GetNext, IInv, MutexOK
      <4> QED
        BY <1>1, <2>1, <3>1, <4>1 DEF TakeOperation, GetNext
    <3>2. CASE LockMutex(v) \/ SeeBarrier(v) \/ OperationReturns(v) \/ SkipLine(v)
               \/ StartWait(v) \/ EndWait(v) \/ Malformed(v) \/ Barrier(v) \/ EndOfCommands(v)
      BY <1>1, <3>2 DEF LockMutex, SeeBarrier, OperationReturns, SkipLine, StartWait, EndWait,
                        Malformed, Barrier, EndOfCommands, ReturnValue, IInv, TypeOK
    <3> QED
      BY <2>3, <3>1, <3>2 DEF Thread
  <2>4. CASE Exited
    BY <2>4 DEF Exited, vars
  <2> QED
    BY <2>2, <2>3, <2>4 DEF Next
<1> QED
  BY <1>1, Invariance, PTL DEF Spec, StandstillDuringWait

=============================================================================
