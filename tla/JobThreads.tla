----------------------------- MODULE JobThreads -----------------------------
(***************************************************************************)
(* process_file and thread_execute of Part 1 (P1/main.c): the threads that *)
(* carry out the commands of one .jobs file.                               *)
(*                                                                         *)
(* The threads share the file's descriptor, and so the place in the file,  *)
(* under one mutex.  BARRIER is a flag: the thread that reads it and every *)
(* thread that sees it return, the main thread joins them all and starts   *)
(* them anew.  What a command does to the events is SeatLocking's matter;  *)
(* here a command is begun and, later, done.                               *)
(*                                                                         *)
(* waitFlags is left out: "WAIT d t" never reaches the line that sets the  *)
(* flag of a thread (see Malformed), so only waitFlags[0] is ever set, and *)
(* no thread has the number 0.                                             *)
(***************************************************************************)
EXTENDS Integers, Sequences

CONSTANTS
  N,        \* global_num_threads
  Files     \* the files: sequences of kinds of lines

Threads == 1..N
NoThread == 0

\* The lines of a file, by what thread_execute does with them.
Kinds == {
  "operation",  \* CREATE, RESERVE, SHOW and LIST that parse
  "skipped",    \* HELP, comment, unknown command, RESERVE that does not parse, WAIT 0
  "wait",       \* WAIT d
  "malformed",  \* CREATE or SHOW that does not parse; WAIT d t
  "barrier" }   \* BARRIER

ASSUME NAssumption == N \in Nat \ {0}
ASSUME FilesAssumption == Files \subseteq Seq(Kinds)

VARIABLES
  file,         \* the input file
  pos,          \* how many lines have been read from it
  mutex,        \* the thread that holds it, or NoThread
  barrierFlag,
  pc,           \* pc[t]: where thread t is
  line,         \* line[t]: the line that thread t carries out
  returned,     \* returned[t]: what thread_execute returned
  main,         \* what process_file does: "create", "join" or "finished"
  next,         \* the thread that it creates or joins next
  flagBarrier,  \* whether a thread joined in this round returned BARRIER
  done          \* the lines whose operation has returned

mainVars == <<main, next, flagBarrier>>
vars == <<file, pos, mutex, barrierFlag, pc, line, returned, mainVars, done>>

-----------------------------------------------------------------------------

Init ==
  /\ file \in Files
  /\ pos = 0
  /\ mutex = NoThread
  /\ barrierFlag = FALSE
  /\ pc = [t \in Threads |-> "none"]
  /\ line = [t \in Threads |-> 0]
  /\ returned = [t \in Threads |-> "nothing"]
  /\ main = "create"
  /\ next = 1
  /\ flagBarrier = FALSE
  /\ done = {}

-----------------------------------------------------------------------------
\* thread_execute.

LockMutex(t) ==
  /\ pc[t] = "ask"
  /\ mutex = NoThread
  /\ mutex' = t
  /\ pc' = [pc EXCEPT ![t] = "locked"]
  /\ UNCHANGED <<file, pos, barrierFlag, line, returned, mainVars, done>>

ReturnValue(t, value) ==
  /\ pc' = [pc EXCEPT ![t] = "exited"]
  /\ returned' = [returned EXCEPT ![t] = value]
  /\ mutex' = NoThread

\* A slip: a thread that sees the flag returns as at the end of the file.
SeeBarrierReturnsZero(t) ==
  /\ pc[t] = "locked"
  /\ barrierFlag
  /\ ReturnValue(t, "0")
  /\ UNCHANGED <<file, pos, barrierFlag, line, mainVars, done>>

\* The flag is looked at before a line is read.
SeeBarrier(t) ==
  /\ pc[t] = "locked"
  /\ barrierFlag
  /\ ReturnValue(t, "BARRIER")
  /\ UNCHANGED <<file, pos, barrierFlag, line, mainVars, done>>

\* A slip: the line is read whether or not the flag is set.
GetNextAnyway(t, kind) ==
  /\ pc[t] = "locked"
  /\ pos < Len(file)
  /\ file[pos + 1] = kind
  /\ pos' = pos + 1

\* get_next: the thread reads a line of the given kind.
GetNext(t, kind) ==
  /\ pc[t] = "locked"
  /\ ~barrierFlag
  /\ pos < Len(file)
  /\ file[pos + 1] = kind
  /\ pos' = pos + 1

\* The mutex is given back before the operation.
TakeOperation(t) ==
  /\ GetNext(t, "operation")
  /\ mutex' = NoThread
  /\ pc' = [pc EXCEPT ![t] = "execute"]
  /\ line' = [line EXCEPT ![t] = pos + 1]
  /\ UNCHANGED <<file, barrierFlag, returned, mainVars, done>>

\* ems_create, ems_reserve, ems_show or ems_list_events returns.
OperationReturns(t) ==
  /\ pc[t] = "execute"
  /\ pc' = [pc EXCEPT ![t] = "ask"]
  /\ done' = done \cup {line[t]}
  /\ line' = [line EXCEPT ![t] = 0]
  /\ UNCHANGED <<file, pos, mutex, barrierFlag, returned, mainVars>>

SkipLine(t) ==
  /\ GetNext(t, "skipped")
  /\ mutex' = NoThread
  /\ pc' = [pc EXCEPT ![t] = "ask"]
  /\ UNCHANGED <<file, barrierFlag, line, returned, mainVars, done>>

\* A slip: the mutex is given back before the thread sleeps.
StartWaitAlone(t) ==
  /\ GetNext(t, "wait")
  /\ mutex' = NoThread
  /\ pc' = [pc EXCEPT ![t] = "sleep"]
  /\ UNCHANGED <<file, barrierFlag, line, returned, mainVars, done>>

\* WAIT d: ems_wait with the mutex held.
StartWait(t) ==
  /\ GetNext(t, "wait")
  /\ pc' = [pc EXCEPT ![t] = "sleep"]
  /\ UNCHANGED <<file, mutex, barrierFlag, line, returned, mainVars, done>>

EndWait(t) ==
  /\ pc[t] = "sleep"
  /\ mutex' = NoThread
  /\ pc' = [pc EXCEPT ![t] = "ask"]
  /\ UNCHANGED <<file, pos, barrierFlag, line, returned, mainVars, done>>

\* The "continue" of the three lines that do not parse: the thread goes back to
\* ask for the mutex it still holds.  parse_wait returns 1 when a thread is
\* named, and thread_execute takes that for an error.
Malformed(t) ==
  /\ GetNext(t, "malformed")
  /\ pc' = [pc EXCEPT ![t] = "ask"]
  /\ UNCHANGED <<file, mutex, barrierFlag, line, returned, mainVars, done>>

Barrier(t) ==
  /\ GetNext(t, "barrier")
  /\ barrierFlag' = TRUE
  /\ ReturnValue(t, "BARRIER")
  /\ UNCHANGED <<file, line, mainVars, done>>

\* EOC
EndOfCommands(t) ==
  /\ pc[t] = "locked"
  /\ ~barrierFlag
  /\ pos = Len(file)
  /\ ReturnValue(t, "0")
  /\ UNCHANGED <<file, pos, barrierFlag, line, mainVars, done>>

Thread(t) ==
  \/ LockMutex(t) \/ SeeBarrier(t)
  \/ TakeOperation(t) \/ OperationReturns(t) \/ SkipLine(t)
  \/ StartWait(t) \/ EndWait(t) \/ Malformed(t) \/ Barrier(t) \/ EndOfCommands(t)

-----------------------------------------------------------------------------
\* process_file.

\* pthread_create; with the last thread the main thread turns to joining.
Create ==
  /\ main = "create"
  /\ pc' = [pc EXCEPT ![next] = "ask"]
  /\ returned' = [returned EXCEPT ![next] = "nothing"]
  /\ main' = IF next = N THEN "join" ELSE "create"
  /\ next' = IF next = N THEN 1 ELSE next + 1
  /\ UNCHANGED <<file, pos, mutex, barrierFlag, line, flagBarrier, done>>

\* A slip: the thread that returned BARRIER is enough to start anew.
JoinFirst ==
  /\ main = "join"
  /\ next <= N
  /\ pc[next] = "exited"
  /\ pc' = [pc EXCEPT ![next] = "none"]
  /\ flagBarrier' = (returned[next] = "BARRIER")
  /\ next' = N + 1
  /\ UNCHANGED <<file, pos, mutex, barrierFlag, line, returned, main, done>>

\* pthread_join
Join ==
  /\ main = "join"
  /\ next <= N
  /\ pc[next] = "exited"
  /\ pc' = [pc EXCEPT ![next] = "none"]
  /\ flagBarrier' = (flagBarrier \/ returned[next] = "BARRIER")
  /\ next' = next + 1
  /\ UNCHANGED <<file, pos, mutex, barrierFlag, line, returned, main, done>>

\* A slip: the flag the threads look at stays set.
RestartForgets ==
  /\ main = "join"
  /\ next = N + 1
  /\ flagBarrier
  /\ main' = "create"
  /\ next' = 1
  /\ flagBarrier' = FALSE
  /\ UNCHANGED <<file, pos, mutex, barrierFlag, pc, line, returned, done>>

\* A slip: the loop index is not set back to the first thread.
RestartLate ==
  /\ main = "join"
  /\ next = N + 1
  /\ flagBarrier
  /\ main' = "create"
  /\ flagBarrier' = FALSE
  /\ barrierFlag' = FALSE
  /\ UNCHANGED <<file, pos, mutex, pc, next, line, returned, done>>

\* There was a barrier: the threads are started again.
Restart ==
  /\ main = "join"
  /\ next = N + 1
  /\ flagBarrier
  /\ main' = "create"
  /\ next' = 1
  /\ flagBarrier' = FALSE
  /\ barrierFlag' = FALSE
  /\ UNCHANGED <<file, pos, mutex, pc, line, returned, done>>

\* There was none: the files are closed, ems_terminate frees the events.
Finish ==
  /\ main = "join"
  /\ next = N + 1
  /\ ~flagBarrier
  /\ main' = "finished"
  /\ UNCHANGED <<file, pos, mutex, barrierFlag, pc, line, returned, next, flagBarrier, done>>

Main == Create \/ Join \/ Restart \/ Finish

Exited ==
  /\ main = "finished"
  /\ UNCHANGED vars

Next == Main \/ (\E t \in Threads : Thread(t)) \/ Exited

\* The kernel runs every thread that can run.
Fairness == WF_vars(Main) /\ \A t \in Threads : WF_vars(Thread(t))

Spec == Init /\ [][Next]_vars

FairSpec == Spec /\ Fairness

-----------------------------------------------------------------------------
\* Properties.

\* The type of every variable.
TypeOK ==
  /\ file \in Seq(Kinds)
  /\ pos \in 0..Len(file)
  /\ mutex \in Threads \cup {NoThread}
  /\ barrierFlag \in BOOLEAN
  /\ pc \in [Threads -> {"none", "ask", "locked", "execute", "sleep", "exited"}]
  /\ line \in [Threads -> 0..Len(file)]
  /\ returned \in [Threads -> {"nothing", "BARRIER", "0"}]
  /\ main \in {"create", "join", "finished"}
  /\ next \in 1..(N + 1)
  /\ flagBarrier \in BOOLEAN
  /\ done \subseteq 1..Len(file)

Operations(n) == {k \in 1..n : file[k] = "operation"}

\* BARRIER: what comes after one in the file does not begin before all that
\* comes before it is done.
BarrierSeparates ==
  \A t \in Threads : pc[t] = "execute" =>
    \A b \in 1..(line[t] - 1) : file[b] = "barrier" => Operations(b) \subseteq done

\* When process_file returns, no line of the file was left out, however the
\* threads shared them and however many of them had returned early.
NothingLeftOut ==
  main = "finished" => pos = Len(file) /\ done = Operations(Len(file))

\* The threads of a round return for the same reason; so the one that
\* process_file happens to look at last does not matter.
RoundUnanimous ==
  \A t, u \in Threads :
    pc[t] \in {"exited"} /\ pc[u] \in {"exited"} => returned[t] = returned[u]

\* WAIT d: while a thread carries it out, no thread begins a command.
StandstillDuringWait ==
  [][\A t, u \in Threads :
       (pc[t] = "sleep" /\ pc[u] # "execute") => pc'[u] # "execute"]_vars

\* Every file is carried out to its end, or comes to a stop in one way only: a
\* thread has read a line that does not parse, or a WAIT that names a thread, and
\* asks for the mutex that it holds.
Terminates ==
  <>[](\/ main = "finished"
       \/ \E t \in Threads : mutex = t /\ pc[t] = "ask" /\ file[pos] = "malformed")

=============================================================================
