# A TLA+ model of the EMS projects (event management system)

The repository holds two programs that manage the seats of events:

* **Part 1** (`src/Project - Part1/P1`, "P1" below): a batch program. For each `.jobs` file of a
  directory it forks a process; in each process several threads carry out the commands of the file
  (CREATE, RESERVE, SHOW, LIST, WAIT, BARRIER) on events in memory and write to one `.out` file.
* **Part 2** (`src/Project - Part2/P2`, "P2"): a client and a server. Clients register on the
  server's named pipe, get a session with one of `MAX_SESSION_COUNT` worker threads, and send
  requests over two pipes of their own. SIGUSR1 makes the server print all its events.

This directory specifies both in TLA+, checks it with TLC on small
instances and proves its main properties with TLAPS. The code is the reference: every
definition listed under `map` in `PROJECT.json` names the lines that it stands for.

## 1. Inventory

| Part | State it keeps | Operations | What is hard |
|---|---|---|---|
| P1 events (`operations.c`, `eventlist.c`) | list of events; per event: `reservations`, `data`, an rwlock, one mutex per seat | `ems_create`, `ems_reserve`, `ems_show`, `ems_list_events` | many fine locks taken in order, partial failure and undo, the id counter, output order |
| P1 seat order (`auxFunctions.c`) | the two coordinate vectors of a request | `sortVectors`, `seat_index` | the order is what excludes deadlock; duplicates would deadlock a thread with itself |
| P1 threads of a file (`main.c`) | place in the file, `mutex`, `barrierFlag`, `waitFlags` | `process_file`, `thread_execute` | BARRIER as return and restart, WAIT, paths that keep the mutex |
| P1 processes (`main.c`) | number of children | `iterateFiles` | limit of processes, waits |
| P1/P2 parsers | place in the file | `get_next`, `parse_*` | resynchronisation after a malformed line |
| P2 registration (`server/main.c`, `client/api.c`) | the server's FIFO | `receive_client`, `ems_setup` | several writers, end of file between clients |
| P2 hand-over (`server/main.c`, `common/queue.c`) | the queue, two mutexes, a condition variable | `receive_client`, `execute_client` | lost wakeups, stolen wakeups |
| P2 sessions (`server/main.c`, `client/api.c`, `common/rw_aux.c`) | two pipes | requests and answers | lost clients, short reads, exits without `ems_quit` |
| P2 events (`server/operations.c`, `server/eventlist.c`) | list with an rwlock and a count; per event: `reservations`, `data`, a mutex | `ems_create`, `ems_reserve`, `ems_show`, `ems_list_events`, `show_events`, `show_id` | nested locks, a recursive read lock, error paths that keep locks |
| P2 signals (`server/main.c`) | `show_details` | `sigusr1_handler`, `main` | a signal during the dump, or after it and before the flag is cleared |
| P2 client (`client/main.c`) | its two files | the loop over commands | exits without `ems_quit` |

How they interact. In P1, `process_file` starts the threads of a file; they share the file under one
mutex and call the event operations outside it. In P2 a client writes the
names of its two pipes to the server's pipe; the receiver thread puts them in a
queue, a worker takes them and opens both pipes, and from then on the client's API calls and the worker's loop exchange
requests and answers, the worker calling the event operations in between. The main thread calls `show_events`.

What makes each part correct: reservations are all or nothing and keep their seats, shows are of one
instant, ids identify, calls return (events); strictly ascending and rearranged, duplicates
found (seat order); barriers separate, no command is lost, files are carried out to their end (threads);
each registration gets one session, in order, and none is forgotten (hand-over); every request
takes effect at one instant and is answered (P2 events); the list of events never shows half of a creation or an event twice (P1 list);
registrations are heard whole, both ends of a session agree which call they are at, and sessions end (P2 registration, sessions);
commands carried out are lines of the file, and a wrong line costs no other (parsers). `PROJECT.json` lists, under `hazards`, what is hard
to test in this code, line by line, with the properties that cover it.

## 2. Modules

| Module | What it is |
|---|---|
| `Booking` | abstract: reserve and show on one event as atomic operations |
| `SeatLocking` | P1 `ems_reserve` and `ems_show` lock by lock; implements `Booking` |
| `SeatLockingProofs` | inductive invariant of `SeatLocking`, the safety theorems, and the proof that it implements `Booking` |
| `SeatIndex` | `seat_index`, and the order of `sortVectors` |
| `SortVectors`, `SortVectorsProofs` | P1 `sortVectors`; its loop invariant and the order, injectivity and range of `seat_index` proved |
| `JobThreads`, `JobThreadsProofs` | P1 `process_file` and `thread_execute`, and their theorems |
| `Commands`, `CommandsProofs` | `get_next` and the `parse_*` functions of both parts, under the loop that calls them |
| `Catalogue` | abstract: create, search and list on the list of events as atomic operations |
| `EventList`, `EventListProofs` | P1 `ems_create`, `ems_list_events` and the search, under `global_rwlock`; implements `Catalogue` |
| `Sessions` | abstract: a FIFO of registrations, served once each |
| `SessionQueue`, `SessionQueueProofs` | P2 queue, receiver and workers; implements `Sessions` |
| `EventService` | abstract: the P2 operations, each at one instant |
| `ServerOperations`, `ServerOperationsProofs` | P2 operations lock by lock, SIGUSR1 and the dump; implements `EventService` |
| `Pipes` | named pipes as both programs read and write them (`rw_aux.c`) |
| `Registration` | `ems_setup`'s first half and `receive_client` on the server's pipe |
| `SessionProtocol` | the API's calls and the loop of `execute_client` on the pipes of a session |
| `ClientServer`, `ClientServerProofs` | composes `Registration`, `Sessions` (for the queue) and `SessionProtocol` |
| `MC*` | instances for TLC |

### SeatLocking

One event and the threads that call `ems_reserve` and `ems_show` on it. One action is one lock
operation or one access to shared data, named after it:
`LoadCounter`/`StoreCounter` for the two atomic accesses of lines 209-211; `LockSeat`,
`SeatTaken`/`SeatFree`, `WriteSeat` and `InvalidSeat` for the loop of 213-238; `UndoSeat`/`UnlockUndone` for
243-249; `UnlockSeat` for 256-261; `UnlockForReading` for the rwlock. `CallReserve` includes the
search for the event under `global_rwlock`, which holds no lock afterwards and has no effect (the
event is in the list and never leaves it). `ReadSeat` reads the seats of a show one by one; `PrintView` is the one write to the
output under `global_mutex`. A coordinate is its rank in the order of `sortVectors`;
`SortVectorsProofs` proves that array indices have the same order and are unique, and that the sort produces
what `Sorted` says. The failures of pthread calls (which cannot occur for these locks) are left out; so are the digits
of a dump. `MaxCalls` bounds the calls of a thread.

`Abstract` maps to `Booking`: the marks of a reservation whose fate is open (`Marked`) count as
free; a reservation takes effect when it writes its last seat, is refused when it meets a
bad seat, and a show takes effect when it lets the rwlock go.

### SortVectors

The two loops with `xs` and `ys` as variables and a history variable `from` that tells where each seat
came from. Indices start at 1. `Terminates` and the proofs cover lists of any order, with duplicates.

### JobThreads

A file is a sequence of kinds of lines; `Kinds` says what `thread_execute` does with each. Reading
a line and what is done with the mutex after it is one step, for the mutex is held. `Malformed` is the `continue` of lines
299, 335 and 364, after which the thread asks for the mutex that it holds. `RESERVE`
lines that do not parse are `skipped`: there the mutex is given back first. `waitFlags` is left out
because `WAIT d t` is taken for an error before the flag is set.
The main thread's `Create`, `Join`, `Restart` and `Finish` are `process_file`. Its `pthread_join` stores a
pointer through the address of an `int`; in the Makefile's build (with the address sanitizer) the
bytes behind it are padding, so the model gives it no effect.

### Commands

A file is a sequence of symbols: a keyword of the parser, a run of digits, one character, or the first letter of a keyword that the
characters after it do not complete (`wrong`, with the number of characters that are then read at one go). There is no
buffer of lines in the code, so the model has none: `pos` is the place in the file, `Cleanup` skips to the next newline, and each
`parse_*` function is a set of readings built from `Number` (`read_uint` and the test of the character after it) and
`Char`. The outcome is a set because of one thing: at the end of the file `read_uint` leaves its digits without a
terminating zero, and `strtoul` may take older characters along (`Stale`). `program` chooses between the two parsers and
loops, which differ in BARRIER, in WAIT with a thread, and in that a thread of Part 1 stops after most errors (`stopped`; see `JobThreads`).
Numbers of more than fifteen digits, which overrun `read_uint`'s buffer, are not in the files, nor are NUL bytes: the files are text. (The parser takes a NUL
for the end of a line, P1 `parser.c:152`, 213, 224, 246, 252, since `read_uint` reports the end of the file by one; that case is modelled.) What a line means is stated apart
from how it is read (`Says`): by the forms of a whole line (`Forms`, `ReserveForm` for each number of seats), its marks in their order
(`MarksFrom`) and the numbers before them.

### EventList

The counterpart of `SeatLocking` for the list: one action per lock operation or critical step. `ReadNode` is
the critical section of one node: it reads the id and `current->next` together. Nodes are only appended
and never freed while threads run, so a node is its place in the list. `CreateFails` gives the lock back,
`CreateFailsLocked` and `ListFailsLocked` keep it, as their paths do; `LockFails` is glibc's EDEADLK for the thread that
still holds the lock for writing. `Abstract` maps to `Catalogue`: a list takes effect where it reads that there is no next
node (`Listed`), for then what it has collected is the list of that instant.

### Pipes, Registration, SessionProtocol, ClientServer

A pipe is the sequence of the fields that were written and not read yet; `readBuffer` is a single `read` into a
buffer that was cleared (`ReadBuffer`: what is there, and zeros), `writeFile` repeats `write` until all is written. A field is
one value that the protocol tells apart: an opcode, the name of a pipe, the arguments of a call, a status, a size, an item. Writes of
up to `PIPE_BUF` (4096) bytes are not mixed by the kernel: opcode and names are each one step, but two writes. The arguments of a RESERVE are 4108 bytes,
which POSIX does not promise to write at once; they are one field because Linux writes what a pipe has room for before it lets the reader in, and the request pipe (64 KiB)
is empty but for the opcode then. A system that gave the worker 4096 of these bytes first would have it take the rest for opcodes; this is not modelled.
The same holds of an answer: `Write` puts into the pipe, as one step, all that fits.

`Registration`: `OpenServerPipe`, `SendOpcode`, `SendNames`, `CloseServerPipe` are `ems_setup` 64-95; `ReceiverOpens`, `ReadSetup`,
`ReadNames` are `receive_client` 79-98. The receiver never closes the pipe, so after its first `open` the pipe keeps what is
written even between two clients; `open` waits while no client has the pipe open (`opening`), and `read` returns
nothing when the pipe is empty and none has. A wrong opcode ends the server (`up`). The history variable `raced` tells that two clients wrote
their opcodes before their names, or that the receiver came back before a client had closed the pipe.

`SessionProtocol`: the client's `at` and the worker's `work` are their places. The four calls share
the steps `Ask`, `SendArguments`, `ReadStatus`, `ReadSize`, `ReadItems`; `Updates` are the calls whose answer is a status, `Queries` those
with a size and items. The worker's `Execute` chooses any answer the operation may give (what they give is `ServerOperations`' matter), `Write`
writes as much as fits, `GiveUp` is the malloc that fails without an answer, `Killed` the SIGPIPE of a client that has gone.
`Leave` is `main`'s return before its loop, without `ems_quit`.

`ClientServer` joins the two with `Sessions`, the abstract queue: `Receive` puts a client in the queue in the same step as it reads its
names, `Take` gives it to a worker. `SessionQueue` implements `Sessions`, so nothing of the queue's locks is repeated; that a woken worker may
crash (`empty_queue`) is left to that module. Names that are no client's (`Garbled`: what a read in the
middle of registrations makes of them) are taken too; the worker's `open` then fails (`OpenFails`). Each of them is read at most once.

### SessionQueue

`AddToQueue` and `Signal` are `receive_client`; the receiver does not take the workers' mutex.
`LockMutex`, `LookAtHead`, `Wait`, `LockAgain`, `TakeHead`, `EndSession` are `execute_client`; each
critical section of `queueMutex` is one step. `UseNoHead` is line 149 with a NULL head:
the server crashes and the model stops. `Spurious` lets `pthread_cond_wait` return unasked.
How a client registers, and what happens in a session, is outside this module.

### ServerOperations

Workers and the main thread with the list's rwlock (`writer`, `readers`), the events' mutexes, the list
and `numEvents`, which `append_to_list` changes by two steps (`Link`, `Count`). `reserve`, `show` and
`show_id` share the steps of the search and of the event's lock. `show_events` holds a read lock around its
walk and takes a second in each `show_id`. A read lock is granted whoever waits to write: the rwlock has
default attributes, and glibc then prefers readers. On a library that prefers
writers `show_events` could wait for a create that waits for it; this is not modelled. The failures of
`malloc` (at most `MaxFailures`) are modelled with what each path releases and what it keeps. A seat is its
index; events have at least one seat. `ems_terminate` is never reached by the
server. A request is read and answered in one step each; the pipes are `SessionProtocol`'s matter. `Signal` is the handler of SIGUSR1, at any
moment at which the list has one of the lengths `SignalAt`; `StartDump` needs the flag, `ClearFlag` clears it after the
walk. `owed` is a history variable: how many events, the first of the list, are still to be shown for the last signal.

`Abstract` maps to `EventService`: a create takes effect at `Link`, a reservation at `Number` (seats
that it has still to mark count as marked, `Settled`), a refusal where it is decided, a show
with the last seat it reads, a list with the end of its walk. In `EventService` the number of a reservation
is one more than the number of the event's reservations, so the mapping also says that ids have no gaps.

## 3. What the runs check

| Run | Instance | Shows |
|---|---|---|
| `seats` | 2 threads, 3 seats, 2 calls each; overlapping requests in both orders, a duplicate, one out of bounds | `LocksMatch`, `LockOrder`, `ShowSeesNoHalves`, `DumpsComparable`, `BookedForever`, `ImplementsBooking`, `CallsReturn`; no deadlock |
| `ids` | 2 threads, one call each | **violated** `IdsIdentify`: two reservations get one id |
| `sort` | all lists of 1 to 4 seats of a 2x2 event | the four facts about `sortVectors`, and that it returns |
| `commands` | both programs, all files of up to 3 of 23 lines, right and wrong, with and without a last newline | `WholeLines`, `NumbersAsWritten`, `NoLineLost` |
| `jobs` | 3 threads, all files of up to 4 lines of all kinds | `BarrierSeparates`, `NothingLeftOut`, `RoundUnanimous`, `StandstillDuringWait`, `Terminates` |
| `event_list` | 3 threads, 2 events, 4 calls, one failure | `ImplementsCatalogue`, `CallsReturn` |
| `sessions` | 3 workers, 4 clients, spurious wakeups | `OneStrandedAtMost`, `ImplementsSessions`, `EveryRequestServed` |
| `empty_queue` | 2 workers, 2 clients, no spurious wakeups | **violated** `NeverTakesFromEmpty`: NULL is read |
| `server` | 2 workers and main, one event of 2 seats, one failure of malloc, signals once the event is there | `ReservationsDense`, `ImplementsService`, `CallsReturn` |
| `server_list` | 2 workers and main, three events, signals at any time | `IdsUnique`, `ListFits`, `DumpCoversAll`, `SignalsAnswered` |
| `client_server` | 3 clients whose files have two calls, one and none, 1 worker; a pipe of 4 fields; errors, and answers of 2, 3, 4 (full) and 5 fields (cut) | `RegistrationsWhole`, `CallsMatch`, `StrandedHeard`, `SessionsEnd` |
| `server_exits` | 1 client that only registers and quits | **violated** `ServerStaysUp` |

The type invariant of a module is checked by one of its runs, except that of `SessionQueue`, which is proved with its inductive invariant. Every property of a
passing run has a mutant: a slip that a programmer could make (the definitions that begin "A slip"), with which TLC
finds the property violated.

**Why the bounds are enough.** Two reservations with overlapping seats in both orders, or a reservation and a
show, are the smallest instances in which locks conflict; two calls per thread let a reservation follow a
refusal or a show and let outputs be written out of order; longer cycles of waiting threads are excluded by the
theorem `WaitsAscend`. Four lines hold a command before and after a barrier and another barrier, and three threads
include one that neither reads the barrier nor comes last. Three workers and four clients are enough for a stolen wakeup, a lost
one, and a second request behind it. Three calls of different threads and one more
let a list be overtaken by two creations and a thread come back after a failure. Files of three lines put every wrong line before, between and
after right ones; a line that breaks off reaches at most into the next. Three clients let two race for the pipe and the third find what they left
behind, and let one be heard, one be stranded behind `open`, and one come and set it free. Two calls of one client let the second meet with what the first has left in the pipes,
or in the worker; the call of another client lets it meet with what a whole session has left in the worker; the answers are empty, half full, full and one field larger than the pipe.
One worker is enough for sessions to follow each other (two sessions share nothing but the queue, which `sessions` covers). For `ServerOperations` no bound is put on the number of calls: the
states are finite because seats and ids run out; two workers and the main thread give every pair of operations, and a dump, at once.

**Bounds** that stand for something unbounded: `MaxCalls` (`SeatLocking`, `EventList`, `SessionProtocol`: calls), `MaxFailures` (`EventList`,
`ServerOperations`: calls of malloc that fail), `SignalAt` (`ServerOperations`: when signals come), the files of `Commands` and `JobThreads`. `Garbled` is
the set of wrong names that may be read, each once (`Registration`). `Capacity` and
`Sizes` are a small pipe and answers around its size; `UintMax` and `MaxReservation` are `UINT_MAX` and `MAX_RESERVATION_SIZE` made small.

**Deadlock** is checked except where the system may stop: `sort` (the function returns), `commands` (the file ends), `jobs`
(malformed lines hang the program), `event_list` and `server` (a failed call keeps a lock), `sessions`, `empty_queue` (all clients served, or
crashed), `client_server`, `server_exits` (all clients gone, or the server has exited). In `server_list` the check is on but says nothing, since
a signal can always come; that the operations do not wait for each other is the theorem `NoDeadlock`.

**Fairness.** Weak fairness of each thread or process: the kernel runs what can run. Nothing is assumed of the
order in which locks are granted; with a bounded number of calls (`SeatLocking`, `EventList`), of
lines (`JobThreads`), of clients (`SessionQueue`), or once calls and signals cease (`CallsReturn` of `ServerOperations`), every lock comes free in
the end. `EveryRequestServed` also assumes that sessions end (`ClientFairness`; the statement has clients correct), which
`SessionsEnd` shows of the protocol. In `ClientServer` nothing is assumed of `Take`, since a wakeup may be lost, nor of failures and of clients that leave.

## 4. What is proved

TLAPS proves, for every number of threads, workers, clients, seats, events and lines, for any requests, and
without using the bounds on calls and failures except for their types, every invariant and every safety property that the runs
check. Each proof module defines its inductive invariant `IInv`, proves that `Init` establishes
it and that every action keeps it (`Invariance`), and draws the properties from it. TLC has checked each `IInv` on the instance of the run
(the second invariant of `Commands`, `SaysInv`, on files of two lines).

* **SeatLocking** (`SeatLockingProofs`). The inductive invariant says which seats each thread holds as a
  function of its program counter and loop indices (`Held(t) = coords[j..Top]`), that held seats are locked by
  their holder and no others, that the coordinates are ascending and in range, that marks and data agree
  with the ids, and that the rwlock excludes readers from a writer. `LocksMatch` is not inductive alone: the undo loop
  is correct only because indices `j` and `i` bound exactly the locked seats and because sorted
  coordinates are distinct. From it: `Typing`, `MutexesMatch`, `WaitsAscend` (no cycle of waiting threads), `ShowsWhole`.
  It implements `Booking`: `Implements` (`Spec => Abstract!Spec`), step by step, with the same
  invariant and what it says of `booked`, `phase`, `want`, `picture`; `BookingsStay` (`BookedForever`); and `DumpsCompare`
  (`DumpsComparable`): every dump, written or still to be written, is of bookings that have only grown since, so a new one has all that the others have.
* **SortVectors** (`SortVectorsProofs`). The invariant: the last `i - 1` places are strictly sorted and above all others, and
  place `j` is the greatest of the places up to it. From it `Typing`, `Sorts`, `Rearranges`, `RefusesDuplicates`. `seat_index` follows
  the order, is injective and in range (`IndexFollowsOrder`, `IndexInjective`, `IndexInRange`); with `Sorts`, the mutexes of a request are asked for
  in ascending order, none twice (`IndicesAscend`), which is what `SeatLocking` takes for granted when it ranks the coordinates.
* **JobThreads** (`JobThreadsProofs`). The invariant ties `barrierFlag`, the returned values and the place in the file
  together (all threads of a round return BARRIER exactly when the flag is set, and 0 exactly at the end of the file), and says that
  every operation read is done or being executed. From it `BarriersSeparate`, `NoLineLeftOut`, `RoundsUnanimous`, `WaitsStandStill`.
* **EventList** (`EventListProofs`). A failed call may keep `global_rwlock`, so `LockOK` says only what a call that writes or reads has
  at least; that is enough, since a writer's lock still excludes readers. `WalkOK`: what a list has collected is the part of the list before the node it
  reads next. From it `EventsDistinct` and `Implements` (`ImplementsCatalogue`).
* **SessionQueue** (`SessionQueueProofs`). `Implements` (`ImplementsSessions`) needs little more than the types.
  `LostWakeupsBounded` (`OneStrandedAtMost`) needs `StrandedOK`: unless there is for each request in the queue a worker that has been woken or is
  about to take it, at most one worker sleeps or is about to sleep. A signal that wakes nobody finds
  nobody asleep, and only the holder of the mutex can be between its look at the queue and its sleep.
* **ServerOperations** (`ServerOperationsProofs`). The invariant: who has the rwlock and the events' mutexes, at least (a failed list or show keeps
  its own); what has been found stays found, and what has not been found is not there when it is linked (`FoundOK`); `numEvents` lags behind only in the middle
  of a create (`CountOK`); copies under way are prefixes (`Walking`, `Seating`); the dump's end is the list's (`DumpOK`). From it
  `Typing`, `DistinctIds`, `ListsFit`, `NumbersDense`, `DumpsComplete`, `DumpsAnswer`, and `Implements` (`ImplementsService`), in which a call that
  returns without an answer is the `GiveUp` of `EventService`.
  Then why nothing stands still. While no `malloc` has failed, `LocksExact` holds: the locks are held by those that still need them and by nobody else. The places where
  a thread waits have a `Rank` (a create at the rwlock, then a reader at it, then an event's mutex or, for the main thread, the rwlock that a dump begins with), and a thread waits only for one of a
  lower rank (`NoCircularWait`), although a dump takes the rwlock for reading again, and mutexes, while it holds it. So, with any operations under way, one of them waits for nobody
  (`NoDeadlock`). After a failure neither need hold: a failed list or show keeps its lock.
* **ClientServer** (`ClientServerProofs`). Three parts. `RegistrationOK`: while nothing has raced, the server's pipe holds the registrations
  not heard yet, whole and in order (`Whole`), the first of them perhaps without its opcode and one more opcode perhaps at the end. `HandoverOK`: each name is new, once in the
  queue, in one session, or has been. `SessionsOK`: the client and the worker of a session are `Together`, that is, at one of the pairs of places
  that belong together, with the pipes holding just what belongs there (`Meeting`, `Resting`, `Requesting`, `Answering`), unless an answer was larger than its pipe
  (`Astray`). From it `Typing` (with: no pipe ever holds more than fits), `RegistrationsHeardWhole` (`RegistrationsWhole`) and `EndsAgree` (`CallsMatch`).
* **Commands** (`CommandsProofs`). The invariant: a command begins only where a line does, and all that was carried out lies before the line that is
  read. A reading of arguments that is content so far lies on the command's line (`OnLine`: no newline but as the symbol read last), which each of `Number`, `Char` and
  `OneMoreSeat` keeps (`Within`); so what is content at the end has read up to where `cleanup` would stop (`Ends`). The loop of `parse_reserve` is a recursive function: that it has a value, and that the value is `Within`,
  is shown by the least number of seats for which it would not be (`LeastElement`, from the well-foundedness of the numbers). From it `LinesAreWhole` (`WholeLines`).
  Then what the arguments are. A line is read as a whole by its marks, the symbols that are not digits: `Says(p)` is what a line of the right form says. On a
  line that a newline ends there is a next mark behind each mark, with a number between them or not (`NextOnLine`), so the `i`-th mark has a place (`Place(i)`), and a reading is
  `Exact` when it is content exactly if the marks up to its place are those of the form, and has then read that far and taken the numbers that the form asks for. `Number` and
  `Char` keep that (`NumberExact`, `CharExact`). A RESERVE has as many forms as lists have lengths: after `j` seats a reading has read an open list of `j` seats or one of at most `j` that is
  closed, never both, since the mark behind the last seat tells them apart (`SeatsExact`, again for the least `j`). So each `parse_` function is content exactly if
  the line says something, and returns that (`ArgumentsSay`). The second invariant, `SaysInv`, adds to `NumbersAsWritten` that each line that is due (well formed, the line before it complete, none before
  it broken off inside a keyword) has been carried out or is still ahead (`NoneSkipped`): `cleanup` passes over no line that begins behind the place it is called at (`LineAhead`), so an action can only lose
  a line by having read beyond its newline, which each action's lemma excludes. From it `NumbersAreWritten` and `NoLinesLost`.

Assumptions: those of the constants, named in the modules (threads are not `NoThread`, requests are nonempty lists of
coordinates, `N > 0`, files are sequences of kinds, the number of workers is finite, a pipe has room for one field, wrong names are no client's). TLC evaluates them in the runs.

**Only model-checked:** all liveness (`CallsReturn`, `Terminates`, `EveryRequestServed`, `StrandedHeard`, `SessionsEnd`): fairness and `ENABLED` are out of the prover's reach.
Of `CallsReturn` of `ServerOperations` the half that is safety (no threads wait for each other) is proved, as `NoCircularWait` and `NoDeadlock`.

## 5. Disagreements between code and documents

With a run that shows them:

1. Two reservations may have the same id (`operations.c:209-211`), although the id is to identify the reservation (`ids`).
2. `if` in place of `while` around `pthread_cond_wait` (P2 `server/main.c:136`): a worker may read through NULL (`empty_queue`).
3. The receiver opens the server's pipe anew after each client; if it is there before the client has closed it, the close reads as a wrong opcode
   and the server exits (P2 `server/main.c:79-91`), with a single, correct client (`server_exits`).

Seen while modelling, and allowed for by the properties named:

4. Refused reservations spend ids (`operations.c:242`), although the field is the number of reservations and test 5 expects otherwise.
   Part 2's `ems_reserve` has neither this defect nor the first: `ReservationsDense` holds.
5. `WAIT d t`, documented in HELP, hangs the process (`main.c:362`): `Terminates` has a second case for it.
6. The signal without the mutex may be lost (P2 `server/main.c:99`): a client waits though a worker is free. `OneStrandedAtMost` bounds the harm.
7. `ems_show` and `ems_list_events` of P2 send nothing when malloc fails, and may keep a lock: `SessionsEnd` and `CallsReturn` make the exception.
8. A SIGUSR1 between the end of the walk and the clearing of the flag is forgotten (P2 `server/main.c:387`): `SignalsAnswered` makes the exception.
9. A line that lacks its end takes the next one along (`NoLineLost` says of which lines this cannot be; it claims nothing of a line behind one that lacks its end, or behind a RESERVE
   of the greatest number of seats, though most of these are carried out too), and a last line without newline may get a wrong last number (`NumbersAsWritten`).
10. After the server has exited, a client that waits for an answer reads the status 0: `CallsMatch` holds while the server runs.
11. The receiver opens the server's pipe anew after each client, and `open` waits for a client that has the pipe open, not for something to read (P2 `server/main.c:79`). A client that has
   opened, written and closed between two opens of the receiver is not heard, though its registration lies in the pipe, and waits (in the `open` of its request pipe) until another client comes. The last one waits for
   ever. `StrandedHeard` bounds the harm: the next client sets the stranded one free (and is then perhaps stranded itself).
12. Two clients that write their opcodes before their names shift what the receiver reads, and a close that meets the receiver's next open ends it (3.): both are the exception `raced` of `RegistrationsWhole`. An
   answer larger than its pipe is the exception `cut` of `CallsMatch`.

## 6. Not modelled, and the plan

Not modelled, and why:

* `iterateFiles` and the paths of files: children share nothing, each has a file of its own, and the parent is a sequential loop around
  `fork` and `wait`; no interleaving can disturb its counter.
* The text of dumps and lists (digits cut by `snprintf`, the 1024 bytes of a list): formatting, with no order of events in it.
* Failures of pthread calls other than initialisations: for locks used as here they return 0 (or wait), with the exception of EDEADLK in `EventList`.
* The delays (`nanosleep`, `sleep`): they take time only.
* Clients that are killed in the middle of a call, and programs that exit because their own malloc failed (the statement has clients correct; a client that leaves before
  its first call is modelled, `Leave`).
* File descriptors that are not closed, `ems_terminate` of Part 2 (never reached), the checks of arguments in both `main` functions.

What is left:

One module that puts `ServerOperations` behind the worker's `Execute` (now any answer), if its states can be kept few enough for TLC.
