--------------------------- MODULE SessionProtocol --------------------------
(***************************************************************************)
(* The two ends of a session of Part 2: the calls of the client's API      *)
(* (P2/client/api.c, as P2/client/main.c makes them) and the loop of       *)
(* execute_client that answers them (P2/server/main.c, and what            *)
(* P2/server/operations.c writes to the response pipe).                    *)
(*                                                                         *)
(* A request is an opcode and, by a second write, its arguments; an answer *)
(* is a status and, for a show or a list that succeeded, a size and as     *)
(* many items, in one write.  The client reads the parts of an answer one  *)
(* by one, each by a single read.  A write waits while the pipe is full.   *)
(*                                                                         *)
(* The actions of a worker take its client as a parameter: the composition *)
(* (ClientServer) knows who serves whom.                                   *)
(***************************************************************************)
EXTENDS Pipes

CONSTANTS
  Workers,
  Ops,        \* the calls that the clients' files ask for
  MaxCalls,   \* bound: MaxCalls[c] is how many of them the file of client c has, at most
  Sizes,      \* how many items an answer may have
  Capacity    \* how many fields fit in a pipe

NoOp == "none"
Updates == {"create", "reserve"}
Queries == {"show", "list"}

ASSUME OpsAssumption == Ops \subseteq Updates \cup Queries
ASSUME MaxCallsAssumption == MaxCalls \in [Clients -> Nat]
ASSUME SizesAssumption == Sizes \subseteq Nat
ASSUME CapacityAssumption == Capacity \in Nat \ {0}

VARIABLES
  requests,   \* requests[c]: the request pipe of client c
  responses,  \* responses[c]: its response pipe
  asked,      \* asked[c]: how many calls c has begun
  kind,       \* kind[c]: which call that was
  want,       \* want[c]: the items that c has still to read
  work,       \* work[w]: the next step of worker w
  request,    \* request[w]: the opcode that w has read
  output,     \* output[w]: what w has still to write
  carried,    \* history: how many calls the server has carried out for c
  mixed,      \* history: c took for its answer what was not written for it
  cut,        \* history: c was sent an answer that the pipe does not hold
  silent      \* history: malloc failed, and c was sent no answer

clientVars == <<asked, kind, want, mixed>>
workerVars == <<work, request, output, carried, cut, silent>>
sessionVars == <<requests, responses, clientVars, workerVars>>

\* num_rows and num_cols, whose product is m, or num_events, which is m.
Size(m, n) == [is |-> "size", n |-> n, of |-> m]

SessionInit ==
  /\ requests = [c \in Clients |-> <<>>]
  /\ responses = [c \in Clients |-> <<>>]
  /\ asked = [c \in Clients |-> 0]
  /\ kind = [c \in Clients |-> NoOp]
  /\ want = [c \in Clients |-> 0]
  /\ work = [w \in Workers |-> "idle"]
  /\ request = [w \in Workers |-> NoOp]
  /\ output = [w \in Workers |-> <<>>]
  /\ carried = [c \in Clients |-> 0]
  /\ mixed = [c \in Clients |-> FALSE]
  /\ cut = [c \in Clients |-> FALSE]
  /\ silent = [c \in Clients |-> FALSE]

\* Worker w goes from one step to another.
Turn(w, here, there) ==
  /\ work[w] = here
  /\ work' = [work EXCEPT ![w] = there]

-----------------------------------------------------------------------------
\* The client.

\* Whether one of the fields was not written for the call that c has begun.
Foreign(c, fields) == \E i \in DOMAIN fields : fields[i].is = "zero" \/ fields[i].n # asked[c]

\* Client c goes on after it has read n fields of its response pipe by one read.
\* An exited server has closed the pipe, and the fields that are missing are
\* zero.
ReadResponse(c, n, here, there) ==
  /\ Move(c, here, there)
  /\ CanRead(responses[c], up)
  /\ responses' = [responses EXCEPT ![c] = AfterRead(@, n)]
  /\ mixed' = [mixed EXCEPT ![c] = @ \/ Foreign(c, ReadBuffer(responses[c], n))]
  /\ kind' = [kind EXCEPT ![c] = IF there = "next" THEN NoOp ELSE @]
  /\ UNCHANGED <<up, requests, asked, workerVars>>

ReadId(c) == ReadResponse(c, 1, "id", "next") /\ UNCHANGED want

\* The opcode.  A server that has exited no longer reads (BrokenPipe).
Ask(c) ==
  /\ up
  /\ asked[c] < MaxCalls[c]
  /\ \E op \in Ops :
       /\ Move(c, "next", IF op = "list" THEN "status" ELSE "arguments")
       /\ requests' = [requests EXCEPT ![c] = Append(@, Field(op, asked[c] + 1))]
       /\ kind' = [kind EXCEPT ![c] = op]
  /\ asked' = [asked EXCEPT ![c] = @ + 1]
  /\ UNCHANGED <<up, responses, want, mixed, workerVars>>

SendArguments(c) ==
  /\ up
  /\ Move(c, "arguments", "status")
  /\ requests' = [requests EXCEPT ![c] = Append(@, Field("arguments", asked[c]))]
  /\ UNCHANGED <<up, responses, clientVars, workerVars>>

\* Any status but 0 ends the call, and so does the status of a create or a
\* reserve.  An item in its place may be any number.
ReadStatus(c) ==
  LET status == ReadBuffer(responses[c], 1)[1].is IN
  /\ \/ /\ kind[c] \in Queries
        /\ status # "error"
        /\ ReadResponse(c, 1, "status", "size")
     \/ /\ kind[c] \in Updates \/ status \notin {"ok", "zero"}
        /\ ReadResponse(c, 1, "status", "next")
  /\ UNCHANGED want

\* num_rows and num_cols, or num_events.
ReadSize(c) ==
  LET read == ReadBuffer(responses[c], 1)[1]
      size == IF read.is = "size" THEN read.of ELSE 0 IN
  /\ ReadResponse(c, 1, "size", IF size = 0 THEN "next" ELSE "items")
  /\ want' = [want EXCEPT ![c] = size]

\* The seats or the ids, by one read however many there are.
ReadItems(c) ==
  /\ ReadResponse(c, want[c], "items", "next")
  /\ want' = [want EXCEPT ![c] = 0]

\* ems_quit, at the end of the commands.
Quit(c) ==
  /\ up
  /\ Move(c, "next", "done")
  /\ requests' = [requests EXCEPT ![c] = Append(@, Field("quit", asked[c]))]
  /\ UNCHANGED <<up, responses, clientVars, workerVars>>

\* The file of commands does not open: main returns without ems_quit.
Leave(c) ==
  /\ asked[c] = 0
  /\ Move(c, "next", "gone")
  /\ UNCHANGED <<up, sessionVars>>

Call(c) ==
  \/ ReadId(c) \/ Ask(c) \/ SendArguments(c) \/ ReadStatus(c) \/ ReadSize(c)
  \/ ReadItems(c) \/ Quit(c)

\* A write to a pipe that an exited server has closed kills the client.
BrokenPipe(c) ==
  /\ ~up
  /\ at[c] \in {"opcode", "names", "next", "arguments"}
  /\ at' = [at EXCEPT ![c] = "gone"]
  /\ UNCHANGED <<up, sessionVars>>

-----------------------------------------------------------------------------
\* The worker w of client c's session.

\* Both open the request pipe, and each open waits for the other.
OpenRequestPipe(w, c) ==
  /\ up
  /\ Turn(w, "openRequest", "openResponse")
  /\ Move(c, "openRequest", "openResponse")
  /\ UNCHANGED <<up, requests, responses, clientVars, request, output, carried, cut, silent>>

\* Both open the response pipe.
OpenResponsePipe(w, c) ==
  /\ up
  /\ Turn(w, "openResponse", "hello")
  /\ Move(c, "openResponse", "id")
  /\ UNCHANGED <<up, requests, responses, clientVars, request, output, carried, cut, silent>>

\* The session's id, which is the worker's.
SendId(w, c) ==
  /\ up
  /\ Turn(w, "hello", "opcode")
  /\ responses' = [responses EXCEPT ![c] = Append(@, Field("id", 0))]
  /\ UNCHANGED <<up, at, requests, clientVars, request, output, carried, cut, silent>>

\* The worker's next step after opcode op; one it does not know is passed over.
AfterOpcode(op) ==
  CASE op \in Updates \cup {"show"} -> "arguments"
    [] op = "list" -> "run"
    [] op = "quit" -> "leave"
    [] OTHER -> "opcode"

\* A client that is gone leaves an empty pipe, of which nothing is read, again
\* and again: that changes no state.
ReadOpcode(w, c) ==
  LET op == ReadBuffer(requests[c], 1)[1].is IN
  /\ up
  /\ requests[c] # <<>>
  /\ Turn(w, "opcode", AfterOpcode(op))
  /\ requests' = [requests EXCEPT ![c] = AfterRead(@, 1)]
  /\ request' = [request EXCEPT ![w] = IF op \in Ops THEN op ELSE NoOp]
  /\ UNCHANGED <<up, at, responses, clientVars, output, carried, cut, silent>>

\* A show reads eight bytes, of which the client has written the first four.
ReadArguments(w, c) ==
  /\ up
  /\ requests[c] # <<>>
  /\ Turn(w, "arguments", "run")
  /\ requests' = [requests EXCEPT ![c] = AfterRead(@, IF request[w] = "show" THEN 2 ELSE 1)]
  /\ UNCHANGED <<up, at, responses, clientVars, request, output, carried, cut, silent>>

\* A slip: a size is sent even with an error.
AnswersWithSize(op, n) ==
  IF op \in Updates
    THEN {<<Field("error", n)>>, <<Field("ok", n)>>}
    ELSE {<<Field("error", n), Size(0, n)>>, <<Field("ok", n), Size(0, n)>>}

\* What the operation may answer to call n.
Answers(op, n) ==
  {<<Field("error", n)>>}
    \cup (IF op \in Updates
            THEN {<<Field("ok", n)>>}
            ELSE {<<Field("ok", n), Size(m, n)>> \o [i \in 1..m |-> Field("item", n)] : m \in Sizes})

\* ems_create, ems_reserve, ems_show or ems_list_events is carried out.
Execute(w, c) ==
  /\ up
  /\ Turn(w, "run", "write")
  /\ carried' = [carried EXCEPT ![c] = @ + 1]
  /\ \E answer \in Answers(request[w], carried[c] + 1) :
       /\ output' = [output EXCEPT ![w] = answer]
       /\ cut' = [cut EXCEPT ![c] = @ \/ Len(answer) > Capacity]
  /\ request' = [request EXCEPT ![w] = NoOp]
  /\ UNCHANGED <<up, at, requests, responses, clientVars, silent>>

\* There is no memory for the answer of a show or a list: none is sent.
GiveUp(w, c) ==
  /\ up
  /\ request[w] \in Queries
  /\ Turn(w, "run", "opcode")
  /\ request' = [request EXCEPT ![w] = NoOp]
  /\ silent' = [silent EXCEPT ![c] = TRUE]
  /\ UNCHANGED <<up, at, requests, responses, clientVars, output, carried, cut>>

\* writeFile: what fits in the pipe is written, the rest later.
Write(w, c) ==
  LET room == Capacity - Len(responses[c])
      all == Len(output[w]) IN
  /\ up
  /\ at[c] \notin {"done", "gone"}
  /\ room > 0
  /\ Turn(w, "write", IF all <= room THEN "opcode" ELSE "write")
  /\ responses' = [responses EXCEPT ![c] = @ \o ReadBuffer(output[w], IF all <= room THEN all ELSE room)]
  /\ output' = [output EXCEPT ![w] = AfterRead(@, room)]
  /\ UNCHANGED <<up, at, requests, clientVars, request, carried, cut, silent>>

\* The client has quit with an answer half written: the write kills the server.
Killed(w, c) ==
  /\ up
  /\ work[w] = "write"
  /\ at[c] \in {"done", "gone"}
  /\ up' = FALSE
  /\ UNCHANGED <<at, sessionVars>>

\* The quit's opcode: both pipes are closed.
CloseSession(w) ==
  /\ up
  /\ Turn(w, "leave", "idle")
  /\ UNCHANGED <<up, at, requests, responses, clientVars, request, output, carried, cut, silent>>

Answer(w, c) ==
  \/ OpenRequestPipe(w, c) \/ OpenResponsePipe(w, c) \/ SendId(w, c)
  \/ ReadOpcode(w, c) \/ ReadArguments(w, c) \/ Execute(w, c) \/ Write(w, c)
  \/ Killed(w, c)

=============================================================================
