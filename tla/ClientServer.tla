---------------------------- MODULE ClientServer ----------------------------
(***************************************************************************)
(* The clients and the server of Part 2 together: registration on the      *)
(* server's pipe, the hand-over of what was registered to the workers, as  *)
(* Sessions states it and SessionQueue implements it, and the sessions.    *)
(***************************************************************************)
EXTENDS Registration, SessionProtocol, SequencesExt

CONSTANT NoClient

ASSUME NoClientAssumption == NoClient \notin Clients \cup Garbled

VARIABLES new, queue, serving   \* of Sessions

handoverVars == <<new, queue, serving>>
vars == <<at, up, registrationVars, sessionVars, handoverVars>>

Handover == INSTANCE Sessions WITH Clients <- Clients \cup Garbled

Init ==
  /\ at = [c \in Clients |-> "open"]
  /\ up = TRUE
  /\ RegistrationInit
  /\ SessionInit
  /\ Handover!Init

\* The receiver reads names and puts them in the queue.
Receive(c) ==
  /\ ReadNames(c)
  /\ Handover!Register(c)
  /\ UNCHANGED sessionVars

Receiver ==
  \/ (ReceiverOpens \/ ReadSetup) /\ UNCHANGED <<sessionVars, handoverVars>>
  \/ \E c \in Clients \cup Garbled : Receive(c)

\* A worker takes a client from the queue.
Take(w) ==
  /\ up
  /\ Turn(w, "idle", "openRequest")
  /\ Handover!Start(w)
  /\ UNCHANGED <<at, up, registrationVars, requests, responses, clientVars, request,
                 output, carried, cut, silent>>

\* A slip: the worker forgets its client without taking another.
OpenFailsAgain(w) ==
  /\ up
  /\ serving[w] \in Garbled
  /\ work[w] = "openRequest"
  /\ Handover!End(w)
  /\ UNCHANGED <<at, up, registrationVars, sessionVars>>

\* There is no pipe of that name: the worker goes on to the next client.
OpenFails(w) ==
  /\ up
  /\ serving[w] \in Garbled
  /\ Turn(w, "openRequest", "idle")
  /\ Handover!End(w)
  /\ UNCHANGED <<at, up, registrationVars, requests, responses, clientVars, request,
                 output, carried, cut, silent>>

\* A slip: the case of ems_quit does not end the session.
EndSessionNever(w) ==
  /\ up
  /\ Turn(w, "leave", "opcode")
  /\ UNCHANGED <<at, up, registrationVars, handoverVars, requests, responses, clientVars,
                 request, output, carried, cut, silent>>

EndSession(w) ==
  /\ CloseSession(w)
  /\ Handover!End(w)
  /\ UNCHANGED registrationVars

Serve(w) ==
  \/ OpenFails(w) \/ EndSession(w)
  \/ \E c \in Clients :
       /\ serving[w] = c
       /\ Answer(w, c)
       /\ UNCHANGED <<registrationVars, handoverVars>>

RunClient(c) ==
  \/ Register(c) /\ UNCHANGED <<sessionVars, handoverVars>>
  \/ Call(c) /\ UNCHANGED <<registrationVars, handoverVars>>

\* What a client or a worker may meet with.
Fail ==
  \/ \E c \in Clients : (Leave(c) \/ BrokenPipe(c)) /\ UNCHANGED <<registrationVars, handoverVars>>
  \/ \E w \in Workers, c \in Clients :
       /\ serving[w] = c
       /\ GiveUp(w, c)
       /\ UNCHANGED <<registrationVars, handoverVars>>

Next ==
  \/ Receiver
  \/ \E w \in Workers : Take(w) \/ Serve(w)
  \/ \E c \in Clients : RunClient(c)
  \/ Fail

Spec == Init /\ [][Next]_vars

\* The kernel runs every thread and process that can run.  Nothing is assumed of
\* Take, since SessionQueue may lose a wakeup.
FairSpec ==
  /\ Spec
  /\ WF_vars(Receiver)
  /\ \A w \in Workers : WF_vars(Serve(w))
  /\ \A c \in Clients : WF_vars(RunClient(c))

-----------------------------------------------------------------------------
\* Properties.

\* The type of every variable.
TypeOK ==
  /\ at \in [Clients -> {"open", "opcode", "names", "close", "openRequest", "openResponse",
        "id", "next", "arguments", "status", "size", "items", "done", "gone"}]
  /\ up \in BOOLEAN
  /\ receiver \in {"open", "opening", "opcode", "names"}
  /\ sent \in Seq(Clients)
  /\ received \in Seq(Clients \cup Garbled)
  /\ raced \in BOOLEAN
  /\ \A c \in Clients : Len(responses[c]) <= Capacity
  /\ asked \in [Clients -> Nat] /\ \A c \in Clients : asked[c] <= MaxCalls[c]
  /\ carried \in [Clients -> Nat]
  /\ kind \in [Clients -> Ops \cup {NoOp}]
  /\ want \in [Clients -> Nat]
  /\ work \in [Workers -> {"idle", "openRequest", "openResponse", "hello", "opcode",
        "arguments", "run", "write", "leave"}]
  /\ \A w \in Workers : work[w] = "idle" <=> serving[w] = NoClient

\* receive_client (P2/server/main.c 79-94) relies on one client at a time.  As
\* long as no two clients write their opcodes before their names, and the
\* receiver does not come back to the pipe before a client that it has heard has
\* closed it, the server stays up and hears every registration whole and in the
\* order in which they were written.  Apart from that only an answer that is
\* larger than its pipe can end the server.
RegistrationsWhole ==
  ~raced =>
    /\ IsPrefix(received, sent)
    /\ up \/ \E c \in Clients : cut[c]

\* The k-th registration lies in the pipe, next to be read, and the receiver
\* waits in open all the same (P2/server/main.c 79): its writer has closed the
\* pipe, and open waits for another one.
Stranded(k) ==
  /\ receiver = "opening"
  /\ Len(received) = k - 1 /\ Len(sent) >= k

\* A stranded registration is heard, and in its turn, as soon as any other
\* client comes, whatever that client and the next ones do: none is lost in the
\* pipe, and its client waits no longer than for the next one.  (The first
\* registration is never stranded, since its client has let the receiver go on;
\* when the last one is, there is nobody to come.)
StrandedHeard ==
  \A k \in 2..Cardinality(Clients) - 1 :
    ~raced /\ Stranded(k) /\ (\E c \in Clients : at[c] = "open")
      ~> ~up \/ (Len(received) >= k /\ IsPrefix(received, sent))

\* The API's calls and the worker's loop keep in step: between two calls of a
\* client nothing is left in its pipes, each call was carried out once, and what
\* the client took for its answer was written for it - while the server runs
\* and no answer was larger than the pipe.
CallsMatch ==
  \A c \in Clients :
    up /\ ~cut[c] =>
      /\ ~mixed[c]
      /\ carried[c] \in {asked[c] - 1, asked[c]}
      /\ at[c] = "next" /\ asked[c] > 0 =>
           carried[c] = asked[c] /\ requests[c] = <<>> /\ responses[c] = <<>>

\* In the end no worker is in a session, unless its client has left without
\* ems_quit, has been sent no answer or one that was cut, or the server has
\* exited.
SessionsEnd ==
  <>[]\A w \in Workers, c \in Clients :
        serving[w] = c => at[c] = "gone" \/ silent[c] \/ cut[c] \/ ~up

\* The statement, p. 3: the clients may be taken to be correct.  No correct client
\* can bring the server down.
ServerStaysUp == up

=============================================================================
