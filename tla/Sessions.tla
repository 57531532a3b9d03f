------------------------------ MODULE Sessions ------------------------------
(***************************************************************************)
(* What the server of Part 2 promises of its sessions, whatever queue,     *)
(* mutexes and condition variable it uses: requests are served in the      *)
(* order in which they are taken from the pipe, each by one worker, each   *)
(* once.                                                                   *)
(***************************************************************************)
EXTENDS Sequences

CONSTANTS Workers, Clients, NoClient

VARIABLES
  new,      \* the clients that have not been heard of
  queue,    \* those that wait for a session, the first first
  serving   \* serving[w]: the client of worker w's session, or NoClient

sessionVars == <<new, queue, serving>>

Init ==
  /\ new = Clients
  /\ queue = <<>>
  /\ serving = [w \in Workers |-> NoClient]

Register(c) ==
  /\ c \in new
  /\ new' = new \ {c}
  /\ queue' = Append(queue, c)
  /\ UNCHANGED serving

Start(w) ==
  /\ serving[w] = NoClient
  /\ queue # <<>>
  /\ serving' = [serving EXCEPT ![w] = Head(queue)]
  /\ queue' = Tail(queue)
  /\ UNCHANGED new

End(w) ==
  /\ serving[w] # NoClient
  /\ serving' = [serving EXCEPT ![w] = NoClient]
  /\ UNCHANGED <<new, queue>>

Next ==
  \/ \E c \in Clients : Register(c)
  \/ \E w \in Workers : Start(w) \/ End(w)

Spec == Init /\ [][Next]_sessionVars

=============================================================================
