---------------------------- MODULE Registration ----------------------------
(***************************************************************************)
(* How a client makes itself known to the server of Part 2: the first half *)
(* of ems_setup (P2/client/api.c) and receive_client                       *)
(* (P2/server/main.c), which share one named pipe.                         *)
(*                                                                         *)
(* A client opens the pipe, writes an opcode, then by a second write the   *)
(* names of its two pipes, and closes it.  The receiver opens the pipe     *)
(* anew for every client and never closes it, so that from the first time  *)
(* on the pipe has a reader and keeps what is written to it; but open      *)
(* waits for a client that has the pipe open, even with something to read, *)
(* and read returns nothing once no client has it open.                    *)
(***************************************************************************)
EXTENDS Pipes

CONSTANT Garbled   \* names that are no client's; a bound: each is read at most once

ASSUME GarbledAssumption == Garbled \cap Clients = {}

VARIABLES
  serverPipe,
  receiver,   \* the next step of receive_client; "opening": open waits
  sent,       \* history: the clients whose names were written, in order
  received,   \* history: the clients whose names were read, in order
  raced       \* history: two registrations, or a close and an open, overlapped

registrationVars == <<serverPipe, receiver, sent, received, raced>>

RegistrationInit ==
  /\ serverPipe = <<>>
  /\ receiver = "open"
  /\ sent = <<>>
  /\ received = <<>>
  /\ raced = FALSE

\* The clients that have the pipe open.
Writers == {c \in Clients : at[c] \in {"opcode", "names", "close"}}

\* The server has the pipe open, or waits in open.
Listening == up /\ (receiver # "open" \/ received # <<>>)

-----------------------------------------------------------------------------
\* ems_setup.

\* The pipe is opened for writing, which lets a receiver that waits go on.
OpenServerPipe(c) ==
  /\ Listening
  /\ Move(c, "open", "opcode")
  /\ receiver' = IF receiver = "opening" THEN "opcode" ELSE receiver
  /\ UNCHANGED <<up, serverPipe, sent, received, raced>>

SendOpcode(c) ==
  /\ up
  /\ Move(c, "opcode", "names")
  /\ serverPipe' = Append(serverPipe, Field("setup", 0))
  /\ raced' = (raced \/ \E d \in Clients : at[d] = "names")
  /\ UNCHANGED <<up, receiver, sent, received>>

\* The names of the request pipe and of the response pipe, in one write.
SendNames(c) ==
  /\ up
  /\ Move(c, "names", "close")
  /\ serverPipe' = serverPipe \o <<Field("request", c), Field("response", c)>>
  /\ sent' = Append(sent, c)
  /\ UNCHANGED <<up, receiver, received, raced>>

CloseServerPipe(c) ==
  /\ Move(c, "close", "openRequest")
  /\ UNCHANGED <<up, registrationVars>>

Register(c) == OpenServerPipe(c) \/ SendOpcode(c) \/ SendNames(c) \/ CloseServerPipe(c)

-----------------------------------------------------------------------------
\* receive_client.

\* The pipe is opened for reading; the last one's descriptor stays open.
ReceiverOpens ==
  /\ up
  /\ receiver = "open"
  /\ receiver' = IF Writers = {} THEN "opening" ELSE "opcode"
  /\ raced' = (raced \/ (serverPipe = <<>> /\ Writers # {}
                          /\ \A c \in Writers : at[c] = "close"))
  /\ UNCHANGED <<up, at, serverPipe, sent, received>>

\* Anything but the opcode of ems_setup ends the server.
ReadSetup ==
  /\ up
  /\ receiver = "opcode"
  /\ CanRead(serverPipe, Writers # {})
  /\ serverPipe' = AfterRead(serverPipe, 1)
  /\ IF ReadBuffer(serverPipe, 1)[1].is = "setup"
       THEN receiver' = "names" /\ UNCHANGED up
       ELSE up' = FALSE /\ UNCHANGED receiver
  /\ UNCHANGED <<at, sent, received, raced>>

\* Whether names that were read are those of c.
NamesOf(names, c) == IF names[1].is = "request" THEN c = names[1].n ELSE c \in Garbled

\* A slip: one name is read.
ReadOneName(c) ==
  /\ up
  /\ receiver = "names"
  /\ CanRead(serverPipe, Writers # {})
  /\ NamesOf(ReadBuffer(serverPipe, 1), c)
  /\ serverPipe' = AfterRead(serverPipe, 1)
  /\ received' = Append(received, c)
  /\ receiver' = "open"
  /\ UNCHANGED <<up, at, sent, raced>>

\* A slip: the receiver closes the pipe when it has heard a client, and if no
\* client has it open either, what is left in it is lost.
ReadNamesAndClose(c) ==
  /\ up
  /\ receiver = "names"
  /\ CanRead(serverPipe, Writers # {})
  /\ NamesOf(ReadBuffer(serverPipe, 2), c)
  /\ serverPipe' = IF Writers = {} THEN <<>> ELSE AfterRead(serverPipe, 2)
  /\ received' = Append(received, c)
  /\ receiver' = "open"
  /\ UNCHANGED <<up, at, sent, raced>>

\* The names are read by one read, and c, whose they are, is passed on.
ReadNames(c) ==
  /\ up
  /\ receiver = "names"
  /\ CanRead(serverPipe, Writers # {})
  /\ NamesOf(ReadBuffer(serverPipe, 2), c)
  /\ serverPipe' = AfterRead(serverPipe, 2)
  /\ received' = Append(received, c)
  /\ receiver' = "open"
  /\ UNCHANGED <<up, at, sent, raced>>

=============================================================================
