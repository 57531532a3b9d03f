---------------------------- MODULE EventService ----------------------------
(***************************************************************************)
(* What the operations of the server of Part 2 promise to the sessions,    *)
(* whatever locks they take: each request takes effect at one instant      *)
(* between the request and the answer, and the answer tells the state of   *)
(* the events at that instant.  Reservations are numbered 1, 2, 3 ... in   *)
(* each event, and only those that succeed have a number.                  *)
(***************************************************************************)
EXTENDS Integers, Sequences, FiniteSets, Functions

CONSTANTS Threads, EventIds, Requests

VARIABLES
  order,    \* the events, in the order in which they were created
  seats,    \* seats[e]: the reservation that has each seat of e, or 0
  asked,    \* asked[t]: the request that t serves, or NoRequest
  answer    \* answer[t]: the answer to it, or NoAnswer

serviceVars == <<order, seats, asked, answer>>

NoRequest == [op |-> "none"]
NoAnswer == <<>>
Refused == <<1>>
Done == <<0>>

Init ==
  /\ order = <<>>
  /\ seats = [e \in EventIds |-> <<>>]
  /\ asked = [t \in Threads |-> NoRequest]
  /\ answer = [t \in Threads |-> NoAnswer]

Ask(t) ==
  /\ asked[t] = NoRequest
  /\ \E r \in Requests : asked' = [asked EXCEPT ![t] = r]
  /\ UNCHANGED <<order, seats, answer>>

Says(t, a) == answer' = [answer EXCEPT ![t] = a]

Create(t, r) ==
  /\ r.id \notin Range(order)
  /\ order' = Append(order, r.id)
  /\ seats' = [seats EXCEPT ![r.id] = [s \in 1..r.size |-> 0]]
  /\ Says(t, Done)

Free(e, s) == s \in DOMAIN seats[e] /\ seats[e][s] = 0

NextNumber(e) == Cardinality(Range(seats[e]) \ {0}) + 1

Reserve(t, r) ==
  /\ r.id \in Range(order)
  /\ \A s \in Range(r.seats) : Free(r.id, s)
  /\ seats' = [seats EXCEPT ![r.id] =
                 [s \in DOMAIN @ |-> IF s \in Range(r.seats) THEN NextNumber(r.id) ELSE @[s]]]
  /\ Says(t, Done)
  /\ UNCHANGED order

Show(t, r) ==
  /\ r.id \in Range(order)
  /\ Says(t, <<0, seats[r.id]>>)
  /\ UNCHANGED <<order, seats>>

List(t) ==
  /\ Says(t, <<0, Len(order), order>>)
  /\ UNCHANGED <<order, seats>>

\* A reason to refuse the request, now.
Impossible(r) ==
  \/ r.op = "create" /\ r.id \in Range(order)
  \/ r.op \in {"reserve", "show"} /\ r.id \notin Range(order)
  \/ /\ r.op = "reserve"
     /\ r.id \in Range(order)
     /\ \E s \in Range(r.seats) : ~Free(r.id, s)

Refuse(t, r) ==
  /\ Impossible(r)
  /\ Says(t, Refused)
  /\ UNCHANGED <<order, seats>>

Serve(t) ==
  LET r == asked[t] IN
  /\ r # NoRequest
  /\ answer[t] = NoAnswer
  /\ \/ r.op = "create" /\ Create(t, r)
     \/ r.op = "reserve" /\ Reserve(t, r)
     \/ r.op = "show" /\ Show(t, r)
     \/ r.op = "list" /\ List(t)
     \/ Refuse(t, r)
  /\ UNCHANGED asked

\* The memory is exhausted: the request has no effect.
GiveUp(t) ==
  /\ asked[t] # NoRequest
  /\ answer[t] = NoAnswer
  /\ \/ asked[t].op = "create" /\ Says(t, Refused) /\ UNCHANGED asked
     \/ asked[t].op \in {"show", "list"} /\ asked' = [asked EXCEPT ![t] = NoRequest] /\ UNCHANGED answer
  /\ UNCHANGED <<order, seats>>

Return(t) ==
  /\ answer[t] # NoAnswer
  /\ asked' = [asked EXCEPT ![t] = NoRequest]
  /\ Says(t, NoAnswer)
  /\ UNCHANGED <<order, seats>>

Next == \E t \in Threads : Ask(t) \/ Serve(t) \/ GiveUp(t) \/ Return(t)

Spec == Init /\ [][Next]_serviceVars

=============================================================================
