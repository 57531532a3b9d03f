------------------------------ MODULE Catalogue ------------------------------
(***************************************************************************)
(* What the list of events of Part 1 promises to the threads, whatever     *)
(* locks it takes: an event is created, looked up or listed at one instant *)
(* of the call, an id names one event, and a list shows all the events of  *)
(* its instant in the order of their creation.                             *)
(***************************************************************************)
EXTENDS Sequences, Functions

CONSTANTS Threads, EventIds

VARIABLES
  order,    \* the events, in the order in which they were created
  asked,    \* asked[t]: the call of t, or NoCall
  answer    \* answer[t]: what it has come to, or NoAnswer

catalogueVars == <<order, asked, answer>>

Calls == [op : {"create", "find"}, id : EventIds] \cup [op : {"list"}]
NoCall == [op |-> "none"]
NoAnswer == <<>>

Init ==
  /\ order = <<>>
  /\ asked = [t \in Threads |-> NoCall]
  /\ answer = [t \in Threads |-> NoAnswer]

Ask(t) ==
  /\ asked[t] = NoCall
  /\ \E c \in Calls : asked' = [asked EXCEPT ![t] = c]
  /\ UNCHANGED <<order, answer>>

Says(t, a) ==
  /\ asked[t] # NoCall
  /\ answer[t] = NoAnswer
  /\ answer' = [answer EXCEPT ![t] = a]
  /\ UNCHANGED asked

Create(t) ==
  /\ asked[t].op = "create"
  /\ asked[t].id \notin Range(order)
  /\ order' = Append(order, asked[t].id)
  /\ Says(t, <<"ok">>)

Find(t) ==
  /\ asked[t].op = "find"
  /\ asked[t].id \in Range(order)
  /\ Says(t, <<"ok">>)
  /\ UNCHANGED order

List(t) ==
  /\ asked[t].op = "list"
  /\ Says(t, <<"ok", order>>)
  /\ UNCHANGED order

\* The id is taken, or names no event.
Refuse(t) ==
  /\ \/ asked[t].op = "create" /\ asked[t].id \in Range(order)
     \/ asked[t].op = "find" /\ asked[t].id \notin Range(order)
  /\ Says(t, <<"refused">>)
  /\ UNCHANGED order

\* Memory or locks are exhausted: the call has no effect.
GiveUp(t) ==
  /\ Says(t, <<"failed">>)
  /\ UNCHANGED order

Return(t) ==
  /\ answer[t] # NoAnswer
  /\ asked' = [asked EXCEPT ![t] = NoCall]
  /\ answer' = [answer EXCEPT ![t] = NoAnswer]
  /\ UNCHANGED order

Next ==
  \E t \in Threads :
    Ask(t) \/ Create(t) \/ Find(t) \/ List(t) \/ Refuse(t) \/ GiveUp(t) \/ Return(t)

Spec == Init /\ [][Next]_catalogueVars

=============================================================================
