-------------------------- MODULE ClientServerProofs --------------------------
(***************************************************************************)
(* What holds of registration and of sessions for every number of clients  *)
(* and workers, every file of calls, every answer and every pipe: names    *)
(* are heard whole, and the two ends of a session keep in step.            *)
(***************************************************************************)
EXTENDS ClientServer, SequenceTheorems, TLAPS

\* Every name a session may be asked for with.
Names == Clients \cup Garbled

\* What the server writes to a response pipe, and what is read from it.
Message ==
  [is : {"id", "ok", "error", "item", "zero"}, n : Nat]
    \cup [is : {"size"}, n : Nat, of : Nat]

\* The types that TypeOK does not give.
Shapes ==
  /\ DOMAIN requests = Clients
  /\ responses \in [Clients -> Seq(Message)]
  /\ request \in [Workers -> Ops \cup {NoOp}]
  /\ output \in [Workers -> Seq(Message)]
  /\ mixed \in [Clients -> BOOLEAN]
  /\ cut \in [Clients -> BOOLEAN]
  /\ DOMAIN silent = Clients
  /\ new \subseteq Names
  /\ queue \in Seq(Names)
  /\ serving \in [Workers -> Names \cup {NoClient}]

-----------------------------------------------------------------------------
\* Registration.

PipeField == [is : {"setup", "request", "response"}, n : {0} \cup Clients]

\* A pipe that holds the registrations of names, without the first heard of them,
\* one after another: an opcode and two names each.  Of the first registration
\* ahead fields have been read (one or none), and behind the last one there may be
\* more fields (one or none): an opcode whose names are still to come.
Whole(pipe, ahead, names, heard, more) ==
  LET behind == Len(names) - heard IN
  /\ Len(pipe) = 3 * behind + more - ahead
  /\ \A k \in 1..behind :
       /\ pipe[3 * k - 1 - ahead] = Field("request", names[heard + k])
       /\ pipe[3 * k - ahead] = Field("response", names[heard + k])
  /\ \A k \in ahead..(behind + more - 1) : pipe[3 * k + 1 - ahead] = Field("setup", 0)

\* The clients between their opcode and their names.
Naming == {c \in Clients : at[c] = "names"}

PipeWhole ==
  /\ \A c, d \in Naming : c = d
  /\ Whole(serverPipe, IF receiver = "names" THEN 1 ELSE 0, sent, Len(received),
           IF Naming = {} THEN 0 ELSE 1)
  /\ receiver = "opcode" /\ serverPipe = <<>> => \E c \in Clients : at[c] = "opcode"

\* What was read are the first of the registrations that were written.
Heard ==
  /\ Len(received) <= Len(sent)
  /\ \A k \in 1..Len(received) : received[k] = sent[k]

RegistrationOK ==
  ~raced =>
    /\ Heard
    /\ up => serverPipe \in Seq(PipeField) /\ PipeWhole
    /\ up \/ \E c \in Clients : cut[c]

-----------------------------------------------------------------------------
\* The hand-over.

\* Every name is new, or once in the queue, or in one session, or has been.
HandoverOK ==
  /\ \A k \in DOMAIN queue : queue[k] \notin new
  /\ \A k, l \in DOMAIN queue : queue[k] = queue[l] => k = l
  /\ \A w \in Workers : serving[w] # NoClient =>
       /\ serving[w] \notin new
       /\ \A k \in DOMAIN queue : queue[k] # serving[w]
       /\ \A v \in Workers : serving[v] = serving[w] => v = w

-----------------------------------------------------------------------------
\* Sessions.

\* Before a session's first request.
Unheard(c) ==
  /\ ~cut[c] /\ ~mixed[c]
  /\ asked[c] = 0 /\ carried[c] = 0
  /\ requests[c] = <<>>

Early == {"open", "opcode", "names", "close", "openRequest"}

\* Client c waits for a session.
Waits(c) == Unheard(c) /\ responses[c] = <<>> /\ at[c] \in Early

\* The two ends meet, pipe by pipe.
Meeting(w, c) ==
  /\ Unheard(c)
  /\ \/ work[w] = "openRequest" /\ at[c] \in Early /\ responses[c] = <<>>
     \/ work[w] = "openResponse" /\ at[c] = "openResponse" /\ responses[c] = <<>>
     \/ work[w] = "hello" /\ at[c] = "id" /\ responses[c] = <<>>
     \/ work[w] = "opcode" /\ at[c] = "id" /\ responses[c] = <<Field("id", 0)>>

\* Between two calls, and after the last.
Idle(c) ==
  /\ carried[c] = asked[c]
  /\ requests[c] = <<>> /\ responses[c] = <<>>

Resting(w, c) ==
  \/ work[w] = "opcode" /\ at[c] \in {"next", "gone"} /\ Idle(c)
  \/ work[w] = "leave" /\ at[c] = "done" /\ Idle(c)
  \/ /\ work[w] = "opcode" /\ at[c] = "done"
     /\ carried[c] = asked[c] /\ responses[c] = <<>>
     /\ requests[c] = <<Field("quit", asked[c])>>

\* What c has written of its request after the opcode.
Arguments(c) ==
  IF kind[c] = "list" \/ at[c] = "arguments" THEN <<>> ELSE <<Field("arguments", asked[c])>>

\* A request is on its way, or is carried out.
Requesting(w, c) ==
  /\ carried[c] = asked[c] - 1
  /\ responses[c] = <<>>
  /\ kind[c] \in Ops
  /\ at[c] = "status" \/ (at[c] = "arguments" /\ kind[c] # "list")
  /\ \/ work[w] = "opcode" /\ requests[c] = <<Field(kind[c], asked[c])>> \o Arguments(c)
     \/ /\ work[w] = "arguments" /\ kind[c] # "list"
        /\ request[w] = kind[c] /\ requests[c] = Arguments(c)
     \/ work[w] = "run" /\ at[c] = "status" /\ request[w] = kind[c] /\ requests[c] = <<>>
     \/ work[w] = "opcode" /\ at[c] = "status" /\ requests[c] = <<>>

\* The fields are written for call n.
WrittenFor(fields, n) == \A i \in DOMAIN fields : fields[i].is # "zero" /\ fields[i].n = n

\* An answer to op: a status, and as many items as the size says.
WholeAnswer(fields, op) ==
  /\ fields # <<>>
  /\ fields[1].is \in {"ok", "error"}
  /\ op \in Updates \/ fields[1].is = "error" => Len(fields) = 1
  /\ op \in Queries /\ fields[1].is = "ok" =>
       Len(fields) >= 2 /\ fields[2].is = "size" /\ Len(fields) = fields[2].of + 2

\* An answer is on its way, or is read part by part.
Answering(w, c) ==
  /\ carried[c] = asked[c]
  /\ requests[c] = <<>>
  /\ kind[c] \in Ops
  /\ \/ /\ work[w] = "write" /\ at[c] = "status" /\ responses[c] = <<>>
        /\ WrittenFor(output[w], asked[c]) /\ WholeAnswer(output[w], kind[c])
        /\ Len(output[w]) <= Capacity
     \/ /\ work[w] = "opcode"
        /\ WrittenFor(responses[c], asked[c])
        /\ \/ at[c] = "status" /\ WholeAnswer(responses[c], kind[c])
           \/ /\ at[c] = "size" /\ responses[c] # <<>> /\ responses[c][1].is = "size"
              /\ Len(responses[c]) = responses[c][1].of + 1
           \/ at[c] = "items" /\ Len(responses[c]) = want[c] /\ want[c] > 0

InStep(w, c) == ~cut[c] /\ ~mixed[c] /\ (Resting(w, c) \/ Requesting(w, c) \/ Answering(w, c))

\* An answer was larger than the pipe: the two ends may have lost each other.
Astray(w, c) == cut[c] /\ work[w] \in {"opcode", "arguments", "run", "write", "leave"}

Together(w, c) == Meeting(w, c) \/ InStep(w, c) \/ Astray(w, c)

\* Client c has had its session.
Past(c) == cut[c] \/ (~mixed[c] /\ at[c] = "done" /\ Idle(c))

\* Whatever stage a client is in, its pipes and counters fit it.
SessionsOK ==
  /\ \A w \in Workers, c \in Clients : serving[w] = c => Together(w, c)
  /\ \A c \in Clients :
       IF c \in new \/ \E k \in DOMAIN queue : queue[k] = c
         THEN Waits(c)
         ELSE (\E w \in Workers : serving[w] = c) \/ Past(c)

\* The inductive invariant.
IInv ==
  /\ TypeOK
  /\ Shapes
  /\ HandoverOK
  /\ RegistrationOK
  /\ up => SessionsOK

-----------------------------------------------------------------------------
\* Reading and writing.

\* A sequence of length two is its two elements.
LEMMA TwoElements ==
  ASSUME NEW S, NEW s \in Seq(S), Len(s) = 2
  PROVE  s = <<s[1], s[2]>>
<1>1. s \in [1..2 -> S]
  BY LenProperties
<1>2. <<s[1], s[2]>> = [i \in 1..2 |-> s[i]]
  OBVIOUS
<1> QED
  BY <1>1, <1>2

\* What is written to a request pipe.
LEMMA FieldWritten ==
  ASSUME NEW a
  PROVE  Append(<<>>, a) = <<a>> /\ <<a>> \o <<>> = <<a>>
OBVIOUS

\* An opcode and its arguments, written one after the other.
LEMMA FieldsWritten ==
  ASSUME NEW a, NEW b
  PROVE  Append(<<a>>, b) = <<a, b>> /\ <<a>> \o <<b>> = <<a, b>>
<1>1. Append(<<a>>, b) = <<a, b>>
  <2>1. /\ Append(<<a>>, b) \in Seq({a, b}) /\ Len(Append(<<a>>, b)) = 2
        /\ Append(<<a>>, b)[1] = a /\ Append(<<a>>, b)[2] = b
    OBVIOUS
  <2> QED
    BY <2>1, TwoElements
<1>2. <<a>> \o <<b>> = <<a, b>>
  <2>1. /\ <<a>> \o <<b>> \in Seq({a, b}) /\ Len(<<a>> \o <<b>>) = 2
        /\ (<<a>> \o <<b>>)[1] = a /\ (<<a>> \o <<b>>)[2] = b
    OBVIOUS
  <2> QED
    BY <2>1, TwoElements
<1> QED
  BY <1>1, <1>2

\* What is read from it.
LEMMA FieldRead ==
  ASSUME NEW a
  PROVE  /\ ReadBuffer(<<a>>, 1)[1] = a
         /\ AfterRead(<<a>>, 1) = <<>> /\ AfterRead(<<a>>, 2) = <<>>
<1>1. ReadBuffer(<<a>>, 1)[1] = a
  BY DEF ReadBuffer
<1>2. AfterRead(<<a>>, 1) = <<>> /\ AfterRead(<<a>>, 2) = <<>>
  BY DEF AfterRead
<1> QED
  BY <1>1, <1>2

\* The opcode is read, and the arguments are left.
LEMMA FieldsRead ==
  ASSUME NEW a, NEW b
  PROVE  ReadBuffer(<<a, b>>, 1)[1] = a /\ AfterRead(<<a, b>>, 1) = <<b>>
<1>1. ReadBuffer(<<a, b>>, 1)[1] = a
  BY DEF ReadBuffer
<1>2. AfterRead(<<a, b>>, 1) = <<b>>
  <2>1. <<a, b>> \in Seq({a, b}) /\ Len(<<a, b>>) = 2 /\ <<a, b>>[2] = b
    OBVIOUS
  <2>2. /\ AfterRead(<<a, b>>, 1) \in Seq({a, b}) /\ Len(AfterRead(<<a, b>>, 1)) = 1
        /\ AfterRead(<<a, b>>, 1)[1] = b
    BY <2>1 DEF AfterRead
  <2>3. <<b>> \in Seq({a, b}) /\ Len(<<b>>) = 1 /\ <<b>>[1] = b
    OBVIOUS
  <2> QED
    BY <2>2, <2>3, SeqEqual
<1> QED
  BY <1>1, <1>2

\* A read takes the first fields; the others stay as they were.
LEMMA Rest ==
  ASSUME NEW S, NEW s \in Seq(S), NEW n \in Nat
  PROVE  /\ AfterRead(s, n) \in Seq(S)
         /\ Len(AfterRead(s, n)) = IF n <= Len(s) THEN Len(s) - n ELSE 0
         /\ \A i \in 1..(Len(s) - n) : AfterRead(s, n)[i] = s[n + i]
BY DEF AfterRead

\* A read that asks for as much as there is, or more, empties the pipe.
LEMMA NothingLeft ==
  ASSUME NEW S, NEW s \in Seq(S), NEW n \in Nat, Len(s) <= n
  PROVE  AfterRead(s, n) = <<>>
BY DEF AfterRead

\* A read of just what is there returns it, without zeros.
LEMMA AllRead ==
  ASSUME NEW S, NEW s \in Seq(S)
  PROVE  ReadBuffer(s, Len(s)) = s
BY DEF ReadBuffer

\* A buffer holds as many values as were asked for, zeros among them.
LEMMA Buffered ==
  ASSUME NEW s \in Seq(Message), NEW n \in Nat
  PROVE  /\ ReadBuffer(s, n) \in Seq(Message)
         /\ Len(ReadBuffer(s, n)) = n
<1>1. Zero \in Message
  BY DEF Zero, Field, Message
<1>2. ReadBuffer(s, n) \in [1..n -> Message]
  BY <1>1 DEF ReadBuffer
<1> QED
  BY <1>2

\* What the worker does after an opcode.
LEMMA NextStep ==
  ASSUME NEW op
  PROVE  /\ op \in Updates \cup {"show"} => AfterOpcode(op) = "arguments"
         /\ op = "list" => AfterOpcode(op) = "run"
         /\ op = "quit" => AfterOpcode(op) = "leave"
         /\ AfterOpcode(op) \in {"arguments", "run", "leave", "opcode"}
BY DEF AfterOpcode, Updates

\* An answer is an answer, whatever the operation finds.
LEMMA AnswerShape ==
  ASSUME NEW op, NEW n \in Nat, NEW answer \in Answers(op, n)
  PROVE  answer \in Seq(Message) /\ WrittenFor(answer, n) /\ WholeAnswer(answer, op)
<1>2. ~(op \in Updates /\ op \in Queries)
  BY DEF Updates, Queries
<1>3. ASSUME NEW is \in {"ok", "error"}, answer = <<Field(is, n)>>,
             is = "ok" => op \in Updates
      PROVE  answer \in Seq(Message) /\ WrittenFor(answer, n) /\ WholeAnswer(answer, op)
  <2>1. Field(is, n) \in Message /\ Field(is, n).is = is /\ Field(is, n).n = n
    BY <1>3 DEF Field, Message
  <2> HIDE DEF Field
  <2> QED
    BY <1>2, <1>3, <2>1 DEF WrittenFor, WholeAnswer
<1>4. ASSUME NEW m \in Sizes, op \notin Updates,
             answer = <<Field("ok", n), Size(m, n)>> \o [i \in 1..m |-> Field("item", n)]
      PROVE  answer \in Seq(Message) /\ WrittenFor(answer, n) /\ WholeAnswer(answer, op)
  <2> DEFINE head == <<Field("ok", n), Size(m, n)>>
  <2> DEFINE items == [i \in 1..m |-> Field("item", n)]
  <2>0. m \in Nat
    BY SizesAssumption
  <2>1. /\ Field("ok", n) \in Message /\ Field("ok", n).is = "ok" /\ Field("ok", n).n = n
        /\ Field("item", n) \in Message /\ Field("item", n).is = "item" /\ Field("item", n).n = n
    BY DEF Field, Message
  <2>2. /\ Size(m, n) \in Message /\ Size(m, n).is = "size" /\ Size(m, n).n = n
        /\ Size(m, n).of = m
    BY <2>0 DEF Size, Message
  <2>3. head \in Seq(Message) /\ Len(head) = 2 /\ head[1] = Field("ok", n) /\ head[2] = Size(m, n)
    BY <2>1, <2>2
  <2>4. items \in Seq(Message) /\ Len(items) = m /\ \A i \in 1..m : items[i] = Field("item", n)
    BY <2>0, <2>1
  <2>5. answer = head \o items
    BY <1>4
  <2> HIDE DEF head, items
  <2>6. /\ answer \in Seq(Message) /\ Len(answer) = m + 2
        /\ answer[1] = Field("ok", n) /\ answer[2] = Size(m, n)
        /\ \A i \in 3..(m + 2) : answer[i] = Field("item", n)
    <3>1. /\ answer \in Seq(Message) /\ Len(answer) = 2 + m
          /\ \A i \in 1..(2 + m) : answer[i] = IF i <= 2 THEN head[i] ELSE items[i - 2]
      <4>1. /\ head \o items \in Seq(Message)
            /\ Len(head \o items) = Len(head) + Len(items)
            /\ \A i \in 1..(Len(head) + Len(items)) : (head \o items)[i] =
                  IF i <= Len(head) THEN head[i] ELSE items[i - Len(head)]
        BY <2>3, <2>4, ConcatProperties
      <4> QED
        BY <2>0, <2>3, <2>4, <2>5, <4>1
    <3>2. \A i \in 3..(m + 2) : answer[i] = items[i - 2]
      BY <2>0, <3>1
    <3> QED
      BY <2>0, <2>3, <2>4, <3>1, <3>2
  <2>7. WrittenFor(answer, n)
    <3> SUFFICES ASSUME NEW i \in 1..(m + 2)
                 PROVE  answer[i].is # "zero" /\ answer[i].n = n
      BY <2>0, <2>6 DEF WrittenFor
    <3>1. i = 1 \/ i = 2 \/ i \in 3..(m + 2)
      BY <2>0
    <3> QED
      BY <2>1, <2>2, <2>6, <3>1
  <2>8. WholeAnswer(answer, op)
    BY <1>2, <1>4, <2>0, <2>1, <2>2, <2>6 DEF WholeAnswer
  <2> QED
    BY <2>6, <2>7, <2>8
<1>5. \/ answer = <<Field("error", n)>>
      \/ op \in Updates /\ answer = <<Field("ok", n)>>
      \/ /\ op \notin Updates
         /\ \E m \in Sizes :
              answer = <<Field("ok", n), Size(m, n)>> \o [i \in 1..m |-> Field("item", n)]
  BY DEF Answers
<1> QED
  BY <1>3, <1>4, <1>5

-----------------------------------------------------------------------------
\* The client's steps keep it in step with its worker.

Typed == TypeOK /\ Shapes

\* What a read of the response pipe changes of client c, and what it leaves alone.
ReadDone(c, n, here, there) ==
  /\ at[c] = here /\ at'[c] = there
  /\ up => responses[c] # <<>>
  /\ responses'[c] = AfterRead(responses[c], n)
  /\ mixed'[c] <=> mixed[c] \/ Foreign(c, ReadBuffer(responses[c], n))
  /\ kind'[c] = IF there = "next" THEN NoOp ELSE kind[c]
  /\ requests' = requests /\ asked' = asked /\ carried' = carried /\ cut' = cut
  /\ work' = work /\ request' = request /\ output' = output /\ silent' = silent
  /\ up' = up

\* What a client's read changes, read off its definition.
LEMMA ReadEffects ==
  ASSUME NEW c \in Clients, NEW n, NEW here, NEW there, Typed,
         ReadResponse(c, n, here, there)
  PROVE  ReadDone(c, n, here, there)
BY DEF ReadDone, ReadResponse, Move, CanRead, Typed, TypeOK, Shapes, workerVars

\* Lemmas ...Keeps: a step of client or worker keeps the two ends of a session together.
\* The client reads its session's id: it is there, and nothing else is.
LEMMA ReadIdKeeps ==
  ASSUME NEW w \in Workers, NEW c \in Clients, Typed, up, Together(w, c), ~cut[c], ReadId(c)
  PROVE  Together(w, c)'
<1>1. ReadDone(c, 1, "id", "next")
  BY ReadEffects DEF ReadId
<1>2. ~InStep(w, c)
  BY <1>1 DEF ReadDone, InStep, Resting, Requesting, Answering
<1>3. work[w] = "opcode" /\ Unheard(c) /\ responses[c] = <<Field("id", 0)>>
  BY <1>1, <1>2 DEF ReadDone, Together, Astray, Meeting, Early
<1>4. ~Foreign(c, ReadBuffer(responses[c], 1))
  BY <1>3 DEF Foreign, ReadBuffer, Field, Unheard
<1>5. responses'[c] = <<>>
  <2> DEFINE a == Field("id", 0)
  <2>1. AfterRead(<<a>>, 1) = <<>>
    BY FieldRead
  <2> QED
    BY <1>1, <1>3, <2>1 DEF ReadDone
<1>6. /\ work'[w] = "opcode" /\ at'[c] = "next" /\ ~cut'[c] /\ ~mixed'[c]
      /\ carried'[c] = asked'[c] /\ requests'[c] = <<>>
  BY <1>1, <1>3, <1>4 DEF ReadDone, Unheard
<1> QED
  BY <1>5, <1>6 DEF Together, InStep, Resting, Idle

\* Fields that were written for the call are not foreign, nor is what is left.
LEMMA OwnFields ==
  ASSUME NEW c \in Clients, NEW n \in Nat, NEW s \in Seq(Message),
         WrittenFor(s, asked[c]), n <= Len(s)
  PROVE  ~Foreign(c, ReadBuffer(s, n)) /\ WrittenFor(AfterRead(s, n), asked[c])
<1>1. ~Foreign(c, ReadBuffer(s, n))
  BY DEF Foreign, ReadBuffer, WrittenFor
<1>2. WrittenFor(AfterRead(s, n), asked[c])
  <2>1. /\ DOMAIN AfterRead(s, n) = 1..(Len(s) - n)
        /\ \A i \in 1..(Len(s) - n) : AfterRead(s, n)[i] = s[n + i]
    <3>1. /\ AfterRead(s, n) \in Seq(Message)
          /\ Len(AfterRead(s, n)) = IF n <= Len(s) THEN Len(s) - n ELSE 0
          /\ \A i \in 1..(Len(s) - n) : AfterRead(s, n)[i] = s[n + i]
      BY Rest
    <3> QED
      BY <3>1
  <2>2. \A i \in 1..(Len(s) - n) : n + i \in DOMAIN s
    OBVIOUS
  <2> QED
    BY <2>1, <2>2 DEF WrittenFor
<1> QED
  BY <1>1, <1>2

\* A size tells a number of items.
LEMMA SizeIsNumber ==
  ASSUME NEW m \in Message, m.is = "size"
  PROVE  m.of \in Nat
BY DEF Message

\* The parts of an answer that are left behind the status and the size.
LEMMA AfterFirst ==
  ASSUME NEW s \in Seq(Message), s # <<>>
  PROVE  /\ ReadBuffer(s, 1)[1] = s[1]
         /\ AfterRead(s, 1) \in Seq(Message)
         /\ Len(AfterRead(s, 1)) = Len(s) - 1
         /\ Len(s) >= 2 => AfterRead(s, 1)[1] = s[2]
<1>1. Len(s) \in Nat /\ Len(s) >= 1
  OBVIOUS
<1>2. ReadBuffer(s, 1)[1] = s[1]
  BY <1>1 DEF ReadBuffer
<1> QED
  BY <1>1, <1>2, Rest

\* The status read is the one of this call, and the items it announces follow.
LEMMA ReadStatusKeeps ==
  ASSUME NEW w \in Workers, NEW c \in Clients, Typed, up, Together(w, c), ~cut[c],
         ReadStatus(c)
  PROVE  Together(w, c)'
<1> DEFINE s == responses[c]
<1>0. s \in Seq(Message)
  BY DEF Typed, Shapes
<1>1. \/ /\ kind[c] \in Queries /\ ReadBuffer(s, 1)[1].is # "error"
         /\ ReadDone(c, 1, "status", "size")
      \/ /\ kind[c] \in Updates \/ ReadBuffer(s, 1)[1].is \notin {"ok", "zero"}
         /\ ReadDone(c, 1, "status", "next")
  BY ReadEffects DEF ReadStatus
<1>2. at[c] = "status" /\ s # <<>>
  BY <1>1 DEF ReadDone
<1> HIDE DEF s
<1>3. /\ work[w] = "opcode" /\ ~mixed[c]
      /\ carried[c] = asked[c] /\ requests[c] = <<>> /\ kind[c] \in Ops
      /\ WrittenFor(s, asked[c]) /\ WholeAnswer(s, kind[c])
  BY <1>2 DEF s, Together, Astray, Meeting, InStep, Resting, Requesting, Answering, Early
<1>4. /\ ReadBuffer(s, 1)[1] = s[1]
      /\ AfterRead(s, 1) \in Seq(Message)
      /\ Len(AfterRead(s, 1)) = Len(s) - 1
      /\ Len(s) >= 2 => AfterRead(s, 1)[1] = s[2]
  BY <1>0, <1>2, AfterFirst
<1>5. Len(s) >= 1 /\ Len(s) \in Nat
  BY <1>0, <1>2
<1>6. ~Foreign(c, ReadBuffer(s, 1)) /\ WrittenFor(AfterRead(s, 1), asked[c])
  BY <1>0, <1>3, <1>5, OwnFields
<1>7. /\ work'[w] = "opcode" /\ ~cut'[c] /\ ~mixed'[c]
      /\ carried'[c] = asked'[c] /\ requests'[c] = <<>>
      /\ responses'[c] = AfterRead(s, 1) /\ asked'[c] = asked[c]
  BY <1>1, <1>3, <1>6 DEF ReadDone, s
<1>8. CASE kind[c] \in Queries /\ ReadBuffer(s, 1)[1].is # "error" /\ at'[c] = "size"
           /\ kind'[c] = kind[c]
  <2>1. Len(s) >= 2 /\ s[2].is = "size" /\ Len(s) = s[2].of + 2
    BY <1>3, <1>4, <1>8 DEF WholeAnswer
  <2>2. /\ responses'[c] # <<>> /\ responses'[c][1].is = "size"
        /\ Len(responses'[c]) = responses'[c][1].of + 1
    <3>1. Len(responses'[c]) >= 1 /\ responses'[c][1] = s[2]
      BY <1>4, <1>5, <1>7, <2>1
    <3>2. Len(responses'[c]) = s[2].of + 1
      <4>1. s[2].of \in Nat
        BY <1>0, <2>1, SizeIsNumber
      <4> QED
        BY <1>4, <1>5, <1>7, <2>1, <4>1
    <3>3. responses'[c] # <<>>
      BY <1>4, <1>7, <3>1
    <3> QED
      BY <2>1, <3>1, <3>2, <3>3
  <2> QED
    BY <1>3, <1>6, <1>7, <1>8, <2>2 DEF Together, InStep, Answering
<1>9. CASE /\ kind[c] \in Updates \/ ReadBuffer(s, 1)[1].is \notin {"ok", "zero"}
           /\ at'[c] = "next"
  <2>1. Len(s) = 1
    BY <1>3, <1>4, <1>9 DEF WholeAnswer
  <2>2. responses'[c] = <<>>
    BY <1>4, <1>7, <2>1
  <2> QED
    BY <1>7, <1>9, <2>2 DEF Together, InStep, Resting, Idle
<1> QED
  BY <1>1, <1>8, <1>9 DEF ReadDone

\* The size read says how many items are left in the pipe.
LEMMA ReadSizeKeeps ==
  ASSUME NEW w \in Workers, NEW c \in Clients, Typed, up, Together(w, c), ~cut[c],
         ReadSize(c)
  PROVE  Together(w, c)'
<1> DEFINE s == responses[c]
<1> DEFINE read == ReadBuffer(s, 1)[1]
<1> DEFINE size == IF read.is = "size" THEN read.of ELSE 0
<1>0. s \in Seq(Message)
  BY DEF Typed, Shapes
<1>1. ReadDone(c, 1, "size", IF size = 0 THEN "next" ELSE "items") /\ want'[c] = size
  BY ReadEffects DEF ReadSize, Typed, TypeOK
<1>2. at[c] = "size" /\ s # <<>>
  BY <1>1 DEF ReadDone
<1> HIDE DEF s
<1>3. /\ work[w] = "opcode" /\ ~mixed[c]
      /\ carried[c] = asked[c] /\ requests[c] = <<>> /\ kind[c] \in Ops
      /\ WrittenFor(s, asked[c]) /\ s[1].is = "size" /\ Len(s) = s[1].of + 1
  BY <1>2 DEF s, Together, Astray, Meeting, InStep, Resting, Requesting, Answering, Early
<1>4. /\ read = s[1]
      /\ AfterRead(s, 1) \in Seq(Message)
      /\ Len(AfterRead(s, 1)) = Len(s) - 1
  BY <1>0, <1>2, AfterFirst
<1>5. Len(s) >= 1 /\ Len(s) \in Nat /\ s[1].of \in Nat
  BY <1>0, <1>2, <1>3, SizeIsNumber
<1>6. ~Foreign(c, ReadBuffer(s, 1)) /\ WrittenFor(AfterRead(s, 1), asked[c])
  BY <1>0, <1>3, <1>5, OwnFields
<1>7. size = s[1].of
  BY <1>3, <1>4
<1> HIDE DEF size, read
<1>8. /\ work'[w] = "opcode" /\ ~cut'[c] /\ ~mixed'[c]
      /\ carried'[c] = asked'[c] /\ requests'[c] = <<>>
      /\ responses'[c] = AfterRead(s, 1) /\ asked'[c] = asked[c]
      /\ at'[c] = IF size = 0 THEN "next" ELSE "items"
      /\ size # 0 => kind'[c] = kind[c]
  BY <1>1, <1>3, <1>6 DEF ReadDone, s
<1>9. CASE size = 0
  <2>1. responses'[c] = <<>>
    BY <1>3, <1>4, <1>5, <1>7, <1>8, <1>9
  <2> QED
    BY <1>8, <1>9, <2>1 DEF Together, InStep, Resting, Idle
<1>10. CASE size # 0
  <2>1. Len(responses'[c]) = want'[c] /\ want'[c] > 0
    BY <1>1, <1>3, <1>4, <1>5, <1>7, <1>8, <1>10
  <2> QED
    BY <1>3, <1>6, <1>8, <1>10, <2>1 DEF Together, InStep, Answering
<1> QED
  BY <1>9, <1>10

\* As many items as the size said are read, and none is left.
LEMMA ReadItemsKeeps ==
  ASSUME NEW w \in Workers, NEW c \in Clients, Typed, up, Together(w, c), ~cut[c],
         ReadItems(c)
  PROVE  Together(w, c)'
<1> DEFINE s == responses[c]
<1>0. s \in Seq(Message) /\ want[c] \in Nat
  BY DEF Typed, TypeOK, Shapes
<1>1. ReadDone(c, want[c], "items", "next")
  BY ReadEffects DEF ReadItems
<1> HIDE DEF s
<1>2. /\ work[w] = "opcode" /\ ~mixed[c]
      /\ carried[c] = asked[c] /\ requests[c] = <<>>
      /\ WrittenFor(s, asked[c]) /\ Len(s) = want[c]
  BY <1>1
     DEF s, ReadDone, Together, Astray, Meeting, InStep, Resting, Requesting, Answering, Early
<1>3. ~Foreign(c, ReadBuffer(s, want[c])) /\ AfterRead(s, want[c]) = <<>>
  BY <1>0, <1>2, OwnFields, NothingLeft
<1>4. /\ work'[w] = "opcode" /\ ~cut'[c] /\ ~mixed'[c] /\ at'[c] = "next"
      /\ carried'[c] = asked'[c] /\ requests'[c] = <<>> /\ responses'[c] = <<>>
  BY <1>1, <1>2, <1>3 DEF ReadDone, s
<1> QED
  BY <1>4 DEF Together, InStep, Resting, Idle

\* An opcode is written only into pipes that are empty.
LEMMA AskKeeps ==
  ASSUME NEW w \in Workers, NEW c \in Clients, Typed, up, Together(w, c), ~cut[c], Ask(c)
  PROVE  Together(w, c)'
<1>1. PICK op \in Ops :
        /\ at[c] = "next" /\ at'[c] = IF op = "list" THEN "status" ELSE "arguments"
        /\ requests'[c] = Append(requests[c], Field(op, asked[c] + 1))
        /\ kind'[c] = op
  BY DEF Ask, Move, Typed, TypeOK, Shapes
<1>2. /\ asked'[c] = asked[c] + 1
      /\ responses' = responses /\ carried' = carried /\ cut' = cut /\ mixed' = mixed
      /\ work' = work
  BY DEF Ask, workerVars, Typed, TypeOK
<1>3. work[w] = "opcode" /\ Idle(c) /\ ~mixed[c]
  BY <1>1 DEF Together, Astray, Meeting, InStep, Resting, Requesting, Answering, Early
<1>4. requests'[c] = <<Field(op, asked'[c])>> /\ Arguments(c)' = <<>>
  BY <1>1, <1>2, <1>3, FieldWritten DEF Idle, Arguments
<1>5. requests'[c] = <<Field(kind[c], asked[c])>>' \o Arguments(c)'
  BY <1>1, <1>4, FieldWritten
<1>6. carried'[c] = asked'[c] - 1 /\ responses'[c] = <<>>
  BY <1>2, <1>3 DEF Idle, Typed, TypeOK
<1> QED
  BY <1>1, <1>2, <1>3, <1>5, <1>6 DEF Together, InStep, Requesting

\* The arguments follow their opcode, read already or not.
LEMMA SendArgumentsKeeps ==
  ASSUME NEW w \in Workers, NEW c \in Clients, Typed, up, Together(w, c), ~cut[c],
         SendArguments(c)
  PROVE  Together(w, c)'
<1> DEFINE opcode == Field(kind[c], asked[c])
<1> DEFINE args == Field("arguments", asked[c])
<1>1. /\ at[c] = "arguments" /\ at'[c] = "status"
      /\ requests'[c] = Append(requests[c], args)
      /\ responses' = responses /\ kind' = kind /\ asked' = asked /\ mixed' = mixed
      /\ carried' = carried /\ cut' = cut /\ work' = work /\ request' = request
  BY DEF SendArguments, Move, clientVars, workerVars, Typed, TypeOK, Shapes
<1>2. /\ Requesting(w, c) /\ ~mixed[c] /\ kind[c] # "list"
      /\ \/ work[w] = "opcode" /\ requests[c] = <<opcode>> \o Arguments(c)
         \/ work[w] = "arguments" /\ request[w] = kind[c] /\ requests[c] = Arguments(c)
  BY <1>1 DEF Together, Astray, Meeting, InStep, Resting, Requesting, Answering, Early
<1>3. Arguments(c) = <<>> /\ Arguments(c)' = <<args>>
  BY <1>1, <1>2 DEF Arguments
<1>4. opcode' = opcode
  BY <1>1
<1> HIDE DEF opcode, args
<1>5. \/ work'[w] = "opcode" /\ requests'[c] = <<opcode>> \o Arguments(c)'
      \/ work'[w] = "arguments" /\ request'[w] = kind'[c] /\ requests'[c] = Arguments(c)'
  BY <1>1, <1>2, <1>3, FieldsWritten, FieldWritten
<1>6. Requesting(w, c)'
  BY <1>1, <1>2, <1>4, <1>5 DEF Requesting, opcode
<1> QED
  BY <1>1, <1>2, <1>6 DEF Together, InStep

\* A client quits between two calls, and the worker finds the opcode alone.
LEMMA QuitKeeps ==
  ASSUME NEW w \in Workers, NEW c \in Clients, Typed, up, Together(w, c), ~cut[c], Quit(c)
  PROVE  Together(w, c)'
<1>1. /\ at[c] = "next" /\ at'[c] = "done"
      /\ requests'[c] = Append(requests[c], Field("quit", asked[c]))
      /\ responses' = responses /\ asked' = asked /\ mixed' = mixed
      /\ carried' = carried /\ cut' = cut /\ work' = work
  BY DEF Quit, Move, clientVars, workerVars, Typed, TypeOK, Shapes
<1>2. work[w] = "opcode" /\ Idle(c) /\ ~mixed[c]
  BY <1>1 DEF Together, Astray, Meeting, InStep, Resting, Requesting, Answering, Early
<1>3. requests'[c] = <<Field("quit", asked[c])>>
  BY <1>1, <1>2, FieldWritten DEF Idle
<1> QED
  BY <1>1, <1>2, <1>3 DEF Together, InStep, Resting, Idle

\* A client that leaves without a word leaves empty pipes.
LEMMA LeaveKeeps ==
  ASSUME NEW w \in Workers, NEW c \in Clients, Typed, up, Together(w, c), ~cut[c], Leave(c)
  PROVE  Together(w, c)'
<1>1. /\ at[c] = "next" /\ at'[c] = "gone"
      /\ requests' = requests /\ responses' = responses /\ asked' = asked /\ mixed' = mixed
      /\ carried' = carried /\ cut' = cut /\ work' = work
  BY DEF Leave, Move, sessionVars, clientVars, workerVars, Typed, TypeOK
<1>2. work[w] = "opcode" /\ Idle(c) /\ ~mixed[c]
  BY <1>1 DEF Together, Astray, Meeting, InStep, Resting, Requesting, Answering, Early
<1> QED
  BY <1>1, <1>2 DEF Together, InStep, Resting, Idle

-----------------------------------------------------------------------------
\* So do the worker's.

\* open returns at either end when the other is there: nothing was written before.
LEMMA OpenRequestPipeKeeps ==
  ASSUME NEW w \in Workers, NEW c \in Clients, Typed, Together(w, c), OpenRequestPipe(w, c)
  PROVE  Together(w, c)'
<1>1. /\ work[w] = "openRequest" /\ work'[w] = "openResponse" /\ at'[c] = "openResponse"
      /\ requests' = requests /\ responses' = responses /\ asked' = asked /\ mixed' = mixed
      /\ carried' = carried /\ cut' = cut
  BY DEF OpenRequestPipe, Turn, Move, clientVars, Typed, TypeOK
<1>2. Unheard(c) /\ responses[c] = <<>>
  BY <1>1 DEF Together, Astray, Meeting, InStep, Resting, Requesting, Answering
<1> QED
  BY <1>1, <1>2 DEF Together, Meeting, Unheard

\* The same of the response pipe.
LEMMA OpenResponsePipeKeeps ==
  ASSUME NEW w \in Workers, NEW c \in Clients, Typed, Together(w, c), OpenResponsePipe(w, c)
  PROVE  Together(w, c)'
<1>1. /\ work[w] = "openResponse" /\ work'[w] = "hello" /\ at'[c] = "id"
      /\ requests' = requests /\ responses' = responses /\ asked' = asked /\ mixed' = mixed
      /\ carried' = carried /\ cut' = cut
  BY DEF OpenResponsePipe, Turn, Move, clientVars, Typed, TypeOK
<1>2. Unheard(c) /\ responses[c] = <<>>
  BY <1>1 DEF Together, Astray, Meeting, InStep, Resting, Requesting, Answering
<1> QED
  BY <1>1, <1>2 DEF Together, Meeting, Unheard

\* The id is the first thing in the response pipe.
LEMMA SendIdKeeps ==
  ASSUME NEW w \in Workers, NEW c \in Clients, Typed, Together(w, c), SendId(w, c)
  PROVE  Together(w, c)'
<1>1. /\ work[w] = "hello" /\ work'[w] = "opcode" /\ at' = at
      /\ responses'[c] = Append(responses[c], Field("id", 0))
      /\ requests' = requests /\ asked' = asked /\ mixed' = mixed
      /\ carried' = carried /\ cut' = cut
  BY DEF SendId, Turn, clientVars, Typed, TypeOK, Shapes
<1>2. Unheard(c) /\ responses[c] = <<>> /\ at[c] = "id"
  BY <1>1 DEF Together, Astray, Meeting, InStep, Resting, Requesting, Answering
<1>3. responses'[c] = <<Field("id", 0)>>
  BY <1>1, <1>2, FieldWritten
<1> QED
  BY <1>1, <1>2, <1>3 DEF Together, Meeting, Unheard

\* The opcode read is the client's call, its quit, or nothing of a client that has gone.
LEMMA ReadOpcodeKeeps ==
  ASSUME NEW w \in Workers, NEW c \in Clients, Typed, Together(w, c), ReadOpcode(w, c)
  PROVE  Together(w, c)'
<1> DEFINE op == ReadBuffer(requests[c], 1)[1].is
<1> DEFINE r == requests[c]
<1>1. /\ work[w] = "opcode" /\ work'[w] = AfterOpcode(op) /\ r # <<>>
      /\ requests'[c] = AfterRead(r, 1)
      /\ request'[w] = (IF op \in Ops THEN op ELSE NoOp)
      /\ at' = at /\ responses' = responses /\ asked' = asked /\ mixed' = mixed
      /\ kind' = kind /\ want' = want /\ carried' = carried /\ cut' = cut
  BY DEF ReadOpcode, Turn, clientVars, Typed, TypeOK, Shapes
<1>2. AfterOpcode(op) \in {"arguments", "run", "leave", "opcode"}
  BY NextStep
<1>3. CASE cut[c]
  BY <1>1, <1>2, <1>3 DEF Together, Astray
<1>4. CASE ~cut[c] /\ r = <<Field("quit", asked[c])>> /\ at[c] = "done"
           /\ carried[c] = asked[c] /\ responses[c] = <<>> /\ ~mixed[c]
  <2>1. op = "quit" /\ requests'[c] = <<>>
    <3> DEFINE a == Field("quit", asked[c])
    <3>1. ReadBuffer(<<a>>, 1)[1] = a /\ AfterRead(<<a>>, 1) = <<>>
      BY FieldRead
    <3>2. a.is = "quit"
      BY DEF Field
    <3> QED
      BY <1>1, <1>4, <3>1, <3>2
  <2>2. work'[w] = "leave"
    BY <1>1, <2>1, NextStep
  <2> QED
    BY <1>1, <1>4, <2>1, <2>2 DEF Together, InStep, Resting, Idle
<1>5. CASE ~cut[c] /\ Requesting(w, c) /\ ~mixed[c]
           /\ r = <<Field(kind[c], asked[c])>> \o Arguments(c)
  <2> DEFINE a == Field(kind[c], asked[c])
  <2> DEFINE b == Field("arguments", asked[c])
  <2>1. a.is = kind[c]
    BY DEF Field
  <2>2. Arguments(c) = <<>> \/ Arguments(c) = <<b>>
    BY DEF Arguments
  <2>3. r = <<a>> \o Arguments(c)
    BY <1>5
  <2>4. Arguments(c)' = Arguments(c)
    BY <1>1 DEF Arguments
  <2> HIDE DEF a, b
  <2>5. ReadBuffer(r, 1)[1] = a /\ AfterRead(r, 1) = Arguments(c)
    <3>1. CASE Arguments(c) = <<>>
      BY <2>3, <3>1, FieldWritten, FieldRead
    <3>2. CASE Arguments(c) = <<b>>
      <4>1. r = <<a, b>>
        BY <2>3, <3>2, FieldsWritten
      <4> QED
        BY <3>2, <4>1, FieldsRead
    <3> QED
      BY <2>2, <3>1, <3>2
  <2>6. op = kind[c] /\ op \in Ops /\ request'[w] = kind'[c]
    BY <1>1, <1>5, <2>1, <2>5 DEF Requesting
  <2> HIDE DEF op, r
  <2>7. CASE op = "list"
    <3>1. work'[w] = "run"
      BY <1>1, <2>7, NextStep
    <3>2. requests'[c] = <<>> /\ at[c] = "status"
      BY <1>1, <1>5, <2>5, <2>6, <2>7 DEF Arguments, Requesting
    <3> QED
      BY <1>1, <1>5, <2>6, <3>1, <3>2 DEF Together, InStep, Requesting
  <2>8. CASE op # "list"
    <3>1. op \in Updates \cup {"show"}
      BY <2>6, <2>8, OpsAssumption DEF Queries
    <3>2. work'[w] = "arguments"
      BY <1>1, <3>1, NextStep
    <3> QED
      BY <1>1, <1>5, <2>4, <2>5, <2>6, <2>8, <3>2 DEF Together, InStep, Requesting
  <2> QED
    BY <2>7, <2>8
<1>6. CASE ~cut[c] /\ Meeting(w, c)
  BY <1>1, <1>6 DEF Meeting, Unheard
<1>7. CASE ~cut[c] /\ InStep(w, c)
  BY <1>1, <1>4, <1>5, <1>7 DEF InStep, Resting, Requesting, Answering, Idle
<1> QED
  BY <1>3, <1>6, <1>7 DEF Together, Astray

\* The arguments read are those of the opcode read before.
LEMMA ReadArgumentsKeeps ==
  ASSUME NEW w \in Workers, NEW c \in Clients, Typed, Together(w, c), ReadArguments(w, c)
  PROVE  Together(w, c)'
<1>1. /\ work[w] = "arguments" /\ work'[w] = "run" /\ requests[c] # <<>>
      /\ requests'[c] = AfterRead(requests[c], IF request[w] = "show" THEN 2 ELSE 1)
      /\ at' = at /\ responses' = responses /\ asked' = asked /\ mixed' = mixed
      /\ kind' = kind /\ carried' = carried /\ cut' = cut /\ request' = request
  BY DEF ReadArguments, Turn, clientVars, Typed, TypeOK, Shapes
<1>2. CASE cut[c]
  BY <1>1, <1>2 DEF Together, Astray
<1>3. CASE ~cut[c]
  <2> DEFINE b == Field("arguments", asked[c])
  <2>1. /\ Requesting(w, c) /\ ~mixed[c] /\ requests[c] = Arguments(c)
        /\ request[w] = kind[c]
    BY <1>1, <1>3 DEF Together, Astray, Meeting, InStep, Resting, Requesting, Answering
  <2>2. Arguments(c) = <<b>> /\ at[c] = "status"
    BY <1>1, <2>1 DEF Arguments, Requesting
  <2>3. requests'[c] = <<>>
    BY <1>1, <2>1, <2>2, FieldRead
  <2> QED
    BY <1>1, <1>3, <2>1, <2>2, <2>3 DEF Together, InStep, Requesting
<1> QED
  BY <1>2, <1>3

\* The operation is carried out once for the call, and its answer is whole.
LEMMA ExecuteKeeps ==
  ASSUME NEW w \in Workers, NEW c \in Clients, Typed, Together(w, c), Execute(w, c)
  PROVE  Together(w, c)'
<1>1. PICK answer \in Answers(request[w], carried[c] + 1) :
        /\ output'[w] = answer
        /\ cut'[c] <=> cut[c] \/ Len(answer) > Capacity
  BY DEF Execute, Typed, TypeOK, Shapes
<1>2. /\ work[w] = "run" /\ work'[w] = "write" /\ carried'[c] = carried[c] + 1
      /\ at' = at /\ requests' = requests /\ responses' = responses /\ asked' = asked
      /\ mixed' = mixed /\ kind' = kind
  BY DEF Execute, Turn, clientVars, Typed, TypeOK
<1>3. CASE cut'[c]
  BY <1>2, <1>3 DEF Together, Astray
<1>4. CASE ~cut'[c]
  <2>1. ~cut[c] /\ ~(Len(answer) > Capacity)
    BY <1>1, <1>4
  <2>2. /\ ~mixed[c] /\ carried[c] = asked[c] - 1 /\ responses[c] = <<>> /\ kind[c] \in Ops
        /\ at[c] = "status" /\ request[w] = kind[c] /\ requests[c] = <<>>
    BY <1>2, <2>1 DEF Together, Astray, Meeting, InStep, Resting, Requesting, Answering
  <2>3. asked[c] \in Nat /\ carried[c] + 1 = asked[c]
    BY <2>2, MaxCallsAssumption DEF Typed, TypeOK
  <2>4. answer \in Answers(kind[c], asked[c])
    BY <2>2, <2>3
  <2>5. /\ answer \in Seq(Message) /\ WrittenFor(answer, asked[c])
        /\ WholeAnswer(answer, kind[c])
    BY <2>2, <2>3, <2>4, AnswerShape
  <2>6. Len(answer) <= Capacity
    BY <2>1, <2>5, CapacityAssumption
  <2>7. Answering(w, c)'
    BY <1>1, <1>2, <2>2, <2>3, <2>5, <2>6 DEF Answering
  <2> QED
    BY <1>2, <1>4, <2>2, <2>7 DEF Together, InStep
<1> QED
  BY <1>3, <1>4

\* A malloc that fails leaves the client waiting, and the pipes empty.
LEMMA GiveUpKeeps ==
  ASSUME NEW w \in Workers, NEW c \in Clients, Typed, Together(w, c), GiveUp(w, c)
  PROVE  Together(w, c)'
<1>1. /\ work[w] = "run" /\ work'[w] = "opcode"
      /\ at' = at /\ requests' = requests /\ responses' = responses /\ asked' = asked
      /\ mixed' = mixed /\ kind' = kind /\ carried' = carried /\ cut' = cut
  BY DEF GiveUp, Turn, clientVars, Typed, TypeOK
<1>2. CASE cut[c]
  BY <1>1, <1>2 DEF Together, Astray
<1>3. CASE ~cut[c]
  <2>1. ~mixed[c] /\ Requesting(w, c) /\ at[c] = "status" /\ requests[c] = <<>>
    BY <1>1, <1>3 DEF Together, Astray, Meeting, InStep, Resting, Requesting, Answering
  <2> QED
    BY <1>1, <1>3, <2>1 DEF Together, InStep, Requesting
<1> QED
  BY <1>2, <1>3

\* A whole answer is put in the empty pipe, unless it is larger than the pipe.
LEMMA WriteKeeps ==
  ASSUME NEW w \in Workers, NEW c \in Clients, Typed, Together(w, c), Write(w, c)
  PROVE  Together(w, c)'
<1> DEFINE room == Capacity - Len(responses[c])
<1> DEFINE all == Len(output[w])
<1>1. /\ work[w] = "write" /\ work'[w] = (IF all <= room THEN "opcode" ELSE "write")
      /\ responses'[c] = responses[c] \o ReadBuffer(output[w], IF all <= room THEN all ELSE room)
      /\ at' = at /\ requests' = requests /\ asked' = asked
      /\ mixed' = mixed /\ kind' = kind /\ carried' = carried /\ cut' = cut
  BY DEF Write, Turn, clientVars, Typed, TypeOK, Shapes
<1>2. CASE cut[c]
  BY <1>1, <1>2 DEF Together, Astray
<1>3. CASE ~cut[c]
  <2>1. /\ ~mixed[c] /\ carried[c] = asked[c] /\ requests[c] = <<>> /\ kind[c] \in Ops
        /\ at[c] = "status" /\ responses[c] = <<>>
        /\ WrittenFor(output[w], asked[c]) /\ WholeAnswer(output[w], kind[c])
        /\ Len(output[w]) <= Capacity
    BY <1>1, <1>3 DEF Together, Astray, Meeting, InStep, Resting, Requesting, Answering
  <2>2. output[w] \in Seq(Message)
    BY DEF Typed, Shapes
  <2>3. all <= room
    BY <2>1, <2>2, CapacityAssumption
  <2>4. responses'[c] = output[w]
    <3>1. ReadBuffer(output[w], Len(output[w])) = output[w]
      BY <2>2, AllRead
    <3>2. <<>> \o output[w] = output[w]
      BY <2>2
    <3> QED
      BY <1>1, <2>1, <2>3, <3>1, <3>2
  <2>5. Answering(w, c)'
    BY <1>1, <2>1, <2>3, <2>4 DEF Answering
  <2> QED
    BY <1>1, <1>3, <2>1, <2>5 DEF Together, InStep
<1> QED
  BY <1>2, <1>3

-----------------------------------------------------------------------------
\* Types.

\* Nothing but the client's place and its pipes and counters changes.
Outside == UNCHANGED <<registrationVars, handoverVars>>

\* Lemmas ...Typed: a step keeps the types.
\* A client reads.
LEMMA ReadTyped ==
  ASSUME NEW c \in Clients, NEW n \in Nat, NEW here,
         NEW there \in {"next", "size", "items"},
         Typed, ReadResponse(c, n, here, there), Outside, want' \in [Clients -> Nat]
  PROVE  Typed'
<1> USE DEF Typed
<1>1. /\ responses' = [responses EXCEPT ![c] = AfterRead(@, n)]
      /\ mixed' = [mixed EXCEPT ![c] = @ \/ Foreign(c, ReadBuffer(responses[c], n))]
      /\ kind' = [kind EXCEPT ![c] = IF there = "next" THEN NoOp ELSE @]
      /\ at' = [at EXCEPT ![c] = there]
      /\ UNCHANGED <<up, requests, asked, workerVars>>
  BY DEF ReadResponse, Move
<1>2. responses[c] \in Seq(Message) /\ Len(responses[c]) <= Capacity
  BY DEF TypeOK, Shapes
<1>3. AfterRead(responses[c], n) \in Seq(Message) /\ Len(AfterRead(responses[c], n)) <= Capacity
  BY <1>2, Rest, CapacityAssumption
<1>4. TypeOK'
  BY <1>1, <1>3 DEF TypeOK, Shapes, Outside, registrationVars, handoverVars, workerVars
<1>5. Shapes'
  BY <1>1, <1>3 DEF Shapes, Outside, handoverVars, workerVars
<1> QED
  BY <1>4, <1>5

\* A status is read.
LEMMA ReadStatusTyped ==
  ASSUME NEW c \in Clients, Typed, ReadStatus(c), Outside
  PROVE  Typed'
<1>1. want' \in [Clients -> Nat]
  BY DEF ReadStatus, Typed, TypeOK
<1>2. \/ ReadResponse(c, 1, "status", "size")
      \/ ReadResponse(c, 1, "status", "next")
  BY DEF ReadStatus
<1> QED
  BY <1>1, <1>2, ReadTyped

\* The id is read.
LEMMA ReadIdTyped ==
  ASSUME NEW c \in Clients, Typed, ReadId(c), Outside
  PROVE  Typed'
<1>1. want' \in [Clients -> Nat]
  BY DEF ReadId, Typed, TypeOK
<1> QED
  BY <1>1, ReadTyped DEF ReadId

\* What is taken for a size sets want, to zero where it is no size.
LEMMA ReadSizeTyped ==
  ASSUME NEW c \in Clients, Typed, ReadSize(c), Outside
  PROVE  Typed'
<1> DEFINE read == ReadBuffer(responses[c], 1)[1]
<1> DEFINE size == IF read.is = "size" THEN read.of ELSE 0
<1> DEFINE there == IF size = 0 THEN "next" ELSE "items"
<1>1. ReadResponse(c, 1, "size", there) /\ want' = [want EXCEPT ![c] = size]
  BY DEF ReadSize
<1>2. size \in Nat
  <2>1. responses[c] \in Seq(Message)
    BY DEF Typed, Shapes
  <2>2. ReadBuffer(responses[c], 1) \in Seq(Message) /\ Len(ReadBuffer(responses[c], 1)) = 1
    BY <2>1, Buffered
  <2>3. read \in Message
    BY <2>2
  <2> HIDE DEF read
  <2> QED
    BY <2>3, SizeIsNumber
<1>3. there \in {"next", "size", "items"}
  OBVIOUS
<1> HIDE DEF size, there
<1>4. want' \in [Clients -> Nat]
  BY <1>1, <1>2 DEF Typed, TypeOK
<1> QED
  BY <1>1, <1>3, <1>4, ReadTyped

\* Items are read.
LEMMA ReadItemsTyped ==
  ASSUME NEW c \in Clients, Typed, ReadItems(c), Outside
  PROVE  Typed'
<1>1. want' \in [Clients -> Nat] /\ want[c] \in Nat
  BY DEF ReadItems, Typed, TypeOK
<1> QED
  BY <1>1, ReadTyped DEF ReadItems

\* A call begins, and is counted.
LEMMA AskTyped ==
  ASSUME NEW c \in Clients, Typed, Ask(c), Outside
  PROVE  Typed'
<1>1. PICK op \in Ops :
        /\ at' = [at EXCEPT ![c] = IF op = "list" THEN "status" ELSE "arguments"]
        /\ requests' = [requests EXCEPT ![c] = Append(@, Field(op, asked[c] + 1))]
        /\ kind' = [kind EXCEPT ![c] = op]
  BY DEF Ask, Move
<1>2. /\ asked[c] < MaxCalls[c] /\ asked' = [asked EXCEPT ![c] = @ + 1]
      /\ UNCHANGED <<up, responses, want, mixed, workerVars>>
  BY DEF Ask
<1>3. TypeOK'
  <2>1. asked' \in [Clients -> Nat] /\ \A d \in Clients : asked'[d] <= MaxCalls[d]
    <3>1. asked \in [Clients -> Nat] /\ \A d \in Clients : asked[d] <= MaxCalls[d]
      BY DEF Typed, TypeOK
    <3>2. asked[c] + 1 <= MaxCalls[c]
      BY <1>2, <3>1, MaxCallsAssumption
    <3> QED
      BY <1>2, <3>1, <3>2
  <2> QED
    BY <1>1, <1>2, <2>1 DEF Typed, TypeOK, Outside, registrationVars, handoverVars, workerVars
<1>4. Shapes'
  BY <1>1, <1>2 DEF Typed, Shapes, Outside, handoverVars, workerVars
<1> QED
  BY <1>3, <1>4 DEF Typed

\* The client's steps that read nothing.
LEMMA PlainClientTyped ==
  ASSUME NEW c \in Clients, Typed, Outside,
         SendArguments(c) \/ Quit(c) \/ Leave(c) \/ BrokenPipe(c)
  PROVE  Typed'
<1>1. /\ \/ at' = [at EXCEPT ![c] = "status"] \/ at' = [at EXCEPT ![c] = "done"]
         \/ at' = [at EXCEPT ![c] = "gone"]
      /\ UNCHANGED <<up, responses, clientVars, workerVars>>
  BY DEF SendArguments, Quit, Leave, BrokenPipe, Move, sessionVars
<1>2. TypeOK'
  BY <1>1 DEF Typed, TypeOK, Outside, registrationVars, handoverVars, clientVars, workerVars
<1>3. DOMAIN requests' = Clients
  BY DEF SendArguments, Quit, Leave, BrokenPipe, sessionVars, Typed, Shapes
<1>4. Shapes'
  BY <1>1, <1>3 DEF Typed, Shapes, Outside, handoverVars, clientVars, workerVars
<1> QED
  BY <1>2, <1>4 DEF Typed

\* All steps of a client in its session.
LEMMA CallTyped ==
  ASSUME NEW c \in Clients, Typed, Call(c) \/ Leave(c) \/ BrokenPipe(c), Outside
  PROVE  Typed'
BY ReadIdTyped, AskTyped, ReadStatusTyped, ReadSizeTyped, ReadItemsTyped, PlainClientTyped
   DEF Call

\* All steps of a client that registers.
LEMMA RegisterTyped ==
  ASSUME NEW c \in Clients, Typed, Register(c), UNCHANGED <<sessionVars, handoverVars>>
  PROVE  Typed'
<1>1. /\ \/ at' = [at EXCEPT ![c] = "opcode"] \/ at' = [at EXCEPT ![c] = "names"]
         \/ at' = [at EXCEPT ![c] = "close"] \/ at' = [at EXCEPT ![c] = "openRequest"]
      /\ up' = up /\ received' = received
  BY DEF Register, OpenServerPipe, SendOpcode, SendNames, CloseServerPipe, Move, registrationVars
<1>2. /\ receiver' \in {"open", "opening", "opcode", "names"}
      /\ sent' \in Seq(Clients) /\ raced' \in BOOLEAN
  <2>1. CASE OpenServerPipe(c)
    BY <2>1 DEF OpenServerPipe, Typed, TypeOK
  <2>2. CASE SendOpcode(c)
    BY <2>2 DEF SendOpcode, Typed, TypeOK
  <2>3. CASE SendNames(c)
    BY <2>3 DEF SendNames, Typed, TypeOK
  <2>4. CASE CloseServerPipe(c)
    BY <2>4 DEF CloseServerPipe, registrationVars, Typed, TypeOK
  <2> QED
    BY <2>1, <2>2, <2>3, <2>4 DEF Register
<1>3. TypeOK'
  BY <1>1, <1>2 DEF Typed, TypeOK, sessionVars, clientVars, workerVars, handoverVars
<1>4. Shapes'
  BY DEF Typed, Shapes, sessionVars, clientVars, workerVars, handoverVars
<1> QED
  BY <1>3, <1>4 DEF Typed

\* The receiver opens the pipe, or reads an opcode.
LEMMA ReceiverTyped ==
  ASSUME Typed, ReceiverOpens \/ ReadSetup, UNCHANGED <<sessionVars, handoverVars>>
  PROVE  Typed'
<1>1. /\ up' \in BOOLEAN /\ receiver' \in {"open", "opening", "opcode", "names"}
      /\ raced' \in BOOLEAN /\ UNCHANGED <<at, sent, received>>
  BY DEF ReceiverOpens, ReadSetup, Typed, TypeOK
<1>2. TypeOK'
  BY <1>1 DEF Typed, TypeOK, sessionVars, clientVars, workerVars, handoverVars
<1>3. Shapes'
  BY DEF Typed, Shapes, sessionVars, clientVars, workerVars, handoverVars
<1> QED
  BY <1>2, <1>3 DEF Typed

\* The receiver reads names and queues them.
LEMMA ReceiveTyped ==
  ASSUME NEW c \in Names, Typed, Receive(c)
  PROVE  Typed'
<1>1. /\ received' = Append(received, c) /\ receiver' = "open"
      /\ UNCHANGED <<up, at, sent, raced, sessionVars, serving>>
      /\ new' = new \ {c} /\ queue' = Append(queue, c)
  BY DEF Receive, ReadNames, Handover!Register
<1>2. TypeOK'
  BY <1>1 DEF Typed, TypeOK, sessionVars, clientVars, workerVars, Names
<1>3. Shapes'
  BY <1>1 DEF Typed, Shapes, sessionVars, clientVars, workerVars
<1> QED
  BY <1>2, <1>3 DEF Typed

\* A worker's steps in the session of client c.
LEMMA OpensTyped ==
  ASSUME NEW w \in Workers, NEW c \in Clients, Typed, serving[w] = c, Outside,
         OpenRequestPipe(w, c) \/ OpenResponsePipe(w, c)
  PROVE  Typed'
<1>1. serving[w] # NoClient
  BY NoClientAssumption
<1>2. /\ \/ work' = [work EXCEPT ![w] = "openResponse"] \/ work' = [work EXCEPT ![w] = "hello"]
      /\ \/ at' = [at EXCEPT ![c] = "openResponse"] \/ at' = [at EXCEPT ![c] = "id"]
      /\ UNCHANGED <<up, requests, responses, clientVars, request, output, carried, cut, silent>>
  BY DEF OpenRequestPipe, OpenResponsePipe, Turn, Move
<1>3. TypeOK'
  BY <1>1, <1>2 DEF Typed, TypeOK, Outside, registrationVars, handoverVars, clientVars
<1>4. Shapes'
  BY <1>2 DEF Typed, Shapes, Outside, handoverVars, clientVars
<1> QED
  BY <1>3, <1>4 DEF Typed

\* There is room for the id, for nothing is in the pipe yet.
LEMMA SendIdTyped ==
  ASSUME NEW w \in Workers, NEW c \in Clients, Typed, serving[w] = c, Outside,
         Together(w, c), SendId(w, c)
  PROVE  Typed'
<1>1. serving[w] # NoClient
  BY NoClientAssumption
<1>2. /\ work[w] = "hello" /\ work' = [work EXCEPT ![w] = "opcode"]
      /\ responses' = [responses EXCEPT ![c] = Append(@, Field("id", 0))]
      /\ UNCHANGED <<up, at, requests, clientVars, request, output, carried, cut, silent>>
  BY DEF SendId, Turn
<1>3. responses[c] = <<>>
  BY <1>2 DEF Together, Astray, Meeting, InStep, Resting, Requesting, Answering
<1>4. Field("id", 0) \in Message
  BY DEF Field, Message
<1>5. /\ Append(responses[c], Field("id", 0)) \in Seq(Message)
      /\ Len(Append(responses[c], Field("id", 0))) <= Capacity
  BY <1>3, <1>4, CapacityAssumption
<1>6. TypeOK'
  BY <1>1, <1>2, <1>5
     DEF Typed, TypeOK, Shapes, Outside, registrationVars, handoverVars, clientVars
<1>7. Shapes'
  BY <1>2, <1>5 DEF Typed, Shapes, Outside, handoverVars, clientVars
<1> QED
  BY <1>6, <1>7 DEF Typed

\* The worker reads an opcode or arguments.
LEMMA ReadRequestTyped ==
  ASSUME NEW w \in Workers, NEW c \in Clients, Typed, serving[w] = c, Outside,
         ReadOpcode(w, c) \/ ReadArguments(w, c)
  PROVE  Typed'
<1> DEFINE op == ReadBuffer(requests[c], 1)[1].is
<1>1. serving[w] # NoClient
  BY NoClientAssumption
<1>2. /\ UNCHANGED <<up, at, responses, clientVars, output, carried, cut, silent>>
      /\ DOMAIN requests' = DOMAIN requests
  BY DEF ReadOpcode, ReadArguments
<1>3. \/ /\ work' = [work EXCEPT ![w] = AfterOpcode(op)]
         /\ request' = [request EXCEPT ![w] = IF op \in Ops THEN op ELSE NoOp]
      \/ work' = [work EXCEPT ![w] = "run"] /\ request' = request
  BY DEF ReadOpcode, ReadArguments, Turn
<1>4. AfterOpcode(op) \in {"arguments", "run", "leave", "opcode"}
  BY NextStep
<1> HIDE DEF op
<1>5. TypeOK'
  BY <1>1, <1>2, <1>3, <1>4
     DEF Typed, TypeOK, Outside, registrationVars, handoverVars, clientVars
<1>6. Shapes'
  BY <1>2, <1>3 DEF Typed, Shapes, Outside, handoverVars, clientVars
<1> QED
  BY <1>5, <1>6 DEF Typed

\* The worker carries out an operation.
LEMMA RunTyped ==
  ASSUME NEW w \in Workers, NEW c \in Clients, Typed, serving[w] = c, Outside,
         Execute(w, c) \/ GiveUp(w, c)
  PROVE  Typed'
<1>1. serving[w] # NoClient
  BY NoClientAssumption
<1>2. /\ UNCHANGED <<up, at, requests, responses, clientVars>>
      /\ request' = [request EXCEPT ![w] = NoOp]
      /\ \/ work' = [work EXCEPT ![w] = "write"] \/ work' = [work EXCEPT ![w] = "opcode"]
      /\ carried' = [carried EXCEPT ![c] = @ + 1] \/ carried' = carried
  BY DEF Execute, GiveUp, Turn
<1>3. output' \in [Workers -> Seq(Message)] /\ cut' \in [Clients -> BOOLEAN]
      /\ DOMAIN silent' = Clients
  <2>1. CASE Execute(w, c)
    <3>1. PICK answer \in Answers(request[w], carried[c] + 1) :
            /\ output' = [output EXCEPT ![w] = answer]
            /\ cut' = [cut EXCEPT ![c] = @ \/ Len(answer) > Capacity]
      BY <2>1 DEF Execute
    <3>2. carried[c] + 1 \in Nat
      BY DEF Typed, TypeOK
    <3>3. answer \in Seq(Message)
      BY <3>2, AnswerShape
    <3> QED
      BY <2>1, <3>1, <3>3 DEF Execute, Typed, Shapes
  <2>2. CASE GiveUp(w, c)
    BY <2>2 DEF GiveUp, Typed, Shapes
  <2> QED
    BY <2>1, <2>2
<1>4. TypeOK'
  <2>1. carried' \in [Clients -> Nat]
    <3>1. carried \in [Clients -> Nat] /\ carried[c] + 1 \in Nat
      BY DEF Typed, TypeOK
    <3> QED
      BY <1>2, <3>1
  <2>2. /\ work' \in [Workers -> {"idle", "openRequest", "openResponse", "hello", "opcode",
                                  "arguments", "run", "write", "leave"}]
        /\ \A v \in Workers : work'[v] = "idle" <=> serving[v] = NoClient
    BY <1>1, <1>2 DEF Typed, TypeOK
  <2> QED
    BY <1>2, <2>1, <2>2 DEF Typed, TypeOK, Outside, registrationVars, handoverVars, clientVars
<1>5. Shapes'
  BY <1>2, <1>3 DEF Typed, Shapes, Outside, handoverVars, clientVars
<1> QED
  BY <1>4, <1>5 DEF Typed

\* The worker writes no more than fits.
LEMMA WriteTyped ==
  ASSUME NEW w \in Workers, NEW c \in Clients, Typed, serving[w] = c, Outside, Write(w, c)
  PROVE  Typed'
<1> DEFINE room == Capacity - Len(responses[c])
<1> DEFINE all == Len(output[w])
<1> DEFINE n == IF all <= room THEN all ELSE room
<1> DEFINE out == ReadBuffer(output[w], n)
<1>1. serving[w] # NoClient
  BY NoClientAssumption
<1>2. /\ UNCHANGED <<up, at, requests, clientVars, request, carried, cut, silent>>
      /\ room > 0
      /\ work' = [work EXCEPT ![w] = IF all <= room THEN "opcode" ELSE "write"]
      /\ responses' = [responses EXCEPT ![c] = @ \o out]
      /\ output' = [output EXCEPT ![w] = AfterRead(@, room)]
  BY DEF Write, Turn
<1>3. /\ responses[c] \in Seq(Message) /\ output[w] \in Seq(Message)
      /\ Len(responses[c]) <= Capacity
  BY DEF Typed, TypeOK, Shapes
<1>4. room \in Nat /\ n \in Nat /\ n <= room
  <2>1. Len(responses[c]) \in Nat /\ all \in Nat /\ Capacity \in Nat
    BY <1>3, CapacityAssumption
  <2>2. room > 0
    BY <1>2
  <2>3. room \in Nat
    BY <2>1, <2>2
  <2> HIDE DEF room, all
  <2> QED
    BY <2>1, <2>3
<1> HIDE DEF n
<1>5. out \in Seq(Message) /\ Len(out) = n
  BY <1>3, <1>4, Buffered
<1> HIDE DEF out
<1>6. responses[c] \o out \in Seq(Message) /\ Len(responses[c] \o out) <= Capacity
  BY <1>3, <1>4, <1>5, CapacityAssumption
<1> HIDE DEF room
<1>7. AfterRead(output[w], room) \in Seq(Message)
  BY <1>3, <1>4, Rest
<1>8. TypeOK'
  BY <1>1, <1>2, <1>6
     DEF Typed, TypeOK, Shapes, Outside, registrationVars, handoverVars, clientVars
<1>9. Shapes'
  BY <1>2, <1>6, <1>7 DEF Typed, Shapes, Outside, handoverVars, clientVars
<1> QED
  BY <1>8, <1>9 DEF Typed

\* The worker writes to a client that has gone.
LEMMA KilledTyped ==
  ASSUME NEW w \in Workers, NEW c \in Clients, Typed, Outside, Killed(w, c)
  PROVE  Typed'
<1>1. up' = FALSE /\ UNCHANGED <<at, sessionVars>>
  BY DEF Killed
<1> QED
  BY <1>1 DEF Typed, TypeOK, Shapes, Outside, registrationVars, handoverVars, sessionVars,
              clientVars, workerVars

\* All steps of a worker in a session.
LEMMA AnswerTyped ==
  ASSUME NEW w \in Workers, NEW c \in Clients, Typed, serving[w] = c, Outside,
         Together(w, c), Answer(w, c) \/ GiveUp(w, c)
  PROVE  Typed'
BY OpensTyped, SendIdTyped, ReadRequestTyped, RunTyped, WriteTyped, KilledTyped DEF Answer

\* A worker takes a client, or is done with one.
LEMMA HandoverTyped ==
  ASSUME NEW w \in Workers, Typed, Take(w) \/ OpenFails(w) \/ EndSession(w)
  PROVE  Typed'
<1>1. /\ UNCHANGED <<at, up, registrationVars, requests, responses, clientVars, request,
                     output, carried, cut, silent, new>>
      /\ \/ /\ work' = [work EXCEPT ![w] = "openRequest"]
            /\ queue # <<>> /\ queue' = Tail(queue)
            /\ serving' = [serving EXCEPT ![w] = Head(queue)]
         \/ /\ work' = [work EXCEPT ![w] = "idle"]
            /\ queue' = queue /\ serving' = [serving EXCEPT ![w] = NoClient]
  BY DEF Take, OpenFails, EndSession, CloseSession, Turn, Handover!Start, Handover!End
<1>2. /\ queue # <<>> => Head(queue) \in Names /\ Tail(queue) \in Seq(Names)
      /\ \A name \in Names : name # NoClient
  BY NoClientAssumption, HeadTailProperties DEF Typed, Shapes, Names
<1>3. TypeOK'
  BY <1>1, <1>2 DEF Typed, TypeOK, Shapes, registrationVars, clientVars
<1>4. Shapes'
  BY <1>1, <1>2 DEF Typed, Shapes, clientVars
<1> QED
  BY <1>3, <1>4 DEF Typed

-----------------------------------------------------------------------------
\* The hand-over.

\* Lemmas ...Handover: a step keeps each name in one place.
\* A name that is queued was new.
LEMMA ReceiveHandover ==
  ASSUME NEW c \in Names, Typed, HandoverOK, Receive(c)
  PROVE  HandoverOK'
<1>1. /\ c \in new /\ new' = new \ {c} /\ queue' = Append(queue, c) /\ serving' = serving
  BY DEF Receive, Handover!Register
<1>2. /\ queue \in Seq(Names) /\ Len(queue') = Len(queue) + 1 /\ queue'[Len(queue) + 1] = c
      /\ DOMAIN queue = 1..Len(queue) /\ DOMAIN queue' = 1..(Len(queue) + 1)
      /\ \A k \in 1..Len(queue) : queue'[k] = queue[k]
  BY <1>1 DEF Typed, Shapes
<1>3. \A k \in DOMAIN queue' : k \in DOMAIN queue \/ k = Len(queue) + 1
  BY <1>2
<1>4. \A k \in DOMAIN queue' : queue'[k] \notin new'
  BY <1>1, <1>2, <1>3 DEF HandoverOK
<1>5. \A k, l \in DOMAIN queue' : queue'[k] = queue'[l] => k = l
  BY <1>1, <1>2, <1>3 DEF HandoverOK
<1>6. \A w \in Workers : serving'[w] # NoClient =>
        /\ serving'[w] \notin new'
        /\ \A k \in DOMAIN queue' : queue'[k] # serving'[w]
        /\ \A v \in Workers : serving'[v] = serving'[w] => v = w
  BY <1>1, <1>2, <1>3 DEF HandoverOK
<1> QED
  BY <1>4, <1>5, <1>6 DEF HandoverOK

\* What is left of a queue when its head is taken.
LEMMA TailOfQueue ==
  ASSUME Typed, queue # <<>>
  PROVE  /\ 1 \in DOMAIN queue /\ Head(queue) = queue[1] /\ Head(queue) \in Names
         /\ \A k \in DOMAIN Tail(queue) :
              k + 1 \in DOMAIN queue /\ k + 1 # 1 /\ Tail(queue)[k] = queue[k + 1]
         /\ \A k \in DOMAIN queue : k # 1 =>
              k - 1 \in DOMAIN Tail(queue) /\ Tail(queue)[k - 1] = queue[k]
         /\ \A k \in DOMAIN Tail(queue) : k \in Int
<1>1. /\ queue \in Seq(Names) /\ Len(queue) >= 1 /\ Len(queue) \in Nat
      /\ Tail(queue) \in Seq(Names) /\ Len(Tail(queue)) = Len(queue) - 1
      /\ \A k \in 1..Len(Tail(queue)) : Tail(queue)[k] = queue[k + 1]
      /\ Head(queue) \in Names /\ Head(queue) = queue[1]
  BY HeadTailProperties DEF Typed, Shapes
<1>2. DOMAIN queue = 1..Len(queue) /\ DOMAIN Tail(queue) = 1..(Len(queue) - 1)
  BY <1>1
<1> QED
  BY <1>1, <1>2

\* The head leaves the queue for one worker.
LEMMA TakeHandover ==
  ASSUME NEW w \in Workers, Typed, HandoverOK, Take(w)
  PROVE  HandoverOK'
<1>1. /\ serving[w] = NoClient /\ queue # <<>> /\ new' = new
      /\ queue' = Tail(queue) /\ serving' = [serving EXCEPT ![w] = Head(queue)]
  BY DEF Take, Handover!Start
<1>2. /\ serving'[w] = queue[1] /\ \A v \in Workers \ {w} : serving'[v] = serving[v]
      /\ queue[1] # NoClient
  BY <1>1, TailOfQueue, NoClientAssumption DEF Typed, Shapes, Names
<1>3. \A k \in DOMAIN queue' : queue'[k] \notin new'
  BY <1>1, TailOfQueue DEF HandoverOK
<1>4. \A k, l \in DOMAIN queue' : queue'[k] = queue'[l] => k = l
  <2> SUFFICES ASSUME NEW k \in DOMAIN queue', NEW l \in DOMAIN queue', queue'[k] = queue'[l]
               PROVE  k = l
    OBVIOUS
  <2>1. /\ k + 1 \in DOMAIN queue /\ l + 1 \in DOMAIN queue /\ k \in Int /\ l \in Int
        /\ queue[k + 1] = queue[l + 1]
    BY <1>1, TailOfQueue
  <2>2. k + 1 = l + 1
    BY <2>1 DEF HandoverOK
  <2> QED
    BY <2>1, <2>2
<1>5. \A v \in Workers : serving'[v] # NoClient =>
        /\ serving'[v] \notin new'
        /\ \A k \in DOMAIN queue' : queue'[k] # serving'[v]
        /\ \A u \in Workers : serving'[u] = serving'[v] => u = v
  <2> SUFFICES ASSUME NEW v \in Workers, serving'[v] # NoClient
               PROVE  /\ serving'[v] \notin new'
                      /\ \A k \in DOMAIN queue' : queue'[k] # serving'[v]
                      /\ \A u \in Workers : serving'[u] = serving'[v] => u = v
    OBVIOUS
  <2>1. CASE v = w
    BY <1>1, <1>2, <2>1, TailOfQueue DEF HandoverOK
  <2>2. CASE v # w
    BY <1>1, <1>2, <2>2, TailOfQueue DEF HandoverOK
  <2> QED
    BY <2>1, <2>2
<1> QED
  BY <1>3, <1>4, <1>5 DEF HandoverOK

\* A name whose session has ended is nowhere.
LEMMA EndHandover ==
  ASSUME NEW w \in Workers, Typed, HandoverOK, OpenFails(w) \/ EndSession(w)
  PROVE  HandoverOK'
<1>1. serving' = [serving EXCEPT ![w] = NoClient] /\ new' = new /\ queue' = queue
  BY DEF OpenFails, EndSession, Handover!End
<1>2. serving'[w] = NoClient /\ \A v \in Workers \ {w} : serving'[v] = serving[v]
  BY <1>1 DEF Typed, Shapes
<1> QED
  BY <1>1, <1>2 DEF HandoverOK

-----------------------------------------------------------------------------
\* A step in one session leaves the others alone.

SameClient(c) ==
  /\ at'[c] = at[c] /\ requests'[c] = requests[c] /\ responses'[c] = responses[c]
  /\ asked'[c] = asked[c] /\ kind'[c] = kind[c] /\ want'[c] = want[c]
  /\ mixed'[c] = mixed[c] /\ carried'[c] = carried[c] /\ cut'[c] = cut[c]

SameWorker(w) == work'[w] = work[w] /\ request'[w] = request[w] /\ output'[w] = output[w]

\* A step of others does not touch a session.
LEMMA SameSession ==
  ASSUME NEW w, NEW c, SameClient(c), SameWorker(w)
  PROVE  Together(w, c)' <=> Together(w, c)
BY DEF SameClient, SameWorker, Together, Astray, Meeting, InStep, Resting, Requesting,
       Answering, Idle, Unheard, Arguments, WrittenFor, WholeAnswer

\* Nor a client that waits for its session or has had it.
LEMMA SameOutside ==
  ASSUME NEW c, SameClient(c)
  PROVE  (Waits(c)' <=> Waits(c)) /\ (Past(c)' <=> Past(c))
BY DEF SameClient, Waits, Unheard, Past, Idle

\* A client that has not been served.
Queued(c) == c \in new \/ \E k \in DOMAIN queue : queue[k] = c

\* A step within one session keeps all clients in their stages.
LEMMA SessionStep ==
  ASSUME NEW w \in Workers, NEW c \in Clients, HandoverOK, SessionsOK,
         serving[w] = c, UNCHANGED handoverVars,
         \A d \in Clients \ {c} : SameClient(d), \A v \in Workers \ {w} : SameWorker(v),
         Together(w, c)'
  PROVE  SessionsOK'
<1>1. UNCHANGED <<new, queue, serving>>
  BY DEF handoverVars
<1>2. c # NoClient /\ ~Queued(c) /\ \A v \in Workers : serving[v] = c => v = w
  BY NoClientAssumption DEF HandoverOK, Queued
<1>3. ASSUME NEW v \in Workers, NEW d \in Clients, serving'[v] = d
      PROVE  Together(v, d)'
  <2>1. CASE d = c
    BY <1>1, <1>2, <1>3, <2>1
  <2>2. CASE d # c
    <3>1. v # w /\ Together(v, d)
      BY <1>1, <1>3, <2>2 DEF SessionsOK
    <3> QED
      BY <2>2, <3>1, SameSession
  <2> QED
    BY <2>1, <2>2
<1>4. ASSUME NEW d \in Clients
      PROVE  IF d \in new' \/ \E k \in DOMAIN queue' : queue'[k] = d
               THEN Waits(d)'
               ELSE (\E v \in Workers : serving'[v] = d) \/ Past(d)'
  <2>1. CASE d = c
    BY <1>1, <1>2, <2>1 DEF Queued
  <2>2. CASE d # c
    BY <1>1, <2>2, SameOutside DEF SessionsOK
  <2> QED
    BY <2>1, <2>2
<1> QED
  BY <1>3, <1>4 DEF SessionsOK

\* A client may be out of any session only if it was cut off.
LEMMA ClientStep ==
  ASSUME NEW c \in Clients, HandoverOK, SessionsOK, Typed,
         at[c] \notin Early \cup {"done"}, UNCHANGED <<handoverVars, workerVars>>,
         \A d \in Clients \ {c} : SameClient(d),
         ~cut[c] => \A w \in Workers : serving[w] = c /\ Together(w, c) => Together(w, c)'
  PROVE  SessionsOK'
<1>1. UNCHANGED <<new, queue, serving, work, request, output, carried, cut>>
  BY DEF handoverVars, workerVars
<1>2. ~Queued(c)
  BY DEF SessionsOK, Queued, Waits
<1>3. CASE \E w \in Workers : serving[w] = c
  <2>1. PICK w \in Workers : serving[w] = c
    BY <1>3
  <2>2. Together(w, c)
    BY <2>1 DEF SessionsOK
  <2>3. Together(w, c)'
    <3>1. CASE cut[c]
      BY <1>1, <2>2, <3>1 DEF Together, Astray, Meeting, Unheard, InStep
    <3>2. CASE ~cut[c]
      BY <2>1, <2>2, <3>2
    <3> QED
      BY <3>1, <3>2
  <2>4. \A v \in Workers : SameWorker(v)
    BY <1>1 DEF SameWorker
  <2> QED
    BY <1>1, <2>1, <2>3, <2>4, SessionStep DEF handoverVars
<1>4. CASE ~\E w \in Workers : serving[w] = c
  <2>1. cut[c]
    BY <1>2, <1>4 DEF SessionsOK, Queued, Past
  <2>2. Past(c)'
    BY <1>1, <2>1 DEF Past
  <2>3. ASSUME NEW v \in Workers, NEW d \in Clients, serving'[v] = d
        PROVE  Together(v, d)'
    <3>1. d # c /\ Together(v, d) /\ SameWorker(v)
      BY <1>1, <1>4, <2>3 DEF SessionsOK, SameWorker
    <3> QED
      BY <3>1, SameSession
  <2>4. ASSUME NEW d \in Clients
        PROVE  IF d \in new' \/ \E k \in DOMAIN queue' : queue'[k] = d
                 THEN Waits(d)'
                 ELSE (\E v \in Workers : serving'[v] = d) \/ Past(d)'
    <3>1. CASE d = c
      BY <1>1, <1>2, <2>2, <3>1 DEF Queued
    <3>2. CASE d # c
      BY <1>1, <3>2, SameOutside DEF SessionsOK
    <3> QED
      BY <3>1, <3>2
  <2> QED
    BY <2>3, <2>4 DEF SessionsOK
<1> QED
  BY <1>3, <1>4

\* Registering, a client is still before its session.
LEMMA EarlyStep ==
  ASSUME Typed, SessionsOK, UNCHANGED <<sessionVars, new, queue, serving>>,
         \A c \in Clients : at'[c] = at[c] \/ (at[c] \in Early /\ at'[c] \in Early)
  PROVE  SessionsOK'
<1>1. UNCHANGED <<new, queue, serving, requests, responses, asked, kind, want, mixed, work,
                  request, output, carried, cut>>
  BY DEF sessionVars, clientVars, workerVars
<1>2. ASSUME NEW c \in Clients, NEW w \in Workers, Together(w, c)
      PROVE  Together(w, c)'
  <2>1. CASE at'[c] = at[c]
    <3>1. SameClient(c) /\ SameWorker(w)
      BY <1>1, <2>1 DEF SameClient, SameWorker
    <3> QED
      BY <1>2, <3>1, SameSession
  <2>2. CASE at[c] \in Early /\ at'[c] \in Early
    <3>1. ~InStep(w, c)
      BY <2>2 DEF Early, InStep, Resting, Requesting, Answering
    <3>2. CASE Astray(w, c)
      BY <1>1, <3>2 DEF Together, Astray
    <3>3. CASE Meeting(w, c)
      <4>1. Unheard(c) /\ work[w] = "openRequest" /\ responses[c] = <<>>
        BY <2>2, <3>3 DEF Meeting, Early
      <4> QED
        BY <1>1, <2>2, <4>1 DEF Together, Meeting, Unheard
    <3> QED
      BY <1>2, <3>1, <3>2, <3>3 DEF Together
  <2> QED
    BY <2>1, <2>2
<1>3. ASSUME NEW c \in Clients
      PROVE  (Waits(c) => Waits(c)') /\ (Past(c) => Past(c)')
  BY <1>1 DEF Waits, Past, Idle, Unheard, Early
<1> QED
  BY <1>1, <1>2, <1>3 DEF SessionsOK

\* Lemmas ...Sessions: a step keeps every client in a stage that fits its pipes.
\* A client registers.
LEMMA RegisterSessions ==
  ASSUME NEW c \in Clients, Typed, SessionsOK, Register(c),
         UNCHANGED <<sessionVars, handoverVars>>
  PROVE  SessionsOK'
<1>1. \E there \in Early : at[c] \in Early /\ at' = [at EXCEPT ![c] = there]
  BY DEF Register, OpenServerPipe, SendOpcode, SendNames, CloseServerPipe, Move, Early
<1>2. \A d \in Clients : at'[d] = at[d] \/ (at[d] \in Early /\ at'[d] \in Early)
  BY <1>1 DEF Typed, TypeOK
<1> QED
  BY <1>2, EarlyStep DEF handoverVars

\* The receiver opens the pipe, or reads an opcode.
LEMMA ReceiverSessions ==
  ASSUME Typed, SessionsOK, ReceiverOpens \/ ReadSetup, UNCHANGED <<sessionVars, handoverVars>>
  PROVE  SessionsOK'
<1>1. at' = at
  BY DEF ReceiverOpens, ReadSetup
<1> QED
  BY <1>1, EarlyStep DEF handoverVars

\* A client in the queue waits as it did when new.
LEMMA ReceiveSessions ==
  ASSUME NEW c \in Names, Typed, HandoverOK, SessionsOK, Receive(c)
  PROVE  SessionsOK'
<1>1. /\ c \in new /\ new' = new \ {c} /\ queue' = Append(queue, c) /\ serving' = serving
      /\ at' = at /\ UNCHANGED sessionVars
  BY DEF Receive, ReadNames, Handover!Register
<1>2. /\ \A v \in Workers : SameWorker(v)
      /\ \A d \in Clients : SameClient(d)
  BY <1>1 DEF SameWorker, SameClient, sessionVars, clientVars, workerVars
<1>3. \A d \in Clients : Queued(d)' <=> Queued(d)
  <2>1. /\ DOMAIN queue = 1..Len(queue) /\ DOMAIN queue' = 1..(Len(queue) + 1)
        /\ Len(queue) \in Nat /\ queue'[Len(queue) + 1] = c
        /\ \A k \in 1..Len(queue) : queue'[k] = queue[k]
    BY <1>1 DEF Typed, Shapes
  <2>2. \A k \in DOMAIN queue' : k \in DOMAIN queue \/ k = Len(queue) + 1
    BY <2>1
  <2>3. \A k \in DOMAIN queue : k \in DOMAIN queue'
    BY <2>1
  <2>4. Len(queue) + 1 \in DOMAIN queue'
    BY <2>1
  <2> QED
    BY <1>1, <2>1, <2>2, <2>3, <2>4 DEF Queued
<1>4. ASSUME NEW v \in Workers, NEW d \in Clients, serving'[v] = d
      PROVE  Together(v, d)'
  BY <1>1, <1>2, <1>4, SameSession DEF SessionsOK
<1>5. ASSUME NEW d \in Clients
      PROVE  IF Queued(d)' THEN Waits(d)' ELSE (\E v \in Workers : serving'[v] = d) \/ Past(d)'
  <2>1. IF Queued(d) THEN Waits(d) ELSE (\E v \in Workers : serving[v] = d) \/ Past(d)
    BY DEF SessionsOK, Queued
  <2> QED
    BY <1>1, <1>2, <1>3, <2>1, SameOutside
<1> QED
  BY <1>4, <1>5 DEF SessionsOK, Queued

\* A worker begins a session with a client that waits for one.
LEMMA TakeSessions ==
  ASSUME NEW w \in Workers, Typed, HandoverOK, SessionsOK, Take(w)
  PROVE  SessionsOK'
<1>1. /\ serving[w] = NoClient /\ queue # <<>> /\ new' = new
      /\ queue' = Tail(queue) /\ serving' = [serving EXCEPT ![w] = Head(queue)]
      /\ work' = [work EXCEPT ![w] = "openRequest"]
      /\ UNCHANGED <<at, requests, responses, clientVars, request, output, carried, cut>>
  BY DEF Take, Turn, Handover!Start
<1>2. /\ serving'[w] = queue[1] /\ \A v \in Workers \ {w} : serving'[v] = serving[v]
      /\ 1 \in DOMAIN queue /\ work'[w] = "openRequest"
  BY <1>1, TailOfQueue DEF Typed, TypeOK, Shapes
<1>3. /\ \A d \in Clients : SameClient(d)
      /\ \A v \in Workers \ {w} : SameWorker(v)
  BY <1>1 DEF SameClient, SameWorker, clientVars, Typed, TypeOK
<1>4. ASSUME NEW v \in Workers, NEW d \in Clients, serving'[v] = d
      PROVE  Together(v, d)'
  <2>1. CASE v = w
    <3>1. Waits(d)
      BY <1>2, <1>4, <2>1 DEF SessionsOK
    <3>2. Waits(d)'
      BY <1>3, <3>1, SameOutside
    <3> QED
      BY <1>2, <2>1, <3>2 DEF Together, Meeting, Waits
  <2>2. CASE v # w
    BY <1>2, <1>3, <1>4, <2>2, SameSession DEF SessionsOK
  <2> QED
    BY <2>1, <2>2
<1>5. ASSUME NEW d \in Clients
      PROVE  IF Queued(d)' THEN Waits(d)' ELSE (\E v \in Workers : serving'[v] = d) \/ Past(d)'
  <2>1. IF Queued(d) THEN Waits(d) ELSE (\E v \in Workers : serving[v] = d) \/ Past(d)
    BY DEF SessionsOK, Queued
  <2>2. Queued(d)' => Queued(d)
    BY <1>1, TailOfQueue DEF Queued
  <2>3. Queued(d) => Queued(d)' \/ serving'[w] = d
    BY <1>1, <1>2, TailOfQueue DEF Queued
  <2>4. (\E v \in Workers : serving[v] = d) => \E v \in Workers : serving'[v] = d
    BY <1>1, <1>2, NoClientAssumption
  <2> QED
    BY <1>3, <2>1, <2>2, <2>3, <2>4, SameOutside
<1> QED
  BY <1>4, <1>5 DEF SessionsOK, Queued

\* What a session leaves behind.
LEMMA EndSessions ==
  ASSUME NEW w \in Workers, Typed, HandoverOK, SessionsOK, OpenFails(w) \/ EndSession(w)
  PROVE  SessionsOK'
<1>1. /\ new' = new /\ queue' = queue /\ serving' = [serving EXCEPT ![w] = NoClient]
      /\ work' = [work EXCEPT ![w] = "idle"]
      /\ UNCHANGED <<at, requests, responses, clientVars, request, output, carried, cut>>
  BY DEF OpenFails, EndSession, CloseSession, Turn, Handover!End
<1>2. serving'[w] = NoClient /\ \A v \in Workers \ {w} : serving'[v] = serving[v]
  BY <1>1 DEF Typed, Shapes
<1>3. /\ \A d \in Clients : SameClient(d)
      /\ \A v \in Workers \ {w} : SameWorker(v)
  BY <1>1 DEF SameClient, SameWorker, clientVars, Typed, TypeOK
<1>4. ASSUME NEW v \in Workers, NEW d \in Clients, serving'[v] = d
      PROVE  Together(v, d)'
  <2>1. v # w
    BY <1>2, <1>4, NoClientAssumption
  <2> QED
    BY <1>2, <1>3, <1>4, <2>1, SameSession DEF SessionsOK
<1>5. ASSUME NEW d \in Clients, serving[w] = d
      PROVE  Past(d)
  <2>1. work[w] = "leave"
    BY <1>5, GarbledAssumption DEF OpenFails, EndSession, CloseSession, Turn
  <2>2. Together(w, d)
    BY <1>5 DEF SessionsOK
  <2> QED
    BY <2>1, <2>2 DEF Together, Astray, Meeting, InStep, Resting, Requesting, Answering, Past
<1>6. ASSUME NEW d \in Clients
      PROVE  IF Queued(d)' THEN Waits(d)' ELSE (\E v \in Workers : serving'[v] = d) \/ Past(d)'
  <2>1. IF Queued(d) THEN Waits(d) ELSE (\E v \in Workers : serving[v] = d) \/ Past(d)
    BY DEF SessionsOK, Queued
  <2>2. Queued(d)' <=> Queued(d)
    BY <1>1 DEF Queued
  <2>3. (\E v \in Workers : serving[v] = d) => (\E v \in Workers : serving'[v] = d) \/ Past(d)
    BY <1>2, <1>5
  <2> QED
    BY <1>3, <2>1, <2>2, <2>3, SameOutside
<1> QED
  BY <1>4, <1>6 DEF SessionsOK, Queued

\* What a call changes, besides its own client.
LEMMA OtherClients ==
  ASSUME NEW c \in Clients, Typed, Call(c) \/ Leave(c)
  PROVE  /\ \A d \in Clients \ {c} : SameClient(d)
         /\ UNCHANGED workerVars
         /\ at[c] \notin Early \cup {"done"} /\ up' = up
BY DEF Call, ReadId, Ask, SendArguments, ReadStatus, ReadSize, ReadItems, Quit, Leave,
       ReadResponse, Move, SameClient, Typed, TypeOK, Shapes, Early, clientVars, workerVars,
       sessionVars

\* A client's call moves only its own session.
LEMMA CallSessions ==
  ASSUME NEW c \in Clients, Typed, HandoverOK, SessionsOK, up, UNCHANGED handoverVars,
         Call(c) \/ Leave(c)
  PROVE  SessionsOK'
<1>1. ASSUME NEW w \in Workers, Together(w, c), ~cut[c]
      PROVE  Together(w, c)'
  BY <1>1, ReadIdKeeps, AskKeeps, SendArgumentsKeeps, ReadStatusKeeps, ReadSizeKeeps,
     ReadItemsKeeps, QuitKeeps, LeaveKeeps DEF Call
<1> QED
  BY <1>1, OtherClients, ClientStep

\* What a worker's step changes, besides its own session.
LEMMA OtherSessions ==
  ASSUME NEW w \in Workers, NEW c \in Clients, Typed, Answer(w, c) \/ GiveUp(w, c)
  PROVE  /\ \A d \in Clients \ {c} : SameClient(d)
         /\ \A v \in Workers \ {w} : SameWorker(v)
BY DEF Answer, OpenRequestPipe, OpenResponsePipe, SendId, ReadOpcode, ReadArguments, Execute,
       Write, Killed, GiveUp, Turn, Move, SameClient, SameWorker, Typed, TypeOK, Shapes,
       clientVars, workerVars, sessionVars

\* A worker's answer moves only its own session.
LEMMA AnswerSessions ==
  ASSUME NEW w \in Workers, NEW c \in Clients, Typed, HandoverOK, SessionsOK, up',
         serving[w] = c, UNCHANGED handoverVars, Answer(w, c) \/ GiveUp(w, c)
  PROVE  SessionsOK'
<1>1. Together(w, c)
  BY DEF SessionsOK
<1>2. ~Killed(w, c)
  BY DEF Killed
<1>3. Together(w, c)'
  BY <1>1, <1>2, OpenRequestPipeKeeps, OpenResponsePipeKeeps, SendIdKeeps, ReadOpcodeKeeps,
     ReadArgumentsKeeps, ExecuteKeeps, WriteKeeps, GiveUpKeeps DEF Answer
<1> QED
  BY <1>3, OtherSessions, SessionStep

-----------------------------------------------------------------------------
\* What is written to the server's pipe, and read from it.

\* An opcode behind whole registrations.
LEMMA SetupWritten ==
  ASSUME NEW pipe \in Seq(PipeField), NEW names \in Seq(Clients), NEW ahead \in {0, 1},
         NEW heard \in Nat, heard <= Len(names),
         Whole(pipe, ahead, names, heard, 0)
  PROVE  /\ Append(pipe, Field("setup", 0)) \in Seq(PipeField)
         /\ Whole(Append(pipe, Field("setup", 0)), ahead, names, heard, 1)
<1> DEFINE field == Field("setup", 0)
<1> DEFINE behind == Len(names) - heard
<1>1. field \in PipeField
  BY DEF Field, PipeField
<1>2. behind \in Nat
  OBVIOUS
<1> DEFINE longer == Append(pipe, field)
<1>3. /\ longer \in Seq(PipeField) /\ Len(longer) = Len(pipe) + 1 /\ longer[Len(pipe) + 1] = field
      /\ \A k \in 1..Len(pipe) : longer[k] = pipe[k]
  BY <1>1
<1>4. Len(pipe) = 3 * behind - ahead
  BY <1>2 DEF Whole
<1> HIDE DEF longer, behind
<1>5. ASSUME NEW k \in 1..behind
      PROVE  /\ longer[3 * k - 1 - ahead] = Field("request", names[heard + k])
             /\ longer[3 * k - ahead] = Field("response", names[heard + k])
  <2>1. 3 * k - 1 - ahead \in 1..Len(pipe) /\ 3 * k - ahead \in 1..Len(pipe)
    BY <1>2, <1>4
  <2> QED
    BY <1>3, <2>1 DEF Whole, behind
<1>6. ASSUME NEW k \in ahead..behind
      PROVE  longer[3 * k + 1 - ahead] = field
  <2>1. CASE k = behind
    BY <1>2, <1>3, <1>4, <2>1
  <2>2. CASE k # behind
    <3>1. k \in ahead..(behind + 0 - 1) /\ 3 * k + 1 - ahead \in 1..Len(pipe)
      BY <1>2, <1>4, <2>2
    <3> QED
      BY <1>3, <3>1 DEF Whole, behind
  <2> QED
    BY <2>1, <2>2
<1>7. Whole(longer, ahead, names, heard, 1)
  BY <1>2, <1>3, <1>4, <1>5, <1>6 DEF Whole, behind
<1> QED
  BY <1>3, <1>7 DEF longer

\* Two elements at the end of a sequence.
LEMMA PairAppended ==
  ASSUME NEW S, NEW s \in Seq(S), NEW pair \in Seq(S), Len(pair) = 2
  PROVE  /\ s \o pair \in Seq(S) /\ Len(s \o pair) = Len(s) + 2
         /\ (s \o pair)[Len(s) + 1] = pair[1] /\ (s \o pair)[Len(s) + 2] = pair[2]
         /\ \A k \in 1..Len(s) : (s \o pair)[k] = s[k]
<1>1. /\ s \o pair \in Seq(S) /\ Len(s \o pair) = Len(s) + Len(pair)
      /\ \A k \in 1..(Len(s) + Len(pair)) : (s \o pair)[k] =
            IF k <= Len(s) THEN s[k] ELSE pair[k - Len(s)]
  BY ConcatProperties
<1> QED
  BY <1>1

\* Names behind their opcode complete the registration.
LEMMA NamesWritten ==
  ASSUME NEW pipe \in Seq(PipeField), NEW names \in Seq(Clients), NEW ahead \in {0, 1},
         NEW heard \in Nat, heard <= Len(names), NEW c \in Clients,
         Whole(pipe, ahead, names, heard, 1)
  PROVE  /\ pipe \o <<Field("request", c), Field("response", c)>> \in Seq(PipeField)
         /\ Whole(pipe \o <<Field("request", c), Field("response", c)>>, ahead,
                  Append(names, c), heard, 0)
<1> DEFINE pair == <<Field("request", c), Field("response", c)>>
<1> DEFINE behind == Len(names) - heard
<1> DEFINE longer == pipe \o pair
<1> DEFINE all == Append(names, c)
<1>1. Field("request", c) \in PipeField /\ Field("response", c) \in PipeField
  BY DEF Field, PipeField
<1>2. behind \in Nat
  OBVIOUS
<1>3. pair \in Seq(PipeField) /\ Len(pair) = 2 /\ pair[1] = Field("request", c)
      /\ pair[2] = Field("response", c)
  BY <1>1
<1> HIDE DEF pair
<1>4. /\ longer \in Seq(PipeField) /\ Len(longer) = Len(pipe) + 2
      /\ longer[Len(pipe) + 1] = pair[1] /\ longer[Len(pipe) + 2] = pair[2]
      /\ \A k \in 1..Len(pipe) : longer[k] = pipe[k]
  BY <1>3, PairAppended
<1>5. Len(pipe) = 3 * behind + 1 - ahead
  BY <1>2 DEF Whole
<1>6. /\ all \in Seq(Clients) /\ Len(all) = Len(names) + 1 /\ all[Len(names) + 1] = c
      /\ \A k \in 1..Len(names) : all[k] = names[k]
  OBVIOUS
<1> HIDE DEF longer, behind, all
<1>7. ASSUME NEW k \in 1..(behind + 1)
      PROVE  /\ longer[3 * k - 1 - ahead] = Field("request", all[heard + k])
             /\ longer[3 * k - ahead] = Field("response", all[heard + k])
  <2>1. CASE k = behind + 1
    <3>1. 3 * k - 1 - ahead = Len(pipe) + 1 /\ 3 * k - ahead = Len(pipe) + 2
          /\ heard + k = Len(names) + 1
      BY <1>2, <1>5, <2>1 DEF behind
    <3> QED
      BY <1>3, <1>4, <1>6, <3>1
  <2>2. CASE k # behind + 1
    <3>1. /\ 3 * k - 1 - ahead \in 1..Len(pipe) /\ 3 * k - ahead \in 1..Len(pipe)
          /\ k \in 1..behind
      BY <1>2, <1>5, <2>2
    <3>2. heard + k \in 1..Len(names)
      BY <3>1 DEF behind
    <3> QED
      BY <1>4, <1>6, <3>1, <3>2 DEF Whole, behind
  <2> QED
    BY <2>1, <2>2
<1>8. ASSUME NEW k \in ahead..behind
      PROVE  longer[3 * k + 1 - ahead] = Field("setup", 0)
  <2>1. k \in ahead..(behind + 1 - 1) /\ 3 * k + 1 - ahead \in 1..Len(pipe)
    BY <1>2, <1>5
  <2> QED
    BY <1>4, <2>1 DEF Whole, behind
<1>9. Whole(longer, ahead, all, heard, 0)
  <2>1. Len(all) - heard = behind + 1
    BY <1>6 DEF behind
  <2>2. /\ Len(longer) = 3 * (behind + 1) + 0 - ahead
        /\ ahead..(behind + 1 + 0 - 1) = ahead..behind
    BY <1>2, <1>4, <1>5
  <2> QED
    BY <1>7, <1>8, <2>1, <2>2 DEF Whole
<1> QED
  BY <1>4, <1>9 DEF longer, all, pair

\* The opcode of the first registration is read, whatever else is behind it.
LEMMA SetupRead ==
  ASSUME NEW pipe \in Seq(PipeField), NEW names \in Seq(Clients), NEW more \in {0, 1},
         NEW heard \in Nat, heard <= Len(names), pipe # <<>>,
         Whole(pipe, 0, names, heard, more)
  PROVE  /\ ReadBuffer(pipe, 1)[1] = Field("setup", 0)
         /\ AfterRead(pipe, 1) \in Seq(PipeField)
         /\ Whole(AfterRead(pipe, 1), 1, names, heard, more)
<1> DEFINE behind == Len(names) - heard
<1> DEFINE rest == AfterRead(pipe, 1)
<1>1. behind \in Nat /\ Len(pipe) \in Nat /\ Len(pipe) >= 1
  OBVIOUS
<1>2. Len(pipe) = 3 * behind + more
  BY <1>1 DEF Whole
<1>3. pipe[1] = Field("setup", 0)
  <2>1. 0 \in 0..(behind + more - 1)
    BY <1>1, <1>2
  <2>2. pipe[3 * 0 + 1 - 0] = Field("setup", 0)
    BY <2>1 DEF Whole
  <2> QED
    BY <2>2
<1>4. ReadBuffer(pipe, 1)[1] = pipe[1]
  BY <1>1 DEF ReadBuffer
<1>5. /\ rest \in Seq(PipeField) /\ Len(rest) = Len(pipe) - 1
      /\ \A i \in 1..(Len(pipe) - 1) : rest[i] = pipe[1 + i]
  BY <1>1, Rest
<1> HIDE DEF rest, behind
<1>6. ASSUME NEW k \in 1..behind
      PROVE  /\ rest[3 * k - 1 - 1] = Field("request", names[heard + k])
             /\ rest[3 * k - 1] = Field("response", names[heard + k])
  <2>1. /\ 3 * k - 1 - 1 \in 1..(Len(pipe) - 1) /\ 3 * k - 1 \in 1..(Len(pipe) - 1)
        /\ 1 + (3 * k - 1 - 1) = 3 * k - 1 - 0 /\ 1 + (3 * k - 1) = 3 * k - 0
    BY <1>1, <1>2
  <2> QED
    BY <1>5, <2>1 DEF Whole, behind
<1>7. ASSUME NEW k \in 1..(behind + more - 1)
      PROVE  rest[3 * k + 1 - 1] = Field("setup", 0)
  <2>1. /\ 3 * k + 1 - 1 \in 1..(Len(pipe) - 1) /\ k \in 0..(behind + more - 1)
        /\ 1 + (3 * k + 1 - 1) = 3 * k + 1 - 0
    BY <1>1, <1>2
  <2> QED
    BY <1>5, <2>1 DEF Whole, behind
<1>8. Whole(rest, 1, names, heard, more)
  BY <1>1, <1>2, <1>5, <1>6, <1>7 DEF Whole, behind
<1> QED
  BY <1>3, <1>4, <1>5, <1>8 DEF rest

\* The names read behind an opcode are those of the next registration.
LEMMA NamesRead ==
  ASSUME NEW pipe \in Seq(PipeField), NEW names \in Seq(Clients), NEW more \in {0, 1},
         NEW heard \in Nat, heard < Len(names),
         Whole(pipe, 1, names, heard, more)
  PROVE  /\ ReadBuffer(pipe, 2)[1] = Field("request", names[heard + 1])
         /\ AfterRead(pipe, 2) \in Seq(PipeField)
         /\ Whole(AfterRead(pipe, 2), 0, names, heard + 1, more)
<1> DEFINE behind == Len(names) - heard
<1> DEFINE rest == AfterRead(pipe, 2)
<1>1. behind \in Nat /\ behind >= 1
  OBVIOUS
<1>2. Len(pipe) = 3 * behind + more - 1 /\ Len(pipe) >= 2 /\ Len(pipe) \in Nat
  BY <1>1 DEF Whole
<1>3. pipe[1] = Field("request", names[heard + 1])
  <2>1. pipe[3 * 1 - 1 - 1] = Field("request", names[heard + 1])
    BY <1>1 DEF Whole
  <2> QED
    BY <2>1
<1>4. ReadBuffer(pipe, 2)[1] = pipe[1]
  BY <1>2 DEF ReadBuffer
<1>5. /\ rest \in Seq(PipeField) /\ Len(rest) = Len(pipe) - 2
      /\ \A i \in 1..(Len(pipe) - 2) : rest[i] = pipe[2 + i]
  BY <1>2, Rest
<1> HIDE DEF rest, behind
<1>6. ASSUME NEW k \in 1..(behind - 1)
      PROVE  /\ rest[3 * k - 1 - 0] = Field("request", names[heard + 1 + k])
             /\ rest[3 * k - 0] = Field("response", names[heard + 1 + k])
  <2>1. /\ 3 * k - 1 - 0 \in 1..(Len(pipe) - 2) /\ 3 * k - 0 \in 1..(Len(pipe) - 2)
        /\ k + 1 \in 1..behind
        /\ 2 + (3 * k - 1 - 0) = 3 * (k + 1) - 1 - 1 /\ 2 + (3 * k - 0) = 3 * (k + 1) - 1
        /\ heard + 1 + k = heard + (k + 1)
    BY <1>1, <1>2
  <2>2. /\ pipe[3 * (k + 1) - 1 - 1] = Field("request", names[heard + (k + 1)])
        /\ pipe[3 * (k + 1) - 1] = Field("response", names[heard + (k + 1)])
    BY <2>1 DEF Whole, behind
  <2> QED
    BY <1>5, <2>1, <2>2
<1>7. ASSUME NEW k \in 0..(behind - 1 + more - 1)
      PROVE  rest[3 * k + 1 - 0] = Field("setup", 0)
  <2>1. /\ 3 * k + 1 - 0 \in 1..(Len(pipe) - 2) /\ k + 1 \in 1..(behind + more - 1)
        /\ 2 + (3 * k + 1 - 0) = 3 * (k + 1) + 1 - 1
    BY <1>1, <1>2
  <2>2. pipe[3 * (k + 1) + 1 - 1] = Field("setup", 0)
    BY <2>1 DEF Whole, behind
  <2> QED
    BY <1>5, <2>1, <2>2
<1>8. Whole(rest, 0, names, heard + 1, more)
  <2>1. Len(names) - (heard + 1) = behind - 1
    BY DEF behind
  <2> QED
    BY <1>1, <1>2, <1>5, <1>6, <1>7, <2>1 DEF Whole
<1> QED
  BY <1>3, <1>4, <1>5, <1>8 DEF rest

-----------------------------------------------------------------------------
\* Registration, step by step.

\* A step that touches neither the pipe nor a client that writes to it.
Calm ==
  /\ UNCHANGED registrationVars
  /\ up' => up
  /\ up' => \A c \in Clients :
       at'[c] = at[c] \/ {at[c], at'[c]} \cap {"opcode", "names"} = {}
  /\ \A c \in Clients : cut[c] => cut'[c]

\* Lemmas ...Registration: while no two registrations overlap, the pipe holds them whole.
\* A step that does not touch the pipe.
LEMMA CalmStep ==
  ASSUME Typed, RegistrationOK, Calm, up /\ ~up' => \E c \in Clients : cut[c]
  PROVE  RegistrationOK'
<1>1. UNCHANGED <<serverPipe, receiver, sent, received, raced>>
  BY DEF Calm, registrationVars
<1> SUFFICES ASSUME ~raced PROVE RegistrationOK'
  BY <1>1 DEF RegistrationOK
<1>2. Heard'
  BY <1>1 DEF RegistrationOK, Heard
<1>3. ASSUME up'
      PROVE  serverPipe' \in Seq(PipeField) /\ PipeWhole'
  <2>1. serverPipe \in Seq(PipeField) /\ PipeWhole
    BY <1>3 DEF RegistrationOK, Calm
  <2>2. \A c \in Clients : /\ at'[c] = "names" <=> at[c] = "names"
                           /\ at'[c] = "opcode" <=> at[c] = "opcode"
    BY <1>3 DEF Calm
  <2>3. Naming' = Naming
    BY <2>2 DEF Naming
  <2> QED
    BY <1>1, <2>1, <2>2, <2>3 DEF PipeWhole, Whole
<1>4. up' \/ \E c \in Clients : cut'[c]
  BY DEF RegistrationOK, Calm
<1> QED
  BY <1>2, <1>3, <1>4 DEF RegistrationOK

\* A client opens the server's pipe.
LEMMA OpenServerPipeRegistration ==
  ASSUME NEW c \in Clients, Typed, RegistrationOK, OpenServerPipe(c), UNCHANGED sessionVars
  PROVE  RegistrationOK'
<1>1. /\ up /\ up' = up /\ UNCHANGED <<serverPipe, sent, received, raced, cut>>
      /\ at[c] = "open" /\ at' = [at EXCEPT ![c] = "opcode"]
      /\ receiver' = IF receiver = "opening" THEN "opcode" ELSE receiver
  BY DEF OpenServerPipe, Listening, Move, sessionVars, workerVars
<1> SUFFICES ASSUME ~raced PROVE RegistrationOK'
  BY <1>1 DEF RegistrationOK
<1>2. at'[c] = "opcode" /\ \A d \in Clients \ {c} : at'[d] = at[d]
  BY <1>1 DEF Typed, TypeOK
<1>3. Naming' = Naming
  BY <1>1, <1>2 DEF Naming
<1>4. serverPipe \in Seq(PipeField) /\ PipeWhole
  BY <1>1 DEF RegistrationOK
<1>5. (receiver' = "names") <=> (receiver = "names")
  BY <1>1
<1>6. PipeWhole'
  BY <1>1, <1>2, <1>3, <1>4, <1>5 DEF PipeWhole, Whole
<1>7. Heard'
  BY <1>1 DEF RegistrationOK, Heard
<1> QED
  BY <1>1, <1>4, <1>6, <1>7 DEF RegistrationOK

\* A client writes its opcode; were another between opcode and names, it would race.
LEMMA SendOpcodeRegistration ==
  ASSUME NEW c \in Clients, Typed, RegistrationOK, SendOpcode(c), UNCHANGED sessionVars
  PROVE  RegistrationOK'
<1>1. /\ up /\ up' = up /\ UNCHANGED <<receiver, sent, received, cut>>
      /\ at[c] = "opcode" /\ at' = [at EXCEPT ![c] = "names"]
      /\ serverPipe' = Append(serverPipe, Field("setup", 0))
      /\ ~raced' => ~raced /\ Naming = {}
  BY DEF SendOpcode, Move, sessionVars, workerVars, Naming
<1> SUFFICES ASSUME ~raced, Naming = {} PROVE RegistrationOK'
  BY <1>1 DEF RegistrationOK
<1>2. at'[c] = "names" /\ \A d \in Clients \ {c} : at'[d] = at[d]
  BY <1>1 DEF Typed, TypeOK
<1>3. Naming' = {c}
  BY <1>2 DEF Naming
<1>4. serverPipe \in Seq(PipeField) /\ PipeWhole /\ Heard
  BY <1>1 DEF RegistrationOK
<1> DEFINE ahead == IF receiver = "names" THEN 1 ELSE 0
<1>5. /\ sent \in Seq(Clients) /\ Len(received) \in Nat /\ Len(received) <= Len(sent)
      /\ Whole(serverPipe, ahead, sent, Len(received), 0) /\ ahead \in {0, 1}
  BY <1>4 DEF PipeWhole, Heard, Typed, TypeOK
<1> HIDE DEF ahead
<1>6. serverPipe' \in Seq(PipeField) /\ Whole(serverPipe', ahead, sent, Len(received), 1)
  BY <1>1, <1>4, <1>5, SetupWritten
<1>7. serverPipe' # <<>>
  BY <1>1, <1>4
<1>8. PipeWhole'
  BY <1>1, <1>3, <1>6, <1>7 DEF PipeWhole, Whole, ahead
<1>9. Heard'
  BY <1>1, <1>4 DEF Heard
<1> QED
  BY <1>1, <1>6, <1>8, <1>9 DEF RegistrationOK

\* A client writes its names; it is the only one that owes them.
LEMMA SendNamesRegistration ==
  ASSUME NEW c \in Clients, Typed, RegistrationOK, SendNames(c), UNCHANGED sessionVars
  PROVE  RegistrationOK'
<1> DEFINE pair == <<Field("request", c), Field("response", c)>>
<1>1. /\ up /\ up' = up /\ UNCHANGED <<receiver, received, raced, cut>>
      /\ at[c] = "names" /\ at' = [at EXCEPT ![c] = "close"]
      /\ serverPipe' = serverPipe \o pair /\ sent' = Append(sent, c)
  BY DEF SendNames, Move, sessionVars, workerVars
<1> SUFFICES ASSUME ~raced PROVE RegistrationOK'
  BY <1>1 DEF RegistrationOK
<1>2. at'[c] = "close" /\ \A d \in Clients \ {c} : at'[d] = at[d]
  BY <1>1 DEF Typed, TypeOK
<1>3. serverPipe \in Seq(PipeField) /\ PipeWhole /\ Heard
  BY <1>1 DEF RegistrationOK
<1>4. Naming = {c}
  BY <1>1, <1>3 DEF Naming, PipeWhole
<1>5. Naming' = {}
  BY <1>2, <1>4 DEF Naming
<1> DEFINE ahead == IF receiver = "names" THEN 1 ELSE 0
<1>6. /\ sent \in Seq(Clients) /\ Len(received) \in Nat /\ Len(received) <= Len(sent)
      /\ Whole(serverPipe, ahead, sent, Len(received), 1) /\ ahead \in {0, 1}
  BY <1>3, <1>4 DEF PipeWhole, Heard, Typed, TypeOK
<1> HIDE DEF ahead
<1>7. serverPipe' \in Seq(PipeField) /\ Whole(serverPipe', ahead, sent', Len(received), 0)
  BY <1>1, <1>3, <1>6, NamesWritten
<1> HIDE DEF pair
<1>8. serverPipe' # <<>>
  <2>1. /\ Len(sent') = Len(sent) + 1 /\ Len(sent) \in Nat
        /\ Len(serverPipe') = 3 * (Len(sent') - Len(received)) + 0 - ahead
    BY <1>1, <1>6, <1>7 DEF Whole
  <2>2. Len(serverPipe') > 0
    BY <1>6, <2>1
  <2> QED
    BY <1>7, <2>2
<1>9. PipeWhole'
  BY <1>1, <1>5, <1>7, <1>8 DEF PipeWhole, Whole, ahead
<1>10. Heard'
  <2>1. Len(sent') = Len(sent) + 1 /\ \A k \in 1..Len(sent) : sent'[k] = sent[k]
    BY <1>1, <1>6
  <2> QED
    BY <1>1, <1>3, <1>6, <2>1 DEF Heard
<1> QED
  BY <1>1, <1>7, <1>9, <1>10 DEF RegistrationOK

\* A client closes the pipe: if the receiver waits for an opcode, another client is to write it.
LEMMA CloseServerPipeRegistration ==
  ASSUME NEW c \in Clients, Typed, RegistrationOK, CloseServerPipe(c), UNCHANGED sessionVars
  PROVE  RegistrationOK'
<1>1. /\ at[c] = "close" /\ at' = [at EXCEPT ![c] = "openRequest"]
      /\ up' = up /\ UNCHANGED registrationVars /\ cut' = cut
  BY DEF CloseServerPipe, Move, sessionVars, workerVars
<1>2. at'[c] = "openRequest" /\ \A d \in Clients \ {c} : at'[d] = at[d]
  BY <1>1 DEF Typed, TypeOK
<1>3. Calm
  BY <1>1, <1>2 DEF Calm
<1> QED
  BY <1>1, <1>3, CalmStep

\* The receiver opens the pipe for one more registration.
LEMMA ReceiverOpensRegistration ==
  ASSUME Typed, RegistrationOK, ReceiverOpens, UNCHANGED sessionVars
  PROVE  RegistrationOK'
<1>1. /\ up /\ up' = up /\ UNCHANGED <<at, serverPipe, sent, received, cut>>
      /\ receiver = "open" /\ receiver' = IF Writers = {} THEN "opening" ELSE "opcode"
      /\ ~raced' => /\ ~raced
                    /\ ~(serverPipe = <<>> /\ Writers # {} /\ \A c \in Writers : at[c] = "close")
  BY DEF ReceiverOpens, sessionVars, workerVars
<1> SUFFICES ASSUME ~raced,
                    ~(serverPipe = <<>> /\ Writers # {} /\ \A c \in Writers : at[c] = "close")
             PROVE  RegistrationOK'
  BY <1>1 DEF RegistrationOK
<1>2. serverPipe \in Seq(PipeField) /\ PipeWhole /\ Heard
  BY <1>1 DEF RegistrationOK
<1>3. Naming' = Naming
  BY <1>1 DEF Naming
<1>4. ASSUME Naming # {}
      PROVE  serverPipe # <<>>
  <2>1. Len(serverPipe) = 3 * (Len(sent) - Len(received)) + 1 - 0
    BY <1>1, <1>2, <1>4 DEF PipeWhole, Whole
  <2>2. Len(received) <= Len(sent) /\ Len(received) \in Nat /\ Len(sent) \in Nat
    BY <1>2 DEF Heard, Typed, TypeOK
  <2>3. Len(serverPipe) > 0
    BY <2>1, <2>2
  <2> QED
    BY <2>3
<1>5. ASSUME receiver' = "opcode", serverPipe = <<>>
      PROVE  \E c \in Clients : at[c] = "opcode"
  <2>1. PICK c \in Writers : at[c] # "close"
    BY <1>1, <1>5
  <2>2. c \in Clients /\ at[c] # "names"
    BY <1>4, <1>5 DEF Writers, Naming
  <2> QED
    BY <2>1, <2>2 DEF Writers
<1>6. receiver' # "names" /\ receiver # "names"
  BY <1>1
<1>7. PipeWhole'
  BY <1>1, <1>2, <1>3, <1>5, <1>6 DEF PipeWhole, Whole
<1>8. Heard'
  BY <1>1, <1>2 DEF Heard
<1> QED
  BY <1>1, <1>2, <1>7, <1>8 DEF RegistrationOK

\* The receiver reads an opcode, which is there.
LEMMA ReadSetupRegistration ==
  ASSUME Typed, RegistrationOK, ReadSetup, UNCHANGED sessionVars
  PROVE  RegistrationOK'
<1>1. /\ up /\ UNCHANGED <<at, sent, received, raced, cut>>
      /\ receiver = "opcode" /\ CanRead(serverPipe, Writers # {})
      /\ serverPipe' = AfterRead(serverPipe, 1)
      /\ ReadBuffer(serverPipe, 1)[1].is = "setup" => receiver' = "names" /\ up' = up
  BY DEF ReadSetup, sessionVars, workerVars
<1> SUFFICES ASSUME ~raced PROVE RegistrationOK'
  BY <1>1 DEF RegistrationOK
<1>2. serverPipe \in Seq(PipeField) /\ PipeWhole /\ Heard
  BY <1>1 DEF RegistrationOK
<1>3. serverPipe # <<>>
  BY <1>1, <1>2 DEF PipeWhole, CanRead, Writers
<1> DEFINE more == IF Naming = {} THEN 0 ELSE 1
<1>4. /\ sent \in Seq(Clients) /\ Len(received) \in Nat /\ Len(received) <= Len(sent)
      /\ Whole(serverPipe, 0, sent, Len(received), more) /\ more \in {0, 1}
  BY <1>1, <1>2 DEF PipeWhole, Heard, Typed, TypeOK
<1> HIDE DEF more
<1>5. /\ ReadBuffer(serverPipe, 1)[1] = Field("setup", 0)
      /\ serverPipe' \in Seq(PipeField) /\ Whole(serverPipe', 1, sent, Len(received), more)
  BY <1>1, <1>2, <1>3, <1>4, SetupRead
<1>6. receiver' = "names" /\ up' = up
  <2>1. Field("setup", 0).is = "setup"
    BY DEF Field
  <2> QED
    BY <1>1, <1>5, <2>1
<1>7. Naming' = Naming
  BY <1>1 DEF Naming
<1>8. PipeWhole'
  BY <1>1, <1>2, <1>5, <1>6, <1>7 DEF PipeWhole, Whole, more
<1>9. Heard'
  BY <1>1, <1>2 DEF Heard
<1> QED
  BY <1>1, <1>5, <1>6, <1>8, <1>9 DEF RegistrationOK

\* The receiver reads the names that belong to the opcode.
LEMMA ReceiveRegistration ==
  ASSUME NEW c \in Names, Typed, RegistrationOK, Receive(c)
  PROVE  RegistrationOK'
<1>1. /\ up /\ up' = up /\ UNCHANGED <<at, sent, raced, cut>>
      /\ receiver = "names" /\ CanRead(serverPipe, Writers # {})
      /\ NamesOf(ReadBuffer(serverPipe, 2), c)
      /\ serverPipe' = AfterRead(serverPipe, 2)
      /\ received' = Append(received, c) /\ receiver' = "open"
  BY DEF Receive, ReadNames, sessionVars, workerVars
<1> SUFFICES ASSUME ~raced PROVE RegistrationOK'
  BY <1>1 DEF RegistrationOK
<1>2. serverPipe \in Seq(PipeField) /\ PipeWhole /\ Heard
  BY <1>1 DEF RegistrationOK
<1> DEFINE more == IF Naming = {} THEN 0 ELSE 1
<1> DEFINE heard == Len(received)
<1>3. /\ sent \in Seq(Clients) /\ heard \in Nat /\ heard <= Len(sent) /\ Len(sent) \in Nat
      /\ Whole(serverPipe, 1, sent, heard, more) /\ more \in {0, 1}
      /\ received \in Seq(Names)
  BY <1>1, <1>2 DEF PipeWhole, Heard, Typed, TypeOK, Names
<1> HIDE DEF more, heard
<1>4. heard < Len(sent)
  <2> SUFFICES ASSUME heard = Len(sent) PROVE FALSE
    BY <1>3
  <2>1. Len(serverPipe) = more - 1 /\ Len(serverPipe) >= 0
    BY <1>2, <1>3 DEF Whole
  <2>2. serverPipe = <<>> /\ Naming # {}
    BY <1>2, <1>3, <2>1 DEF more
  <2> QED
    BY <1>1, <2>2 DEF CanRead, Naming, Writers
<1>5. /\ ReadBuffer(serverPipe, 2)[1] = Field("request", sent[heard + 1])
      /\ serverPipe' \in Seq(PipeField) /\ Whole(serverPipe', 0, sent, heard + 1, more)
  BY <1>1, <1>2, <1>3, <1>4, NamesRead
<1>6. c = sent[heard + 1]
  BY <1>1, <1>5 DEF NamesOf, Field
<1>7. /\ Len(received') = heard + 1 /\ received'[heard + 1] = c
      /\ \A k \in 1..heard : received'[k] = received[k]
  BY <1>1, <1>3 DEF heard
<1>8. Naming' = Naming
  BY <1>1 DEF Naming
<1>9. PipeWhole'
  BY <1>1, <1>2, <1>5, <1>7, <1>8 DEF PipeWhole, Whole, more
<1>10. Heard'
  <2>1. Len(received') <= Len(sent')
    BY <1>1, <1>3, <1>4, <1>7
  <2>2. ASSUME NEW k \in 1..Len(received')
        PROVE  received'[k] = sent'[k]
    <3>1. CASE k = heard + 1
      BY <1>1, <1>6, <1>7, <3>1
    <3>2. CASE k # heard + 1
      <4>1. k \in 1..heard
        BY <1>3, <1>7, <3>2
      <4> QED
        BY <1>1, <1>2, <1>7, <4>1 DEF Heard, heard
    <3> QED
      BY <3>1, <3>2
  <2> QED
    BY <2>1, <2>2 DEF Heard
<1> QED
  BY <1>1, <1>5, <1>9, <1>10 DEF RegistrationOK

\* All steps of a client that registers.
LEMMA RegisterRegistration ==
  ASSUME NEW c \in Clients, Typed, RegistrationOK, Register(c), UNCHANGED sessionVars
  PROVE  RegistrationOK'
BY OpenServerPipeRegistration, SendOpcodeRegistration, SendNamesRegistration,
   CloseServerPipeRegistration DEF Register

\* Calls happen after registration.
LEMMA CallRegistration ==
  ASSUME NEW c \in Clients, Typed, RegistrationOK, UNCHANGED registrationVars,
         Call(c) \/ Leave(c) \/ BrokenPipe(c)
  PROVE  RegistrationOK'
<1>1. up' = up /\ cut' = cut
  BY DEF Call, ReadId, Ask, SendArguments, ReadStatus, ReadSize, ReadItems, Quit, Leave,
         BrokenPipe, ReadResponse, workerVars, sessionVars
<1>2. up => \A d \in Clients :
              at'[d] = at[d] \/ {at[d], at'[d]} \cap {"opcode", "names"} = {}
  BY DEF Call, ReadId, Ask, SendArguments, ReadStatus, ReadSize, ReadItems, Quit, Leave,
         BrokenPipe, ReadResponse, Move, Typed, TypeOK
<1>3. Calm
  BY <1>1, <1>2 DEF Calm
<1> QED
  BY <1>1, <1>3, CalmStep

\* Nor does a worker disturb it; it can end the server by an answer that was cut.
LEMMA AnswerRegistration ==
  ASSUME NEW w \in Workers, NEW c \in Clients, Typed, RegistrationOK, Together(w, c),
         UNCHANGED registrationVars, Answer(w, c) \/ GiveUp(w, c)
  PROVE  RegistrationOK'
<1>1. up /\ \A d \in Clients : cut[d] => cut'[d]
  BY DEF Answer, OpenRequestPipe, OpenResponsePipe, SendId, ReadOpcode, ReadArguments, Execute,
         Write, Killed, GiveUp, Typed, Shapes, sessionVars, workerVars
<1>2. \A d \in Clients : at'[d] = at[d] \/ {at[d], at'[d]} \cap {"opcode", "names"} = {}
  BY DEF Answer, OpenRequestPipe, OpenResponsePipe, SendId, ReadOpcode, ReadArguments, Execute,
         Write, Killed, GiveUp, Move, Typed, TypeOK
<1>3. ~up' => cut[c]
  <2>1. ASSUME Killed(w, c)
        PROVE  cut[c]
    BY <2>1 DEF Killed, Together, Meeting, InStep, Resting, Requesting, Answering, Astray
  <2> QED
    BY <1>1, <2>1 DEF Answer, OpenRequestPipe, OpenResponsePipe, SendId, ReadOpcode,
           ReadArguments, Execute, Write, GiveUp
<1>4. Calm
  BY <1>1, <1>2 DEF Calm
<1> QED
  BY <1>3, <1>4, CalmStep

\* The hand-over does not touch the pipe.
LEMMA HandoverRegistration ==
  ASSUME NEW w \in Workers, Typed, RegistrationOK, Take(w) \/ OpenFails(w) \/ EndSession(w)
  PROVE  RegistrationOK'
<1>1. UNCHANGED <<at, up, registrationVars, cut>>
  BY DEF Take, OpenFails, EndSession, CloseSession
<1>2. Calm
  BY <1>1 DEF Calm
<1> QED
  BY <1>1, <1>2, CalmStep

-----------------------------------------------------------------------------
\* The theorems.

\* Initially all is empty and every client is new.
LEMMA InitIInv == Init => IInv
<1> SUFFICES ASSUME Init PROVE IInv
  OBVIOUS
<1> USE DEF Init, RegistrationInit, SessionInit, Handover!Init
<1>1. TypeOK
  <2>1. sent \in Seq(Clients) /\ received \in Seq(Clients \cup Garbled)
    BY EmptySeq
  <2>2. \A c \in Clients : Len(responses[c]) <= Capacity
    <3>1. \A c \in Clients : responses[c] = <<>>
      OBVIOUS
    <3>2. Len(<<>>) = 0 /\ 0 <= Capacity
      BY CapacityAssumption
    <3> HIDE DEF Init
    <3> QED
      BY ONLY <3>1, <3>2
  <2>3. /\ asked \in [Clients -> Nat] /\ (\A c \in Clients : asked[c] <= MaxCalls[c])
        /\ carried \in [Clients -> Nat]
        /\ want \in [Clients -> Nat] /\ kind \in [Clients -> Ops \cup {NoOp}]
    BY MaxCallsAssumption
  <2> QED
    BY <2>1, <2>2, <2>3 DEF TypeOK
<1>2. Shapes
  BY DEF Shapes, Names
<1>3. HandoverOK
  BY DEF HandoverOK
<1>4. RegistrationOK
  BY DEF RegistrationOK, Heard, PipeWhole, Whole, Naming
<1>5. SessionsOK
  BY NoClientAssumption DEF SessionsOK, Waits, Unheard, Early
<1> QED
  BY <1>1, <1>2, <1>3, <1>4, <1>5 DEF IInv

\* The steps of the server's receiver.
LEMMA ReceiverInv ==
  ASSUME IInv, Receiver
  PROVE  IInv'
<1>0. Typed /\ HandoverOK /\ RegistrationOK
  BY DEF IInv, Typed
<1>1. CASE (ReceiverOpens \/ ReadSetup) /\ UNCHANGED <<sessionVars, handoverVars>>
  <2>1. up /\ SessionsOK
    BY <1>1 DEF IInv, ReceiverOpens, ReadSetup
  <2>2. HandoverOK'
    BY <1>0, <1>1 DEF HandoverOK, handoverVars
  <2> QED
    BY <1>0, <1>1, <2>1, <2>2, ReceiverTyped, ReceiverOpensRegistration,
       ReadSetupRegistration, ReceiverSessions DEF IInv, Typed
<1>2. ASSUME NEW c \in Names, Receive(c)
      PROVE  IInv'
  <2>1. SessionsOK
    BY <1>2 DEF IInv, Receive, ReadNames
  <2> QED
    BY <1>0, <1>2, <2>1, ReceiveTyped, ReceiveHandover, ReceiveRegistration, ReceiveSessions
       DEF IInv, Typed
<1> QED
  BY <1>1, <1>2 DEF Receiver, Names

\* A worker between two sessions.
LEMMA HandoverInv ==
  ASSUME IInv, NEW w \in Workers, Take(w) \/ OpenFails(w) \/ EndSession(w)
  PROVE  IInv'
<1>1. Typed /\ HandoverOK /\ RegistrationOK
  BY DEF IInv, Typed
<1>2. SessionsOK
  BY DEF IInv, Take, OpenFails, EndSession, CloseSession
<1> QED
  BY <1>1, <1>2, HandoverTyped, TakeHandover, EndHandover, HandoverRegistration,
     TakeSessions, EndSessions DEF IInv, Typed

\* A worker in a session.
LEMMA AnswerInv ==
  ASSUME IInv, NEW w \in Workers, NEW c \in Clients, serving[w] = c, Outside,
         Answer(w, c) \/ GiveUp(w, c)
  PROVE  IInv'
<1>1. Typed /\ HandoverOK /\ RegistrationOK
  BY DEF IInv, Typed
<1>2. SessionsOK
  BY DEF IInv, Answer, OpenRequestPipe, OpenResponsePipe, SendId, ReadOpcode, ReadArguments,
         Execute, Write, Killed, GiveUp
<1>3. Together(w, c)
  BY <1>2 DEF SessionsOK
<1>4. HandoverOK'
  BY <1>1 DEF HandoverOK, Outside, handoverVars
<1>5. Typed' /\ RegistrationOK'
  BY <1>1, <1>3, AnswerTyped, AnswerRegistration DEF Outside
<1>6. up' => SessionsOK'
  BY <1>1, <1>2, AnswerSessions DEF Outside
<1> QED
  BY <1>4, <1>5, <1>6 DEF IInv, Typed

\* A client that registers.
LEMMA RegisterInv ==
  ASSUME IInv, NEW c \in Clients, Register(c), UNCHANGED <<sessionVars, handoverVars>>
  PROVE  IInv'
<1>1. Typed /\ HandoverOK /\ RegistrationOK
  BY DEF IInv, Typed
<1>2. up' => SessionsOK
  BY DEF IInv, Register, OpenServerPipe, SendOpcode, SendNames, CloseServerPipe
<1>3. HandoverOK'
  BY <1>1 DEF HandoverOK, handoverVars
<1>4. Typed' /\ RegistrationOK'
  BY <1>1, RegisterTyped, RegisterRegistration
<1>5. up' => SessionsOK'
  BY <1>1, <1>2, RegisterSessions
<1> QED
  BY <1>3, <1>4, <1>5 DEF IInv, Typed

\* A client in its session.
LEMMA CallInv ==
  ASSUME IInv, NEW c \in Clients, Call(c) \/ Leave(c) \/ BrokenPipe(c), Outside
  PROVE  IInv'
<1>1. Typed /\ HandoverOK /\ RegistrationOK
  BY DEF IInv, Typed
<1>2. HandoverOK'
  BY <1>1 DEF HandoverOK, Outside, handoverVars
<1>3. Typed' /\ RegistrationOK'
  BY <1>1, CallTyped, CallRegistration DEF Outside
<1>4. ASSUME up'
      PROVE  SessionsOK'
  <2>1. up /\ (Call(c) \/ Leave(c))
    <3>1. up' = up
      BY DEF Call, ReadId, Ask, SendArguments, ReadStatus, ReadSize, ReadItems, Quit, Leave,
             BrokenPipe, ReadResponse
    <3> QED
      BY <1>4, <3>1 DEF BrokenPipe
  <2> QED
    BY <1>1, <2>1, CallSessions DEF IInv, Outside
<1> QED
  BY <1>2, <1>3, <1>4 DEF IInv, Typed

\* The inductive invariant.
THEOREM Invariance == Spec => []IInv
<1>1. Init => IInv
  BY InitIInv
<1>2. IInv /\ [Next]_vars => IInv'
  <2> SUFFICES ASSUME IInv, [Next]_vars PROVE IInv'
    OBVIOUS
  <2>1. CASE UNCHANGED vars
    <3>1. UNCHANGED <<at, up, registrationVars, sessionVars, handoverVars>>
      BY <2>1 DEF vars
    <3>2. Typed /\ HandoverOK /\ RegistrationOK /\ (up => SessionsOK)
      BY DEF IInv, Typed
    <3>3. Typed'
      BY <3>1, <3>2 DEF Typed, TypeOK, Shapes, registrationVars, sessionVars, clientVars,
                        workerVars, handoverVars
    <3>4. HandoverOK'
      BY <3>1, <3>2 DEF HandoverOK, handoverVars
    <3>5. RegistrationOK'
      BY <3>1, <3>2, CalmStep DEF Calm, sessionVars, workerVars
    <3>6. up' => SessionsOK'
      BY <3>1, <3>2, EarlyStep DEF handoverVars
    <3> QED
      BY <3>3, <3>4, <3>5, <3>6 DEF IInv, Typed
  <2>2. CASE Receiver
    BY <2>2, ReceiverInv
  <2>3. ASSUME NEW w \in Workers, Take(w) \/ Serve(w)
        PROVE  IInv'
    BY <2>3, HandoverInv, AnswerInv DEF Serve, Outside
  <2>4. ASSUME NEW c \in Clients, RunClient(c)
        PROVE  IInv'
    BY <2>4, RegisterInv, CallInv DEF RunClient, Outside
  <2>5. CASE Fail
    BY <2>5, AnswerInv, CallInv DEF Fail, Outside
  <2> QED
    BY <2>1, <2>2, <2>3, <2>4, <2>5 DEF Next
<1> QED
  BY <1>1, <1>2, PTL DEF Spec

\* The type of every variable; a pipe never holds more than fits in it.
THEOREM Typing == Spec => []TypeOK
<1>1. IInv => TypeOK
  BY DEF IInv
<1> QED
  BY <1>1, Invariance, PTL

\* receive_client hears every registration whole and in the order of the names,
\* and no opcode ends the server, however many clients register: unless two
\* registrations overlap, or a close and an open.
THEOREM RegistrationsHeardWhole == Spec => []RegistrationsWhole
<1>1. IInv => RegistrationsWhole
  <2> SUFFICES ASSUME IInv, ~raced
               PROVE  IsPrefix(received, sent) /\ (up \/ \E c \in Clients : cut[c])
    BY DEF RegistrationsWhole
  <2>1. /\ Len(received) <= Len(sent) /\ Len(received) \in Nat
        /\ \A k \in 1..Len(received) : received[k] = sent[k]
        /\ up \/ \E c \in Clients : cut[c]
    BY DEF IInv, RegistrationOK, Heard, TypeOK
  <2>2. SubSeq(received, 1, Len(received)) = SubSeq(sent, 1, Len(received))
    BY <2>1 DEF IInv, TypeOK
  <2> QED
    BY <2>1, <2>2 DEF IsPrefix
<1> QED
  BY <1>1, Invariance, PTL

\* Whatever calls a client makes and whatever they find, the client and its
\* worker agree on which call they are at: no answer is left for the next call,
\* and none is taken for another's.
THEOREM EndsAgree == Spec => []CallsMatch
<1>1. IInv => CallsMatch
  <2> SUFFICES ASSUME IInv, NEW c \in Clients, up, ~cut[c]
               PROVE  /\ ~mixed[c]
                      /\ carried[c] \in {asked[c] - 1, asked[c]}
                      /\ at[c] = "next" /\ asked[c] > 0 =>
                           carried[c] = asked[c] /\ requests[c] = <<>> /\ responses[c] = <<>>
    BY DEF CallsMatch
  <2>1. SessionsOK
    BY DEF IInv
  <2>2. CASE Queued(c)
    BY <2>1, <2>2 DEF SessionsOK, Queued, Waits, Unheard, Early
  <2>3. ASSUME NEW w \in Workers, serving[w] = c
        PROVE  /\ ~mixed[c]
               /\ carried[c] \in {asked[c] - 1, asked[c]}
               /\ at[c] = "next" /\ asked[c] > 0 =>
                    carried[c] = asked[c] /\ requests[c] = <<>> /\ responses[c] = <<>>
    <3>1. Together(w, c)
      BY <2>1, <2>3 DEF SessionsOK
    <3> QED
      BY <3>1 DEF Together, Astray, Meeting, Unheard, Early, InStep, Resting, Requesting,
                  Answering, Idle
  <2>4. CASE Past(c)
    BY <2>4 DEF Past, Idle
  <2> QED
    BY <2>1, <2>2, <2>3, <2>4 DEF SessionsOK, Queued
<1> QED
  BY <1>1, Invariance, PTL

=============================================================================
