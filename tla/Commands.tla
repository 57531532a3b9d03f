------------------------------ MODULE Commands ------------------------------
(***************************************************************************)
(* How the commands of a .jobs file are read: get_next and the parse_      *)
(* functions of P1/parser.c, which client/parser.c repeats without BARRIER,*)
(* under the loop of the client (client/main.c) or of a thread of Part 1   *)
(* (thread_execute, P1/main.c).                                            *)
(*                                                                         *)
(* The parser has no line buffer: it reads a character at a time, except   *)
(* for the rest of a keyword, which is one read of a fixed length whatever *)
(* is there, and after an error it skips to the next newline.  So where    *)
(* one command ends and the next begins depends on which character the     *)
(* error was seen at.                                                      *)
(*                                                                         *)
(* A file is a sequence of symbols: a keyword, a run of digits, or one     *)
(* character.  A "wrong" symbol is the first letter of a keyword that the  *)
(* characters after it do not complete.                                    *)
(***************************************************************************)
EXTENDS Integers, Sequences, FiniteSetsExt, SequencesExt

CONSTANTS
  Files,            \* the files: sequences of symbols
  MaxReservation,   \* MAX_RESERVATION_SIZE
  UintMax,          \* UINT_MAX
  Stale             \* what strtoul may make of digits that no '\0' ends

WithArguments == {"CREATE ", "RESERVE ", "SHOW ", "WAIT "}
Bare == [ems |-> {"LIST", "HELP", "BARRIER"}, client |-> {"LIST", "HELP"}]
Characters == {" ", "[", "(", ",", ")", "]", "#", "newline", "other"}

\* t: which symbol; n: the number that digits spell, or the characters that
\* are read after the first letter of a "wrong" keyword; w: its characters,
\* for digits no more than read_uint's buffer holds.
Symbols == [t : WithArguments \cup Bare.ems \cup Characters \cup {"digits", "wrong"},
            n : Nat, w : 1..15]

ASSUME FilesAssumption ==
  \A f \in Files : /\ f \in Seq(Symbols)
                   /\ \A k \in 2..Len(f) : f[k].t = "digits" => f[k - 1].t # "digits"
ASSUME NumbersAssumption == MaxReservation \in Nat \ {0} /\ UintMax \in Nat /\ Stale \subseteq Nat

VARIABLES
  program,  \* "ems", a thread of Part 1, or "client"
  file,
  pos,      \* the symbol to be read next
  state,    \* "next": get_next; a keyword: its arguments; "ended"; "stopped"
  from,     \* where the command that is being read begins
  done      \* history: the commands carried out

vars == <<program, file, pos, state, from, done>>

Init ==
  /\ program \in {"ems", "client"}
  /\ file \in Files
  /\ pos = 1
  /\ state = "next"
  /\ from = 1
  /\ done = <<>>

-----------------------------------------------------------------------------
\* Reading characters.

End == Len(file) + 1
Symbol(p) == IF p = End THEN "end" ELSE file[p].t

Cleanup(p) ==
  Min({End} \cup {q + 1 : q \in {k \in p..Len(file) : file[k].t = "newline"}})

\* How many characters there are from p up to each later place.
CharactersFrom(p) ==
  LET upTo[q \in p..End] == IF q = p THEN 0 ELSE upTo[q - 1] + file[q - 1].w IN upTo

\* read(fd, buf, n): where n characters from p on end, the symbol cut in two
\* by that counted as read: no newline is in the rest of it.
ReadOver(p, n) == Min({End} \cup {q \in p..End : CharactersFrom(p)[q] >= n})

\* read_uint.  No digits make 0.  At the end of the file the digits stay
\* without a '\0', and strtoul reads on in what the buffer held before.
ReadUint(p) ==
  LET outcome(n, next, to) == [ok |-> n <= UintMax, value |-> n, next |-> next, to |-> to]
      digits == Symbol(p) = "digits"
      after == IF digits THEN p + 1 ELSE p
  IN  IF after = End THEN {outcome(n, "end", End) : n \in Stale}
      ELSE {outcome(IF digits THEN file[p].n ELSE 0, Symbol(after), after + 1)}

-----------------------------------------------------------------------------
\* Arguments.  A reading: whether all was well so far, the symbol read last,
\* the next to read and the numbers read.  Functions take sets of readings.

Start == {[ok |-> TRUE, next |-> state, to |-> pos, args |-> <<>>]}

\* read_uint(...) != 0 || ch is none of ends
Number(readings, ends) ==
  {r \in readings : ~r.ok} \cup
  UNION {{[ok |-> u.ok /\ u.next \in ends, next |-> u.next, to |-> u.to,
           args |-> Append(r.args, u.value)] : u \in ReadUint(r.to)} :
         r \in {s \in readings : s.ok}}

\* read(fd, &ch, 1) != 1 || ch is none of expected
Char(readings, expected) ==
  {r \in readings : ~r.ok} \cup
  {[r EXCEPT !.ok = Symbol(r.to) \in expected, !.next = Symbol(r.to),
             !.to = IF r.to = End THEN End ELSE r.to + 1] : r \in {s \in readings : s.ok}}

LineEnds == {"newline", "end"}

\* parse_create
CreateArguments == Number(Number(Number(Start, {" "}), {" "}), LineEnds)

\* One more seat of parse_reserve's list, unless the list has been closed.
OneMoreSeat(readings) ==
  LET open == {r \in readings : r.ok /\ r.next # "]"}
  IN  (readings \ open)
        \cup Char(Number(Number(Char(open, {"("}), {","}), {")"}), {" ", "]"})

SeatsRead[k \in 0..MaxReservation] ==
  IF k = 0 THEN Char(Number(Start, {" "}), {"["}) ELSE OneMoreSeat(SeatsRead[k - 1])

\* A slip: the array may be full.
ReserveArgumentsFull == Char(SeatsRead[MaxReservation], {"newline"})

\* parse_reserve: at most MaxReservation seats are read, that many is refused.
ReserveArguments ==
  LET fewer == {[r EXCEPT !.ok = r.ok /\ Len(r.args) < 1 + 2 * MaxReservation] :
                r \in SeatsRead[MaxReservation]}
  IN  Char(fewer, {"newline"})

\* parse_show
ShowArguments == Number(Start, LineEnds)

\* parse_wait with a place for the thread.  A thread named makes it return 1,
\* which thread_execute takes for an error.
WaitArguments ==
  {[r EXCEPT !.ok = r.ok /\ r.next # " "] : r \in Number(Start, LineEnds \cup {" "})}

\* A slip: cleanup also after a line that has been read to its end.
DelayArgumentsCleaned ==
  {[r EXCEPT !.to = IF r.ok THEN Cleanup(r.to) ELSE r.to] :
   r \in Number(Start, LineEnds \cup {" "})}

\* parse_wait without one: what comes after the delay is skipped.
DelayArguments ==
  {[r EXCEPT !.to = IF r.ok /\ r.next = " " THEN Cleanup(r.to) ELSE r.to] :
   r \in Number(Start, LineEnds \cup {" "})}

Arguments ==
  CASE state = "CREATE "  -> CreateArguments
    [] state = "RESERVE " -> ReserveArguments
    [] state = "SHOW "    -> ShowArguments
    [] state = "WAIT "    -> IF program = "client" THEN DelayArguments ELSE WaitArguments

-----------------------------------------------------------------------------
\* get_next.

CarryOut(command, begin, to, args) ==
  /\ done' = Append(done, [command |-> command, from |-> begin, to |-> to, args |-> args])
  /\ pos' = to
  /\ state' = "next"

\* A keyword and the space after it.
GetCommand ==
  /\ state = "next"
  /\ Symbol(pos) \in WithArguments
  /\ state' = Symbol(pos)
  /\ from' = pos
  /\ pos' = pos + 1
  /\ UNCHANGED <<program, file, done>>

\* LIST, HELP and BARRIER: the next character must end the line.
GetBare ==
  /\ state = "next"
  /\ Symbol(pos) \in Bare[program]
  /\ Symbol(pos + 1) \in LineEnds
  /\ CarryOut(Symbol(pos), pos, IF pos + 1 = End THEN End ELSE pos + 2, <<>>)
  /\ UNCHANGED <<program, file, from>>

\* CMD_EMPTY
GetEmpty ==
  /\ state = "next"
  /\ Symbol(pos) \in {"#", "newline"}
  /\ pos' = IF Symbol(pos) = "#" THEN Cleanup(pos + 1) ELSE pos + 1
  /\ UNCHANGED <<program, file, state, from, done>>

\* CMD_INVALID: a bare keyword that goes on, a keyword that is not one, or a
\* letter that begins none.
GetInvalid ==
  /\ state = "next"
  /\ \/ /\ Symbol(pos) \in Bare[program]
        /\ Symbol(pos + 1) \notin LineEnds
        /\ pos' = Cleanup(pos + 2)
     \/ /\ Symbol(pos) = "wrong"
        /\ pos' = Cleanup(ReadOver(pos + 1, file[pos].n))
     \/ /\ Symbol(pos) \notin WithArguments \cup Bare[program]
                              \cup {"wrong", "#", "newline", "end"}
        /\ pos' = Cleanup(pos + 1)
  /\ UNCHANGED <<program, file, state, from, done>>

\* EOC
EndOfCommands ==
  /\ state = "next"
  /\ pos = End
  /\ state' = "ended"
  /\ UNCHANGED <<program, file, pos, from, done>>

-----------------------------------------------------------------------------
\* The arguments of a command.

CommandParsed ==
  /\ state \in WithArguments
  /\ \E r \in Arguments : r.ok /\ CarryOut(state, from, r.to, r.args)
  /\ UNCHANGED <<program, file, from>>

\* A slip: an error leaves the rest of the line to get_next.
CommandRefusedInPlace ==
  /\ state \in WithArguments
  /\ \E r \in Arguments : ~r.ok /\ pos' = r.to
  /\ state' = IF program = "ems" /\ state # "RESERVE " THEN "stopped" ELSE "next"
  /\ UNCHANGED <<program, file, from, done>>

\* The error paths all end in cleanup.  A thread of Part 1 then stops, but for
\* RESERVE: it asks for the mutex it holds (JobThreads).
CommandRefused ==
  /\ state \in WithArguments
  /\ \E r \in Arguments : ~r.ok /\ pos' = Cleanup(r.to)
  /\ state' = IF program = "ems" /\ state # "RESERVE " THEN "stopped" ELSE "next"
  /\ UNCHANGED <<program, file, from, done>>

Next ==
  \/ GetCommand \/ GetBare \/ GetEmpty \/ GetInvalid \/ EndOfCommands
  \/ CommandParsed \/ CommandRefused

Spec == Init /\ [][Next]_vars /\ WF_vars(Next)

-----------------------------------------------------------------------------
\* What a line says, read as a whole.

Starts == {p \in 1..Len(file) : p = 1 \/ file[p - 1].t = "newline"}

\* The marks of a line: its symbols but the digits.  The places of n of them
\* from p on.
NextMark(q) == Min({End} \cup {k \in (q + 1)..Len(file) : file[k].t # "digits"})
MarksFrom(p, n) == LET at[i \in 0..n] == IF i = 0 THEN p ELSE NextMark(at[i - 1]) IN at

\* The form of a line: what each mark behind the keyword may be, and which of
\* them a number stands before.
Form(marks, numbers) == [marks |-> marks, numbers |-> numbers]

ReserveForm(k) ==
  Form([i \in 1..(4 * k + 3) |->
          CASE i = 1         -> {" "}
            [] i = 2         -> {"["}
            [] i = 4 * k + 2 -> {"]"}
            [] i = 4 * k + 3 -> {"newline"}
            [] OTHER         -> {<<"(", ",", ")", " ">>[1 + ((i + 1) % 4)]}],
       [j \in 1..(2 * k + 1) |-> IF j % 2 = 0 THEN 2 * j ELSE 2 * j - 1])

Forms(word) ==
  CASE word = "CREATE "  -> {Form(<<{" "}, {" "}, {"newline"}>>, <<1, 2, 3>>)}
    [] word = "RESERVE " -> {ReserveForm(k) : k \in 1..(MaxReservation - 1)}
    [] word = "SHOW "    -> {Form(<<{"newline"}>>, <<1>>)}
    [] word = "WAIT "    ->
         {Form(<<{"newline"} \cup IF program = "client" THEN {" "} ELSE {}>>, <<1>>)}
    [] word \in Bare[program] -> {Form(<<{"newline"}>>, <<>>)}
    [] OTHER -> {}

\* The marks are those of the form, and digits stand only where a number is
\* due, none too large.
Fits(p, form) ==
  LET at == MarksFrom(p, Len(form.marks))
  IN  \A i \in 1..Len(form.marks) :
        /\ Symbol(at[i]) \in form.marks[i]
        /\ file[at[i] - 1].t = "digits" =>
             i \in Range(form.numbers) /\ file[at[i] - 1].n <= UintMax

\* 0 where no digits are.
NumberBefore(q) == IF file[q - 1].t = "digits" THEN file[q - 1].n ELSE 0

\* The numbers that the line at p gives its command; {} if it is not right.
Says(p) ==
  {[j \in 1..Len(form.numbers) |->
      NumberBefore(MarksFrom(p, Len(form.marks))[form.numbers[j]])] :
   form \in {f \in Forms(file[p].t) : Fits(p, f)}}

\* Every character of a keyword that the line spells wrong is on the line.
LongEnough(p) ==
  file[p].t = "wrong" => CharactersFrom(p + 1)[Cleanup(p) - 1] >= file[p].n

\* A line that is right, is a comment or empty, or holds a character that no
\* command has: not one that is right as far as it goes.
Complete(p) ==
  \/ Says(p) # {} \/ file[p].t \in {"#", "newline"}
  \/ \E k \in p..(Cleanup(p) - 1) : file[k].t = "other"

-----------------------------------------------------------------------------
\* Properties.

\* A command that is carried out is a line of the file, the whole of it and
\* nothing else, and each line is carried out once at most and in its turn,
\* whatever errors came before.
WholeLines ==
  /\ \A k \in DOMAIN done :
       /\ done[k].from \in Starts
       /\ done[k].to = Cleanup(done[k].from)
       /\ done[k].command = file[done[k].from].t
  /\ \A k, l \in DOMAIN done : k < l => done[k].to <= done[l].from

\* If a newline ends the line, its numbers are those on the line.  (Without one
\* the last number may be completed by what read_uint's buffer held before.)
NumbersAsWritten ==
  \A k \in DOMAIN done :
    file[done[k].to - 1].t = "newline" => done[k].args \in Says(done[k].from)

\* Errors cost no other line: a well-formed line is carried out when the line
\* before it is complete and no line before it breaks off inside a keyword.
\* (A line that breaks off is found wrong at its newline, and takes lines after
\* it along.)
NoLineLost ==
  \A p \in Starts :
    /\ Cleanup(p) <= pos
    /\ state \notin WithArguments
    /\ file[Cleanup(p) - 1].t = "newline"
    /\ Says(p) # {}
    /\ \A q \in Starts : q < p =>
         /\ LongEnough(q)
         /\ Cleanup(q) = p => Complete(q)
    => \E k \in 1..Len(done) : done[k].from = p

=============================================================================
