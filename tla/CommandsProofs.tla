--------------------------- MODULE CommandsProofs ---------------------------
(***************************************************************************)
(* What holds of the parsers for every file, well formed or not: a command *)
(* that is carried out is a line of the file and has the numbers that are  *)
(* written there, each line is carried out once at most, and an error      *)
(* costs no line but those that it runs into.                              *)
(***************************************************************************)
EXTENDS Commands, WellFoundedInduction, TLAPS

\* What a symbol read may be.
Tokens == WithArguments \cup Bare.ems \cup Characters \cup {"digits", "wrong", "end"}

\* A command that was carried out.
Entry == [command : Tokens, from : Nat, to : Nat, args : Seq(Nat)]

\* Where a line begins, or the file ends.
AtLine(p) == p \in Starts \cup {End}

\* No command is begun but at the beginning of a line.
PlaceOK ==
  /\ program \in {"ems", "client"}
  /\ file \in Files \cap Seq(Symbols)
  /\ pos \in 1..End
  /\ state = "next" => AtLine(pos)
  /\ state \in WithArguments => from \in Starts /\ pos = from + 1 /\ file[from].t = state

\* What has been carried out lies before the line that is read.
Reached == IF state \in WithArguments THEN from ELSE pos
DoneOK ==
  /\ done \in Seq(Entry)
  /\ WholeLines
  /\ \A k \in DOMAIN done : done[k].to <= Reached

\* The inductive invariant.
IInv == PlaceOK /\ DoneOK

-----------------------------------------------------------------------------
\* Places.

\* Sets of numbers have a least element.
LEMMA LeastElement ==
  ASSUME NEW S, S \subseteq Nat, S # {}
  PROVE  Min(S) \in S /\ \A n \in S : Min(S) <= n
<1>1. PICK m \in S : \A n \in S : ~(<<n, m>> \in OpToRel(<, Nat))
  BY NatLessThanWellFounded, WFMin
<1>2. \A n \in S : <<n, m>> \in Nat \X Nat
  OBVIOUS
<1>3. \A n \in S : ~(n < m)
  BY <1>1, <1>2 DEF OpToRel
<1>4. \A n \in S : m <= n
  BY <1>3
<1> QED
  BY <1>4 DEF Min

\* The places of a file.
LEMMA Places ==
  ASSUME file \in Seq(Symbols)
  PROVE  /\ End \in Nat \ {0} /\ Len(file) = End - 1
         /\ \A k \in 1..Len(file) : file[k] \in Symbols /\ file[k].t \in Tokens \ {"end"}
<1>1. \A k \in 1..Len(file) : file[k] \in Symbols
  OBVIOUS
<1>2. \A s \in Symbols : s.t \in Tokens \ {"end"}
  BY DEF Symbols, Tokens, WithArguments, Bare, Characters
<1>3. End \in Nat \ {0} /\ Len(file) = End - 1
  BY DEF End
<1> QED
  BY <1>1, <1>2, <1>3

\* cleanup stops behind the first newline, or at the end of the file.
LEMMA CleanupIs ==
  ASSUME file \in Seq(Symbols), NEW p \in 1..End, NEW q \in p..End,
         q = End \/ (q > p /\ file[q - 1].t = "newline"),
         \A k \in p..(q - 2) : file[k].t # "newline"
  PROVE  Cleanup(p) = q
<1> DEFINE S == {End} \cup {l + 1 : l \in {k \in p..Len(file) : file[k].t = "newline"}}
<1>1. S \subseteq Nat /\ S # {} /\ q \in S /\ \A n \in S : q <= n
  BY Places
<1>2. Min(S) \in S /\ \A n \in S : Min(S) <= n
  <2> HIDE DEF S
  <2> QED
    BY <1>1, LeastElement
<1>3. Min(S) = q
  <2>1. Min(S) \in Nat /\ q \in Nat /\ Min(S) <= q /\ q <= Min(S)
    <3> HIDE DEF S
    <3> QED
      BY <1>1, <1>2
  <2> QED
    BY <2>1
<1> QED
  BY <1>3 DEF Cleanup

\* Wherever it begins, it stops at the beginning of a line, the next one.
LEMMA CleanupStops ==
  ASSUME file \in Seq(Symbols), NEW p \in 1..End
  PROVE  /\ Cleanup(p) \in p..End /\ AtLine(Cleanup(p))
         /\ Cleanup(p) = End \/ (Cleanup(p) > p /\ file[Cleanup(p) - 1].t = "newline")
         /\ \A k \in p..(Cleanup(p) - 2) : file[k].t # "newline"
<1> DEFINE S == {End} \cup {l + 1 : l \in {k \in p..Len(file) : file[k].t = "newline"}}
<1>1. S \subseteq Nat /\ S # {}
  BY Places
<1>2. Min(S) \in S /\ \A n \in S : Min(S) <= n
  <2> HIDE DEF S
  <2> QED
    BY <1>1, LeastElement
<1>3. \A n \in S : /\ n \in p..End /\ AtLine(n)
                   /\ n = End \/ (n > p /\ file[n - 1].t = "newline")
  BY Places DEF AtLine, Starts
<1>4. ASSUME NEW k \in p..(Min(S) - 2)
      PROVE  file[k].t # "newline"
  <2>1. Min(S) \in p..End /\ End \in Nat \ {0} /\ Len(file) = End - 1
    BY <1>2, <1>3, Places
  <2>2. k \in p..Len(file) /\ ~(Min(S) <= k + 1)
    <3> HIDE DEF S
    <3> QED
      BY <2>1
  <2>3. k + 1 \notin S
    BY <1>2, <2>2
  <2> QED
    BY <2>2, <2>3
<1>5. Cleanup(p) = Min(S)
  BY DEF Cleanup
<1> HIDE DEF S
<1> QED
  BY <1>2, <1>3, <1>4, <1>5

\* The rest of a keyword ends in the file.
LEMMA ReadOverStops ==
  ASSUME file \in Seq(Symbols), NEW p \in 1..End, NEW n \in Nat
  PROVE  ReadOver(p, n) \in p..End
<1> DEFINE S == {End} \cup {q \in p..End : CharactersFrom(p)[q] >= n}
<1>1. S \subseteq p..End /\ S \subseteq Nat /\ S # {}
  BY Places
<1>2. Min(S) \in S
  <2> HIDE DEF S
  <2> QED
    BY <1>1, LeastElement
<1> QED
  BY <1>1, <1>2 DEF ReadOver

-----------------------------------------------------------------------------
\* Readings of a command's arguments.

Reading == [ok : BOOLEAN, next : Tokens, to : Nat, args : Seq(Nat)]

\* What has been read from the command's keyword on is on its line: the last
\* symbol may be the newline.
OnLine(r) ==
  /\ \A k \in from..(r.to - 2) : file[k].t \notin {"newline", "other"}
  /\ IF r.next = "end" THEN r.to = End /\ (End > from => file[End - 1].t # "newline")
     ELSE r.to > from /\ file[r.to - 1].t = r.next

\* If all is well so far, the symbol read last is one of marks.
Within(readings, marks) ==
  \A r \in readings :
    /\ r \in Reading
    /\ r.to \in pos..End
    /\ OnLine(r)
    /\ r.ok => r.next \in marks

\* The middle of a line: neither its end nor the file's.
Inner == Tokens \ (LineEnds \cup {"other"})

\* A command's arguments are read.
Begun == PlaceOK /\ state \in WithArguments

LEMMA StartWithin ==
  ASSUME Begun
  PROVE  Within(Start, Inner)
<1>1. /\ pos \in 1..End /\ from \in 1..End /\ pos = from + 1
      /\ file[from].t = state /\ state \in Inner /\ End \in Nat
  <2>1. from \in 1..Len(file) /\ pos = from + 1 /\ file[from].t = state /\ pos \in 1..End
    BY DEF Begun, PlaceOK, Starts
  <2>2. End \in Nat /\ Len(file) = End - 1
    BY Places DEF Begun, PlaceOK
  <2>3. state \in Inner
    BY DEF Begun, Inner, Tokens, WithArguments, LineEnds
  <2> QED
    BY <2>1, <2>2, <2>3
<1> DEFINE r == [ok |-> TRUE, next |-> state, to |-> pos, args |-> <<>>]
<1>2. r \in Reading
  BY <1>1 DEF Reading, Inner
<1>3. r.next # "end" /\ OnLine(r)
  BY <1>1 DEF OnLine, Inner, LineEnds
<1>4. r.next \in Inner /\ r.to \in pos..End
  BY <1>1
<1> HIDE DEF r
<1>5. Start = {r}
  BY DEF Start, r
<1> QED
  BY <1>2, <1>3, <1>4, <1>5 DEF Within

\* read_uint reads digits and one symbol more, if there is one.
LEMMA ReadUintReads ==
  ASSUME file \in Seq(Symbols), NEW p \in 1..End, NEW u \in ReadUint(p)
  PROVE  /\ u.ok \in BOOLEAN /\ u.value \in Nat /\ u.next \in Tokens /\ u.to \in p..End
         /\ IF u.next = "end" THEN u.to = End /\ \A k \in p..(End - 1) : file[k].t = "digits"
            ELSE /\ u.to > p /\ file[u.to - 1].t = u.next
                 /\ \A k \in p..(u.to - 2) : file[k].t = "digits"
<1> DEFINE after == IF Symbol(p) = "digits" THEN p + 1 ELSE p
<1>1. End \in Nat \ {0} /\ Len(file) = End - 1
  BY Places
<1>2. after \in p..End /\ \A k \in p..(after - 1) : file[k].t = "digits"
  BY <1>1 DEF Symbol
<1>3. CASE after = End
  <2>1. PICK n \in Stale : u = [ok |-> n <= UintMax, value |-> n, next |-> "end", to |-> End]
    BY <1>3 DEF ReadUint
  <2>2. u.value \in Nat
    BY <2>1, NumbersAssumption
  <2>3. u.next = "end" /\ u.next \in Tokens /\ u.to = End
    BY <2>1 DEF Tokens
  <2>4. u.ok \in BOOLEAN
    BY <2>1
  <2> QED
    BY <1>1, <1>2, <1>3, <2>2, <2>3, <2>4
<1>4. CASE after # End
  <2> DEFINE n == IF Symbol(p) = "digits" THEN file[p].n ELSE 0
  <2>1. u = [ok |-> n <= UintMax, value |-> n, next |-> Symbol(after), to |-> after + 1]
    BY <1>4 DEF ReadUint
  <2>2. after \in 1..Len(file) /\ Symbol(after) = file[after].t
    BY <1>1, <1>2, <1>4 DEF Symbol
  <2>3. Symbol(after) \in Tokens \ {"end"}
    BY <2>2, Places
  <2>4. n \in Nat
    <3>1. CASE Symbol(p) = "digits"
      <4>1. p \in 1..Len(file)
        BY <1>1, <3>1 DEF Symbol
      <4>2. file[p] \in Symbols
        BY <4>1, Places
      <4> QED
        BY <4>2, <3>1 DEF Symbols
    <3> QED
      BY <3>1
  <2>5. u.ok \in BOOLEAN
    BY <2>1
  <2> HIDE DEF after, n
  <2> QED
    BY <1>1, <1>2, <2>1, <2>2, <2>3, <2>4, <2>5
<1> QED
  BY <1>3, <1>4

\* What is read behind a place in the middle of the line is on the line.
LEMMA ReadsOn ==
  ASSUME Begun, NEW r \in Reading, r.to \in pos..End, r.next \in Inner, OnLine(r),
         NEW s \in Reading, s.to \in r.to..End,
         IF s.next = "end" THEN s.to = End /\ \A k \in r.to..(End - 1) : file[k].t = "digits"
         ELSE /\ s.to > r.to /\ file[s.to - 1].t = s.next
              /\ \A k \in r.to..(s.to - 2) : file[k].t = "digits"
  PROVE  OnLine(s)
<1>1. r.to \in Nat /\ End \in Nat /\ from \in Nat /\ r.to >= pos /\ pos > from /\ s.to \in Nat
  BY Places DEF Begun, PlaceOK, Starts, Reading
<1>2. r.next # "end" /\ file[r.to - 1].t \notin {"newline", "other"}
  BY DEF OnLine, Inner, LineEnds
<1>3. \A k \in from..(r.to - 1) : file[k].t \notin {"newline", "other"}
  BY <1>1, <1>2 DEF OnLine
<1>4. CASE s.next = "end"
  <2>1. \A k \in from..(End - 1) : file[k].t \notin {"newline", "other"}
    BY <1>1, <1>3, <1>4
  <2>2. s.to = End
    BY <1>4
  <2> QED
    BY <1>1, <1>4, <2>1, <2>2 DEF OnLine
<1>5. CASE s.next # "end"
  <2>1. \A k \in from..(s.to - 2) : file[k].t \notin {"newline", "other"}
    BY <1>1, <1>3, <1>5
  <2> QED
    BY <1>1, <1>5, <2>1 DEF OnLine
<1> QED
  BY <1>4, <1>5

LEMMA NumberWithin ==
  ASSUME Begun, NEW R, Within(R, Inner), NEW ends
  PROVE  Within(Number(R, ends), ends)
<1> SUFFICES ASSUME NEW s \in Number(R, ends)
             PROVE  /\ s \in Reading /\ s.to \in pos..End
                    /\ OnLine(s) /\ (s.ok => s.next \in ends)
  BY DEF Within
<1>1. CASE s \in R /\ ~s.ok
  BY <1>1 DEF Within
<1>2. CASE ~(s \in R /\ ~s.ok)
  <2>1. PICK r \in R : r.ok /\ \E u \in ReadUint(r.to) :
               s = [ok |-> u.ok /\ u.next \in ends, next |-> u.next, to |-> u.to,
                    args |-> Append(r.args, u.value)]
    BY <1>2 DEF Number
  <2>2. PICK u \in ReadUint(r.to) :
               s = [ok |-> u.ok /\ u.next \in ends, next |-> u.next, to |-> u.to,
                    args |-> Append(r.args, u.value)]
    BY <2>1
  <2>3. /\ r \in Reading /\ r.to \in pos..End /\ r.next \in Inner /\ OnLine(r)
        /\ r.args \in Seq(Nat)
    BY <2>1 DEF Within, Reading
  <2>4. /\ file \in Seq(Symbols) /\ pos \in 1..End /\ End \in Nat
        /\ r.to \in 1..End
    BY <2>3, Places DEF Begun, PlaceOK
  <2>5. /\ u.ok \in BOOLEAN /\ u.value \in Nat /\ u.next \in Tokens /\ u.to \in r.to..End
        /\ IF u.next = "end" THEN u.to = End /\ \A k \in r.to..(End - 1) : file[k].t = "digits"
           ELSE /\ u.to > r.to /\ file[u.to - 1].t = u.next
                /\ \A k \in r.to..(u.to - 2) : file[k].t = "digits"
    BY <2>4, ReadUintReads
  <2>6. s.next = u.next /\ s.to = u.to /\ (s.ok => u.next \in ends)
    BY <2>2
  <2>7. s \in Reading
    <3>1. Append(r.args, u.value) \in Seq(Nat)
      BY <2>3, <2>5
    <3>2. u.to \in Nat
      BY <2>4, <2>5
    <3> QED
      BY <2>2, <2>5, <3>1, <3>2 DEF Reading
  <2>8. OnLine(s)
    BY <2>3, <2>5, <2>6, <2>7, ReadsOn
  <2>9. s.to \in pos..End
    BY <2>3, <2>4, <2>5, <2>6
  <2> QED
    BY <2>6, <2>7, <2>8, <2>9
<1> QED
  BY <1>1, <1>2

LEMMA CharWithin ==
  ASSUME Begun, NEW R, Within(R, Inner), NEW expected
  PROVE  Within(Char(R, expected), expected)
<1> SUFFICES ASSUME NEW s \in Char(R, expected)
             PROVE  /\ s \in Reading /\ s.to \in pos..End
                    /\ OnLine(s) /\ (s.ok => s.next \in expected)
  BY DEF Within
<1>1. CASE s \in R /\ ~s.ok
  BY <1>1 DEF Within
<1>2. CASE ~(s \in R /\ ~s.ok)
  <2>1. PICK r \in R : r.ok /\
               s = [r EXCEPT !.ok = Symbol(r.to) \in expected, !.next = Symbol(r.to),
                             !.to = IF r.to = End THEN End ELSE r.to + 1]
    BY <1>2 DEF Char
  <2>2. r \in Reading /\ r.to \in pos..End /\ r.next \in Inner /\ OnLine(r)
    BY <2>1 DEF Within
  <2>3. /\ file \in Seq(Symbols) /\ pos \in 1..End /\ End \in Nat \ {0} /\ Len(file) = End - 1
        /\ r.to \in 1..End
    BY <2>2, Places DEF Begun, PlaceOK
  <2>4. /\ Symbol(r.to) \in Tokens
        /\ IF r.to = End THEN Symbol(r.to) = "end"
           ELSE Symbol(r.to) = file[r.to].t /\ Symbol(r.to) # "end"
    <3>1. CASE r.to = End
      BY <3>1 DEF Symbol, Tokens
    <3>2. CASE r.to # End
      <4>1. r.to \in 1..Len(file)
        BY <2>3, <3>2
      <4> QED
        BY <4>1, <3>2, <2>3, Places DEF Symbol
    <3> QED
      BY <3>1, <3>2
  <2>5. /\ s.next = Symbol(r.to) /\ s.to = IF r.to = End THEN End ELSE r.to + 1
        /\ s.ok = (Symbol(r.to) \in expected)
    BY <2>1, <2>2 DEF Reading
  <2>6. s \in Reading
    <3>1. s = [ok |-> Symbol(r.to) \in expected, next |-> Symbol(r.to),
               to |-> IF r.to = End THEN End ELSE r.to + 1, args |-> r.args]
      BY <2>1, <2>2 DEF Reading
    <3>2. r.args \in Seq(Nat) /\ (IF r.to = End THEN End ELSE r.to + 1) \in Nat
      BY <2>2, <2>3 DEF Reading
    <3> QED
      BY <2>4, <3>1, <3>2 DEF Reading
  <2>7. /\ s.to \in r.to..End /\ s.to \in pos..End
        /\ IF s.next = "end" THEN s.to = End /\ \A k \in r.to..(End - 1) : file[k].t = "digits"
           ELSE /\ s.to > r.to /\ file[s.to - 1].t = s.next
                /\ \A k \in r.to..(s.to - 2) : file[k].t = "digits"
    BY <2>2, <2>3, <2>4, <2>5
  <2>8. OnLine(s)
    BY <2>2, <2>6, <2>7, ReadsOn
  <2> QED
    BY <2>5, <2>6, <2>7, <2>8
<1> QED
  BY <1>1, <1>2

\* What holds of readings holds of some of them, for more marks, and together.
LEMMA WithinPart ==
  ASSUME NEW R, NEW marks, Within(R, marks), NEW S \in SUBSET R
  PROVE  Within(S, marks)
BY DEF Within

LEMMA WithinMore ==
  ASSUME NEW R, NEW marks, Within(R, marks), NEW more, marks \subseteq more
  PROVE  Within(R, more)
BY DEF Within

LEMMA WithinBoth ==
  ASSUME NEW R, NEW S, NEW marks, Within(R, marks), Within(S, marks)
  PROVE  Within(R \cup S, marks)
BY DEF Within

-----------------------------------------------------------------------------
\* The seats of a RESERVE.

\* One more seat, and what follows it.
LEMMA OneMoreSeatWithin ==
  ASSUME Begun, NEW R, Within(R, Inner)
  PROVE  Within(OneMoreSeat(R), Inner)
<1> DEFINE open == {r \in R : r.ok /\ r.next # "]"}
<1>1. /\ {"("} \subseteq Inner /\ {","} \subseteq Inner /\ {")"} \subseteq Inner
      /\ {" ", "]"} \subseteq Inner
  BY DEF Inner, Tokens, Characters, LineEnds
<1>2. open \in SUBSET R /\ R \ open \in SUBSET R
  OBVIOUS
<1>3. OneMoreSeat(R) =
        (R \ open) \cup Char(Number(Number(Char(open, {"("}), {","}), {")"}), {" ", "]"})
  BY DEF OneMoreSeat
<1> HIDE DEF open
<1>4. Within(open, Inner) /\ Within(R \ open, Inner)
  BY <1>2, WithinPart
<1>5. Within(Char(open, {"("}), Inner)
  BY <1>1, <1>4, CharWithin, WithinMore
<1>6. Within(Number(Char(open, {"("}), {","}), Inner)
  BY <1>1, <1>5, NumberWithin, WithinMore
<1>7. Within(Number(Number(Char(open, {"("}), {","}), {")"}), Inner)
  BY <1>1, <1>6, NumberWithin, WithinMore
<1>8. Within(Char(Number(Number(Char(open, {"("}), {","}), {")"}), {" ", "]"}), Inner)
  BY <1>1, <1>7, CharWithin, WithinMore
<1> QED
  BY <1>3, <1>4, <1>8, WithinBoth

\* The recursive definition has a solution: there is one up to every number of
\* seats.
LEMMA SeatsReadIs ==
  SeatsRead = [k \in 0..MaxReservation |->
                 IF k = 0 THEN Char(Number(Start, {" "}), {"["})
                 ELSE OneMoreSeat(SeatsRead[k - 1])]
<1> DEFINE A == Char(Number(Start, {" "}), {"["})
<1> DEFINE Solves(g, n) ==
             g = [k \in 0..n |-> IF k = 0 THEN A ELSE OneMoreSeat(g[k - 1])]
<1> DEFINE Unsolved == {n \in Nat : ~\E g : Solves(g, n)}
<1>1. Unsolved = {}
  <2> SUFFICES ASSUME Unsolved # {} PROVE FALSE
    OBVIOUS
  <2> DEFINE m == Min(Unsolved)
  <2>1. m \in Unsolved /\ \A n \in Unsolved : m <= n
    <3>1. Unsolved \subseteq Nat
      OBVIOUS
    <3> HIDE DEF Unsolved
    <3> QED
      BY <3>1, LeastElement
  <2> HIDE DEF m
  <2>2. CASE m = 0
    <3> DEFINE g == [k \in 0..0 |-> A]
    <3> HIDE DEF A
    <3>1. \A k \in 0..0 : k = 0
      OBVIOUS
    <3>2. Solves(g, 0)
      BY <3>1
    <3> HIDE DEF g, Solves
    <3> QED
      BY <2>1, <2>2, <3>2
  <2>3. CASE m # 0
    <3>1. m \in Nat /\ m - 1 \in Nat /\ ~(m <= m - 1)
      <4>1. m \in Nat
        BY <2>1
      <4> HIDE DEF Unsolved
      <4> QED
        BY <4>1, <2>3
    <3>2. PICK g : Solves(g, m - 1)
      BY <2>1, <3>1
    <3> HIDE DEF A
    <3> DEFINE h == [k \in 0..m |-> IF k = 0 THEN A ELSE OneMoreSeat(g[k - 1])]
    <3>3. ASSUME NEW k \in 0..(m - 1)
          PROVE  h[k] = g[k]
      BY <3>1, <3>2
    <3>4. ASSUME NEW k \in 0..m
          PROVE  h[k] = IF k = 0 THEN A ELSE OneMoreSeat(h[k - 1])
      <4>1. CASE k = 0
        BY <4>1
      <4>2. CASE k # 0
        <5>1. k - 1 \in 0..(m - 1)
          BY <3>1, <4>2
        <5>2. h[k - 1] = g[k - 1]
          BY <3>3, <5>1
        <5> QED
          BY <4>2, <5>2
      <4> QED
        BY <4>1, <4>2
    <3>5. h = [k \in 0..m |-> h[k]]
      OBVIOUS
    <3>6. Solves(h, m)
      <4> HIDE DEF h
      <4> QED
        BY <3>4, <3>5
    <3> HIDE DEF h, Solves
    <3> QED
      BY <2>1, <3>6
  <2> QED
    BY <2>2, <2>3
<1>2. \E g : Solves(g, MaxReservation)
  BY <1>1, NumbersAssumption
<1> QED
  BY <1>2 DEF SeatsRead

LEMMA SeatsReadStep ==
  \A k \in 0..MaxReservation :
    SeatsRead[k] = IF k = 0 THEN Char(Number(Start, {" "}), {"["})
                   ELSE OneMoreSeat(SeatsRead[k - 1])
BY SeatsReadIs

\* The event and the bracket.
LEMMA NoSeatsWithin ==
  ASSUME Begun
  PROVE  Within(Char(Number(Start, {" "}), {"["}), Inner)
<1>1. {" "} \subseteq Inner /\ {"["} \subseteq Inner
  BY DEF Inner, Tokens, Characters, LineEnds
<1>2. Within(Start, Inner)
  BY StartWithin
<1>3. Within(Number(Start, {" "}), {" "})
  BY <1>2, NumberWithin
<1>4. Within(Number(Start, {" "}), Inner)
  BY <1>1, <1>3, WithinMore
<1>5. Within(Char(Number(Start, {" "}), {"["}), {"["})
  BY <1>4, CharWithin
<1> QED
  BY <1>1, <1>5, WithinMore

\* However many have been read.
LEMMA SeatsReadWithin ==
  ASSUME Begun
  PROVE  \A k \in 0..MaxReservation : Within(SeatsRead[k], Inner)
<1> DEFINE Bad == {k \in 0..MaxReservation : ~Within(SeatsRead[k], Inner)}
<1>1. MaxReservation \in Nat
  BY NumbersAssumption
<1> SUFFICES ASSUME Bad # {} PROVE FALSE
  OBVIOUS
<1> DEFINE m == Min(Bad)
<1>2. m \in Bad /\ \A n \in Bad : m <= n
  <2>1. Bad \subseteq Nat
    OBVIOUS
  <2> HIDE DEF Bad
  <2> QED
    BY <2>1, LeastElement
<1> HIDE DEF m
<1>3. CASE m = 0
  <2>1. m \in 0..MaxReservation
    BY <1>2
  <2>2. SeatsRead[m] = Char(Number(Start, {" "}), {"["})
    BY <1>3, <2>1, SeatsReadStep
  <2> QED
    BY <1>2, <1>3, <2>2, NoSeatsWithin
<1>4. CASE m # 0
  <2>1. m - 1 \in 0..MaxReservation /\ m \in 0..MaxReservation /\ ~(m <= m - 1)
    BY <1>1, <1>2, <1>4
  <2>2. Within(SeatsRead[m - 1], Inner)
    BY <1>2, <2>1
  <2>3. SeatsRead[m] = OneMoreSeat(SeatsRead[m - 1])
    BY <1>4, <2>1, SeatsReadStep
  <2>4. Within(SeatsRead[m], Inner)
    BY <2>2, <2>3, OneMoreSeatWithin
  <2> QED
    BY <1>2, <2>4
<1> QED
  BY <1>3, <1>4

-----------------------------------------------------------------------------
\* A command's arguments end its line.

\* What a function of the parser returns for the command that is read: if it is
\* content, it has read up to where cleanup would have stopped.
Ends(readings) ==
  \A r \in readings :
    /\ r \in Reading
    /\ r.to \in pos..End
    /\ IF r.ok THEN r.to = Cleanup(from) ELSE OnLine(r)

LEMMA LineRead ==
  ASSUME Begun, NEW R, Within(R, LineEnds)
  PROVE  Ends(R)
<1> SUFFICES ASSUME NEW r \in R, r.ok
             PROVE  r.to = Cleanup(from)
  BY DEF Ends, Within
<1>1. r.to \in pos..End /\ r.next \in LineEnds /\ OnLine(r)
  BY DEF Within
<1>2. /\ file \in Seq(Symbols) /\ End \in Nat \ {0} /\ Len(file) = End - 1
      /\ from \in 1..Len(file) /\ pos = from + 1
  BY Places DEF Begun, PlaceOK, Starts
<1>3. from \in 1..End /\ r.to \in from..End
  BY <1>1, <1>2
<1>4. \A k \in from..(r.to - 2) : file[k].t # "newline"
  BY <1>1 DEF OnLine
<1>5. r.to = End \/ (r.to > from /\ file[r.to - 1].t = "newline")
  BY <1>1 DEF OnLine, LineEnds
<1> QED
  BY <1>2, <1>3, <1>4, <1>5, CleanupIs

LEMMA CreateEnds ==
  ASSUME Begun
  PROVE  Ends(CreateArguments)
<1>1. {" "} \subseteq Inner
  BY DEF Inner, Tokens, Characters, LineEnds
<1>2. Within(Number(Start, {" "}), Inner)
  <2>1. Within(Number(Start, {" "}), {" "})
    BY StartWithin, NumberWithin
  <2> QED
    BY <1>1, <2>1, WithinMore
<1>3. Within(Number(Number(Start, {" "}), {" "}), Inner)
  <2>1. Within(Number(Number(Start, {" "}), {" "}), {" "})
    BY <1>2, NumberWithin
  <2> QED
    BY <1>1, <2>1, WithinMore
<1>4. Within(Number(Number(Number(Start, {" "}), {" "}), LineEnds), LineEnds)
  BY <1>3, NumberWithin
<1> QED
  BY <1>4, LineRead DEF CreateArguments

LEMMA ShowEnds ==
  ASSUME Begun
  PROVE  Ends(ShowArguments)
<1>1. Within(Number(Start, LineEnds), LineEnds)
  BY StartWithin, NumberWithin
<1> QED
  BY <1>1, LineRead DEF ShowArguments

LEMMA ReserveEnds ==
  ASSUME Begun
  PROVE  Ends(ReserveArguments)
<1> DEFINE last == SeatsRead[MaxReservation]
<1> DEFINE fewer == {[r EXCEPT !.ok = r.ok /\ Len(r.args) < 1 + 2 * MaxReservation] : r \in last}
<1>1. Within(last, Inner)
  BY SeatsReadWithin, NumbersAssumption
<1>2. ReserveArguments = Char(fewer, {"newline"})
  BY DEF ReserveArguments
<1> HIDE DEF last
<1>3. Within(fewer, Inner)
  <2> SUFFICES ASSUME NEW r \in last,
                      NEW s, s = [r EXCEPT !.ok = r.ok /\ Len(r.args) < 1 + 2 * MaxReservation]
               PROVE  /\ s \in Reading /\ s.to \in pos..End
                      /\ OnLine(s) /\ (s.ok => s.next \in Inner)
    BY DEF Within
  <2>1. r \in Reading /\ r.to \in pos..End /\ OnLine(r) /\ (r.ok => r.next \in Inner)
    BY <1>1 DEF Within
  <2>2. /\ s.next = r.next /\ s.to = r.to /\ s.args = r.args
        /\ s.ok = (r.ok /\ Len(r.args) < 1 + 2 * MaxReservation)
        /\ s \in Reading
    BY <2>1 DEF Reading
  <2> QED
    BY <2>1, <2>2 DEF OnLine
<1> HIDE DEF fewer
<1>4. Within(Char(fewer, {"newline"}), {"newline"})
  BY <1>3, CharWithin
<1>5. {"newline"} \subseteq LineEnds
  BY DEF LineEnds
<1>6. Within(Char(fewer, {"newline"}), LineEnds)
  BY <1>4, <1>5, WithinMore
<1> QED
  BY <1>2, <1>6, LineRead

\* A thread named is an error of Part 1.
LEMMA WaitEnds ==
  ASSUME Begun
  PROVE  Ends(WaitArguments)
<1> DEFINE R == Number(Start, LineEnds \cup {" "})
<1>1. Within(R, LineEnds \cup {" "})
  BY StartWithin, NumberWithin
<1>2. WaitArguments = {[r EXCEPT !.ok = r.ok /\ r.next # " "] : r \in R}
  BY DEF WaitArguments
<1> HIDE DEF R
<1>3. Within(WaitArguments, LineEnds)
  <2> SUFFICES ASSUME NEW r \in R, NEW s, s = [r EXCEPT !.ok = r.ok /\ r.next # " "]
               PROVE  /\ s \in Reading /\ s.to \in pos..End
                      /\ OnLine(s) /\ (s.ok => s.next \in LineEnds)
    BY <1>2 DEF Within
  <2>1. /\ r \in Reading /\ r.to \in pos..End
        /\ OnLine(r) /\ (r.ok => r.next \in LineEnds \cup {" "})
    BY <1>1 DEF Within
  <2>2. /\ s.next = r.next /\ s.to = r.to /\ s.ok = (r.ok /\ r.next # " ")
        /\ s \in Reading
    BY <2>1 DEF Reading
  <2> QED
    BY <2>1, <2>2 DEF OnLine
<1> QED
  BY <1>3, LineRead

\* Skipping the rest of a line ends it.
LEMMA RestSkipped ==
  ASSUME Begun, NEW p \in pos..End, \A k \in from..(p - 1) : file[k].t # "newline"
  PROVE  Cleanup(p) = Cleanup(from) /\ Cleanup(p) \in pos..End
<1>1. /\ file \in Seq(Symbols) /\ End \in Nat \ {0} /\ Len(file) = End - 1
      /\ from \in 1..Len(file) /\ pos = from + 1
  BY Places DEF Begun, PlaceOK, Starts
<1>2. p \in 1..End /\ from \in 1..End
  BY <1>1
<1> DEFINE c == Cleanup(p)
<1>3. /\ c \in p..End
      /\ c = End \/ (c > p /\ file[c - 1].t = "newline")
      /\ \A k \in p..(c - 2) : file[k].t # "newline"
  BY <1>1, <1>2, CleanupStops
<1> HIDE DEF c
<1>4. /\ c \in from..End
      /\ c = End \/ (c > from /\ file[c - 1].t = "newline")
  BY <1>1, <1>2, <1>3
<1>5. \A k \in from..(c - 2) : file[k].t # "newline"
  BY <1>1, <1>2, <1>3
<1>6. Cleanup(from) = c
  BY <1>1, <1>2, <1>4, <1>5, CleanupIs
<1>7. c \in pos..End
  BY <1>1, <1>2, <1>3
<1> QED
  BY <1>6, <1>7 DEF c

\* What a reading that is sent elsewhere becomes.
LEMMA ElsewhereIs ==
  ASSUME NEW r \in Reading, NEW p \in Nat
  PROVE  /\ [r EXCEPT !.to = p] \in Reading /\ [r EXCEPT !.to = p].to = p
         /\ [r EXCEPT !.to = p].ok = r.ok /\ [r EXCEPT !.to = r.to] = r
BY DEF Reading

\* In Part 2 it is skipped, with the rest of the line.
LEMMA DelayEnds ==
  ASSUME Begun
  PROVE  Ends(DelayArguments)
<1> DEFINE R == Number(Start, LineEnds \cup {" "})
<1>1. Within(R, LineEnds \cup {" "})
  BY StartWithin, NumberWithin
<1>2. DelayArguments =
        {[r EXCEPT !.to = IF r.ok /\ r.next = " " THEN Cleanup(r.to) ELSE r.to] : r \in R}
  BY DEF DelayArguments
<1> HIDE DEF R
<1>3. pos \in Nat /\ End \in Nat /\ from \in Nat
  <2>1. file \in Seq(Symbols) /\ pos \in 1..End /\ from \in 1..Len(file)
    BY DEF Begun, PlaceOK, Starts
  <2> QED
    BY <2>1, Places
<1>4. ASSUME NEW r \in R
      PROVE  Ends({[r EXCEPT !.to = IF r.ok /\ r.next = " " THEN Cleanup(r.to) ELSE r.to]})
  <2>1. /\ r \in Reading /\ r.to \in pos..End
        /\ OnLine(r) /\ (r.ok => r.next \in LineEnds \cup {" "})
    BY <1>1 DEF Within
  <2>2. CASE r.ok /\ r.next = " "
    <3>1. \A k \in from..(r.to - 1) : file[k].t # "newline"
      <4>1. \A k \in from..(r.to - 2) : file[k].t # "newline"
        BY <2>1, <2>2 DEF OnLine
      <4>2. file[r.to - 1].t = " "
        BY <2>1, <2>2 DEF OnLine
      <4>3. r.to \in Nat
        BY <2>1 DEF Reading
      <4>4. \A k \in from..(r.to - 1) : k = r.to - 1 \/ k \in from..(r.to - 2)
        BY <1>3, <4>3
      <4> QED
        BY <4>1, <4>2, <4>4
    <3>2. Cleanup(r.to) = Cleanup(from) /\ Cleanup(r.to) \in pos..End
      BY <2>1, <3>1, RestSkipped
    <3>3. Cleanup(r.to) \in Nat
      BY <1>3, <3>2
    <3>4. /\ [r EXCEPT !.to = Cleanup(r.to)] \in Reading
          /\ [r EXCEPT !.to = Cleanup(r.to)].to = Cleanup(r.to)
          /\ [r EXCEPT !.to = Cleanup(r.to)].ok
      BY <2>1, <2>2, <3>3, ElsewhereIs
    <3> QED
      BY <2>2, <3>2, <3>4 DEF Ends
  <2>3. CASE ~(r.ok /\ r.next = " ")
    <3>1. r.to \in Nat
      BY <2>1 DEF Reading
    <3>2. [r EXCEPT !.to = r.to] = r
      BY <2>1, <3>1, ElsewhereIs
    <3>3. Within({r}, LineEnds)
      BY <2>1, <2>3 DEF Within
    <3>4. Ends({r})
      BY <3>3, LineRead
    <3> QED
      BY <2>3, <3>2, <3>4
  <2> QED
    BY <2>2, <2>3
<1> QED
  BY <1>2, <1>4 DEF Ends

LEMMA ArgumentsEnd ==
  ASSUME Begun
  PROVE  Ends(Arguments)
<1>1. state \in {"CREATE ", "RESERVE ", "SHOW ", "WAIT "}
  BY DEF Begun, WithArguments
<1>2. CASE state = "CREATE "
  BY <1>2, CreateEnds DEF Arguments
<1>3. CASE state = "RESERVE "
  BY <1>3, ReserveEnds DEF Arguments
<1>4. CASE state = "SHOW "
  BY <1>4, ShowEnds DEF Arguments
<1>5. CASE state = "WAIT "
  BY <1>5, WaitEnds, DelayEnds DEF Arguments
<1> QED
  BY <1>1, <1>2, <1>3, <1>4, <1>5

-----------------------------------------------------------------------------
\* The marks of a line.

\* The next mark: only digits are passed over.
LEMMA NextMarkIs ==
  ASSUME file \in Seq(Symbols), NEW q \in 1..End
  PROVE  /\ NextMark(q) \in q..End
         /\ NextMark(q) = End \/ (NextMark(q) > q /\ file[NextMark(q)].t # "digits")
         /\ \A k \in (q + 1)..(NextMark(q) - 1) : file[k].t = "digits"
<1> DEFINE S == {End} \cup {k \in (q + 1)..Len(file) : file[k].t # "digits"}
<1>1. /\ S \subseteq Nat /\ S # {} /\ \A k \in S : k \in q..End
      /\ \A k \in S : k = End \/ (k > q /\ file[k].t # "digits")
      /\ \A k \in (q + 1)..(End - 1) : file[k].t # "digits" => k \in S
  BY Places
<1>2. NextMark(q) = Min(S)
  BY DEF NextMark
<1> HIDE DEF S
<1>3. Min(S) \in S /\ \A n \in S : Min(S) <= n
  BY <1>1, LeastElement
<1>4. ASSUME NEW k \in (q + 1)..(Min(S) - 1)
      PROVE  file[k].t = "digits"
  <2>1. Min(S) \in q..End /\ End \in Nat
    BY <1>1, <1>3, Places
  <2>2. k \in (q + 1)..(End - 1) /\ ~(Min(S) <= k)
    BY <2>1
  <2> QED
    BY <1>1, <1>3, <2>2
<1> QED
  BY <1>1, <1>2, <1>3, <1>4

\* The recursive definition has a solution, as for SeatsRead.
LEMMA MarksFromIs ==
  ASSUME NEW p, NEW n \in Nat
  PROVE  MarksFrom(p, n) = [i \in 0..n |-> IF i = 0 THEN p ELSE NextMark(MarksFrom(p, n)[i - 1])]
<1> DEFINE Solves(g, m) == g = [i \in 0..m |-> IF i = 0 THEN p ELSE NextMark(g[i - 1])]
<1> DEFINE Unsolved == {m \in Nat : ~\E g : Solves(g, m)}
<1>1. Unsolved = {}
  <2> SUFFICES ASSUME Unsolved # {} PROVE FALSE
    OBVIOUS
  <2> DEFINE m == Min(Unsolved)
  <2>1. m \in Unsolved /\ \A l \in Unsolved : m <= l
    <3>1. Unsolved \subseteq Nat
      OBVIOUS
    <3> HIDE DEF Unsolved
    <3> QED
      BY <3>1, LeastElement
  <2> HIDE DEF m
  <2>2. CASE m = 0
    <3> DEFINE g == [i \in 0..0 |-> p]
    <3>1. \A i \in 0..0 : i = 0
      OBVIOUS
    <3>2. Solves(g, 0)
      BY <3>1
    <3> HIDE DEF g, Solves
    <3> QED
      BY <2>1, <2>2, <3>2
  <2>3. CASE m # 0
    <3>1. m \in Nat /\ m - 1 \in Nat /\ ~(m <= m - 1)
      <4>1. m \in Nat
        BY <2>1
      <4> HIDE DEF Unsolved
      <4> QED
        BY <4>1, <2>3
    <3>2. PICK g : Solves(g, m - 1)
      BY <2>1, <3>1
    <3> DEFINE h == [i \in 0..m |-> IF i = 0 THEN p ELSE NextMark(g[i - 1])]
    <3>3. ASSUME NEW i \in 0..(m - 1)
          PROVE  h[i] = g[i]
      BY <3>1, <3>2
    <3>4. ASSUME NEW i \in 0..m
          PROVE  h[i] = IF i = 0 THEN p ELSE NextMark(h[i - 1])
      <4>1. CASE i = 0
        BY <4>1
      <4>2. CASE i # 0
        <5>1. i - 1 \in 0..(m - 1)
          BY <3>1, <4>2
        <5>2. h[i - 1] = g[i - 1]
          BY <3>3, <5>1
        <5> QED
          BY <4>2, <5>2
      <4> QED
        BY <4>1, <4>2
    <3>5. h = [i \in 0..m |-> h[i]]
      OBVIOUS
    <3>6. Solves(h, m)
      <4> HIDE DEF h
      <4> QED
        BY <3>4, <3>5
    <3> HIDE DEF h, Solves
    <3> QED
      BY <2>1, <3>6
  <2> QED
    BY <2>2, <2>3
<1>2. \E g : Solves(g, n)
  BY <1>1
<1> QED
  BY <1>2 DEF MarksFrom

\* The i-th mark behind a place does not depend on how many are asked for.
LEMMA MarksFromAgree ==
  ASSUME NEW p, NEW m \in Nat, NEW n \in Nat, n <= m
  PROVE  \A i \in 0..n : MarksFrom(p, n)[i] = MarksFrom(p, m)[i]
<1> DEFINE f == MarksFrom(p, n)
<1> DEFINE g == MarksFrom(p, m)
<1>1. /\ \A i \in 0..n : f[i] = IF i = 0 THEN p ELSE NextMark(f[i - 1])
      /\ \A i \in 0..m : g[i] = IF i = 0 THEN p ELSE NextMark(g[i - 1])
  BY MarksFromIs
<1> HIDE DEF f, g
<1> DEFINE Bad == {i \in 0..n : f[i] # g[i]}
<1>2. Bad = {}
  <2> SUFFICES ASSUME Bad # {} PROVE FALSE
    OBVIOUS
  <2> DEFINE k == Min(Bad)
  <2>1. k \in Bad /\ \A l \in Bad : k <= l
    <3>1. Bad \subseteq Nat
      OBVIOUS
    <3> HIDE DEF Bad
    <3> QED
      BY <3>1, LeastElement
  <2> HIDE DEF k
  <2>2. k \in 0..n /\ k \in 0..m /\ f[k] # g[k]
    BY <2>1
  <2>3. k # 0
    BY <1>1, <2>2
  <2>4. k - 1 \in 0..n /\ ~(k <= k - 1)
    BY <2>2, <2>3
  <2>5. f[k - 1] = g[k - 1]
    BY <2>1, <2>4
  <2> QED
    BY <1>1, <2>2, <2>3, <2>5
<1> QED
  BY <1>2 DEF f, g

\* The marks of the line that is read, more than any form has.
Most == 4 * MaxReservation + 3
Place(i) == MarksFrom(from, Most)[i]

LEMMA PlaceIs ==
  /\ Most \in Nat /\ Most >= 7
  /\ Place(0) = from
  /\ \A i \in 1..Most : Place(i) = NextMark(Place(i - 1))
  /\ \A n \in 0..Most : \A i \in 0..n : MarksFrom(from, n)[i] = Place(i)
<1>1. Most \in Nat /\ Most >= 7
  BY NumbersAssumption DEF Most
<1>2. \A i \in 0..Most : Place(i) = IF i = 0 THEN from ELSE NextMark(Place(i - 1))
  BY <1>1, MarksFromIs DEF Place
<1>3. ASSUME NEW n \in 0..Most
      PROVE  \A i \in 0..n : MarksFrom(from, n)[i] = Place(i)
  BY <1>1, MarksFromAgree DEF Place
<1> QED
  BY <1>1, <1>2, <1>3

\* The line that is read ends in a newline.
Ended == Begun /\ file[Cleanup(from) - 1].t = "newline"

\* Behind a mark in the middle of such a line there is another, with a number
\* between them or not.
LEMMA NextOnLine ==
  ASSUME Ended, NEW p \in from..End, \A k \in from..p : file[k].t # "newline"
  PROVE  /\ NextMark(p) \in 1..Len(file) /\ Symbol(NextMark(p)) = file[NextMark(p)].t
         /\ p + 1 \in 1..Len(file) /\ Symbol(p + 1) = file[p + 1].t
         /\ Symbol(NextMark(p)) # "digits"
         /\ IF file[p + 1].t = "digits" THEN NextMark(p) = p + 2 ELSE NextMark(p) = p + 1
<1>1. /\ file \in Seq(Symbols) /\ file \in Files /\ End \in Nat \ {0} /\ Len(file) = End - 1
      /\ from \in 1..Len(file) /\ p \in 1..End /\ from \in 1..End /\ Begun
  BY Places DEF Ended, Begun, PlaceOK, Starts
<1> DEFINE z == Cleanup(from) - 1
<1> DEFINE q == NextMark(p)
<1>2. z \in Nat /\ z >= from /\ z < End /\ file[z].t = "newline"
  <2>1. Cleanup(from) \in from..End /\ (Cleanup(from) = End \/ Cleanup(from) > from)
    BY <1>1, CleanupStops
  <2>2. z \in Nat /\ z >= from /\ z < End
    BY <1>1, <2>1
  <2> QED
    BY <2>2 DEF Ended
<1>3. /\ q \in p..End /\ (q = End \/ (q > p /\ file[q].t # "digits"))
      /\ \A k \in (p + 1)..(q - 1) : file[k].t = "digits"
  BY <1>1, NextMarkIs
<1>3a. q \in p..End
  BY <1>1, NextMarkIs
<1> HIDE DEF z, q
<1>4. z \in 1..Len(file) /\ z > p
  BY <1>1, <1>2
<1>5. /\ z \in Nat /\ p \in Nat \ {0} /\ q \in Nat /\ End \in Nat /\ Len(file) = End - 1
      /\ q >= p /\ z > p /\ z < End
  <2>1. p \in Nat \ {0} /\ End \in Nat
    BY <1>1
  <2>2. q \in Nat /\ q >= p
    BY <1>3a, <2>1
  <2> QED
    BY <1>1, <1>2, <1>4, <2>1, <2>2
<1>6. q \in 1..Len(file) /\ p + 1 \in 1..Len(file) /\ q > p /\ file[q].t # "digits"
  <2>1. ~(z \in (p + 1)..(q - 1))
    BY <1>2, <1>3
  <2>2. q <= z
    BY <1>5, <2>1
  <2> QED
    BY <1>3, <1>5, <2>2
<1>7. Symbol(q) = file[q].t /\ Symbol(p + 1) = file[p + 1].t
  BY <1>1, <1>6 DEF Symbol
<1>8. CASE file[p + 1].t = "digits"
  <2>1. q > p + 1
    BY <1>1, <1>6, <1>8
  <2>2. p + 2 \in 2..Len(file)
    BY <1>1, <1>6, <2>1
  <2>3. file[(p + 2) - 1].t = "digits" => file[p + 2].t # "digits"
    BY <1>1, <2>2, FilesAssumption
  <2>4. (p + 2) - 1 = p + 1
    BY <1>1
  <2>5. file[p + 2].t # "digits"
    BY <1>1, <1>8, <2>2, <2>3, <2>4
  <2>6. q = p + 2
    BY <1>1, <1>3, <1>6, <2>1, <2>5
  <2> QED
    BY <1>6, <1>7, <1>8, <2>6 DEF q
<1>9. CASE file[p + 1].t # "digits"
  <2>1. q = p + 1
    BY <1>1, <1>3, <1>6, <1>9
  <2> QED
    BY <1>6, <1>7, <1>9, <2>1 DEF q
<1> QED
  BY <1>8, <1>9

-----------------------------------------------------------------------------
\* What is read of a line that ends in a newline is what it says.

\* The first n marks of the line are those of the form.
FitsTo(form, n) ==
  \A i \in 1..n :
    /\ Symbol(Place(i)) \in form.marks[i]
    /\ file[Place(i) - 1].t = "digits" =>
         i \in Range(form.numbers) /\ file[Place(i) - 1].n <= UintMax

\* Its first c numbers.
Taken(form, c) == [j \in 1..c |-> NumberBefore(Place(form.numbers[j]))]

\* r has read the n marks and c numbers.
HasRead(r, form, n, c) ==
  /\ r.ok /\ FitsTo(form, n)
  /\ r.to = Place(n) + 1 /\ r.next = Symbol(Place(n))
  /\ r.args = Taken(form, c)

\* A reading is content exactly if the line is as the form up to there.
Exact(readings, form, n, c) ==
  \A r \in readings : r.ok \/ FitsTo(form, n) => HasRead(r, form, n, c)

\* One mark and one number more.
LEMMA FitsToNext ==
  ASSUME NEW form, NEW n \in Nat
  PROVE  FitsTo(form, n + 1) <=>
           /\ FitsTo(form, n)
           /\ Symbol(Place(n + 1)) \in form.marks[n + 1]
           /\ file[Place(n + 1) - 1].t = "digits" =>
                n + 1 \in Range(form.numbers) /\ file[Place(n + 1) - 1].n <= UintMax
<1>1. 1..(n + 1) = (1..n) \cup {n + 1}
  OBVIOUS
<1> QED
  BY <1>1 DEF FitsTo

LEMMA TakenNext ==
  ASSUME NEW form, NEW c \in Nat
  PROVE  Taken(form, c + 1) = Append(Taken(form, c), NumberBefore(Place(form.numbers[c + 1])))
<1> DEFINE F(j) == NumberBefore(Place(form.numbers[j]))
<1>1. Taken(form, c + 1) = [j \in 1..(c + 1) |-> F(j)] /\ Taken(form, c) = [j \in 1..c |-> F(j)]
  BY DEF Taken
<1> HIDE DEF F
<1>2. [j \in 1..(c + 1) |-> F(j)] = Append([j \in 1..c |-> F(j)], F(c + 1))
  OBVIOUS
<1> QED
  BY <1>1, <1>2 DEF F

LEMMA StartExact ==
  ASSUME Begun, NEW form
  PROVE  Exact(Start, form, 0, 0)
<1>1. /\ Place(0) = from /\ pos = from + 1 /\ file[from].t = state
      /\ from \in 1..Len(file) /\ Len(file) = End - 1 /\ End \in Nat
  BY PlaceIs, Places DEF Begun, PlaceOK, Starts
<1>2. Symbol(from) = state
  BY <1>1 DEF Symbol
<1>3. FitsTo(form, 0)
  BY DEF FitsTo
<1>4. Taken(form, 0) = <<>>
  <2>1. 1..0 = {}
    OBVIOUS
  <2> QED
    BY <2>1 DEF Taken
<1> QED
  BY <1>1, <1>2, <1>3, <1>4 DEF Exact, HasRead, Start

\* All marks asked for are places of the file.
LEMMA PlaceInt ==
  ASSUME Begun
  PROVE  \A i \in 0..Most : Place(i) \in 1..End
<1> DEFINE Bad == {i \in 0..Most : Place(i) \notin 1..End}
<1>1. Bad = {}
  <2> SUFFICES ASSUME Bad # {} PROVE FALSE
    OBVIOUS
  <2> DEFINE k == Min(Bad)
  <2>1. k \in Bad /\ \A l \in Bad : k <= l
    <3>1. Bad \subseteq Nat
      BY PlaceIs
    <3> HIDE DEF Bad
    <3> QED
      BY <3>1, LeastElement
  <2> HIDE DEF k
  <2>2. /\ file \in Seq(Symbols) /\ End \in Nat \ {0} /\ Len(file) = End - 1
        /\ from \in 1..Len(file)
    BY Places DEF Begun, PlaceOK, Starts
  <2>3. k \in 0..Most /\ Place(k) \notin 1..End
    BY <2>1
  <2>4. k # 0
    BY <2>2, <2>3, PlaceIs
  <2>5. k - 1 \in 0..Most /\ k \in 1..Most /\ ~(k <= k - 1)
    BY <2>3, <2>4, PlaceIs
  <2>6. Place(k - 1) \in 1..End
    BY <2>1, <2>5
  <2>7. NextMark(Place(k - 1)) \in Place(k - 1)..End
    BY <2>2, <2>6, NextMarkIs
  <2>8. Place(k) = NextMark(Place(k - 1))
    BY <2>5, PlaceIs
  <2> QED
    BY <2>2, <2>3, <2>6, <2>7, <2>8
<1> QED
  BY <1>1

\* Where a reading that is content, in the middle of the line, goes on.
LEMMA GoesOnAt ==
  ASSUME Ended, NEW r \in Reading, r.to \in pos..End, OnLine(r), r.next \in Inner,
         NEW n \in 0..(Most - 1), NEW form, NEW c, HasRead(r, form, n, c)
  PROVE  /\ Place(n + 1) = NextMark(Place(n))
         /\ Place(n) \in Nat /\ r.to = Place(n) + 1 /\ r.to \in 1..Len(file)
         /\ Place(n + 1) \in 1..Len(file) /\ Symbol(Place(n + 1)) = file[Place(n + 1)].t
         /\ Symbol(r.to) = file[r.to].t
         /\ Symbol(Place(n + 1)) \in Tokens \ {"end", "digits"}
         /\ IF file[r.to].t = "digits" THEN Place(n + 1) = r.to + 1 ELSE Place(n + 1) = r.to
<1> DEFINE p == Place(n)
<1>1. /\ file \in Seq(Symbols) /\ End \in Nat \ {0} /\ Len(file) = End - 1
      /\ from \in 1..Len(file) /\ pos = from + 1 /\ r.to \in Nat
  BY Places DEF Ended, Begun, PlaceOK, Starts, Reading
<1>2. r.to = p + 1 /\ r.next \notin {"newline", "end"}
  BY DEF HasRead, Inner, LineEnds
<1>3. p \in Nat /\ p = r.to - 1
  <2>1. n \in 0..Most
    BY PlaceIs
  <2>2. p \in 1..End
    BY <2>1, PlaceInt DEF Ended
  <2> QED
    BY <1>1, <1>2, <2>2
<1>4. p \in from..End /\ \A k \in from..p : file[k].t # "newline"
  <2>1. \A k \in from..(r.to - 2) : file[k].t # "newline"
    BY DEF OnLine
  <2>2. r.to > from /\ file[r.to - 1].t = r.next
    BY <1>2 DEF OnLine
  <2>3. p \in from..End
    BY <1>1, <1>3, <2>2
  <2>4. \A k \in from..p : k = r.to - 1 \/ k \in from..(r.to - 2)
    BY <1>1, <1>3, <2>3
  <2> QED
    BY <1>2, <2>1, <2>2, <2>3, <2>4
<1>5. Place(n + 1) = NextMark(p)
  <2>1. n + 1 \in 1..Most /\ (n + 1) - 1 = n
    BY PlaceIs
  <2> QED
    BY <2>1, PlaceIs
<1> HIDE DEF p
<1>6. /\ NextMark(p) \in 1..Len(file) /\ Symbol(NextMark(p)) = file[NextMark(p)].t
      /\ p + 1 \in 1..Len(file) /\ Symbol(p + 1) = file[p + 1].t
      /\ Symbol(NextMark(p)) # "digits"
      /\ IF file[p + 1].t = "digits" THEN NextMark(p) = p + 2 ELSE NextMark(p) = p + 1
  BY <1>4, NextOnLine
<1>7. file[NextMark(p)].t \in Tokens \ {"end"}
  BY <1>1, <1>6, Places
<1>8. p \in Nat /\ r.to + 1 = p + 2
  BY <1>1, <1>2, <1>4
<1> QED
  BY <1>2, <1>5, <1>6, <1>7, <1>8 DEF p

\* What has been read last is a mark.
LEMMA MarkRead ==
  ASSUME Begun, NEW r \in Reading, NEW n \in 0..Most, NEW form, NEW c,
         HasRead(r, form, n, c), r.next \in Inner
  PROVE  r.next # "digits"
<1>1. /\ file \in Seq(Symbols) /\ End \in Nat \ {0} /\ Len(file) = End - 1
      /\ from \in 1..Len(file) /\ file[from].t \in WithArguments
  BY Places DEF Begun, PlaceOK, Starts
<1>2. r.next = Symbol(Place(n)) /\ Place(n) \in 1..End
  BY PlaceInt DEF HasRead
<1>3. CASE n = 0
  BY <1>1, <1>2, <1>3, PlaceIs DEF Symbol, WithArguments
<1>4. CASE n # 0
  <2>1. n \in 1..Most /\ n - 1 \in 0..Most
    BY <1>4, PlaceIs
  <2>2. Place(n) = NextMark(Place(n - 1)) /\ Place(n - 1) \in 1..End
    BY <2>1, PlaceIs, PlaceInt
  <2>3. Place(n) = End \/ file[Place(n)].t # "digits"
    BY <1>1, <2>2, NextMarkIs
  <2> QED
    BY <1>2, <2>3 DEF Symbol
<1> QED
  BY <1>3, <1>4

LEMMA NumberExact ==
  ASSUME Ended, NEW R, Within(R, Inner), NEW form, NEW n \in 0..(Most - 1), NEW c \in Nat,
         Exact(R, form, n, c), NEW ends, ends \ {"end"} = form.marks[n + 1],
         n + 1 \in Range(form.numbers), form.numbers[c + 1] = n + 1
  PROVE  Exact(Number(R, ends), form, n + 1, c + 1)
<1> SUFFICES ASSUME NEW s \in Number(R, ends), s.ok \/ FitsTo(form, n + 1)
             PROVE  HasRead(s, form, n + 1, c + 1)
  BY DEF Exact
<1>1. n \in Nat /\ n \in 0..Most /\ Begun /\ (FitsTo(form, n + 1) => FitsTo(form, n))
  <2>1. n \in Nat /\ n \in 0..Most /\ Begun
    BY PlaceIs DEF Ended
  <2> QED
    BY <2>1, FitsToNext
<1>2. CASE s \in R /\ ~s.ok
  BY <1>1, <1>2 DEF Exact, HasRead
<1>3. CASE ~(s \in R /\ ~s.ok)
  <2>1. PICK r \in R : r.ok /\ \E u \in ReadUint(r.to) :
               s = [ok |-> u.ok /\ u.next \in ends, next |-> u.next, to |-> u.to,
                    args |-> Append(r.args, u.value)]
    BY <1>3 DEF Number
  <2>2. PICK u \in ReadUint(r.to) :
               s = [ok |-> u.ok /\ u.next \in ends, next |-> u.next, to |-> u.to,
                    args |-> Append(r.args, u.value)]
    BY <2>1
  <2>3. /\ r \in Reading /\ r.to \in pos..End /\ r.next \in Inner /\ OnLine(r)
        /\ HasRead(r, form, n, c)
    BY <2>1 DEF Within, Exact
  <2> DEFINE p == Place(n)
  <2> DEFINE q == Place(n + 1)
  <2>4. /\ p \in Nat /\ r.to = p + 1 /\ r.to \in 1..Len(file)
        /\ q \in 1..Len(file) /\ Symbol(q) = file[q].t /\ Symbol(r.to) = file[r.to].t
        /\ Symbol(q) \in Tokens \ {"end", "digits"}
        /\ IF file[r.to].t = "digits" THEN q = r.to + 1 ELSE q = r.to
    BY <2>3, GoesOnAt
  <2>5. /\ file \in Seq(Symbols) /\ End \in Nat \ {0} /\ Len(file) = End - 1 /\ UintMax \in Nat
    BY Places, NumbersAssumption DEF Ended, Begun, PlaceOK
  <2> HIDE DEF p, q
  <2>6. file[q - 1].t = "digits" <=> file[r.to].t = "digits"
    <3>1. CASE file[r.to].t = "digits"
      <4>1. q - 1 = r.to
        BY <2>4, <3>1
      <4> QED
        BY <3>1, <4>1
    <3>2. CASE file[r.to].t # "digits"
      <4>1. q - 1 = p
        BY <2>4, <3>2
      <4>2. p = Place(n) /\ r.next = Symbol(p)
        BY <2>3 DEF HasRead, p
      <4>3. r.next = file[p].t
        <5>1. r.to - 1 = p
          BY <2>4
        <5> QED
          BY <2>3, <5>1 DEF OnLine, Inner, LineEnds
      <4>4. file[p].t # "digits"
        BY <1>1, <4>3, <2>3, MarkRead DEF p
      <4> QED
        BY <3>2, <4>1, <4>4
    <3> QED
      BY <3>1, <3>2
  <2>7. u = [ok |-> NumberBefore(q) <= UintMax, value |-> NumberBefore(q),
             next |-> Symbol(q), to |-> q + 1]
    <3>1. NumberBefore(q) = IF Symbol(r.to) = "digits" THEN file[r.to].n ELSE 0
      BY <2>4, <2>6 DEF NumberBefore
    <3>2. q = IF Symbol(r.to) = "digits" THEN r.to + 1 ELSE r.to
      BY <2>4
    <3>3. q # End
      BY <2>4, <2>5
    <3> QED
      BY <3>1, <3>2, <3>3 DEF ReadUint
  <2>8. s.ok <=> NumberBefore(q) <= UintMax /\ Symbol(q) \in form.marks[n + 1]
    BY <2>2, <2>4, <2>7
  <2>9. NumberBefore(q) <= UintMax <=> (file[q - 1].t = "digits" => file[q - 1].n <= UintMax)
    BY <2>5 DEF NumberBefore
  <2>10. s.ok <=> FitsTo(form, n + 1)
    <3>1. FitsTo(form, n)
      BY <2>3 DEF HasRead
    <3> QED
      BY <1>1, <2>8, <2>9, <3>1, FitsToNext DEF q
  <2>11. s.args = Taken(form, c + 1)
    <3>1. r.args = Taken(form, c)
      BY <2>3 DEF HasRead
    <3>2. s.args = Append(r.args, NumberBefore(q))
      BY <2>2, <2>7
    <3> QED
      BY <3>1, <3>2, TakenNext DEF q
  <2>12. s.to = q + 1 /\ s.next = Symbol(q)
    BY <2>2, <2>7
  <2> QED
    BY <2>10, <2>11, <2>12 DEF HasRead, q
<1> QED
  BY <1>2, <1>3

\* The same with the next numbers named, and the mark that was read.
LEMMA NumberThen ==
  ASSUME Ended, NEW R, Within(R, Inner), NEW form, NEW n \in 0..(Most - 1), NEW c \in Nat,
         Exact(R, form, n, c), NEW m, m = n + 1, NEW d, d = c + 1,
         NEW ends, ends \ {"end"} = form.marks[m],
         m \in Range(form.numbers), form.numbers[d] = m
  PROVE  /\ Exact(Number(R, ends), form, m, d)
         /\ Within(Number(R, ends), ends)
         /\ ends \subseteq Inner => Within(Number(R, ends), Inner)
<1>1. Begun
  BY DEF Ended
<1>2. Within(Number(R, ends), ends)
  BY <1>1, NumberWithin
<1>3. Exact(Number(R, ends), form, n + 1, c + 1)
  BY NumberExact
<1> QED
  BY <1>2, <1>3, WithinMore

LEMMA CharExact ==
  ASSUME Ended, NEW R, Within(R, Inner), NEW form, NEW n \in 0..(Most - 1), NEW c \in Nat,
         Exact(R, form, n, c), "digits" \notin form.marks[n + 1],
         n + 1 \notin Range(form.numbers)
  PROVE  Exact(Char(R, form.marks[n + 1]), form, n + 1, c)
<1> DEFINE expected == form.marks[n + 1]
<1> SUFFICES ASSUME NEW s \in Char(R, expected), s.ok \/ FitsTo(form, n + 1)
             PROVE  HasRead(s, form, n + 1, c)
  BY DEF Exact
<1>1. n \in Nat /\ n \in 0..Most /\ Begun /\ (FitsTo(form, n + 1) => FitsTo(form, n))
  <2>1. n \in Nat /\ n \in 0..Most /\ Begun
    BY PlaceIs DEF Ended
  <2> QED
    BY <2>1, FitsToNext
<1>2. CASE s \in R /\ ~s.ok
  BY <1>1, <1>2 DEF Exact, HasRead
<1>3. CASE ~(s \in R /\ ~s.ok)
  <2>1. PICK r \in R : r.ok /\
               s = [r EXCEPT !.ok = Symbol(r.to) \in expected, !.next = Symbol(r.to),
                             !.to = IF r.to = End THEN End ELSE r.to + 1]
    BY <1>3 DEF Char
  <2>3. /\ r \in Reading /\ r.to \in pos..End /\ r.next \in Inner /\ OnLine(r)
        /\ HasRead(r, form, n, c)
    BY <2>1 DEF Within, Exact
  <2> DEFINE p == Place(n)
  <2> DEFINE q == Place(n + 1)
  <2>4. /\ p \in Nat /\ r.to = p + 1 /\ r.to \in 1..Len(file)
        /\ q \in 1..Len(file) /\ Symbol(q) = file[q].t /\ Symbol(r.to) = file[r.to].t
        /\ Symbol(q) \in Tokens \ {"end", "digits"}
        /\ IF file[r.to].t = "digits" THEN q = r.to + 1 ELSE q = r.to
    BY <2>3, GoesOnAt
  <2>5. End \in Nat \ {0} /\ Len(file) = End - 1
    BY Places DEF Ended, Begun, PlaceOK
  <2> HIDE DEF p, q
  <2>6. s.to = r.to + 1 /\ s.next = Symbol(r.to) /\ s.ok = (Symbol(r.to) \in expected)
        /\ s.args = r.args
    BY <2>1, <2>3, <2>4, <2>5 DEF Reading
  <2>7. FitsTo(form, n) /\ r.args = Taken(form, c)
    BY <2>3 DEF HasRead
  <2>8. CASE file[r.to].t = "digits"
    <3>1. ~s.ok
      BY <2>4, <2>6, <2>8
    <3>2. q - 1 = r.to
      BY <2>4, <2>8
    <3>3. ~FitsTo(form, n + 1)
      BY <1>1, <2>8, <3>2, FitsToNext DEF q
    <3> QED
      BY <3>1, <3>3
  <2>9. CASE file[r.to].t # "digits"
    <3>1. q = r.to /\ q - 1 = p
      BY <2>4, <2>9
    <3>2. file[p].t # "digits"
      <4>1. r.to - 1 = p
        BY <2>4
      <4>2. r.next = file[p].t
        BY <2>3, <4>1 DEF OnLine, Inner, LineEnds
      <4> QED
        BY <1>1, <2>3, <4>2, MarkRead DEF p
    <3>3. s.ok <=> FitsTo(form, n + 1)
      BY <1>1, <2>6, <2>7, <3>1, <3>2, FitsToNext DEF q
    <3> QED
      BY <2>6, <2>7, <3>1, <3>3 DEF HasRead, q
  <2> QED
    BY <2>8, <2>9
<1> QED
  BY <1>2, <1>3

LEMMA CharThen ==
  ASSUME Ended, NEW R, Within(R, Inner), NEW form, NEW n \in 0..(Most - 1), NEW c \in Nat,
         Exact(R, form, n, c), NEW m, m = n + 1, NEW expected, expected = form.marks[m],
         "digits" \notin expected, m \notin Range(form.numbers)
  PROVE  /\ Exact(Char(R, expected), form, m, c)
         /\ Within(Char(R, expected), expected)
         /\ expected \subseteq Inner => Within(Char(R, expected), Inner)
<1>1. Begun
  BY DEF Ended
<1>2. Within(Char(R, expected), expected)
  BY <1>1, CharWithin
<1>3. Exact(Char(R, form.marks[n + 1]), form, n + 1, c)
  BY CharExact
<1> QED
  BY <1>2, <1>3, WithinMore

-----------------------------------------------------------------------------
\* What a function of the parser returns for a line that ends in a newline: its
\* numbers if the line has the form, and an error if not.
NumbersOf(form) ==
  [j \in 1..Len(form.numbers) |->
     NumberBefore(MarksFrom(from, Len(form.marks))[form.numbers[j]])]

Answers(readings, form) ==
  \A r \in readings :
    r.ok \/ Fits(from, form) => r.ok /\ Fits(from, form) /\ r.args = NumbersOf(form)

\* Forms that are not longer than the marks considered.
WellFormed(form) ==
  /\ Len(form.marks) \in 0..Most /\ Len(form.numbers) \in Nat
  /\ \A j \in 1..Len(form.numbers) : form.numbers[j] \in 1..Len(form.marks)

LEMMA FitsIs ==
  ASSUME NEW form, WellFormed(form)
  PROVE  /\ Fits(from, form) <=> FitsTo(form, Len(form.marks))
         /\ NumbersOf(form) = Taken(form, Len(form.numbers))
<1> DEFINE n == Len(form.marks)
<1>1. n \in 0..Most /\ n \in Nat
  BY PlaceIs DEF WellFormed
<1>2. \A i \in 0..n : MarksFrom(from, n)[i] = Place(i)
  BY <1>1, PlaceIs
<1>3. \A i \in 1..n : i \in 0..n
  BY <1>1
<1>4. Fits(from, form) <=> FitsTo(form, n)
  BY <1>2, <1>3 DEF Fits, FitsTo
<1>5. \A j \in 1..Len(form.numbers) : MarksFrom(from, n)[form.numbers[j]] = Place(form.numbers[j])
  BY <1>2, <1>3 DEF WellFormed
<1> QED
  BY <1>4, <1>5 DEF NumbersOf, Taken

LEMMA ExactAnswers ==
  ASSUME NEW form, WellFormed(form), NEW R,
         Exact(R, form, Len(form.marks), Len(form.numbers))
  PROVE  Answers(R, form)
BY FitsIs DEF Answers, Exact, HasRead

\* A number, then one of some marks in the middle of the line.
LEMMA InnerMarks ==
  /\ {" "} \subseteq Inner /\ {"["} \subseteq Inner /\ {"("} \subseteq Inner
  /\ {","} \subseteq Inner /\ {")"} \subseteq Inner /\ {" ", "]"} \subseteq Inner
BY DEF Inner, Tokens, Characters, LineEnds

LEMMA CreateAnswers ==
  ASSUME Ended
  PROVE  Answers(CreateArguments, Form(<<{" "}, {" "}, {"newline"}>>, <<1, 2, 3>>))
<1> DEFINE form == Form(<<{" "}, {" "}, {"newline"}>>, <<1, 2, 3>>)
<1>1. /\ form.marks[1] = {" "} /\ form.marks[2] = {" "} /\ form.marks[3] = {"newline"}
      /\ form.numbers[1] = 1 /\ form.numbers[2] = 2 /\ form.numbers[3] = 3
      /\ Len(form.marks) = 3 /\ Len(form.numbers) = 3
      /\ 1 \in Range(form.numbers) /\ 2 \in Range(form.numbers) /\ 3 \in Range(form.numbers)
  BY DEF Form, Range
<1>2. /\ 0 \in 0..(Most - 1) /\ 1 \in 0..(Most - 1) /\ 2 \in 0..(Most - 1) /\ 3 \in 0..Most
      /\ Most \in Nat
  BY PlaceIs
<1> DEFINE one == Number(Start, {" "})
<1> DEFINE two == Number(one, {" "})
<1> DEFINE three == Number(two, LineEnds)
<1>3. CreateArguments = three
  BY DEF CreateArguments
<1> HIDE DEF form
<1>4. WellFormed(form)
  <2>1. ASSUME NEW j \in 1..3
        PROVE  form.numbers[j] \in 1..3
    <3>1. j = 1 \/ j = 2 \/ j = 3
      OBVIOUS
    <3> QED
      BY <1>1, <3>1
  <2>2. Len(form.marks) = 3 /\ Len(form.numbers) = 3 /\ 3 \in Nat
    BY <1>1
  <2> QED
    BY <1>2, <2>1, <2>2 DEF WellFormed
<1>5. LineEnds \ {"end"} = {"newline"} /\ {" "} \ {"end"} = {" "}
  BY DEF LineEnds
<1>6. Within(Start, Inner) /\ Exact(Start, form, 0, 0)
  BY StartWithin, StartExact DEF Ended
<1>7. Within(one, Inner) /\ Exact(one, form, 1, 1)
  <2>1. 1 = 0 + 1
    OBVIOUS
  <2> QED
    BY <1>1, <1>2, <1>5, <1>6, <2>1, InnerMarks, NumberThen
<1> HIDE DEF one
<1>8. Within(two, Inner) /\ Exact(two, form, 2, 2)
  <2>1. 2 = 1 + 1
    OBVIOUS
  <2> QED
    BY <1>1, <1>2, <1>5, <1>7, <2>1, InnerMarks, NumberThen
<1> HIDE DEF two
<1>9. Exact(three, form, 3, 3)
  <2>1. 3 = 2 + 1
    OBVIOUS
  <2> QED
    BY <1>1, <1>2, <1>5, <1>8, <2>1, NumberThen
<1> HIDE DEF three
<1>10. Answers(three, form)
  BY <1>1, <1>4, <1>9, ExactAnswers
<1> QED
  BY <1>3, <1>10 DEF form

\* A line with one number, and what may come after it.
LEMMA OneNumber ==
  ASSUME Ended, NEW marks, NEW ends, ends \ {"end"} = marks
  PROVE  /\ WellFormed(Form(<<marks>>, <<1>>))
         /\ Exact(Number(Start, ends), Form(<<marks>>, <<1>>), 1, 1)
<1> DEFINE form == Form(<<marks>>, <<1>>)
<1>1. /\ form.marks[1] = marks /\ form.numbers[1] = 1
      /\ Len(form.marks) = 1 /\ Len(form.numbers) = 1 /\ 1 \in Range(form.numbers)
  BY DEF Form, Range
<1>2. 0 \in 0..(Most - 1) /\ 1 \in 0..Most /\ Most \in Nat
  BY PlaceIs
<1> HIDE DEF form
<1>3. WellFormed(form)
  <2>1. \A j \in 1..1 : j = 1
    OBVIOUS
  <2> QED
    BY <1>1, <1>2, <2>1 DEF WellFormed
<1>4. Begun /\ Within(Start, Inner) /\ Exact(Start, form, 0, 0)
  BY StartWithin, StartExact DEF Ended
<1>5. Exact(Number(Start, ends), form, 1, 1)
  <2>1. 1 = 0 + 1
    OBVIOUS
  <2> QED
    BY <1>1, <1>2, <1>4, <2>1, NumberThen
<1> QED
  BY <1>3, <1>5 DEF form

LEMMA ShowAnswers ==
  ASSUME Ended
  PROVE  Answers(ShowArguments, Form(<<{"newline"}>>, <<1>>))
<1> DEFINE form == Form(<<{"newline"}>>, <<1>>)
<1>1. LineEnds \ {"end"} = {"newline"}
  BY DEF LineEnds
<1>2. WellFormed(form) /\ Exact(Number(Start, LineEnds), form, 1, 1)
  BY <1>1, OneNumber
<1>3. Len(form.marks) = 1 /\ Len(form.numbers) = 1
  BY DEF Form
<1> HIDE DEF form
<1>4. Answers(Number(Start, LineEnds), form)
  BY <1>2, <1>3, ExactAnswers
<1> QED
  BY <1>4 DEF ShowArguments, form

\* In Part 2 a space may come after the delay.
LEMMA DelayAnswers ==
  ASSUME Ended
  PROVE  Answers(DelayArguments, Form(<<{"newline"} \cup {" "}>>, <<1>>))
<1> DEFINE form == Form(<<{"newline"} \cup {" "}>>, <<1>>)
<1> DEFINE R == Number(Start, LineEnds \cup {" "})
<1>1. (LineEnds \cup {" "}) \ {"end"} = {"newline"} \cup {" "}
  BY DEF LineEnds
<1>2. WellFormed(form) /\ Exact(R, form, 1, 1)
  BY <1>1, OneNumber
<1>3. Len(form.marks) = 1 /\ Len(form.numbers) = 1
  BY DEF Form
<1>4. Within(R, LineEnds \cup {" "})
  BY StartWithin, NumberWithin DEF Ended
<1>5. DelayArguments =
        {[r EXCEPT !.to = IF r.ok /\ r.next = " " THEN Cleanup(r.to) ELSE r.to] : r \in R}
  BY DEF DelayArguments
<1> HIDE DEF form, R
<1>6. Answers(R, form)
  BY <1>2, <1>3, ExactAnswers
<1>7. ASSUME NEW r \in R, NEW p
      PROVE  [r EXCEPT !.to = p].ok = r.ok /\ [r EXCEPT !.to = p].args = r.args
  BY <1>4 DEF Within, Reading
<1>8. ASSUME NEW s \in DelayArguments
      PROVE  \E r \in R : s.ok = r.ok /\ s.args = r.args
  <2>1. PICK r \in R :
          s = [r EXCEPT !.to = IF r.ok /\ r.next = " " THEN Cleanup(r.to) ELSE r.to]
    BY <1>5
  <2> DEFINE p == IF r.ok /\ r.next = " " THEN Cleanup(r.to) ELSE r.to
  <2>2. s = [r EXCEPT !.to = p]
    BY <2>1
  <2> HIDE DEF p
  <2> QED
    BY <1>7, <2>2
<1>9. Answers(DelayArguments, form)
  BY <1>6, <1>8 DEF Answers
<1> QED
  BY <1>9 DEF form

\* In Part 1 that is an error.
LEMMA WaitAnswers ==
  ASSUME Ended
  PROVE  Answers(WaitArguments, Form(<<{"newline"} \cup {}>>, <<1>>))
<1> DEFINE form == Form(<<{"newline"} \cup {}>>, <<1>>)
<1> DEFINE more == Form(<<{"newline", " "}>>, <<1>>)
<1> DEFINE R == Number(Start, LineEnds \cup {" "})
<1>1. (LineEnds \cup {" "}) \ {"end"} = {"newline", " "} /\ LineEnds \ {"end"} = {"newline"} \cup {}
  BY DEF LineEnds
<1>2. WellFormed(form) /\ Exact(R, more, 1, 1)
  BY <1>1, OneNumber
<1>3. /\ Len(form.marks) = 1 /\ Len(form.numbers) = 1
      /\ form.marks[1] = {"newline"} /\ more.marks[1] = {"newline", " "}
      /\ form.numbers = more.numbers
  BY DEF Form
<1>4. Within(R, LineEnds \cup {" "})
  BY StartWithin, NumberWithin DEF Ended
<1>5. WaitArguments = {[r EXCEPT !.ok = r.ok /\ r.next # " "] : r \in R}
  BY DEF WaitArguments
<1> HIDE DEF form, more, R
<1>6. FitsTo(form, 1) <=> FitsTo(more, 1) /\ Symbol(Place(1)) # " "
  <2>1. 1..1 = {1}
    OBVIOUS
  <2>2. Symbol(Place(1)) \in form.marks[1] <=>
          Symbol(Place(1)) \in more.marks[1] /\ Symbol(Place(1)) # " "
    BY <1>3
  <2> QED
    BY <1>3, <2>1, <2>2 DEF FitsTo
<1>7. Taken(form, 1) = Taken(more, 1)
  BY <1>3 DEF Taken
<1>8. ASSUME NEW r \in R, NEW s, s = [r EXCEPT !.ok = r.ok /\ r.next # " "],
             s.ok \/ FitsTo(form, 1)
      PROVE  HasRead(s, form, 1, 1)
  <2>1. /\ s.ok = (r.ok /\ r.next # " ") /\ s.to = r.to /\ s.next = r.next
        /\ s.args = r.args
    BY <1>4, <1>8 DEF Within, Reading
  <2>2. r.ok \/ FitsTo(more, 1)
    BY <1>6, <1>8, <2>1
  <2>3. HasRead(r, more, 1, 1)
    BY <1>2, <2>2 DEF Exact
  <2> QED
    BY <1>6, <1>7, <1>8, <2>1, <2>3 DEF HasRead
<1>9. Exact(WaitArguments, form, 1, 1)
  BY <1>5, <1>8 DEF Exact
<1>10. Answers(WaitArguments, form)
  BY <1>2, <1>3, <1>9, ExactAnswers
<1> QED
  BY <1>10 DEF form

-----------------------------------------------------------------------------
\* The form of a RESERVE.

LEMMA Halves ==
  \A l \in Nat : \/ l % 2 = 0 /\ \E h \in Int : l = 2 * h
                 \/ l % 2 = 1 /\ \E h \in Int : l = 2 * h + 1
OBVIOUS

LEMMA ReserveMarks ==
  ASSUME NEW k \in Nat \ {0}
  PROVE  LET m == ReserveForm(k).marks
         IN  /\ Len(m) = 4 * k + 3
             /\ m[1] = {" "} /\ m[2] = {"["} /\ m[4 * k + 3] = {"newline"}
             /\ \A j \in 0..(k - 1) :
                  /\ m[4 * j + 3] = {"("} /\ m[4 * j + 4] = {","} /\ m[4 * j + 5] = {")"}
                  /\ m[4 * j + 6] = IF j = k - 1 THEN {"]"} ELSE {" "}
<1> DEFINE m == ReserveForm(k).marks
<1>1. m = [i \in 1..(4 * k + 3) |->
             CASE i = 1         -> {" "}
               [] i = 2         -> {"["}
               [] i = 4 * k + 2 -> {"]"}
               [] i = 4 * k + 3 -> {"newline"}
               [] OTHER         -> {<<"(", ",", ")", " ">>[1 + ((i + 1) % 4)]}]
  BY DEF ReserveForm, Form
<1> HIDE DEF m
<1>2. Len(m) = 4 * k + 3
  <2> DEFINE mark(i) == CASE i = 1         -> {" "}
                          [] i = 2         -> {"["}
                          [] i = 4 * k + 2 -> {"]"}
                          [] i = 4 * k + 3 -> {"newline"}
                          [] OTHER         -> {<<"(", ",", ")", " ">>[1 + ((i + 1) % 4)]}
  <2>1. m = [i \in 1..(4 * k + 3) |-> mark(i)]
    BY <1>1
  <2> HIDE DEF mark
  <2>2. DOMAIN m = 1..(4 * k + 3) /\ 4 * k + 3 \in Nat
    BY <2>1
  <2> QED
    BY <2>1, <2>2
<1>3. m[1] = {" "} /\ m[2] = {"["} /\ m[4 * k + 3] = {"newline"} /\ m[4 * k + 2] = {"]"}
  <2>1. /\ 1 \in 1..(4 * k + 3) /\ 2 \in 1..(4 * k + 3) /\ 4 * k + 2 \in 1..(4 * k + 3)
        /\ 4 * k + 3 \in 1..(4 * k + 3)
        /\ 4 * k + 2 # 1 /\ 4 * k + 2 # 2 /\ 4 * k + 3 # 1 /\ 4 * k + 3 # 2
        /\ 4 * k + 3 # 4 * k + 2
    OBVIOUS
  <2>2. m[1] = {" "}
    BY <1>1, <2>1
  <2>3. m[2] = {"["}
    BY <1>1, <2>1
  <2>4. m[4 * k + 3] = {"newline"}
    BY <1>1, <2>1
  <2>5. m[4 * k + 2] = {"]"}
    BY <1>1, <2>1
  <2> QED
    BY <2>2, <2>3, <2>4, <2>5
<1>4. ASSUME NEW j \in 0..(k - 1)
      PROVE  /\ m[4 * j + 3] = {"("} /\ m[4 * j + 4] = {","} /\ m[4 * j + 5] = {")"}
             /\ m[4 * j + 6] = IF j = k - 1 THEN {"]"} ELSE {" "}
  <2>1. /\ ((4 * j + 3) + 1) % 4 = 0 /\ ((4 * j + 4) + 1) % 4 = 1
        /\ ((4 * j + 5) + 1) % 4 = 2 /\ ((4 * j + 6) + 1) % 4 = 3
    OBVIOUS
  <2> DEFINE seat == <<"(", ",", ")", " ">>
  <2>1a. seat[1 + 0] = "(" /\ seat[1 + 1] = "," /\ seat[1 + 2] = ")" /\ seat[1 + 3] = " "
    OBVIOUS
  <2>2. m[4 * j + 3] = {seat[1 + (((4 * j + 3) + 1) % 4)]}
    <3>1. /\ 4 * j + 3 \in 1..(4 * k + 3) /\ 4 * j + 3 # 1 /\ 4 * j + 3 # 2
          /\ 4 * j + 3 # 4 * k + 2 /\ 4 * j + 3 # 4 * k + 3
      OBVIOUS
    <3> QED
      BY <1>1, <3>1
  <2>3. m[4 * j + 4] = {seat[1 + (((4 * j + 4) + 1) % 4)]}
    <3>1. /\ 4 * j + 4 \in 1..(4 * k + 3) /\ 4 * j + 4 # 1 /\ 4 * j + 4 # 2
          /\ 4 * j + 4 # 4 * k + 2 /\ 4 * j + 4 # 4 * k + 3
      OBVIOUS
    <3> QED
      BY <1>1, <3>1
  <2>4. m[4 * j + 5] = {seat[1 + (((4 * j + 5) + 1) % 4)]}
    <3>1. /\ 4 * j + 5 \in 1..(4 * k + 3) /\ 4 * j + 5 # 1 /\ 4 * j + 5 # 2
          /\ 4 * j + 5 # 4 * k + 2 /\ 4 * j + 5 # 4 * k + 3
      OBVIOUS
    <3> QED
      BY <1>1, <3>1
  <2> HIDE DEF seat
  <2>4a. m[4 * j + 3] = {"("} /\ m[4 * j + 4] = {","} /\ m[4 * j + 5] = {")"}
    BY <2>1, <2>1a, <2>2, <2>3, <2>4
  <2>5. CASE j = k - 1
    <3>1. 4 * j + 6 = 4 * k + 2
      BY <2>5
    <3> QED
      BY <1>3, <2>4a, <2>5, <3>1
  <2>6. CASE j # k - 1
    <3>1. /\ 4 * j + 6 \in 1..(4 * k + 3) /\ 4 * j + 6 # 1 /\ 4 * j + 6 # 2
          /\ 4 * j + 6 # 4 * k + 2 /\ 4 * j + 6 # 4 * k + 3
      BY <2>6
    <3>2. m[4 * j + 6] = {seat[1 + (((4 * j + 6) + 1) % 4)]}
      BY <1>1, <3>1 DEF seat
    <3> QED
      BY <2>1, <2>1a, <2>4a, <2>6, <3>2
  <2> QED
    BY <2>5, <2>6
<1> QED
  BY <1>2, <1>3, <1>4 DEF m

LEMMA ReserveNumbers ==
  ASSUME NEW k \in Nat \ {0}
  PROVE  LET n == ReserveForm(k).numbers
         IN  /\ Len(n) = 2 * k + 1 /\ DOMAIN n = 1..(2 * k + 1)
             /\ n[1] = 1
             /\ \A j \in 0..(k - 1) : n[2 * j + 2] = 4 * j + 4 /\ n[2 * j + 3] = 4 * j + 5
             /\ \A i \in Nat : i \in Range(n) <=>
                  i = 1 \/ \E j \in 0..(k - 1) : i = 4 * j + 4 \/ i = 4 * j + 5
<1> DEFINE n == ReserveForm(k).numbers
<1>1. n = [j \in 1..(2 * k + 1) |-> IF j % 2 = 0 THEN 2 * j ELSE 2 * j - 1]
  BY DEF ReserveForm, Form
<1> HIDE DEF n
<1>2. \A j \in Nat : (2 * j + 2) % 2 = 0 /\ (2 * j + 3) % 2 = 1
  OBVIOUS
<1>3. DOMAIN n = 1..(2 * k + 1) /\ Len(n) = 2 * k + 1
  BY <1>1
<1>4. n[1] = 1
  BY <1>1
<1>5. ASSUME NEW j \in 0..(k - 1)
      PROVE  n[2 * j + 2] = 4 * j + 4 /\ n[2 * j + 3] = 4 * j + 5
  <2>1. 2 * j + 2 \in 1..(2 * k + 1) /\ 2 * j + 3 \in 1..(2 * k + 1) /\ j \in Nat
    OBVIOUS
  <2> QED
    BY <1>1, <1>2, <2>1
<1>6. ASSUME NEW l \in 1..(2 * k + 1)
      PROVE  l = 1 \/ \E j \in 0..(k - 1) : l = 2 * j + 2 \/ l = 2 * j + 3
  <2>1. CASE l % 2 = 0
    <3>1. PICK h \in Int : l = 2 * h
      BY <2>1, Halves
    <3>2. h - 1 \in 0..(k - 1) /\ l = 2 * (h - 1) + 2
      BY <3>1
    <3> QED
      BY <3>2
  <2>2. CASE l % 2 # 0
    <3>1. PICK h \in Int : l = 2 * h + 1
      BY <2>2, Halves
    <3>2. l = 1 \/ (h - 1 \in 0..(k - 1) /\ l = 2 * (h - 1) + 3)
      BY <3>1
    <3> QED
      BY <3>2
  <2> QED
    BY <2>1, <2>2
<1>7. ASSUME NEW i \in Nat
      PROVE  i \in Range(n) <=> i = 1 \/ \E j \in 0..(k - 1) : i = 4 * j + 4 \/ i = 4 * j + 5
  <2>1. ASSUME i \in Range(n)
        PROVE  i = 1 \/ \E j \in 0..(k - 1) : i = 4 * j + 4 \/ i = 4 * j + 5
    <3>1. PICK l \in 1..(2 * k + 1) : i = n[l]
      BY <1>3, <2>1 DEF Range
    <3> QED
      BY <1>4, <1>5, <1>6, <3>1
  <2>2. ASSUME i = 1 \/ \E j \in 0..(k - 1) : i = 4 * j + 4 \/ i = 4 * j + 5
        PROVE  i \in Range(n)
    <3>1. CASE i = 1
      BY <1>3, <1>4, <3>1 DEF Range
    <3>2. ASSUME NEW j \in 0..(k - 1), i = 4 * j + 4 \/ i = 4 * j + 5
          PROVE  i \in Range(n)
      <4>1. 2 * j + 2 \in DOMAIN n /\ 2 * j + 3 \in DOMAIN n
        BY <1>3
      <4> QED
        BY <1>5, <3>2, <4>1 DEF Range
    <3> QED
      BY <2>2, <3>1, <3>2
  <2> QED
    BY <2>1, <2>2
<1> QED
  BY <1>3, <1>4, <1>5, <1>7 DEF n

\* The form of a list that goes on for ever, as far as it may be read.
Open == ReserveForm(MaxReservation + 1)

\* It differs from that of a list that ends, in the mark that ends it.
LEMMA OpenIs ==
  ASSUME NEW k \in 1..MaxReservation
  PROVE  /\ \A i \in 1..(4 * k + 1) : ReserveForm(k).marks[i] = Open.marks[i]
         /\ ReserveForm(k).marks[4 * k + 2] = {"]"} /\ Open.marks[4 * k + 2] = {" "}
         /\ \A i \in 1..(4 * k + 3) :
              i \in Range(ReserveForm(k).numbers) <=> i \in Range(Open.numbers)
         /\ 4 * k + 2 \notin Range(Open.numbers)
         /\ \A j \in 1..(2 * k + 1) : ReserveForm(k).numbers[j] = Open.numbers[j]
<1> DEFINE M == MaxReservation + 1
<1>1. k \in Nat \ {0} /\ M \in Nat \ {0} /\ k < M
  BY NumbersAssumption
<1>2. Open = ReserveForm(M)
  BY DEF Open
<1> HIDE DEF M
<1>3. ASSUME NEW i \in 1..(4 * k + 1)
      PROVE  ReserveForm(k).marks[i] = Open.marks[i]
  <2>1. /\ i \in 1..(4 * k + 3) /\ i \in 1..(4 * M + 3) /\ i # 4 * k + 2 /\ i # 4 * k + 3
        /\ i # 4 * M + 2 /\ i # 4 * M + 3
    BY <1>1
  <2> DEFINE other == {<<"(", ",", ")", " ">>[1 + ((i + 1) % 4)]}
  <2>2. ReserveForm(k).marks[i] = CASE i = 1 -> {" "} [] i = 2 -> {"["} [] OTHER -> other
    BY <2>1 DEF ReserveForm, Form
  <2>3. ReserveForm(M).marks[i] = CASE i = 1 -> {" "} [] i = 2 -> {"["} [] OTHER -> other
    BY <2>1 DEF ReserveForm, Form
  <2> QED
    BY <1>2, <2>2, <2>3
<1>4. ReserveForm(k).marks[4 * k + 2] = {"]"} /\ Open.marks[4 * k + 2] = {" "}
  <2>1. k - 1 \in 0..(k - 1) /\ k - 1 \in 0..(M - 1) /\ k - 1 # M - 1 /\ 4 * (k - 1) + 6 = 4 * k + 2
    BY <1>1
  <2>2. ReserveForm(k).marks[4 * (k - 1) + 6] = {"]"}
    BY <1>1, <2>1, ReserveMarks
  <2>3. ReserveForm(M).marks[4 * (k - 1) + 6] = {" "}
    BY <1>1, <2>1, ReserveMarks
  <2> QED
    BY <1>2, <2>1, <2>2, <2>3
<1>5. ASSUME NEW i \in 1..(4 * k + 3)
      PROVE  i \in Range(ReserveForm(k).numbers) <=> i \in Range(Open.numbers)
  <2>1. i \in Nat
    BY <1>1
  <2>2. \A j \in 0..(M - 1) : i = 4 * j + 4 \/ i = 4 * j + 5 => j \in 0..(k - 1)
    BY <1>1
  <2>3. \A j \in 0..(k - 1) : j \in 0..(M - 1)
    BY <1>1
  <2>4. i \in Range(ReserveForm(k).numbers) <=>
          i = 1 \/ \E j \in 0..(k - 1) : i = 4 * j + 4 \/ i = 4 * j + 5
    BY <1>1, <2>1, ReserveNumbers
  <2>5. i \in Range(Open.numbers) <=>
          i = 1 \/ \E j \in 0..(M - 1) : i = 4 * j + 4 \/ i = 4 * j + 5
    BY <1>1, <1>2, <2>1, ReserveNumbers
  <2> QED
    BY <2>2, <2>3, <2>4, <2>5
<1>6. 4 * k + 2 \notin Range(Open.numbers)
  <2>1. 4 * k + 2 \in Nat /\ 4 * k + 2 # 1
        /\ \A j \in 0..(M - 1) : 4 * k + 2 # 4 * j + 4 /\ 4 * k + 2 # 4 * j + 5
    BY <1>1
  <2> QED
    BY <1>1, <1>2, <2>1, ReserveNumbers
<1>7. ASSUME NEW j \in 1..(2 * k + 1)
      PROVE  ReserveForm(k).numbers[j] = Open.numbers[j]
  <2>1. j \in 1..(2 * M + 1)
    BY <1>1
  <2> QED
    BY <1>2, <2>1 DEF ReserveForm, Form
<1> QED
  BY <1>3, <1>4, <1>5, <1>6, <1>7

\* The same up to the k-th seat, which may be the last.
EitherWay(k) == [Open EXCEPT !.marks = [Open.marks EXCEPT ![4 * k + 2] = {" ", "]"}]]

LEMMA EitherWayIs ==
  ASSUME NEW k \in 1..MaxReservation
  PROVE  /\ EitherWay(k).numbers = Open.numbers
         /\ EitherWay(k).marks[4 * k + 2] = {" ", "]"}
         /\ \A i \in 1..(4 * k + 1) : EitherWay(k).marks[i] = Open.marks[i]
<1> DEFINE M == MaxReservation + 1
<1>1. k \in Nat \ {0} /\ M \in Nat \ {0} /\ k < M
  BY NumbersAssumption
<1>2. Open = ReserveForm(M)
  BY DEF Open
<1>3. DOMAIN Open.marks = 1..(4 * M + 3) /\ Open = Form(Open.marks, Open.numbers)
  <2> DEFINE mark(i) == CASE i = 1         -> {" "}
                          [] i = 2         -> {"["}
                          [] i = 4 * M + 2 -> {"]"}
                          [] i = 4 * M + 3 -> {"newline"}
                          [] OTHER         -> {<<"(", ",", ")", " ">>[1 + ((i + 1) % 4)]}
  <2>1. Open.marks = [i \in 1..(4 * M + 3) |-> mark(i)] /\ Open = Form(Open.marks, Open.numbers)
    BY <1>2 DEF ReserveForm, Form
  <2> HIDE DEF mark
  <2> QED
    BY <2>1
<1>4. 4 * k + 2 \in 1..(4 * M + 3) /\ \A i \in 1..(4 * k + 1) : i \in 1..(4 * M + 3) /\ i # 4 * k + 2
  BY <1>1
<1> HIDE DEF M
<1>5. EitherWay(k) = Form([Open.marks EXCEPT ![4 * k + 2] = {" ", "]"}], Open.numbers)
  <2> DEFINE marks == [Open.marks EXCEPT ![4 * k + 2] = {" ", "]"}]
  <2>1. EitherWay(k) = [Open EXCEPT !.marks = marks]
    BY DEF EitherWay
  <2> HIDE DEF marks
  <2>2. [Open EXCEPT !.marks = marks] = Form(marks, Open.numbers)
    BY <1>3 DEF Form
  <2> QED
    BY <2>1, <2>2 DEF marks
<1>6. /\ EitherWay(k).numbers = Open.numbers
      /\ EitherWay(k).marks = [Open.marks EXCEPT ![4 * k + 2] = {" ", "]"}]
  <2> DEFINE marks == [Open.marks EXCEPT ![4 * k + 2] = {" ", "]"}]
  <2>1. EitherWay(k) = Form(marks, Open.numbers)
    BY <1>5
  <2> HIDE DEF marks
  <2>2. EitherWay(k).numbers = Open.numbers /\ EitherWay(k).marks = marks
    BY <2>1 DEF Form
  <2> QED
    BY <2>2 DEF marks
<1>7. EitherWay(k).marks[4 * k + 2] = {" ", "]"}
  BY <1>3, <1>4, <1>6
<1>8. \A i \in 1..(4 * k + 1) : EitherWay(k).marks[i] = Open.marks[i]
  BY <1>3, <1>4, <1>6
<1> QED
  BY <1>6, <1>7, <1>8

\* What fits each of the three.
LEMMA FitsEither ==
  ASSUME NEW k \in 1..MaxReservation
  PROVE  /\ \A n \in 0..(4 * k + 1) : FitsTo(EitherWay(k), n) <=> FitsTo(Open, n)
         /\ FitsTo(Open, 4 * k + 2) <=>
              FitsTo(EitherWay(k), 4 * k + 2) /\ Symbol(Place(4 * k + 2)) = " "
         /\ FitsTo(ReserveForm(k), 4 * k + 2) <=>
              FitsTo(EitherWay(k), 4 * k + 2) /\ Symbol(Place(4 * k + 2)) = "]"
         /\ \A n \in 0..(4 * k + 1) : FitsTo(ReserveForm(k), n) <=> FitsTo(Open, n)
         /\ Taken(ReserveForm(k), 2 * k + 1) = Taken(Open, 2 * k + 1)
         /\ \A n : Taken(EitherWay(k), n) = Taken(Open, n)
<1>1. k \in Nat /\ 4 * k + 1 \in Nat /\ (4 * k + 1) + 1 = 4 * k + 2
  BY NumbersAssumption
<1>2. ASSUME NEW n \in 0..(4 * k + 1)
      PROVE  FitsTo(EitherWay(k), n) <=> FitsTo(Open, n)
  <2>1. \A i \in 1..n : i \in 1..(4 * k + 1)
    BY <1>1
  <2> QED
    BY <2>1, EitherWayIs DEF FitsTo
<1>3. ASSUME NEW n \in 0..(4 * k + 1)
      PROVE  FitsTo(ReserveForm(k), n) <=> FitsTo(Open, n)
  <2>1. \A i \in 1..n : i \in 1..(4 * k + 1) /\ i \in 1..(4 * k + 3)
    BY <1>1
  <2> QED
    BY <2>1, OpenIs DEF FitsTo
<1>4. 4 * k + 1 \in 0..(4 * k + 1) /\ 4 * k + 2 \in 1..(4 * k + 3)
  BY <1>1
<1> DEFINE s == Symbol(Place(4 * k + 2))
<1> DEFINE none == file[Place(4 * k + 2) - 1].t # "digits"
<1>5. 4 * k + 2 \notin Range(Open.numbers) /\ 4 * k + 2 \notin Range(ReserveForm(k).numbers)
      /\ 4 * k + 2 \notin Range(EitherWay(k).numbers)
  BY <1>4, OpenIs, EitherWayIs
<1>5a. /\ Open.marks[4 * k + 2] = {" "} /\ ReserveForm(k).marks[4 * k + 2] = {"]"}
       /\ EitherWay(k).marks[4 * k + 2] = {" ", "]"}
  BY OpenIs, EitherWayIs
<1>6. FitsTo(Open, 4 * k + 2) <=> FitsTo(Open, 4 * k + 1) /\ s = " " /\ none
  <2>1. FitsTo(Open, (4 * k + 1) + 1) <=>
          /\ FitsTo(Open, 4 * k + 1) /\ Symbol(Place((4 * k + 1) + 1)) \in Open.marks[(4 * k + 1) + 1]
          /\ file[Place((4 * k + 1) + 1) - 1].t = "digits" =>
               (4 * k + 1) + 1 \in Range(Open.numbers)
               /\ file[Place((4 * k + 1) + 1) - 1].n <= UintMax
    BY <1>1, FitsToNext
  <2> QED
    BY <1>1, <1>5, <1>5a, <2>1
<1>7. FitsTo(EitherWay(k), 4 * k + 2) <=>
        FitsTo(EitherWay(k), 4 * k + 1) /\ s \in {" ", "]"} /\ none
  <2>1. FitsTo(EitherWay(k), (4 * k + 1) + 1) <=>
          /\ FitsTo(EitherWay(k), 4 * k + 1)
          /\ Symbol(Place((4 * k + 1) + 1)) \in EitherWay(k).marks[(4 * k + 1) + 1]
          /\ file[Place((4 * k + 1) + 1) - 1].t = "digits" =>
               (4 * k + 1) + 1 \in Range(EitherWay(k).numbers)
               /\ file[Place((4 * k + 1) + 1) - 1].n <= UintMax
    BY <1>1, FitsToNext
  <2> QED
    BY <1>1, <1>5, <1>5a, <2>1
<1>8. FitsTo(ReserveForm(k), 4 * k + 2) <=>
        FitsTo(ReserveForm(k), 4 * k + 1) /\ s = "]" /\ none
  <2>1. FitsTo(ReserveForm(k), (4 * k + 1) + 1) <=>
          /\ FitsTo(ReserveForm(k), 4 * k + 1)
          /\ Symbol(Place((4 * k + 1) + 1)) \in ReserveForm(k).marks[(4 * k + 1) + 1]
          /\ file[Place((4 * k + 1) + 1) - 1].t = "digits" =>
               (4 * k + 1) + 1 \in Range(ReserveForm(k).numbers)
               /\ file[Place((4 * k + 1) + 1) - 1].n <= UintMax
    BY <1>1, FitsToNext
  <2> QED
    BY <1>1, <1>5, <1>5a, <2>1
<1>9. Taken(ReserveForm(k), 2 * k + 1) = Taken(Open, 2 * k + 1)
  BY OpenIs DEF Taken
<1>10. \A n : Taken(EitherWay(k), n) = Taken(Open, n)
  BY EitherWayIs DEF Taken
<1>11. FitsTo(EitherWay(k), 4 * k + 1) <=> FitsTo(Open, 4 * k + 1)
  BY <1>2, <1>4
<1>12. FitsTo(ReserveForm(k), 4 * k + 1) <=> FitsTo(Open, 4 * k + 1)
  BY <1>3, <1>4
<1> QED
  BY <1>2, <1>3, <1>6, <1>7, <1>8, <1>9, <1>10, <1>11, <1>12

\* More marks of a form include fewer.
LEMMA FitsLess ==
  ASSUME NEW form, NEW n \in Nat, NEW m \in 0..n, FitsTo(form, n)
  PROVE  FitsTo(form, m)
BY DEF FitsTo

-----------------------------------------------------------------------------
\* The seats of a RESERVE, as the line lists them.

\* A content reading of j seats has read them all, the list being open, or fewer
\* of a list that ended; and it is content if it can.
SeatsExact(readings, j) ==
  \A r \in readings :
    /\ r.ok => \/ HasRead(r, Open, 4 * j + 2, 2 * j + 1)
               \/ \E k \in 1..j : HasRead(r, ReserveForm(k), 4 * k + 2, 2 * k + 1)
    /\ FitsTo(Open, 4 * j + 2) => HasRead(r, Open, 4 * j + 2, 2 * j + 1)
    /\ \A k \in 1..j : FitsTo(ReserveForm(k), 4 * k + 2) =>
                         HasRead(r, ReserveForm(k), 4 * k + 2, 2 * k + 1)

\* The marks that may come last then.
LEMMA LastMark ==
  ASSUME NEW j \in 0..MaxReservation, FitsTo(Open, 4 * j + 2)
  PROVE  Symbol(Place(4 * j + 2)) # "]" /\ \A k \in 1..j : Symbol(Place(4 * k + 2)) # "]"
<1>1. MaxReservation + 1 \in Nat \ {0} /\ Open = ReserveForm(MaxReservation + 1) /\ j \in Nat
  BY NumbersAssumption DEF Open
<1>2. Open.marks[2] = {"["}
  BY <1>1, ReserveMarks
<1>3. ASSUME NEW k \in 0..j
      PROVE  Symbol(Place(4 * k + 2)) # "]"
  <2>1. 4 * k + 2 \in 1..(4 * j + 2)
    BY <1>1
  <2>2. Symbol(Place(4 * k + 2)) \in Open.marks[4 * k + 2]
    BY <2>1 DEF FitsTo
  <2>3. CASE k = 0
    <3>1. 4 * k + 2 = 2
      BY <2>3
    <3> QED
      BY <1>2, <2>2, <3>1
  <2>4. CASE k # 0
    <3>1. k \in 1..MaxReservation
      BY <1>1, <2>4, NumbersAssumption
    <3> QED
      BY <2>2, <3>1, OpenIs
  <2> QED
    BY <2>3, <2>4
<1>4. j \in 0..j /\ \A k \in 1..j : k \in 0..j
  BY <1>1
<1> QED
  BY <1>3, <1>4

\* One more seat of an open list.
LEMMA SeatExact ==
  ASSUME Ended, NEW j \in 1..MaxReservation, NEW R, Within(R, Inner),
         Exact(R, Open, 4 * j - 2, 2 * j - 1)
  PROVE  Exact(Char(Number(Number(Char(R, {"("}), {","}), {")"}), {" ", "]"}),
               EitherWay(j), 4 * j + 2, 2 * j + 1)
<1> DEFINE form == EitherWay(j)
<1>1. /\ MaxReservation \in Nat /\ j \in Nat \ {0} /\ MaxReservation + 1 \in Nat \ {0}
      /\ Open = ReserveForm(MaxReservation + 1) /\ Most = 4 * MaxReservation + 3
  BY NumbersAssumption DEF Open, Most
<1>2. /\ 4 * j - 2 \in 0..(Most - 1) /\ 4 * j - 1 \in 0..(Most - 1) /\ 4 * j \in 0..(Most - 1)
      /\ 4 * j + 1 \in 0..(Most - 1) /\ 2 * j - 1 \in Nat /\ 2 * j \in Nat /\ 2 * j + 1 \in Nat
      /\ 4 * j - 1 = (4 * j - 2) + 1 /\ 4 * j = (4 * j - 1) + 1 /\ 4 * j + 2 = (4 * j + 1) + 1
      /\ 2 * j = (2 * j - 1) + 1 /\ 4 * j - 2 \in 0..(4 * j + 1)
  BY <1>1
<1>3. /\ form.marks[4 * j - 1] = {"("} /\ form.marks[4 * j] = {","}
      /\ form.marks[4 * j + 1] = {")"} /\ form.marks[4 * j + 2] = {" ", "]"}
  <2>1. /\ j - 1 \in 0..((MaxReservation + 1) - 1) /\ 4 * (j - 1) + 3 = 4 * j - 1
        /\ 4 * (j - 1) + 4 = 4 * j /\ 4 * (j - 1) + 5 = 4 * j + 1
        /\ 4 * j - 1 \in 1..(4 * j + 1) /\ 4 * j \in 1..(4 * j + 1) /\ 4 * j + 1 \in 1..(4 * j + 1)
    BY <1>1
  <2>2. /\ Open.marks[4 * (j - 1) + 3] = {"("} /\ Open.marks[4 * (j - 1) + 4] = {","}
        /\ Open.marks[4 * (j - 1) + 5] = {")"}
    BY <1>1, <2>1, ReserveMarks
  <2>3. \A i \in 1..(4 * j + 1) : form.marks[i] = Open.marks[i]
    BY EitherWayIs
  <2>4. form.marks[4 * j + 2] = {" ", "]"}
    BY EitherWayIs
  <2> QED
    BY <2>1, <2>2, <2>3, <2>4
<1>4. /\ form.numbers[2 * j] = 4 * j /\ form.numbers[2 * j + 1] = 4 * j + 1
      /\ 4 * j \in Range(form.numbers) /\ 4 * j + 1 \in Range(form.numbers)
      /\ 4 * j - 1 \notin Range(form.numbers) /\ 4 * j + 2 \notin Range(form.numbers)
  <2>1. form.numbers = Open.numbers
    BY EitherWayIs
  <2>2. j - 1 \in 0..((MaxReservation + 1) - 1) /\ 2 * (j - 1) + 2 = 2 * j /\ 2 * (j - 1) + 3 = 2 * j + 1
        /\ 4 * (j - 1) + 4 = 4 * j /\ 4 * (j - 1) + 5 = 4 * j + 1
    BY <1>1
  <2>3. Open.numbers[2 * j] = 4 * j /\ Open.numbers[2 * j + 1] = 4 * j + 1
    <3>1. Open.numbers[2 * (j - 1) + 2] = 4 * (j - 1) + 4
          /\ Open.numbers[2 * (j - 1) + 3] = 4 * (j - 1) + 5
      BY <1>1, <2>2, ReserveNumbers
    <3> QED
      BY <2>2, <3>1
  <2>4. DOMAIN Open.numbers = 1..(2 * (MaxReservation + 1) + 1)
    BY <1>1, ReserveNumbers
  <2>5. 2 * j \in 1..(2 * (MaxReservation + 1) + 1) /\ 2 * j + 1 \in 1..(2 * (MaxReservation + 1) + 1)
    BY <1>1
  <2>6. 4 * j \in Range(Open.numbers) /\ 4 * j + 1 \in Range(Open.numbers)
    BY <2>3, <2>4, <2>5 DEF Range
  <2>7. 4 * j - 1 \notin Range(Open.numbers)
    <3>1. 4 * j - 1 \in Nat /\ 4 * j - 1 # 1
          /\ \A i \in 0..((MaxReservation + 1) - 1) : 4 * j - 1 # 4 * i + 4 /\ 4 * j - 1 # 4 * i + 5
      BY <1>1
    <3> QED
      BY <1>1, <3>1, ReserveNumbers
  <2>8. 4 * j + 2 \notin Range(Open.numbers)
    BY OpenIs
  <2> QED
    BY <2>1, <2>3, <2>6, <2>7, <2>8
<1>5. Exact(R, form, 4 * j - 2, 2 * j - 1)
  <2>1. FitsTo(form, 4 * j - 2) <=> FitsTo(Open, 4 * j - 2)
    BY <1>2, FitsEither
  <2>2. Taken(form, 2 * j - 1) = Taken(Open, 2 * j - 1)
    BY FitsEither
  <2> QED
    BY <2>1, <2>2 DEF Exact, HasRead
<1> HIDE DEF form
<1> DEFINE a == 4 * j - 2
<1> DEFINE b == 4 * j - 1
<1> DEFINE c == 4 * j
<1> DEFINE d == 4 * j + 1
<1> DEFINE e == 4 * j + 2
<1> DEFINE x == 2 * j - 1
<1> DEFINE y == 2 * j
<1> DEFINE z == 2 * j + 1
<1>6. /\ a \in 0..(Most - 1) /\ b \in 0..(Most - 1) /\ c \in 0..(Most - 1) /\ d \in 0..(Most - 1)
      /\ b = a + 1 /\ c = b + 1 /\ d = c + 1 /\ e = d + 1
      /\ x \in Nat /\ y \in Nat /\ z \in Nat /\ y = x + 1 /\ z = y + 1
      /\ form.marks[b] = {"("} /\ form.marks[c] = {","} /\ form.marks[d] = {")"}
      /\ form.marks[e] = {" ", "]"}
      /\ form.numbers[y] = c /\ form.numbers[z] = d
      /\ c \in Range(form.numbers) /\ d \in Range(form.numbers)
      /\ b \notin Range(form.numbers) /\ e \notin Range(form.numbers)
      /\ Exact(R, form, a, x)
  BY <1>2, <1>3, <1>4, <1>5
<1> DEFINE R1 == Char(R, {"("})
<1> DEFINE R2 == Number(R1, {","})
<1> DEFINE R3 == Number(R2, {")"})
<1> DEFINE R4 == Char(R3, {" ", "]"})
<1> SUFFICES Exact(R4, form, e, z)
  BY DEF form
<1> HIDE DEF a, b, c, d, e, x, y, z
<1>7. /\ {"("} \subseteq Inner /\ {","} \subseteq Inner /\ {")"} \subseteq Inner
      /\ "digits" \notin {"("} /\ "digits" \notin {" ", "]"}
      /\ {","} \ {"end"} = {","} /\ {")"} \ {"end"} = {")"}
  BY InnerMarks
<1>8. Exact(R1, form, b, x) /\ Within(R1, Inner)
  BY <1>6, <1>7, CharThen
<1> HIDE DEF R1
<1>9. Exact(R2, form, c, y) /\ Within(R2, Inner)
  BY <1>6, <1>7, <1>8, NumberThen
<1> HIDE DEF R2
<1>10. Exact(R3, form, d, z) /\ Within(R3, Inner)
  BY <1>6, <1>7, <1>9, NumberThen
<1> HIDE DEF R3
<1> QED
  BY <1>6, <1>7, <1>10, CharThen

LEMMA OneMoreSeatExact ==
  ASSUME Ended, NEW j \in 1..MaxReservation, NEW R, Within(R, Inner), SeatsExact(R, j - 1)
  PROVE  SeatsExact(OneMoreSeat(R), j)
<1>1. /\ j - 1 \in 0..MaxReservation /\ MaxReservation \in Nat /\ j \in Nat
      /\ 4 * (j - 1) + 2 = 4 * j - 2 /\ 2 * (j - 1) + 1 = 2 * j - 1
      /\ 4 * j - 2 \in 0..(4 * j + 2) /\ 4 * j - 2 \in 0..(4 * j + 1) /\ 4 * j + 2 \in Nat
      /\ 4 * j - 2 \in Nat /\ 4 * j + 1 \in 0..(4 * j + 2) /\ 4 * j - 2 \in 0..(4 * j - 2)
      /\ 4 * j + 1 \in Nat
      /\ \A k \in 1..(j - 1) : k \in 1..j /\ k \in 1..MaxReservation
      /\ \A k \in 1..j : k = j \/ k \in 1..(j - 1)
      /\ j \in 1..j
  BY NumbersAssumption
<1>2. FitsTo(Open, 4 * j + 2) => FitsTo(Open, 4 * j - 2)
  BY <1>1, FitsLess
<1>3. FitsTo(ReserveForm(j), 4 * j + 2) => FitsTo(Open, 4 * j - 2)
  <2> SUFFICES ASSUME FitsTo(ReserveForm(j), 4 * j + 2) PROVE FitsTo(Open, 4 * j - 2)
    OBVIOUS
  <2>1. FitsTo(ReserveForm(j), 4 * j - 2)
    BY <1>1, FitsLess
  <2> QED
    BY <1>1, <2>1, FitsEither
<1> DEFINE open == {r \in R : r.ok /\ r.next # "]"}
<1> SUFFICES ASSUME NEW s \in OneMoreSeat(R)
             PROVE  /\ s.ok => \/ HasRead(s, Open, 4 * j + 2, 2 * j + 1)
                               \/ \E k \in 1..j : HasRead(s, ReserveForm(k), 4 * k + 2, 2 * k + 1)
                    /\ FitsTo(Open, 4 * j + 2) => HasRead(s, Open, 4 * j + 2, 2 * j + 1)
                    /\ \A k \in 1..j : FitsTo(ReserveForm(k), 4 * k + 2) =>
                         HasRead(s, ReserveForm(k), 4 * k + 2, 2 * k + 1)
  BY DEF SeatsExact
<1>4. \A r \in R :
        /\ r.ok => \/ HasRead(r, Open, 4 * j - 2, 2 * j - 1)
                   \/ \E k \in 1..(j - 1) : HasRead(r, ReserveForm(k), 4 * k + 2, 2 * k + 1)
        /\ FitsTo(Open, 4 * j - 2) => HasRead(r, Open, 4 * j - 2, 2 * j - 1)
        /\ \A k \in 1..(j - 1) : FitsTo(ReserveForm(k), 4 * k + 2) =>
             HasRead(r, ReserveForm(k), 4 * k + 2, 2 * k + 1)
  BY <1>1 DEF SeatsExact
<1>5. FitsTo(Open, 4 * j - 2) =>
        Symbol(Place(4 * j - 2)) # "]" /\ \A k \in 1..(j - 1) : Symbol(Place(4 * k + 2)) # "]"
  BY <1>1, LastMark
<1>6. \A k \in 1..j : FitsTo(ReserveForm(k), 4 * k + 2) => Symbol(Place(4 * k + 2)) = "]"
  <2>1. \A k \in 1..j : k \in 1..MaxReservation
    BY <1>1
  <2> QED
    BY <2>1, FitsEither
\* The list had ended, or an error had been seen.
<1>7. CASE s \in R \ open
  <2>1. s \in R /\ (s.ok => s.next = "]")
    BY <1>7
  <2>2. ~FitsTo(Open, 4 * j - 2)
    BY <1>4, <1>5, <2>1 DEF HasRead
  <2>3. ~FitsTo(Open, 4 * j + 2) /\ ~FitsTo(ReserveForm(j), 4 * j + 2)
    BY <1>2, <1>3, <2>2
  <2>4. \A k \in 1..j : FitsTo(ReserveForm(k), 4 * k + 2) => k \in 1..(j - 1)
    BY <1>1, <2>3
  <2>5. s.ok => \E k \in 1..(j - 1) : HasRead(s, ReserveForm(k), 4 * k + 2, 2 * k + 1)
    BY <1>4, <2>1, <2>2 DEF HasRead
  <2> QED
    BY <1>1, <1>4, <2>1, <2>3, <2>4, <2>5
\* It went on.
<1>8. CASE s \notin R \ open
  <2>1. s \in Char(Number(Number(Char(open, {"("}), {","}), {")"}), {" ", "]"})
    BY <1>8 DEF OneMoreSeat
  <2>2. Within(open, Inner)
    BY WithinPart
  <2>3. ASSUME NEW r \in open
        PROVE  HasRead(r, Open, 4 * j - 2, 2 * j - 1)
    <3>1. r \in R /\ r.ok /\ r.next # "]"
      OBVIOUS
    <3>2. \A k \in 1..(j - 1) : ~HasRead(r, ReserveForm(k), 4 * k + 2, 2 * k + 1)
      BY <1>1, <1>6, <3>1 DEF HasRead
    <3> QED
      BY <1>4, <3>1, <3>2
  <2>4. Exact(open, Open, 4 * j - 2, 2 * j - 1)
    BY <2>3 DEF Exact
  <2>5. \E r \in open : TRUE
    BY <2>1 DEF Char, Number
  <2> HIDE DEF open
  <2>6. s.ok \/ FitsTo(EitherWay(j), 4 * j + 2) => HasRead(s, EitherWay(j), 4 * j + 2, 2 * j + 1)
    BY <2>1, <2>2, <2>4, SeatExact DEF Exact
  <2>7. FitsTo(Open, 4 * j - 2)
    BY <2>3, <2>5 DEF HasRead
  <2>8. \A k \in 1..(j - 1) : ~FitsTo(ReserveForm(k), 4 * k + 2)
    BY <1>1, <1>5, <1>6, <2>7
  <2> DEFINE t == Symbol(Place(4 * j + 2))
  <2>9. /\ FitsTo(Open, 4 * j + 2) <=> FitsTo(EitherWay(j), 4 * j + 2) /\ t = " "
        /\ FitsTo(ReserveForm(j), 4 * j + 2) <=> FitsTo(EitherWay(j), 4 * j + 2) /\ t = "]"
        /\ Taken(ReserveForm(j), 2 * j + 1) = Taken(Open, 2 * j + 1)
        /\ Taken(EitherWay(j), 2 * j + 1) = Taken(Open, 2 * j + 1)
    BY FitsEither
  <2>10. FitsTo(EitherWay(j), 4 * j + 2) => t = " " \/ t = "]"
    <3>1. EitherWay(j).marks[4 * j + 2] = {" ", "]"}
      BY EitherWayIs
    <3>2. 4 * j + 2 \in 1..(4 * j + 2)
      BY <1>1
    <3> QED
      BY <3>1, <3>2 DEF FitsTo
  <2>11. FitsTo(Open, 4 * j + 2) => HasRead(s, Open, 4 * j + 2, 2 * j + 1)
    BY <2>6, <2>9 DEF HasRead
  <2>12. FitsTo(ReserveForm(j), 4 * j + 2) => HasRead(s, ReserveForm(j), 4 * j + 2, 2 * j + 1)
    BY <2>6, <2>9 DEF HasRead
  <2>13. s.ok => FitsTo(Open, 4 * j + 2) \/ FitsTo(ReserveForm(j), 4 * j + 2)
    BY <2>6, <2>9, <2>10 DEF HasRead
  <2>14. \A k \in 1..j : FitsTo(ReserveForm(k), 4 * k + 2) => k = j
    BY <1>1, <2>8
  <2> QED
    BY <1>1, <2>11, <2>12, <2>13, <2>14
<1> QED
  BY <1>7, <1>8

\* The event and the bracket.
LEMMA NoSeatsExact ==
  ASSUME Ended
  PROVE  SeatsExact(Char(Number(Start, {" "}), {"["}), 0)
<1>1. /\ 0 \in 0..(Most - 1) /\ 1 \in 0..(Most - 1) /\ 1 = 0 + 1 /\ 2 = 1 + 1
      /\ MaxReservation + 1 \in Nat \ {0} /\ Open = ReserveForm(MaxReservation + 1)
  BY PlaceIs, NumbersAssumption DEF Open
<1>2. Open.marks[1] = {" "} /\ Open.marks[2] = {"["}
  BY <1>1, ReserveMarks
<1>3. Open.numbers[1] = 1 /\ 1 \in Range(Open.numbers)
  <2>1. 1 \in Nat
    OBVIOUS
  <2> QED
    BY <1>1, <2>1, ReserveNumbers
<1>4. 2 \notin Range(Open.numbers)
  <2>1. /\ 2 \in Nat /\ 2 # 1
        /\ \A j \in 0..((MaxReservation + 1) - 1) : 2 # 4 * j + 4 /\ 2 # 4 * j + 5
    BY <1>1
  <2> QED
    BY <1>1, <2>1, ReserveNumbers
<1>5. {" "} \ {"end"} = {" "} /\ "digits" \notin {"["} /\ {" "} \subseteq Inner
  BY InnerMarks
<1>6. Within(Start, Inner) /\ Exact(Start, Open, 0, 0)
  BY StartWithin, StartExact DEF Ended
<1> DEFINE one == Number(Start, {" "})
<1>7. Within(one, Inner) /\ Exact(one, Open, 1, 1)
  BY <1>1, <1>2, <1>3, <1>5, <1>6, NumberThen
<1> HIDE DEF one
<1>8. Exact(Char(one, {"["}), Open, 2, 1)
  BY <1>1, <1>2, <1>4, <1>5, <1>7, CharThen
<1> DEFINE two == Char(one, {"["})
<1> HIDE DEF two
<1>9. SeatsExact(two, 0)
  <2>1. 4 * 0 + 2 = 2 /\ 2 * 0 + 1 = 1 /\ \A k \in 1..0 : FALSE
    OBVIOUS
  <2> QED
    BY <1>8, <2>1 DEF SeatsExact, Exact, two
<1> QED
  BY <1>9 DEF one, two

LEMMA SeatsReadExact ==
  ASSUME Ended
  PROVE  \A j \in 0..MaxReservation : SeatsExact(SeatsRead[j], j)
<1> DEFINE Bad == {j \in 0..MaxReservation : ~SeatsExact(SeatsRead[j], j)}
<1>1. MaxReservation \in Nat
  BY NumbersAssumption
<1> SUFFICES ASSUME Bad # {} PROVE FALSE
  OBVIOUS
<1> DEFINE m == Min(Bad)
<1>2. m \in Bad /\ \A n \in Bad : m <= n
  <2>1. Bad \subseteq Nat
    OBVIOUS
  <2> HIDE DEF Bad
  <2> QED
    BY <2>1, LeastElement
<1> HIDE DEF m
<1>3. CASE m = 0
  <2>1. m \in 0..MaxReservation
    BY <1>2
  <2>2. SeatsRead[m] = Char(Number(Start, {" "}), {"["})
    BY <1>3, <2>1, SeatsReadStep
  <2> QED
    BY <1>2, <1>3, <2>2, NoSeatsExact
<1>4. CASE m # 0
  <2>1. /\ m - 1 \in 0..MaxReservation /\ m \in 0..MaxReservation /\ m \in 1..MaxReservation
        /\ ~(m <= m - 1)
    BY <1>1, <1>2, <1>4
  <2>2. SeatsExact(SeatsRead[m - 1], m - 1)
    BY <1>2, <2>1
  <2>3. SeatsRead[m] = OneMoreSeat(SeatsRead[m - 1])
    BY <1>4, <2>1, SeatsReadStep
  <2>4. Within(SeatsRead[m - 1], Inner)
    BY <2>1, SeatsReadWithin DEF Ended
  <2>5. SeatsExact(SeatsRead[m], m)
    BY <2>1, <2>2, <2>3, <2>4, OneMoreSeatExact
  <2> QED
    BY <1>2, <2>5
<1> QED
  BY <1>3, <1>4

\* The end of the line behind the list.
LEMMA ListEndAnswers ==
  ASSUME Ended, NEW k \in 1..(MaxReservation - 1), NEW f, Within({f}, Inner),
         HasRead(f, ReserveForm(k), 4 * k + 2, 2 * k + 1)
  PROVE  Answers(Char({f}, {"newline"}), ReserveForm(k))
<1> DEFINE form == ReserveForm(k)
<1>1. /\ k \in Nat \ {0} /\ MaxReservation \in Nat /\ k < MaxReservation
      /\ 4 * k + 2 \in Nat /\ 4 * k + 3 \in Nat /\ 2 * k + 1 \in Nat
      /\ 4 * k + 3 = (4 * k + 2) + 1
  BY NumbersAssumption
<1>2. /\ 4 * k + 2 \in 0..(Most - 1) /\ 4 * k + 3 \in 0..Most
  BY <1>1 DEF Most
<1>3. Len(form.marks) = 4 * k + 3 /\ form.marks[4 * k + 3] = {"newline"}
  BY <1>1, ReserveMarks
<1>4. /\ Len(form.numbers) = 2 * k + 1 /\ DOMAIN form.numbers = 1..(2 * k + 1)
      /\ \A i \in Nat : i \in Range(form.numbers) <=>
           i = 1 \/ \E j \in 0..(k - 1) : i = 4 * j + 4 \/ i = 4 * j + 5
      /\ form.numbers[1] = 1
      /\ \A j \in 0..(k - 1) : /\ form.numbers[2 * j + 2] = 4 * j + 4
                               /\ form.numbers[2 * j + 3] = 4 * j + 5
  BY <1>1, ReserveNumbers
<1> HIDE DEF form
<1>5. 4 * k + 3 \notin Range(form.numbers)
  <2>1. 4 * k + 3 # 1 /\ \A j \in 0..(k - 1) : 4 * k + 3 # 4 * j + 4 /\ 4 * k + 3 # 4 * j + 5
    BY <1>1
  <2> QED
    BY <1>1, <1>4, <2>1
<1>6. WellFormed(form)
  <2>1. ASSUME NEW j \in 1..(2 * k + 1)
        PROVE  form.numbers[j] \in 1..(4 * k + 3)
    <3>1. CASE j = 1
      BY <1>1, <1>4, <3>1
    <3>2. CASE j # 1
      <4>1. PICK h \in 0..(k - 1) : j = 2 * h + 2 \/ j = 2 * h + 3
        <5>1. j - 2 \in Nat
          BY <1>1, <3>2
        <5>2. \/ (j - 2) % 2 = 0 /\ \E h \in Int : j - 2 = 2 * h
              \/ (j - 2) % 2 = 1 /\ \E h \in Int : j - 2 = 2 * h + 1
          BY <5>1, Halves
        <5>3. PICK h \in Int : j - 2 = 2 * h \/ j - 2 = 2 * h + 1
          BY <5>2
        <5>4. h \in 0..(k - 1) /\ (j = 2 * h + 2 \/ j = 2 * h + 3)
          BY <1>1, <3>2, <5>3
        <5> QED
          BY <5>4
      <4>2. form.numbers[j] = 4 * h + 4 \/ form.numbers[j] = 4 * h + 5
        BY <1>4, <4>1
      <4>3. 4 * h + 4 \in 1..(4 * k + 3) /\ 4 * h + 5 \in 1..(4 * k + 3)
        BY <1>1
      <4> QED
        BY <4>2, <4>3
    <3> QED
      BY <3>1, <3>2
  <2> QED
    BY <1>1, <1>2, <1>3, <1>4, <2>1 DEF WellFormed
<1>7. Exact({f}, form, 4 * k + 2, 2 * k + 1)
  BY DEF Exact, form
<1>8. "digits" \notin {"newline"}
  OBVIOUS
<1>9. Exact(Char({f}, {"newline"}), form, 4 * k + 3, 2 * k + 1)
  BY <1>1, <1>2, <1>3, <1>5, <1>7, <1>8, CharThen
<1>10. Answers(Char({f}, {"newline"}), form)
  BY <1>3, <1>4, <1>6, <1>9, ExactAnswers
<1> QED
  BY <1>10 DEF form

LEMMA TakenLength ==
  ASSUME NEW form, NEW c \in Nat
  PROVE  Len(Taken(form, c)) = c
<1> DEFINE F(j) == NumberBefore(Place(form.numbers[j]))
<1>1. Taken(form, c) = [j \in 1..c |-> F(j)]
  BY DEF Taken
<1> HIDE DEF F
<1>2. Len([j \in 1..c |-> F(j)]) = c
  OBVIOUS
<1> QED
  BY <1>1, <1>2

\* Fewer seats than the array holds are a RESERVE's, and no others.
LEMMA ReserveAnswers ==
  ASSUME Ended, NEW s \in ReserveArguments
  PROVE  /\ s.ok => \E k \in 1..(MaxReservation - 1) :
              Fits(from, ReserveForm(k)) /\ s.args = NumbersOf(ReserveForm(k))
         /\ \A k \in 1..(MaxReservation - 1) : Fits(from, ReserveForm(k)) => s.ok
<1> DEFINE last == SeatsRead[MaxReservation]
<1> DEFINE fewer == {[r EXCEPT !.ok = r.ok /\ Len(r.args) < 1 + 2 * MaxReservation] : r \in last}
<1>1. /\ MaxReservation \in Nat \ {0} /\ MaxReservation \in 0..MaxReservation
      /\ 2 * MaxReservation + 1 \in Nat
  BY NumbersAssumption
<1>2. Begun /\ Within(last, Inner)
  BY <1>1, SeatsReadWithin DEF Ended
<1>3. SeatsExact(last, MaxReservation)
  BY <1>1, SeatsReadExact
<1>4. ReserveArguments = Char(fewer, {"newline"})
  BY DEF ReserveArguments
<1> HIDE DEF last
<1>5. PICK r \in last :
        s \in Char({[r EXCEPT !.ok = r.ok /\ Len(r.args) < 1 + 2 * MaxReservation]}, {"newline"})
  <2>1. \E f \in fewer : s \in Char({f}, {"newline"})
    <3> HIDE DEF fewer
    <3> QED
      BY <1>4 DEF Char
  <2> QED
    BY <2>1
<1> DEFINE f == [r EXCEPT !.ok = r.ok /\ Len(r.args) < 1 + 2 * MaxReservation]
<1>6. r \in Reading /\ r.to \in pos..End /\ OnLine(r) /\ (r.ok => r.next \in Inner)
  BY <1>2 DEF Within
<1>7. /\ f.next = r.next /\ f.to = r.to /\ f.args = r.args
      /\ f.ok = (r.ok /\ Len(r.args) < 1 + 2 * MaxReservation)
      /\ f \in Reading
  BY <1>6 DEF Reading
<1>8. s \in Char({f}, {"newline"})
  BY <1>5
<1> HIDE DEF f, fewer
<1>9. Within({f}, Inner)
  BY <1>6, <1>7 DEF Within, OnLine
\* The list of k seats that has been read is the line's.
<1>10. ASSUME NEW k \in 1..(MaxReservation - 1),
              HasRead(r, ReserveForm(k), 4 * k + 2, 2 * k + 1)
       PROVE  Answers(Char({f}, {"newline"}), ReserveForm(k))
  <2>1. 2 * k + 1 \in Nat /\ 2 * k + 1 < 1 + 2 * MaxReservation
    BY <1>1
  <2>2. Len(r.args) = 2 * k + 1 /\ r.ok
    BY <1>10, <2>1, TakenLength DEF HasRead
  <2>3. f.ok
    BY <1>7, <2>1, <2>2
  <2>4. HasRead(f, ReserveForm(k), 4 * k + 2, 2 * k + 1)
    BY <1>7, <1>10, <2>3 DEF HasRead
  <2> QED
    BY <1>9, <2>4, ListEndAnswers
<1>11. ASSUME s.ok
       PROVE  \E k \in 1..(MaxReservation - 1) :
                Fits(from, ReserveForm(k)) /\ s.args = NumbersOf(ReserveForm(k))
  <2>1. f.ok
    BY <1>8, <1>11 DEF Char
  <2>2. r.ok /\ Len(r.args) < 1 + 2 * MaxReservation
    BY <1>7, <2>1
  <2>3. ~HasRead(r, Open, 4 * MaxReservation + 2, 2 * MaxReservation + 1)
    <3> SUFFICES ASSUME HasRead(r, Open, 4 * MaxReservation + 2, 2 * MaxReservation + 1)
                 PROVE  FALSE
      OBVIOUS
    <3>1. Len(r.args) = 2 * MaxReservation + 1
      BY <1>1, TakenLength DEF HasRead
    <3> QED
      BY <1>1, <2>2, <3>1
  <2>4. PICK k \in 1..MaxReservation : HasRead(r, ReserveForm(k), 4 * k + 2, 2 * k + 1)
    BY <1>3, <2>2, <2>3 DEF SeatsExact
  <2>5. Len(r.args) = 2 * k + 1
    <3>1. 2 * k + 1 \in Nat
      OBVIOUS
    <3> QED
      BY <2>4, <3>1, TakenLength DEF HasRead
  <2>6. k \in 1..(MaxReservation - 1)
    BY <1>1, <2>2, <2>5
  <2> QED
    BY <1>8, <1>10, <1>11, <2>4, <2>6 DEF Answers
<1>12. ASSUME NEW k \in 1..(MaxReservation - 1), Fits(from, ReserveForm(k))
       PROVE  s.ok
  <2>1. /\ k \in 1..MaxReservation /\ k \in Nat \ {0}
        /\ 4 * k + 3 \in 0..Most /\ 4 * k + 3 \in Nat /\ 4 * k + 2 \in 0..(4 * k + 3)
    BY <1>1 DEF Most
  <2>2. Len(ReserveForm(k).marks) = 4 * k + 3
    BY <2>1, ReserveMarks
  <2>3. FitsTo(ReserveForm(k), 4 * k + 3)
    <3>1. \A i \in 1..(4 * k + 3) : MarksFrom(from, 4 * k + 3)[i] = Place(i)
      BY <2>1, PlaceIs
    <3> QED
      BY <1>12, <2>2, <3>1 DEF Fits, FitsTo
  <2>4. FitsTo(ReserveForm(k), 4 * k + 2)
    BY <2>1, <2>3, FitsLess
  <2>5. HasRead(r, ReserveForm(k), 4 * k + 2, 2 * k + 1)
    BY <1>3, <2>1, <2>4 DEF SeatsExact
  <2> QED
    BY <1>8, <1>10, <1>12, <2>5 DEF Answers
<1> QED
  BY <1>11, <1>12

\* So a command's arguments are what its line says, and an error if it says
\* nothing.
LEMMA ArgumentsSay ==
  ASSUME Ended, NEW r \in Arguments
  PROVE  /\ r.ok => r.args \in Says(from)
         /\ Says(from) # {} => r.ok
<1>1. /\ file[from].t = state /\ program \in {"ems", "client"}
      /\ state \in {"CREATE ", "RESERVE ", "SHOW ", "WAIT "}
  BY DEF Ended, Begun, PlaceOK, WithArguments
<1>2. Says(from) = {NumbersOf(f) : f \in {g \in Forms(state) : Fits(from, g)}}
  BY <1>1 DEF Says, NumbersOf
<1>3. ASSUME NEW form, Forms(state) = {form}, Answers(Arguments, form)
      PROVE  /\ r.ok => r.args \in Says(from)
             /\ Says(from) # {} => r.ok
  BY <1>2, <1>3 DEF Answers
<1>3a. state \notin Bare[program]
  <2>1. WithArguments \cap Bare.ems = {} /\ WithArguments \cap Bare.client = {}
    BY DEF Bare, WithArguments
  <2>2. Bare[program] = Bare.ems \/ Bare[program] = Bare.client
    BY <1>1 DEF Bare
  <2> QED
    BY <1>1, <2>1, <2>2 DEF WithArguments
<1>4. CASE state = "CREATE "
  <2>1. Forms(state) = {Form(<<{" "}, {" "}, {"newline"}>>, <<1, 2, 3>>)}
    BY <1>3a, <1>4 DEF Forms
  <2>2. Arguments = CreateArguments
    BY <1>4 DEF Arguments
  <2> QED
    BY <1>3, <2>1, <2>2, CreateAnswers
<1>5. CASE state = "SHOW "
  <2>1. Forms(state) = {Form(<<{"newline"}>>, <<1>>)}
    BY <1>3a, <1>5 DEF Forms
  <2>2. Arguments = ShowArguments
    BY <1>5 DEF Arguments
  <2> QED
    BY <1>3, <2>1, <2>2, ShowAnswers
<1>6. CASE state = "WAIT "
  <2>1. CASE program = "client"
    <3>1. Forms(state) = {Form(<<{"newline"} \cup {" "}>>, <<1>>)}
      BY <1>3a, <1>6, <2>1 DEF Forms
    <3>2. Arguments = DelayArguments
      BY <1>6, <2>1 DEF Arguments
    <3> QED
      BY <1>3, <3>1, <3>2, DelayAnswers
  <2>2. CASE program # "client"
    <3>1. Forms(state) = {Form(<<{"newline"} \cup {}>>, <<1>>)}
      BY <1>3a, <1>6, <2>2 DEF Forms
    <3>2. Arguments = WaitArguments
      BY <1>6, <2>2 DEF Arguments
    <3> QED
      BY <1>3, <3>1, <3>2, WaitAnswers
  <2> QED
    BY <2>1, <2>2
<1>7. CASE state = "RESERVE "
  <2>1. Forms(state) = {ReserveForm(k) : k \in 1..(MaxReservation - 1)}
    BY <1>3a, <1>7 DEF Forms
  <2>2. r \in ReserveArguments
    BY <1>7 DEF Arguments
  <2> QED
    BY <1>2, <2>1, <2>2, ReserveAnswers
<1> QED
  BY <1>1, <1>4, <1>5, <1>6, <1>7

-----------------------------------------------------------------------------
\* The inductive invariant.

LEMMA InitIInv == Init => IInv
<1> SUFFICES ASSUME Init PROVE IInv
  OBVIOUS
<1>1. file \in Seq(Symbols) /\ pos = 1 /\ state = "next" /\ done = <<>>
  BY FilesAssumption DEF Init
<1>2. pos \in 1..End /\ AtLine(pos)
  BY <1>1, Places DEF AtLine, Starts
<1>3. state \notin WithArguments
  BY <1>1 DEF WithArguments
<1>4. PlaceOK
  BY <1>1, <1>2, <1>3 DEF PlaceOK, Init
<1>5. DoneOK
  BY <1>1 DEF DoneOK, WholeLines
<1> QED
  BY <1>4, <1>5 DEF IInv

\* A line that begins where the next command is looked for.
LEMMA HereBegins ==
  ASSUME PlaceOK, state = "next", Symbol(pos) # "end"
  PROVE  /\ pos \in 1..Len(file) /\ pos \in Starts /\ Symbol(pos) = file[pos].t
         /\ End \in Nat \ {0} /\ Len(file) = End - 1 /\ pos + 1 \in 1..End
BY Places DEF PlaceOK, AtLine, Symbol, Starts

LEMMA EntriesTyped ==
  ASSUME DoneOK
  PROVE  \A k \in DOMAIN done : done[k].to \in Nat
<1>1. \A k \in DOMAIN done : done[k] \in Entry
  <2>1. done \in Seq(Entry)
    BY DEF DoneOK
  <2> QED
    BY <2>1
<1> QED
  BY <1>1 DEF Entry

\* A step that carries nothing out goes on, perhaps to a command's arguments.
LEMMA NothingDone ==
  ASSUME IInv, UNCHANGED <<file, done>>, Reached' \in Nat, Reached' >= Reached
  PROVE  DoneOK'
<1>1. /\ done' \in Seq(Entry)
      /\ \A k \in DOMAIN done' : done'[k].to \in Nat /\ done'[k].to <= Reached
  BY EntriesTyped DEF IInv, DoneOK
<1>2. WholeLines'
  BY DEF IInv, DoneOK, WholeLines, Cleanup, Starts, End
<1>3. Reached \in Nat
  BY Places DEF IInv, PlaceOK, Reached, Starts
<1>4. \A k \in DOMAIN done' : done'[k].to <= Reached'
  BY <1>1, <1>3
<1> QED
  BY <1>1, <1>2, <1>4 DEF DoneOK

\* A step that carries a line out goes on behind it.
LEMMA LineDone ==
  ASSUME IInv, UNCHANGED file, NEW command \in Tokens, NEW begin \in Starts,
         begin = Reached, file[begin].t = command,
         NEW to \in Nat, to = Cleanup(begin), to > begin, NEW args \in Seq(Nat),
         CarryOut(command, begin, to, args)
  PROVE  DoneOK'
<1> DEFINE e == [command |-> command, from |-> begin, to |-> to, args |-> args]
<1>1. done' = Append(done, e) /\ pos' = to /\ state' = "next"
  BY DEF CarryOut
<1>2. begin \in Nat /\ e \in Entry
  BY DEF Starts, Entry, IInv, PlaceOK
<1>3. Reached' = to
  BY <1>1 DEF Reached, WithArguments
<1>4. /\ done \in Seq(Entry) /\ WholeLines
      /\ \A k \in DOMAIN done : done[k].to <= begin /\ done[k].to \in Nat
  BY EntriesTyped DEF IInv, DoneOK
<1>5. e.command = command /\ e.from = begin /\ e.to = to
  OBVIOUS
<1> HIDE DEF e
<1>6. /\ done' \in Seq(Entry) /\ DOMAIN done = 1..Len(done) /\ DOMAIN done' = 1..(Len(done) + 1)
      /\ \A k \in 1..Len(done) : done'[k] = done[k]
      /\ done'[Len(done) + 1] = e /\ Len(done) \in Nat
  BY <1>1, <1>2, <1>4
<1>7. ASSUME NEW k \in DOMAIN done'
      PROVE  /\ done'[k].from \in Starts /\ done'[k].to = Cleanup(done'[k].from)
             /\ done'[k].command = file[done'[k].from].t
             /\ done'[k].to <= to
  <2>1. CASE k = Len(done) + 1
    BY <1>5, <1>6, <2>1
  <2>2. CASE k # Len(done) + 1
    <3>1. k \in DOMAIN done /\ done'[k] = done[k]
      BY <1>6, <2>2
    <3>2. done[k].to <= to
      BY <1>2, <1>4, <3>1
    <3> QED
      BY <1>4, <3>1, <3>2 DEF WholeLines
  <2> QED
    BY <2>1, <2>2
<1>8. ASSUME NEW k \in DOMAIN done', NEW l \in DOMAIN done', k < l
      PROVE  done'[k].to <= done'[l].from
  <2>1. k \in DOMAIN done /\ done'[k] = done[k]
    BY <1>6, <1>8
  <2>2. CASE l = Len(done) + 1
    BY <1>4, <1>5, <1>6, <2>1, <2>2
  <2>3. CASE l # Len(done) + 1
    <3>1. l \in DOMAIN done /\ done'[l] = done[l]
      BY <1>6, <2>3
    <3> QED
      BY <1>4, <1>8, <2>1, <3>1 DEF WholeLines
  <2> QED
    BY <2>2, <2>3
<1>9. WholeLines'
  BY <1>7, <1>8 DEF WholeLines, Cleanup, Starts, End
<1> QED
  BY <1>3, <1>6, <1>7, <1>9 DEF DoneOK

\* A command's keyword is read at the beginning of its line.
LEMMA GetCommandInv == IInv /\ GetCommand => IInv'
<1> SUFFICES ASSUME IInv, GetCommand PROVE IInv'
  OBVIOUS
<1>1. /\ PlaceOK /\ state = "next" /\ Symbol(pos) \in WithArguments /\ state' = Symbol(pos)
      /\ from' = pos /\ pos' = pos + 1 /\ UNCHANGED <<program, file, done>>
  BY DEF IInv, GetCommand
<1>2. Symbol(pos) # "end" /\ state \notin WithArguments /\ Symbol(pos) # "next"
  BY <1>1 DEF WithArguments
<1>3. /\ pos \in 1..Len(file) /\ pos \in Starts /\ Symbol(pos) = file[pos].t
      /\ End \in Nat \ {0} /\ Len(file) = End - 1 /\ pos + 1 \in 1..End
  BY <1>1, <1>2, HereBegins
<1>4. PlaceOK'
  BY <1>1, <1>2, <1>3 DEF PlaceOK, AtLine, Starts, End
<1>5. Reached' = pos /\ Reached = pos
  BY <1>1, <1>2 DEF Reached
<1>6. DoneOK'
  BY <1>1, <1>3, <1>5, NothingDone
<1> QED
  BY <1>4, <1>6 DEF IInv

\* A place where get_next goes on after an error.
LEMMA GoesOn ==
  ASSUME IInv, UNCHANGED <<program, file, done>>, state' \notin WithArguments,
         pos' \in Reached..End, state' = "next" => AtLine(pos')
  PROVE  IInv'
<1>1. PlaceOK /\ End \in Nat \ {0} /\ Reached \in Nat \ {0} /\ pos' \in Nat /\ pos' >= Reached
  BY Places DEF IInv, PlaceOK, Reached, Starts
<1>2. Reached' = pos'
  BY DEF Reached
<1>3. DoneOK'
  BY <1>1, <1>2, NothingDone
<1>4. PlaceOK'
  BY <1>1 DEF PlaceOK, AtLine, Starts, End
<1> QED
  BY <1>3, <1>4 DEF IInv

LEMMA GetEmptyInv == IInv /\ GetEmpty => IInv'
<1> SUFFICES ASSUME IInv, GetEmpty PROVE IInv'
  OBVIOUS
<1>1. /\ PlaceOK /\ state = "next" /\ Symbol(pos) \in {"#", "newline"}
      /\ pos' = (IF Symbol(pos) = "#" THEN Cleanup(pos + 1) ELSE pos + 1)
      /\ UNCHANGED <<program, file, state, from, done>>
  BY DEF IInv, GetEmpty
<1>2. Symbol(pos) # "end" /\ state \notin WithArguments /\ Reached = pos
  BY <1>1 DEF WithArguments, Reached
<1>3. /\ pos \in 1..Len(file) /\ pos \in Starts /\ Symbol(pos) = file[pos].t
      /\ End \in Nat \ {0} /\ Len(file) = End - 1 /\ pos + 1 \in 1..End
  BY <1>1, <1>2, HereBegins
<1>4. file \in Seq(Symbols)
  BY <1>1 DEF PlaceOK
<1>5. Cleanup(pos + 1) \in (pos + 1)..End /\ AtLine(Cleanup(pos + 1))
  BY <1>3, <1>4, CleanupStops
<1>6. Symbol(pos) = "newline" => AtLine(pos + 1)
  <2> SUFFICES ASSUME Symbol(pos) = "newline" PROVE AtLine(pos + 1)
    OBVIOUS
  <2>1. (pos + 1) - 1 = pos /\ file[pos].t = "newline"
    BY <1>3
  <2>2. pos + 1 = End \/ pos + 1 \in 1..Len(file)
    BY <1>3
  <2> QED
    BY <2>1, <2>2 DEF AtLine, Starts
<1>7. pos' \in Reached..End /\ AtLine(pos')
  BY <1>1, <1>2, <1>3, <1>5, <1>6
<1> QED
  BY <1>1, <1>2, <1>7, GoesOn

LEMMA GetInvalidInv == IInv /\ GetInvalid => IInv'
<1> SUFFICES ASSUME IInv, GetInvalid PROVE IInv'
  OBVIOUS
<1>1. PlaceOK /\ state = "next" /\ UNCHANGED <<program, file, state, from, done>>
  BY DEF IInv, GetInvalid
<1>2. Symbol(pos) # "end"
  BY <1>1 DEF GetInvalid, PlaceOK, Bare
<1>3. state \notin WithArguments /\ Reached = pos
  BY <1>1 DEF WithArguments, Reached
<1>4. /\ pos \in 1..Len(file) /\ Symbol(pos) = file[pos].t
      /\ End \in Nat \ {0} /\ Len(file) = End - 1 /\ pos + 1 \in 1..End
  BY <1>1, <1>2, HereBegins
<1>5. file \in Seq(Symbols) /\ file[pos] \in Symbols
  BY <1>1, <1>4, Places DEF PlaceOK
<1>6. \E p \in (pos + 1)..End : pos' = Cleanup(p)
  <2>1. CASE Symbol(pos + 1) \notin LineEnds /\ pos' = Cleanup(pos + 2)
    <3>1. pos + 1 # End
      BY <2>1 DEF Symbol, LineEnds
    <3>2. pos + 2 \in (pos + 1)..End
      BY <1>4, <3>1
    <3> QED
      BY <2>1, <3>2
  <2>2. CASE pos' = Cleanup(ReadOver(pos + 1, file[pos].n))
    <3>1. file[pos].n \in Nat
      BY <1>5 DEF Symbols
    <3>2. ReadOver(pos + 1, file[pos].n) \in (pos + 1)..End
      BY <1>4, <1>5, <3>1, ReadOverStops
    <3> QED
      BY <2>2, <3>2
  <2>3. CASE pos' = Cleanup(pos + 1)
    BY <1>4, <2>3
  <2> QED
    BY <2>1, <2>2, <2>3 DEF GetInvalid
<1>7. PICK p \in (pos + 1)..End : pos' = Cleanup(p)
  BY <1>6
<1>8. p \in 1..End
  BY <1>4
<1>9. Cleanup(p) \in p..End /\ AtLine(Cleanup(p))
  BY <1>5, <1>8, CleanupStops
<1>10. pos' \in Reached..End /\ AtLine(pos')
  BY <1>3, <1>4, <1>7, <1>8, <1>9
<1> QED
  BY <1>1, <1>3, <1>10, GoesOn

LEMMA EndOfCommandsInv == IInv /\ EndOfCommands => IInv'
<1> SUFFICES ASSUME IInv, EndOfCommands PROVE IInv'
  OBVIOUS
<1>1. /\ PlaceOK /\ state = "next" /\ state' = "ended"
      /\ UNCHANGED <<program, file, pos, from, done>>
  BY DEF IInv, EndOfCommands
<1>2. state \notin WithArguments /\ state' \notin WithArguments /\ state' # "next"
  BY <1>1 DEF WithArguments
<1>3. Reached = pos
  BY <1>2 DEF Reached
<1>4. pos' \in Reached..End
  BY <1>1, <1>3, Places DEF PlaceOK
<1> QED
  BY <1>1, <1>2, <1>4, GoesOn

\* A bare keyword and the end of its line.
LEMMA GetBareInv == IInv /\ GetBare => IInv'
<1> SUFFICES ASSUME IInv, GetBare PROVE IInv'
  OBVIOUS
<1> DEFINE to == IF pos + 1 = End THEN End ELSE pos + 2
<1>1. /\ PlaceOK /\ state = "next" /\ Symbol(pos) \in Bare[program]
      /\ Symbol(pos + 1) \in LineEnds /\ CarryOut(Symbol(pos), pos, to, <<>>)
      /\ UNCHANGED <<program, file, from>>
  BY DEF IInv, GetBare
<1>2. /\ Symbol(pos) \in {"LIST", "HELP", "BARRIER"}
      /\ state \notin WithArguments /\ Reached = pos
  BY <1>1 DEF PlaceOK, Bare, WithArguments, Reached
<1>3. /\ pos \in 1..Len(file) /\ pos \in Starts /\ Symbol(pos) = file[pos].t
      /\ End \in Nat \ {0} /\ Len(file) = End - 1 /\ pos + 1 \in 1..End
  BY <1>1, <1>2, HereBegins
<1>4. file \in Seq(Symbols)
  BY <1>1 DEF PlaceOK
<1>5. Symbol(pos + 1) = IF pos + 1 = End THEN "end" ELSE file[pos + 1].t
  BY DEF Symbol
<1>6. to \in pos..End /\ to \in Nat /\ to > pos
  BY <1>3
<1>7. to = End \/ file[to - 1].t = "newline"
  <2> SUFFICES ASSUME pos + 1 # End PROVE file[to - 1].t = "newline"
    OBVIOUS
  <2>1. to - 1 = pos + 1
    BY <1>3
  <2>2. file[pos + 1] \in Symbols /\ file[pos + 1].t # "end"
    <3>1. pos + 1 \in 1..Len(file)
      BY <1>3
    <3> QED
      BY <1>4, <3>1, Places
  <2>3. file[pos + 1].t = "newline"
    BY <1>1, <1>5, <2>2 DEF LineEnds
  <2> QED
    BY <2>1, <2>3
<1>8. \A k \in pos..(to - 2) : file[k].t # "newline"
  <2>1. \A k \in pos..(to - 2) : k = pos
    BY <1>3
  <2> QED
    BY <1>2, <1>3, <2>1
<1> HIDE DEF to
<1>9. Cleanup(pos) = to
  <2>1. pos \in 1..End
    BY <1>3
  <2> QED
    BY <1>4, <1>6, <1>7, <1>8, <2>1, CleanupIs
<1>10. Symbol(pos) \in Tokens /\ <<>> \in Seq(Nat)
  BY <1>2 DEF Tokens, Bare
<1>11. DoneOK'
  BY <1>1, <1>2, <1>3, <1>6, <1>9, <1>10, LineDone
<1>12. pos' = to /\ state' = "next"
  BY <1>1 DEF CarryOut
<1>13. AtLine(to) /\ to \in 1..End
  <2>1. pos \in 1..End
    BY <1>3
  <2> QED
    BY <1>3, <1>4, <1>6, <1>9, <2>1, CleanupStops
<1>14. PlaceOK'
  BY <1>1, <1>4, <1>12, <1>13 DEF PlaceOK, AtLine, Starts, End, WithArguments
<1> QED
  BY <1>11, <1>14 DEF IInv

LEMMA CommandParsedInv == IInv /\ CommandParsed => IInv'
<1> SUFFICES ASSUME IInv, CommandParsed PROVE IInv'
  OBVIOUS
<1>1. /\ PlaceOK /\ state \in WithArguments /\ Begun /\ UNCHANGED <<program, file, from>>
  BY DEF IInv, CommandParsed, Begun
<1>2. PICK r \in Arguments : r.ok /\ CarryOut(state, from, r.to, r.args)
  BY DEF CommandParsed
<1>3. r \in Reading /\ r.to \in pos..End /\ r.to = Cleanup(from)
  BY <1>1, <1>2, ArgumentsEnd DEF Ends
<1>4. r.args \in Seq(Nat) /\ r.to \in Nat
  BY <1>3 DEF Reading
<1>5. /\ from \in Starts /\ from \in 1..Len(file) /\ pos = from + 1 /\ file[from].t = state
      /\ file \in Seq(Symbols) /\ Reached = from /\ End \in Nat \ {0} /\ Len(file) = End - 1
  BY <1>1, Places DEF PlaceOK, Starts, Reached
<1>6. r.to > from /\ r.to \in 1..End /\ from \in 1..End
  BY <1>3, <1>4, <1>5
<1>7. state \in Tokens
  BY <1>1 DEF Tokens
<1>8. DoneOK'
  BY <1>1, <1>2, <1>3, <1>4, <1>5, <1>6, <1>7, LineDone
<1>9. pos' = r.to /\ state' = "next"
  BY <1>2 DEF CarryOut
<1>10. AtLine(r.to)
  BY <1>3, <1>5, <1>6, CleanupStops
<1>11. PlaceOK'
  BY <1>1, <1>5, <1>6, <1>9, <1>10 DEF PlaceOK, AtLine, Starts, End, WithArguments
<1> QED
  BY <1>8, <1>11 DEF IInv

LEMMA CommandRefusedInv == IInv /\ CommandRefused => IInv'
<1> SUFFICES ASSUME IInv, CommandRefused PROVE IInv'
  OBVIOUS
<1>1. /\ PlaceOK /\ state \in WithArguments /\ Begun
      /\ UNCHANGED <<program, file, from, done>> /\ state' \in {"next", "stopped"}
  BY DEF IInv, CommandRefused, Begun
<1>2. PICK r \in Arguments : pos' = Cleanup(r.to)
  BY DEF CommandRefused
<1>3. r \in Reading /\ r.to \in pos..End
  BY <1>1, <1>2, ArgumentsEnd DEF Ends
<1>4. /\ from \in 1..Len(file) /\ pos = from + 1
      /\ file \in Seq(Symbols) /\ Reached = from /\ End \in Nat \ {0} /\ Len(file) = End - 1
  BY <1>1, Places DEF PlaceOK, Starts, Reached
<1>5. r.to \in from..End /\ r.to \in 1..End
  BY <1>3, <1>4
<1>6. Cleanup(r.to) \in (r.to)..End /\ AtLine(Cleanup(r.to))
  BY <1>4, <1>5, CleanupStops
<1>7. pos' \in Reached..End /\ AtLine(pos')
  BY <1>2, <1>4, <1>5, <1>6
<1>8. state' \notin WithArguments
  BY <1>1 DEF WithArguments
<1> QED
  BY <1>1, <1>7, <1>8, GoesOn

\* Whatever has been read, a command begins only where a line does, and what was
\* carried out lies before it.
THEOREM Invariance == Spec => []IInv
<1>1. Init => IInv
  BY InitIInv
<1>2. IInv /\ [Next]_vars => IInv'
  <2> SUFFICES ASSUME IInv, [Next]_vars PROVE IInv'
    OBVIOUS
  <2>1. CASE Next
    BY <2>1, GetCommandInv, GetBareInv, GetEmptyInv, GetInvalidInv, EndOfCommandsInv,
       CommandParsedInv, CommandRefusedInv DEF Next
  <2>2. CASE UNCHANGED vars
    BY <2>2 DEF vars, IInv, PlaceOK, DoneOK, WholeLines, Reached, AtLine, Starts, Cleanup, End
  <2> QED
    BY <2>1, <2>2
<1> QED
  BY <1>1, <1>2, PTL DEF Spec

\* What is carried out are whole lines of the file, each once at most and in
\* their order, whatever else is in the file.
THEOREM LinesAreWhole == Spec => []WholeLines
<1>1. IInv => WholeLines
  BY DEF IInv, DoneOK
<1> QED
  BY <1>1, Invariance, PTL

-----------------------------------------------------------------------------
\* What is carried out is what the lines say.

\* A line that must not be lost.
Due(p) ==
  /\ p \in Starts
  /\ file[Cleanup(p) - 1].t = "newline"
  /\ Says(p) # {}
  /\ \A q \in Starts : q < p => LongEnough(q) /\ (Cleanup(q) = p => Complete(q))

\* The invariant: such a line has been carried out, or is still to come.
NoneSkipped ==
  \A p \in Starts : Due(p) => Reached <= p \/ \E k \in DOMAIN done : done[k].from = p
SaysInv == NumbersAsWritten /\ NoneSkipped

\* What the file says does not change.
LEMMA SaysSame ==
  ASSUME UNCHANGED <<program, file>>
  PROVE  /\ \A p : Says(p)' = Says(p) /\ (Due(p)' <=> Due(p))
         /\ Starts' = Starts
<1>1. /\ \A p : Cleanup(p)' = Cleanup(p)
      /\ Starts' = Starts
  BY DEF Cleanup, Starts, End
<1>2. \A p : Says(p)' = Says(p)
  BY DEF Says, Fits, MarksFrom, NextMark, End, Symbol, Forms, NumberBefore
<1>3. \A p : CharactersFrom(p)' = CharactersFrom(p)
  BY DEF CharactersFrom, End
<1>4. \A p : LongEnough(p)' <=> LongEnough(p)
  BY <1>1, <1>3 DEF LongEnough
<1>5. \A p : Complete(p)' <=> Complete(p)
  BY <1>1, <1>2 DEF Complete
<1>6. \A p : Due(p)' <=> Due(p)
  BY <1>1, <1>2, <1>4, <1>5 DEF Due
<1> QED
  BY <1>1, <1>2, <1>6

\* A step that carries nothing out and goes on before every line that is due.
LEMMA NoneDone ==
  ASSUME IInv, SaysInv, UNCHANGED <<program, file, done>>,
         \A p : Due(p) /\ Reached <= p => Reached' <= p
  PROVE  SaysInv'
<1>1. NumbersAsWritten'
  BY SaysSame DEF SaysInv, NumbersAsWritten
<1>2. NoneSkipped'
  BY SaysSame DEF SaysInv, NoneSkipped
<1> QED
  BY <1>1, <1>2 DEF SaysInv

\* A step that carries a line out.
LEMMA OneDone ==
  ASSUME IInv, SaysInv, UNCHANGED <<program, file>>,
         NEW command, NEW begin, begin = Reached, NEW to, NEW args,
         CarryOut(command, begin, to, args),
         file[to - 1].t = "newline" => args \in Says(begin),
         \A p : Due(p) /\ begin <= p => p = begin \/ to <= p
  PROVE  SaysInv'
<1> DEFINE e == [command |-> command, from |-> begin, to |-> to, args |-> args]
<1>1. done' = Append(done, e) /\ Reached' = to
  BY DEF CarryOut, Reached, WithArguments
<1>2. e.from = begin /\ e.to = to /\ e.args = args
  OBVIOUS
<1>3. done \in Seq(Entry)
  BY DEF IInv, DoneOK
<1> HIDE DEF e
<1>4. /\ DOMAIN done' = 1..(Len(done) + 1) /\ DOMAIN done = 1..Len(done) /\ Len(done) \in Nat
      /\ \A k \in 1..Len(done) : done'[k] = done[k]
      /\ done'[Len(done) + 1] = e
  BY <1>1, <1>3
<1>5. ASSUME NEW k \in DOMAIN done', file[done'[k].to - 1].t = "newline"
      PROVE  done'[k].args \in Says(done'[k].from)
  <2>1. CASE k = Len(done) + 1
    BY <1>2, <1>4, <1>5, <2>1
  <2>2. CASE k # Len(done) + 1
    <3>1. k \in DOMAIN done /\ done'[k] = done[k]
      BY <1>4, <2>2
    <3> QED
      BY <1>5, <3>1 DEF SaysInv, NumbersAsWritten
  <2> QED
    BY <2>1, <2>2
<1>6. NumbersAsWritten'
  BY <1>5, SaysSame DEF NumbersAsWritten
<1>7. ASSUME NEW p, Due(p)
      PROVE  to <= p \/ \E k \in DOMAIN done' : done'[k].from = p
  <2>1. CASE \E k \in DOMAIN done : done[k].from = p
    BY <1>4, <2>1
  <2>2. CASE p = begin
    BY <1>2, <1>4, <2>2
  <2>3. CASE Reached <= p /\ p # begin
    BY <1>7, <2>3
  <2> QED
    BY <1>7, <2>1, <2>2, <2>3 DEF SaysInv, NoneSkipped, Due
<1>8. NoneSkipped'
  BY <1>1, <1>7, SaysSame DEF NoneSkipped
<1> QED
  BY <1>6, <1>8 DEF SaysInv

\* cleanup passes over no line that begins behind the place it is called at.
LEMMA LineAhead ==
  ASSUME file \in Seq(Symbols), NEW p \in Starts, NEW x \in 1..End, x < p
  PROVE  Cleanup(x) <= p
<1>1. /\ p \in 1..Len(file) /\ Len(file) = End - 1 /\ End \in Nat \ {0}
      /\ p # 1 /\ file[p - 1].t = "newline"
  BY Places DEF Starts
<1>2. Cleanup(x) \in x..End /\ \A k \in x..(Cleanup(x) - 2) : file[k].t # "newline"
  BY CleanupStops
<1>3. Cleanup(x) \in Nat /\ x \in Nat /\ p \in Nat
  BY <1>1, <1>2
<1>4. ~(p - 1 \in x..(Cleanup(x) - 2))
  BY <1>1, <1>2
<1> QED
  BY <1>3, <1>4

\* A line that begins with no keyword says nothing.
LEMMA NothingSaid ==
  ASSUME NEW p, file[p].t \notin WithArguments \cup Bare[program]
  PROVE  Says(p) = {}
<1>1. Forms(file[p].t) = {}
  BY DEF Forms, WithArguments
<1> QED
  BY <1>1 DEF Says

\* A bare keyword is right if a newline follows.
LEMMA BareSays ==
  ASSUME PlaceOK, state = "next", Symbol(pos) \in Bare[program]
  PROVE  /\ Symbol(pos + 1) = "newline" => <<>> \in Says(pos)
         /\ Says(pos) # {} => Symbol(pos + 1) = "newline"
<1>1. Symbol(pos) \in {"LIST", "HELP", "BARRIER"}
  BY DEF PlaceOK, Bare
<1>2. /\ pos \in 1..Len(file) /\ Symbol(pos) = file[pos].t
      /\ End \in Nat \ {0} /\ Len(file) = End - 1 /\ pos \in 1..End
      /\ file \in Seq(Symbols)
  BY <1>1, HereBegins DEF PlaceOK
<1> DEFINE form == Form(<<{"newline"}>>, <<>>)
<1>3. Forms(file[pos].t) = {form}
  BY <1>1, <1>2 DEF Forms
<1>4. /\ Len(form.marks) = 1 /\ form.marks[1] = {"newline"} /\ Range(form.numbers) = {}
      /\ form.numbers = <<>>
  BY DEF Form, Range
<1> HIDE DEF form
<1> DEFINE q == NextMark(pos)
<1>5. MarksFrom(pos, 1)[1] = q
  <2>1. MarksFrom(pos, 1)[0] = pos /\ MarksFrom(pos, 1)[1] = NextMark(MarksFrom(pos, 1)[1 - 1])
    BY MarksFromIs
  <2> QED
    BY <2>1
<1>6. Fits(pos, form) <=> Symbol(q) = "newline" /\ file[q - 1].t # "digits"
  <2>1. \A i \in 1..1 : i = 1
    OBVIOUS
  <2> QED
    BY <1>4, <1>5, <2>1 DEF Fits
<1>7. /\ q \in pos..End /\ (q = End \/ (q > pos /\ file[q].t # "digits"))
      /\ \A k \in (pos + 1)..(q - 1) : file[k].t = "digits"
  BY <1>2, NextMarkIs
<1>8. q \in Nat /\ pos \in Nat \ {0}
  BY <1>2, <1>7
<1> HIDE DEF q
<1>9. Fits(pos, form) <=> Symbol(pos + 1) = "newline"
  <2>1. ASSUME Symbol(pos + 1) = "newline"
        PROVE  Fits(pos, form)
    <3>1. pos + 1 # End /\ file[pos + 1].t = "newline"
      BY <2>1 DEF Symbol
    <3>2. ~(pos + 1 \in (pos + 1)..(q - 1))
      BY <1>7, <3>1
    <3>3. q = pos + 1 /\ q - 1 = pos
      BY <1>2, <1>7, <1>8, <3>1, <3>2
    <3> QED
      BY <1>1, <1>2, <1>6, <2>1, <3>3
  <2>2. ASSUME Fits(pos, form)
        PROVE  Symbol(pos + 1) = "newline"
    <3>1. Symbol(q) = "newline" /\ file[q - 1].t # "digits"
      BY <1>6, <2>2
    <3>2. q # End
      BY <3>1 DEF Symbol
    <3>3. ~(q - 1 \in (pos + 1)..(q - 1))
      BY <1>7, <3>1
    <3>4. q = pos + 1
      BY <1>7, <1>8, <3>2, <3>3
    <3> QED
      BY <3>1, <3>4
  <2> QED
    BY <2>1, <2>2
<1>10. Says(pos) = {[j \in 1..Len(f.numbers) |-> NumberBefore(MarksFrom(pos, Len(f.marks))[f.numbers[j]])] :
                    f \in {g \in {form} : Fits(pos, g)}}
  BY <1>3 DEF Says
<1>11. [j \in 1..Len(form.numbers) |-> NumberBefore(MarksFrom(pos, Len(form.marks))[form.numbers[j]])] = <<>>
  <2>1. 1..Len(form.numbers) = {}
    BY <1>4
  <2> QED
    BY <2>1
<1> QED
  BY <1>9, <1>10, <1>11

LEMMA SaysInit == Init => SaysInv
<1> SUFFICES ASSUME Init PROVE SaysInv
  OBVIOUS
<1>1. NumbersAsWritten
  BY DEF Init, NumbersAsWritten
<1>2. Reached = 1
  BY DEF Init, Reached, WithArguments
<1>3. \A p \in Starts : 1 <= p
  BY DEF Starts
<1>4. NoneSkipped
  BY <1>2, <1>3 DEF NoneSkipped, Due
<1> QED
  BY <1>1, <1>4 DEF SaysInv

\* The keyword, and the end of the file, are read without a line passed over.
LEMMA NoLinePassed ==
  ASSUME IInv, SaysInv, GetCommand \/ EndOfCommands
  PROVE  SaysInv'
<1>1. UNCHANGED <<program, file, done>>
  BY DEF GetCommand, EndOfCommands
<1>2. Reached' = Reached
  BY DEF GetCommand, EndOfCommands, Reached, WithArguments
<1> QED
  BY <1>1, <1>2, NoneDone

LEMMA GetEmptySays ==
  ASSUME IInv, SaysInv, GetEmpty
  PROVE  SaysInv'
<1>1. /\ PlaceOK /\ state = "next" /\ Symbol(pos) \in {"#", "newline"}
      /\ pos' = (IF Symbol(pos) = "#" THEN Cleanup(pos + 1) ELSE pos + 1)
      /\ UNCHANGED <<program, file, state, from, done>>
  BY DEF IInv, GetEmpty
<1>2. /\ pos \in 1..Len(file) /\ pos \in Starts /\ Symbol(pos) = file[pos].t
      /\ End \in Nat \ {0} /\ Len(file) = End - 1 /\ pos + 1 \in 1..End
      /\ file \in Seq(Symbols)
  BY <1>1, HereBegins DEF PlaceOK
<1>3. Reached = pos /\ Reached' = pos'
  BY <1>1 DEF Reached, WithArguments
<1>4. Says(pos) = {}
  <2>1. file[pos].t \notin WithArguments \cup Bare.ems \cup Bare.client
    BY <1>1, <1>2 DEF WithArguments, Bare
  <2>2. Bare[program] = Bare.ems \/ Bare[program] = Bare.client
    BY <1>1 DEF PlaceOK, Bare
  <2> QED
    BY <2>1, <2>2, NothingSaid
<1>5. ASSUME NEW p, Due(p), pos <= p
      PROVE  pos' <= p
  <2>1. p \in Starts /\ p \in Nat /\ p > pos /\ (p = pos + 1 => file[pos].t = "newline")
    BY <1>2, <1>4, <1>5 DEF Due, Starts
  <2>2. CASE Symbol(pos) = "#"
    <3>1. pos + 1 < p
      BY <1>2, <2>1, <2>2
    <3> QED
      BY <1>1, <1>2, <2>1, <2>2, <3>1, LineAhead
  <2>3. CASE Symbol(pos) # "#"
    BY <1>1, <1>2, <2>1, <2>3
  <2> QED
    BY <2>2, <2>3
<1> QED
  BY <1>1, <1>3, <1>5, NoneDone

LEMMA GetInvalidSays ==
  ASSUME IInv, SaysInv, GetInvalid
  PROVE  SaysInv'
<1>1. PlaceOK /\ state = "next" /\ UNCHANGED <<program, file, state, from, done>>
  BY DEF IInv, GetInvalid
<1>2. Symbol(pos) # "end" /\ Symbol(pos) # "newline"
  BY <1>1 DEF GetInvalid, PlaceOK, Bare
<1>3. Reached = pos /\ Reached' = pos'
  BY <1>1 DEF Reached, WithArguments
<1>4. /\ pos \in 1..Len(file) /\ pos \in Starts /\ Symbol(pos) = file[pos].t
      /\ End \in Nat \ {0} /\ Len(file) = End - 1 /\ pos + 1 \in 1..End
      /\ file \in Seq(Symbols) /\ file[pos] \in Symbols
  BY <1>1, <1>2, HereBegins, Places DEF PlaceOK
<1>5. ASSUME NEW p, Due(p), pos <= p
      PROVE  pos' <= p
  <2>1. p \in Starts /\ Says(p) # {} /\ p \in 1..Len(file)
    BY <1>5 DEF Due, Starts
  <2>2. p # 1 => file[p - 1].t = "newline"
    BY <2>1 DEF Starts
  <2>3. p # pos + 1
    BY <1>2, <1>4, <2>2
\* A bare keyword that goes on: the character after it is read too.
  <2>4. CASE /\ Symbol(pos) \in Bare[program] /\ Symbol(pos + 1) \notin LineEnds
             /\ pos' = Cleanup(pos + 2)
    <3>1. Symbol(pos + 1) # "newline" /\ Symbol(pos + 1) # "end"
      BY <2>4 DEF LineEnds
    <3>2. p # pos
      BY <1>1, <2>1, <2>4, <3>1, BareSays
    <3>3. pos + 1 # End /\ Symbol(pos + 1) = file[pos + 1].t
      BY <3>1 DEF Symbol
    <3>4. p # pos + 2
      <4>1. (pos + 2) - 1 = pos + 1 /\ pos + 2 # 1
        BY <1>4
      <4> QED
        BY <2>2, <3>1, <3>3, <4>1
    <3>5. pos + 2 < p /\ pos + 2 \in 1..End
      BY <1>4, <1>5, <2>1, <2>3, <3>2, <3>3, <3>4
    <3> QED
      BY <1>4, <2>1, <2>4, <3>5, LineAhead
\* A keyword spelled wrong: as many characters as it has are read.
  <2>5. CASE Symbol(pos) = "wrong" /\ pos' = Cleanup(ReadOver(pos + 1, file[pos].n))
    <3>1. p # pos
      <4>1. file[pos].t \notin WithArguments \cup Bare.ems \cup Bare.client
        BY <1>4, <2>5 DEF WithArguments, Bare
      <4>2. Bare[program] = Bare.ems \/ Bare[program] = Bare.client
        BY <1>1 DEF PlaceOK, Bare
      <4> QED
        BY <2>1, <4>1, <4>2, NothingSaid
    <3>2. pos < p /\ pos + 1 < p
      BY <1>4, <1>5, <2>1, <2>3, <3>1
    <3>3. CharactersFrom(pos + 1)[Cleanup(pos) - 1] >= file[pos].n
      BY <1>4, <1>5, <2>5, <3>2 DEF Due, LongEnough
    <3> DEFINE z == Cleanup(pos) - 1
    <3>4. /\ Cleanup(pos) <= p /\ Cleanup(pos) \in pos..End
          /\ (Cleanup(pos) = End \/ (Cleanup(pos) > pos /\ file[Cleanup(pos) - 1].t = "newline"))
      BY <1>4, <2>1, <3>2, LineAhead, CleanupStops
    <3>5. Cleanup(pos) > pos + 1
      <4>1. Cleanup(pos) # End
        BY <1>4, <2>1, <3>4
      <4>2. Cleanup(pos) - 1 # pos
        BY <1>2, <1>4, <3>4, <4>1
      <4> QED
        BY <1>4, <3>4, <4>1, <4>2
    <3>6. z \in (pos + 1)..End /\ z < p /\ CharactersFrom(pos + 1)[z] >= file[pos].n
      BY <1>4, <2>1, <3>3, <3>4, <3>5
    <3> HIDE DEF z
    <3>7. file[pos].n \in Nat
      BY <1>4 DEF Symbols
    <3> DEFINE x == ReadOver(pos + 1, file[pos].n)
    <3>8. x \in (pos + 1)..End
      BY <1>4, <3>7, ReadOverStops
    <3>9. x <= z
      <4> DEFINE S == {End} \cup {q \in (pos + 1)..End :
                                    CharactersFrom(pos + 1)[q] >= file[pos].n}
      <4>1. S \subseteq Nat /\ S # {} /\ z \in S
        BY <1>4, <3>6
      <4>2. x = Min(S)
        BY DEF ReadOver
      <4> HIDE DEF S, x
      <4> QED
        BY <4>1, <4>2, LeastElement
    <3>10. x < p /\ x \in 1..End
      BY <1>4, <2>1, <3>6, <3>8, <3>9
    <3> HIDE DEF x
    <3>11. Cleanup(x) <= p
      BY <1>4, <2>1, <3>10, LineAhead
    <3> QED
      BY <2>5, <3>11 DEF x
\* A character that begins no keyword.
  <2>6. CASE /\ Symbol(pos) \notin WithArguments \cup Bare[program]
             /\ pos' = Cleanup(pos + 1)
    <3>1. p # pos
      BY <1>4, <2>1, <2>6, NothingSaid
    <3>2. pos + 1 < p
      BY <1>4, <1>5, <2>1, <2>3, <3>1
    <3> QED
      BY <1>4, <2>1, <2>6, <3>2, LineAhead
  <2> QED
    BY <2>4, <2>5, <2>6 DEF GetInvalid
<1> QED
  BY <1>1, <1>3, <1>5, NoneDone

LEMMA GetBareSays ==
  ASSUME IInv, SaysInv, GetBare
  PROVE  SaysInv'
<1> DEFINE to == IF pos + 1 = End THEN End ELSE pos + 2
<1>1. /\ PlaceOK /\ state = "next" /\ Symbol(pos) \in Bare[program]
      /\ Symbol(pos + 1) \in LineEnds /\ CarryOut(Symbol(pos), pos, to, <<>>)
      /\ UNCHANGED <<program, file, from>>
  BY DEF IInv, GetBare
<1>2. Symbol(pos) \in {"LIST", "HELP", "BARRIER"} /\ Reached = pos
  BY <1>1 DEF PlaceOK, Bare, WithArguments, Reached
<1>3. /\ pos \in 1..Len(file) /\ pos \in Starts /\ Symbol(pos) = file[pos].t
      /\ End \in Nat \ {0} /\ Len(file) = End - 1 /\ pos + 1 \in 1..End
      /\ file \in Seq(Symbols)
  BY <1>1, <1>2, HereBegins DEF PlaceOK
<1>4. file[to - 1].t = "newline" => <<>> \in Says(pos)
  <2> SUFFICES ASSUME file[to - 1].t = "newline" PROVE Symbol(pos + 1) = "newline"
    BY <1>1, BareSays
  <2>1. CASE pos + 1 = End
    <3>1. to - 1 = pos
      BY <1>3, <2>1
    <3> QED
      BY <1>2, <1>3, <3>1
  <2>2. CASE pos + 1 # End
    <3>1. to - 1 = pos + 1
      BY <1>3, <2>2
    <3> QED
      BY <2>2, <3>1 DEF Symbol
  <2> QED
    BY <2>1, <2>2
<1>5. ASSUME NEW p, Due(p), pos <= p
      PROVE  p = pos \/ to <= p
  <2>1. p \in 1..Len(file) /\ (p # 1 => file[p - 1].t = "newline")
    BY <1>5 DEF Due, Starts
  <2>2. p # pos + 1
    BY <1>2, <1>3, <2>1
  <2> QED
    BY <1>3, <1>5, <2>1, <2>2
<1> HIDE DEF to
<1> QED
  BY <1>1, <1>2, <1>4, <1>5, OneDone

LEMMA CommandParsedSays ==
  ASSUME IInv, SaysInv, CommandParsed
  PROVE  SaysInv'
<1>1. /\ PlaceOK /\ state \in WithArguments /\ Begun /\ UNCHANGED <<program, file, from>>
  BY DEF IInv, CommandParsed, Begun
<1>2. PICK r \in Arguments : r.ok /\ CarryOut(state, from, r.to, r.args)
  BY DEF CommandParsed
<1>3. r.to = Cleanup(from)
  BY <1>1, <1>2, ArgumentsEnd DEF Ends
<1>4. Reached = from /\ from \in 1..End /\ from \in Nat /\ file \in Seq(Symbols)
  BY <1>1, Places DEF PlaceOK, Starts, Reached
<1>5. file[r.to - 1].t = "newline" => r.args \in Says(from)
  BY <1>1, <1>2, <1>3, ArgumentsSay DEF Ended
<1>6. ASSUME NEW p, Due(p), from <= p
      PROVE  p = from \/ r.to <= p
  <2>1. p \in Starts /\ p \in Nat
    BY <1>6 DEF Due, Starts
  <2> QED
    BY <1>3, <1>4, <1>6, <2>1, LineAhead
<1> QED
  BY <1>1, <1>2, <1>4, <1>5, <1>6, OneDone

LEMMA CommandRefusedSays ==
  ASSUME IInv, SaysInv, CommandRefused
  PROVE  SaysInv'
<1>1. /\ PlaceOK /\ state \in WithArguments /\ Begun
      /\ UNCHANGED <<program, file, from, done>> /\ state' \notin WithArguments
  BY DEF IInv, CommandRefused, Begun, WithArguments
<1>2. PICK r \in Arguments : ~r.ok /\ pos' = Cleanup(r.to)
  BY DEF CommandRefused
<1>3. r.to \in pos..End /\ OnLine(r)
  BY <1>1, <1>2, ArgumentsEnd DEF Ends
<1>4. /\ from \in 1..Len(file) /\ from \in Starts /\ pos = from + 1 /\ file[from].t = state
      /\ file \in Seq(Symbols) /\ Reached = from /\ Reached' = pos'
      /\ End \in Nat \ {0} /\ Len(file) = End - 1 /\ from \in 1..End
  BY <1>1, Places DEF PlaceOK, Starts, Reached
<1>5. r.to \in Nat /\ r.to > from /\ r.to \in 1..End
  BY <1>3, <1>4
<1>6. ~(Says(from) # {} /\ file[Cleanup(from) - 1].t = "newline")
  BY <1>1, <1>2, ArgumentsSay DEF Ended
<1>7. ASSUME NEW p, Due(p), from <= p
      PROVE  Cleanup(r.to) <= p
  <2> DEFINE c == Cleanup(from)
  <2>1. p \in Starts /\ p \in 1..Len(file) /\ p # from
    BY <1>6, <1>7 DEF Due, Starts
  <2>2. from < p
    BY <1>4, <1>7, <2>1
  <2>3. /\ c <= p /\ c \in from..End
        /\ c = End \/ (c > from /\ file[c - 1].t = "newline")
    BY <1>4, <2>1, <2>2, LineAhead, CleanupStops
  <2>3a. c = p => Complete(from)
    BY <1>4, <1>7, <2>2 DEF Due
  <2>3b. Says(from) = {} \/ file[c - 1].t # "newline"
    BY <1>6
  <2> HIDE DEF c
  <2>4. c \in Nat /\ c > from /\ file[c - 1].t = "newline" /\ p \in Nat /\ from \in Nat
    BY <1>4, <2>1, <2>3
  <2>5. r.to <= c
    <3>1. ~(c - 1 \in from..(r.to - 2))
      BY <1>3, <2>4 DEF OnLine
    <3> QED
      BY <1>5, <2>4, <3>1
  <2>6. CASE r.to < p
    BY <1>4, <1>5, <2>1, <2>6, LineAhead
\* All of the line before has been read and found wrong only then.
  <2>7. CASE r.to = p
    <3>1. c = p /\ Complete(from)
      BY <1>5, <2>3, <2>3a, <2>4, <2>5, <2>7
    <3>2. file[from].t \notin {"#", "newline"}
      BY <1>1, <1>4 DEF WithArguments
    <3>3. \A k \in from..(c - 1) : file[k].t # "other"
      <4>1. \A k \in from..(c - 2) : file[k].t # "other"
        BY <1>3, <2>7, <3>1 DEF OnLine
      <4>2. \A k \in from..(c - 1) : k = c - 1 \/ k \in from..(c - 2)
        BY <2>4
      <4> QED
        BY <2>4, <4>1, <4>2
    <3> QED
      BY <2>3b, <2>4, <3>1, <3>2, <3>3 DEF Complete, c
  <2> QED
    BY <1>5, <2>3, <2>4, <2>5, <2>6, <2>7
<1> QED
  BY <1>1, <1>2, <1>4, <1>7, NoneDone

THEOREM SaysInvariance == Spec => []SaysInv
<1>1. Init => SaysInv
  BY SaysInit
<1>2. IInv /\ SaysInv /\ [Next]_vars => SaysInv'
  <2> SUFFICES ASSUME IInv, SaysInv, [Next]_vars PROVE SaysInv'
    OBVIOUS
  <2>1. CASE Next
    BY <2>1, NoLinePassed, GetBareSays, GetEmptySays, GetInvalidSays, CommandParsedSays,
       CommandRefusedSays DEF Next
  <2>2. CASE UNCHANGED vars
    <3>1. UNCHANGED <<program, file, done>> /\ Reached' = Reached
      BY <2>2 DEF vars, Reached
    <3> QED
      BY <3>1, NoneDone
  <2> QED
    BY <2>1, <2>2
<1> QED
  BY <1>1, <1>2, Invariance, PTL DEF Spec

\* The numbers of every command that is carried out are those on its line, if a
\* newline ends it: whatever the length of its list of seats, no argument is
\* left out, taken from elsewhere or passed although it is too large.
THEOREM NumbersAreWritten == Spec => []NumbersAsWritten
<1>1. SaysInv => NumbersAsWritten
  BY DEF SaysInv
<1> QED
  BY <1>1, SaysInvariance, PTL

\* An error takes no other line along: a right line that is passed has been
\* carried out, if the line before it is complete and none before it breaks off
\* inside a keyword.
THEOREM NoLinesLost == Spec => []NoLineLost
<1>1. IInv /\ SaysInv => NoLineLost
  <2> SUFFICES ASSUME IInv, SaysInv, NEW p \in Starts, Cleanup(p) <= pos,
                      state \notin WithArguments, Due(p)
               PROVE  \E k \in 1..Len(done) : done[k].from = p
    BY DEF NoLineLost, Due
  <2>1. file \in Seq(Symbols) /\ done \in Seq(Entry) /\ pos \in Nat /\ p \in 1..End /\ p < End
    BY Places DEF IInv, PlaceOK, DoneOK, Starts
  <2>2. /\ Cleanup(p) \in p..End /\ (Cleanup(p) = End \/ Cleanup(p) > p)
    BY <2>1, CleanupStops
  <2>3. Cleanup(p) > p /\ Cleanup(p) \in Nat /\ p \in Nat
    BY <2>1, <2>2
  <2>4. Reached = pos /\ ~(Reached <= p)
    BY <2>1, <2>3 DEF Reached
  <2>5. DOMAIN done = 1..Len(done)
    BY <2>1
  <2> QED
    BY <2>4, <2>5 DEF SaysInv, NoneSkipped
<1> QED
  BY <1>1, Invariance, SaysInvariance, PTL

=============================================================================
