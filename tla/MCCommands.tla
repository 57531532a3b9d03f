----------------------------- MODULE MCCommands -----------------------------
(***************************************************************************)
(* Commands on the files of up to three lines, each from a list of right   *)
(* and wrong ones, the last with a newline or without.                     *)
(***************************************************************************)
EXTENDS Commands

Width == "CREATE " :> 7 @@ "RESERVE " :> 8 @@ "SHOW " :> 5 @@ "WAIT " :> 5
         @@ "LIST" :> 4 @@ "BARRIER" :> 7

Word(t) == [t |-> t, n |-> 0, w |-> Width[t]]
Mark(t) == [t |-> t, n |-> 0, w |-> 1]
Wrong(n) == [t |-> "wrong", n |-> n, w |-> 1]
Num(n) == [t |-> "digits", n |-> n, w |-> IF n > 9 THEN 2 ELSE 1]
Seat(x, y) == <<Mark("("), Num(x), Mark(","), Num(y), Mark(")")>>

\* Lines that are right, without their newline.
RightLines == {
  <<Word("CREATE "), Num(1), Mark(" "), Num(2), Mark(" "), Num(3)>>,
  <<Word("RESERVE "), Num(1), Mark(" "), Mark("[")>> \o Seat(2, 1) \o <<Mark("]")>>,
  <<Word("RESERVE "), Num(1), Mark(" "), Mark("[")>> \o Seat(2, 1) \o <<Mark(" ")>>
     \o Seat(1, 2) \o <<Mark("]")>>,
  <<Word("SHOW "), Num(1)>>,
  <<Word("WAIT "), Num(9)>>,
  <<Word("LIST")>>,
  <<Word("BARRIER")>>,
  <<>> }

\* Lines that are wrong, or right in one program only: by their length, at a
\* character that fits nowhere, by a number too large, with a command inside,
\* or by too many seats.
WrongLines == {
  <<Word("CREATE "), Num(1)>>,
  <<Word("CREATE "), Mark(" "), Mark(" ")>>,
  <<Word("SHOW "), Num(10)>>,
  <<Word("SHOW "), Mark("other"), Word("LIST")>>,
  <<Word("SHOW "), Word("SHOW "), Num(2)>>,
  <<Word("WAIT "), Num(2), Mark(" "), Num(1)>>,
  <<Word("LIST"), Mark("other"), Word("SHOW "), Num(2)>>,
  <<Word("LIST"), Mark(" ")>>,
  <<Word("RESERVE "), Num(1), Mark(" "), Mark("["), Mark("]")>>,
  <<Word("RESERVE "), Num(1), Mark(" "), Mark("[")>> \o Seat(1, 1) \o <<Mark(" ")>>
     \o Seat(1, 2) \o <<Mark(" ")>> \o Seat(2, 2) \o <<Mark("]")>>,
  <<Word("RESERVE "), Num(1), Mark(" "), Mark("["), Mark("("), Num(1)>>,
  <<Wrong(6)>>,
  <<Wrong(4), Word("CREATE "), Num(1), Mark(" ")>>,
  <<Mark("#"), Word("LIST")>>,
  <<Mark("other"), Word("SHOW "), Num(1)>> }

Lines == {line \o <<Mark("newline")>> : line \in RightLines \cup WrongLines}

MCFiles ==
  LET whole == {FlattenSeq(lines) : lines \in BoundedSeq(Lines, 3)}
  IN  whole \cup {Front(f) : f \in whole \ {<<>>}}

=============================================================================
