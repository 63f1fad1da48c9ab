------------------------------ MODULE PyLayout ------------------------------
(***************************************************************************)
(* The block structure a source file means, by the rules of Python for the *)
(* statements of this language, one line at a time and without tokens: a   *)
(* line at the indentation of an open block closes the blocks inside that  *)
(* one, a clause continues the last statement of its block, a header is    *)
(* followed by a deeper line, and anything else is not a program.          *)
(***************************************************************************)
EXTENDS Naturals, Sequences

\* The kinds of statements and clauses, each named for the word it starts with.
\* A stub is `def f(): ...` on one line, extern the decorator, bare `except:`,
\* and broken a statement no grammar accepts.
Clauses == {"elif", "else", "except", "bare", "finally"}
Headers == {"if", "loop", "def", "class", "try"} \cup Clauses
Words   == Headers \cup {"simple", "stub", "extern", "broken"}

\* A block is known by its indentation, by the statement at its end that a
\* clause may still continue, and by whether it is the body of a class.
File == [width |-> 0, ending |-> "none", methods |-> FALSE]

\* due is the header whose block has not begun, and ok whether the lines so far
\* are the beginning of a program and have all been read here.
Start == [ok |-> TRUE, open |-> <<File>>, due |-> "none"]
NoProgram == [ok |-> FALSE, open |-> <<>>, due |-> "none"]

\* A line Python reads and these rules do not: from it on nothing is compared.
NotRead == NoProgram

Follow == {<<"if", "elif">>, <<"if", "else">>, <<"elif", "elif">>, <<"elif", "else">>,
           <<"try", "except">>, <<"try", "bare">>, <<"try", "finally">>,
           <<"except", "except">>, <<"except", "bare">>, <<"except", "finally">>,
           <<"bare", "finally">>, <<"extern", "def">>, <<"extern", "stub">>}

Ending(word) == IF \E w \in Words : <<word, w>> \in Follow THEN word ELSE "none"

\* A try needs a clause, and a decorator its function.
Unfinished == {"try", "extern"}

MayCome(block, word) ==
  \/ <<block.ending, word>> \in Follow
  \/ /\ block.ending \notin Unfinished
     /\ word \notin Clauses \cup {"broken"}
     /\ block.methods => word \in {"def", "stub"}

PlaceIn(open, word) ==
  LET b == open[Len(open)] IN
    IF MayCome(b, word)
      THEN [ok   |-> TRUE,
            open |-> [open EXCEPT ![Len(open)].ending = Ending(word)],
            due  |-> IF word \in Headers THEN word ELSE "none"]
      ELSE NoProgram

OpenBlock(s, width) ==
  Append(s.open, [width |-> width, ending |-> "none", methods |-> s.due = "class"])

\* The line of that indentation and word, read in the structure s.
Line(s, width, word) ==
  LET open  == s.open
      outer == {i \in 1..Len(open) : open[i].width <= width}
      home  == CHOOSE i \in outer : \A j \in outer : j <= i
  IN  CASE ~s.ok -> NoProgram
        [] s.ok /\ s.due # "none" ->
             IF width > open[Len(open)].width THEN PlaceIn(OpenBlock(s, width), word)
                                              ELSE NoProgram
        [] s.ok /\ s.due = "none" ->
             IF /\ open[home].width = width
                /\ \A i \in home + 1..Len(open) : open[i].ending \notin Unfinished
               THEN PlaceIn(SubSeq(open, 1, home), word)
               ELSE NoProgram

\* Whether a file may end here.
Complete(s) == /\ s.ok /\ s.due = "none"
               /\ \A i \in 1..Len(s.open) : s.open[i].ending \notin Unfinished
=============================================================================
