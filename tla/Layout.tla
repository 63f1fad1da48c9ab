------------------------------- MODULE Layout -------------------------------
(***************************************************************************)
(* The block structure of a source file: lexer.Tokens with its stack of    *)
(* indentations, and the parser's recursive descent, whose call stack is   *)
(* the only record of the blocks that are open.  The two share nothing but *)
(* the tokens.  The code lexes the whole file and then parses it; here the *)
(* parser takes each token as soon as it is there, which gives the same    *)
(* tree since neither looks back and the parser looks one token ahead.     *)
(*                                                                         *)
(* A line is a logical one (newlines inside brackets are whitespace), a    *)
(* statement up to its colon or newline is one token, named for its kind,  *)
(* and a width is what handleIndentation counts.                           *)
(***************************************************************************)
EXTENDS Integers, Sequences, SequencesExt

CONSTANT Widths     \* the indentations lines may have

ASSUME WidthsAreNat == Widths \subseteq Nat

VARIABLES indents,  \* Lexer.indents
          line,     \* the line being read: its width and the word not yet emitted
          pos,      \* where in the line, or at which end, the lexer is
          tok,      \* the token the lexer has emitted and the parser not consumed
          calls,    \* the parser's call stack, innermost last
          status,   \* reading, accepted or rejected
          py        \* history: the structure the lines read so far mean

lexer  == <<indents, line, pos>>
parser == <<calls, status>>
vars   == <<indents, line, pos, tok, calls, status, py>>

Py == INSTANCE PyLayout

NoWord == "none"
Tokens == Py!Words \cup {"INDENT", "DEDENT", "NEWLINE", "EOF"}

(* A call that parses a run of statements, for the file, a suite or the    *)
(* methods of a class, alternates with the call of the statement whose     *)
(* block it is; at says what that statement waits for.                     *)
Block(kind) == [call |-> "block", word |-> kind, at |-> "body"]
Statement(word, at) == [call |-> "stmt", word |-> word, at |-> at]

Init == /\ indents = <<0>>
        /\ line = [width |-> 0, word |-> NoWord]
        /\ pos = "start"
        /\ tok = NoWord
        /\ calls = <<Block("file")>>
        /\ status = "reading"
        /\ py = Py!Start
-----------------------------------------------------------------------------
(* The lexer. *)

Emit(t) == /\ tok = NoWord /\ status = "reading"
           /\ tok' = t
           /\ UNCHANGED parser

\* A line of blanks, or of blanks and a comment: only its NEWLINE.
BlankLine == /\ pos = "start"
             /\ Emit("NEWLINE")
             /\ UNCHANGED <<lexer, py>>

\* Any other line.  handleIndentation counts spaces, then tabs, and looks at what
\* follows: when that is a \r (every line of a CRLF file has one) or another space,
\* a line of blanks or with only a comment is not taken for one.  It has no word,
\* but its indentation counts.  Python skips it, so where it changes the levels the
\* comparison with Python ends.
TakeLine(width, word) ==
  /\ pos = "start"
  /\ tok = NoWord /\ status = "reading"
  /\ line' = [width |-> width, word |-> word]
  /\ pos' = "indent"
  /\ py' = CASE word # NoWord -> Py!Line(py, width, word)
             [] word = NoWord -> IF width = Last(indents) /\ py.due = "none"
                                   THEN py ELSE Py!NotRead
  /\ UNCHANGED <<indents, tok, parser>>

Indent == /\ pos = "indent"
          /\ line.width > Last(indents)
          /\ Emit("INDENT")
          /\ indents' = Append(indents, line.width)
          /\ pos' = "words"
          /\ UNCHANGED <<line, py>>

\* Mutant: a level is left when a line comes back to it, not below it.
DedentAtLevel == /\ pos \in {"indent", "dedent"}
                 /\ Len(indents) > 1 /\ Last(indents) >= line.width
                 /\ Emit("DEDENT")
                 /\ indents' = Front(indents)
                 /\ pos' = "dedent"
                 /\ UNCHANGED <<line, py>>

Dedent == /\ pos \in {"indent", "dedent"}
          /\ Len(indents) > 1 /\ Last(indents) > line.width
          /\ Emit("DEDENT")
          /\ indents' = Front(indents)
          /\ pos' = "dedent"
          /\ UNCHANGED <<line, py>>

\* Once a level is left, the line is taken to be at the one that remains.
IndentationDone == \/ pos = "words"
                   \/ pos = "indent" /\ line.width = Last(indents)
                   \/ pos = "dedent" /\ line.width >= Last(indents)

Word == /\ IndentationDone
        /\ line.word # NoWord
        /\ Emit(line.word)
        /\ line' = [line EXCEPT !.word = NoWord]
        /\ pos' = "words"
        /\ UNCHANGED <<indents, py>>

\* A second statement on the same line is lexed like the first.
SecondWord(word) == /\ pos = "words" /\ line.word = NoWord
                    /\ tok = NoWord /\ status = "reading"
                    /\ line' = [line EXCEPT !.word = word]
                    /\ py' = Py!NoProgram
                    /\ UNCHANGED <<indents, pos, tok, parser>>

Newline == /\ IndentationDone
           /\ line.word = NoWord
           /\ Emit("NEWLINE")
           /\ pos' = "start"
           /\ line' = [line EXCEPT !.width = 0]
           /\ UNCHANGED <<indents, py>>

\* The file ends after a newline or in the middle of its last line.
EndOfSource == /\ tok = NoWord /\ status = "reading"
               /\ \/ pos = "start"
                  \/ pos = "words" /\ line.word = NoWord
               /\ pos' = "end"
               /\ line' = [line EXCEPT !.width = 0]
               /\ UNCHANGED <<indents, tok, parser, py>>

\* Mutant: the level of the file itself is closed too.
FinalDedentAll == /\ pos = "end"
                  /\ Len(indents) > 0
                  /\ Emit("DEDENT")
                  /\ indents' = Front(indents)
                  /\ UNCHANGED <<line, pos, py>>

FinalDedent == /\ pos = "end"
               /\ Len(indents) > 1
               /\ Emit("DEDENT")
               /\ indents' = Front(indents)
               /\ UNCHANGED <<line, pos, py>>

Eof == /\ pos = "end"
       /\ Len(indents) = 1
       /\ Emit("EOF")
       /\ pos' = "done"
       /\ UNCHANGED <<indents, line, py>>

LexerNext == \/ BlankLine \/ Indent \/ Dedent \/ Word \/ Newline
             \/ EndOfSource \/ FinalDedent \/ Eof
             \/ \E width \in Widths, word \in Py!Words \cup {NoWord} : TakeLine(width, word)
             \/ \E word \in Py!Words : SecondWord(word)
-----------------------------------------------------------------------------
(* The parser. *)

Top == Last(calls)
InBlock == Top.call = "block"
After(word, ws) == Top.at = "after" /\ Top.word \in word /\ tok \in ws

Consume(cs) == /\ calls' = cs
               /\ tok' = NoWord
               /\ UNCHANGED <<lexer, status, py>>

Becomes(s) == Append(Front(calls), s)

\* skipNewlines between statements and after a decorator, and the one newline
\* that consumeNewline takes after the colon of a header.
SkipNewline == /\ tok = "NEWLINE"
               /\ \/ /\ InBlock \/ Top.at = "function"
                     /\ Consume(calls)
                  \/ /\ Top.at = "newline"
                     /\ Consume(Becomes([Top EXCEPT !.at = "indent"]))

\* The body of a class is a loop of parseClassDef and any other parseBlock.
EnterBlock == /\ tok = "INDENT"
              /\ Top.at \in {"newline", "indent"}
              /\ Consume(Append(Becomes([Top EXCEPT !.at = "block"]),
                                Block(IF Top.word = "class" THEN "methods" ELSE "suite")))

\* parseStatement, or parseFuncDef in a class.
CanStart == IF Top.word = "methods" THEN {"def", "stub"}
            ELSE {"simple", "stub", "extern", "if", "loop", "def", "class", "try"}

ParseStatement ==
  /\ InBlock /\ tok \in CanStart
  /\ Consume(CASE tok \in {"simple", "stub"} -> calls
               [] tok = "extern" -> Append(calls, Statement("extern", "function"))
               [] OTHER -> Append(calls, Statement(tok, "newline")))

DecoratedDef ==
  /\ Top.at = "function" /\ tok \in {"def", "stub"}
  /\ Consume(IF tok = "stub" THEN Front(calls) ELSE Becomes(Statement("def", "newline")))

\* Mutant: parseClassDef leaves its loop at the DEDENT and does not take it.
LeaveClassBlock == /\ tok = "DEDENT"
                   /\ InBlock /\ Top.word # "file"
                   /\ LET under == Front(calls) IN
                        calls' = Append(Front(under), [Last(under) EXCEPT !.at = "after"])
                   /\ tok' = IF Top.word = "methods" THEN tok ELSE NoWord
                   /\ UNCHANGED <<lexer, status, py>>

\* The block ends; the statement it belongs to looks at the next token.  (The
\* code's loop also ends at EOF, which LevelsMatchBlocks says never comes here.)
LeaveBlock == /\ tok = "DEDENT"
              /\ InBlock /\ Top.word # "file"
              /\ LET under == Front(calls) IN
                   Consume(Append(Front(under), [Last(under) EXCEPT !.at = "after"]))

\* Mutant: a bare except is taken for the last clause of its try.
TakesClauseBareLast == \/ After({"if", "elif"}, {"elif", "else"})
                       \/ After({"try", "except"}, {"except", "bare", "finally"})

TakesClause == \/ After({"if", "elif"}, {"elif", "else"})
               \/ After({"try", "except"}, {"except", "bare"})
               \/ After({"try", "except", "bare"}, {"finally"})

Clause == /\ TakesClause
          /\ Consume(Becomes(Statement(tok, "newline")))

\* `except` after a bare one, and `try` without except or finally, are errors.
BadTry == \/ After({"bare"}, {"except", "bare"})
          \/ After({"try"}, (Tokens \ {"except", "bare", "finally"}))

\* The statement is complete and returns to the block around it.
Return == /\ Top.at = "after" /\ tok # NoWord /\ ~TakesClause /\ ~BadTry
          /\ calls' = Front(calls)
          /\ UNCHANGED <<lexer, tok, status, py>>

Accept == /\ tok = "EOF"
          /\ InBlock /\ Top.word = "file"
          /\ tok' = NoWord
          /\ status' = "accepted"
          /\ UNCHANGED <<lexer, calls, py>>

\* Every token that no branch of the function on top expects.
Unexpected ==
  \/ InBlock /\ \/ tok \notin CanStart \cup {"NEWLINE", "DEDENT", "EOF"}
                \/ tok = "DEDENT" /\ Top.word = "file"
  \/ Top.at = "newline" /\ tok \notin {"NEWLINE", "INDENT"}
  \/ Top.at = "indent" /\ tok # "INDENT"
  \/ Top.at = "function" /\ tok \notin {"NEWLINE", "def", "stub"}
  \/ BadTry

Reject == /\ tok # NoWord /\ status = "reading"
          /\ Unexpected
          /\ status' = "rejected"
          /\ UNCHANGED <<lexer, tok, calls, py>>

ParserNext == \/ SkipNewline \/ EnterBlock \/ ParseStatement \/ DecoratedDef
              \/ LeaveBlock \/ Clause \/ Return \/ Accept \/ Reject
-----------------------------------------------------------------------------
Parser == status = "reading" /\ ParserNext

\* The file is accepted, or the first error ends the parse.
Done == status # "reading" /\ UNCHANGED vars

Next == LexerNext \/ Parser \/ Done

Spec == Init /\ [][Next]_vars
-----------------------------------------------------------------------------
Places == [call : {"block"}, word : {"file", "suite", "methods"}, at : {"body"}]
          \cup [call : {"stmt"}, word : Py!Headers \cup {"extern"},
                at : {"function", "newline", "indent", "block", "after"}]

TypeOK ==
  /\ indents \in Seq(Nat) /\ indents # <<>>
  /\ line \in [width : Nat, word : Py!Words \cup {NoWord}]
  /\ pos \in {"start", "indent", "dedent", "words", "end", "done"}
  /\ tok \in Tokens \cup {NoWord}
  /\ calls \in Seq(Places) /\ calls # <<>>
  /\ status \in {"reading", "accepted", "rejected"}

\* How many runs of statements the parser is in.
Depth == (Len(calls) + 1) \div 2

(* The levels the lexer has open and the blocks the parser is in are the   *)
(* same number, but for the one token between them, though the lexer never *)
(* sees a block nor the parser a width: DEDENT never reaches the end of    *)
(* the file's own statements, and no block is left for EOF to close.       *)
LevelsMatchBlocks ==
  /\ Depth = CASE tok = "INDENT" -> Len(indents) - 1
               [] tok = "DEDENT" -> Len(indents) + 1
               [] OTHER -> Len(indents)
  /\ tok = "EOF" => Depth = 1

\* The structure the lexer's levels and the parser's calls make together.
BlockAt(i) ==
  [width   |-> indents[i],
   ending  |-> IF 2 * i \in DOMAIN calls THEN Py!Ending(calls[2 * i].word) ELSE "none",
   methods |-> calls[2 * i - 1].word = "methods"]

Due == IF Top.at \in {"newline", "indent"} THEN Top.word ELSE "none"

Structure == [ok |-> TRUE, open |-> [i \in 1..Depth |-> BlockAt(i)], due |-> Due]

(* After every line of a file that is laid out by the rules of Python, and *)
(* whose blank lines the lexer has taken for blank (py.ok says both), the  *)
(* parser is in the blocks the indentation says, each begun at the width   *)
(* it was written at, and each about to take the clauses of the statement  *)
(* it ends in and no other's.                                              *)
BlocksAsWritten ==
  pos = "start" /\ tok = NoWord /\ status = "reading" /\ py.ok => Structure = py

(* Such a file is accepted, and only if it is a whole program: no header   *)
(* without a block, no try without a clause, no decorator without a        *)
(* function.  The code has one exception, a blank or comment line right    *)
(* after a header, whose NEWLINE stands where parseBlock expects INDENT.   *)
AcceptsAsPython ==
  py.ok => /\ status = "accepted" => Py!Complete(py)
           /\ status = "rejected" => \/ Top.at = "indent" /\ tok = "NEWLINE"
                                     \/ pos \in {"end", "done"} /\ ~Py!Complete(py)
=============================================================================
