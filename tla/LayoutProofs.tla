---------------------------- MODULE LayoutProofs ----------------------------
(***************************************************************************)
(* For files of any length with indentations of any width: the state is    *)
(* well formed, the levels of the lexer are the blocks of the parser, and  *)
(* those are the blocks that the lines mean by the rules of Python, which  *)
(* also say what is accepted.                                              *)
(*                                                                         *)
(* The first invariant adds to the types how the call stack alternates     *)
(* between runs of statements and the statements their blocks belong to,   *)
(* from the file outwards, so that its length says how many blocks are     *)
(* open.  The second one says in the middle of a line what the rest of the *)
(* line still has to do.                                                   *)
(***************************************************************************)
EXTENDS Layout, SequenceTheorems, WellFoundedInduction, TLAPS

IsBlock(c) == c.call = "block"

Odd(n)  == n % 2 = 1
Half(n) == (n + 1) \div 2

Alternating(cs) ==
  /\ cs[1].word = "file"
  /\ \A i \in 1..Len(cs) : IsBlock(cs[i]) <=> Odd(i)

\* An EOF is emitted with one level left.
LayoutInv == /\ TypeOK
             /\ Alternating(calls)
             /\ LevelsMatchBlocks
             /\ tok = "EOF" => Len(indents) = 1

-----------------------------------------------------------------------------
\* Odd and even take turns, and halving an odd length rounds it up.
LEMMA Parity ==
  /\ Odd(1) /\ Half(1) = 1
  /\ \A n \in Nat : /\ Odd(n + 1) <=> ~Odd(n)
                    /\ Half(n) \in Nat
                    /\ Half(n + 1) = IF Odd(n) THEN Half(n) ELSE Half(n) + 1
                    /\ n > 1 => Half(n) >= 1
BY DEF Odd, Half

\* The sequence without its last element.
LEMMA FrontIs ==
  ASSUME NEW S, NEW s \in Seq(S), s # <<>>
  PROVE  /\ Len(s) \in Nat /\ Len(s) >= 1
         /\ Front(s) \in Seq(S)
         /\ Len(Front(s)) = Len(s) - 1
         /\ \A i \in 1..Len(s) - 1 : Front(s)[i] = s[i]
         /\ Last(s) = s[Len(s)] /\ Last(s) \in S
<1>1. Len(s) \in Nat /\ Len(s) >= 1 /\ \A i \in 1..Len(s) : s[i] \in S
  BY EmptySeq, LenProperties, ElementOfSeq
<1>2. /\ Front(s) \in Seq(S)
      /\ Len(Front(s)) = Len(s) - 1
      /\ \A i \in 1..Len(s) - 1 : Front(s)[i] = s[i]
  <2> DEFINE n == Len(s) - 1
  <2>1. n \in Nat /\ \A i \in 1..n : s[i] \in S
    BY <1>1
  <2> HIDE DEF n
  <2>2. /\ SubSeq(s, 1, n) \in Seq(S)
        /\ Len(SubSeq(s, 1, n)) = IF 1 <= n THEN n - 1 + 1 ELSE 0
        /\ \A i \in 1..n - 1 + 1 : SubSeq(s, 1, n)[i] = s[1 + i - 1]
    BY <2>1, SubSeqProperties
  <2>3. n - 1 + 1 = n /\ (~(1 <= n) => n = 0) /\ \A i \in 1..n : 1 + i - 1 = i
    BY <2>1
  <2>4. Len(SubSeq(s, 1, n)) = n /\ \A i \in 1..n : SubSeq(s, 1, n)[i] = s[i]
    BY <2>2, <2>3
  <2> QED BY <2>2, <2>4 DEF Front, n
<1>3. Last(s) = s[Len(s)] /\ Last(s) \in S
  BY <1>1, ElementOfSeq DEF Last
<1> QED BY <1>1, <1>2, <1>3

\* A call pushed on the others, as it should come next.
LEMMA Pushed ==
  ASSUME NEW cs \in Seq(Places), cs # <<>>, Alternating(cs),
         NEW c \in Places, IsBlock(c) <=> Odd(Len(cs) + 1)
  PROVE  /\ Append(cs, c) \in Seq(Places) /\ Append(cs, c) # <<>>
         /\ Len(Append(cs, c)) = Len(cs) + 1
         /\ Alternating(Append(cs, c))
<1> DEFINE ds == Append(cs, c)
<1>1. /\ Len(cs) \in Nat /\ Len(cs) >= 1
      /\ ds \in Seq(Places) /\ ds # <<>> /\ Len(ds) = Len(cs) + 1
      /\ \A i \in 1..Len(cs) : ds[i] = cs[i]
      /\ ds[Len(cs) + 1] = c
  BY FrontIs, AppendProperties
<1>2. ASSUME NEW i \in 1..Len(ds) PROVE IsBlock(ds[i]) <=> Odd(i)
  <2>1. CASE i \in 1..Len(cs)
    BY <1>1, <2>1 DEF Alternating
  <2>2. CASE i = Len(cs) + 1
    BY <1>1, <2>2
  <2> QED BY <1>1, <2>1, <2>2
<1>3. ds[1].word = "file"
  BY <1>1 DEF Alternating
<1> HIDE DEF ds
<1>4. Alternating(ds)
  BY <1>2, <1>3 DEF Alternating
<1> QED BY <1>1, <1>4 DEF ds

\* The innermost call returns; there are two at least.
LEMMA Popped ==
  ASSUME NEW cs \in Seq(Places), cs # <<>>, Alternating(cs), Len(cs) > 1
  PROVE  /\ Front(cs) \in Seq(Places) /\ Front(cs) # <<>>
         /\ Len(Front(cs)) = Len(cs) - 1
         /\ Alternating(Front(cs))
<1> DEFINE ds == Front(cs)
<1>1. /\ Len(cs) \in Nat /\ Len(cs) >= 2
      /\ ds \in Seq(Places) /\ Len(ds) = Len(cs) - 1
      /\ \A i \in 1..Len(cs) - 1 : ds[i] = cs[i]
  <2>1. Len(cs) \in Nat /\ Len(cs) >= 1
    BY FrontIs
  <2> QED BY <2>1, FrontIs
<1>2. ds # <<>>
  BY <1>1, EmptySeq
<1> HIDE DEF ds
<1>3. Alternating(ds)
  BY <1>1 DEF Alternating
<1> QED BY <1>1, <1>2, <1>3 DEF ds

\* A call whose kind the alternation fixes: an odd place holds a block.
LEMMA TopKind ==
  ASSUME NEW cs \in Seq(Places), cs # <<>>, Alternating(cs)
  PROVE  /\ Last(cs) \in Places
         /\ IsBlock(Last(cs)) <=> Odd(Len(cs))
         /\ Len(cs) = 1 => Last(cs).word = "file"
<1>1. Len(cs) \in 1..Len(cs) /\ Last(cs) = cs[Len(cs)] /\ Last(cs) \in Places
  BY FrontIs
<1> QED BY <1>1 DEF Alternating

\* The statement on top changes its word or what it waits for.
LEMMA Replaced ==
  ASSUME NEW cs \in Seq(Places), cs # <<>>, Alternating(cs),
         ~IsBlock(Last(cs)), NEW c \in Places, ~IsBlock(c)
  PROVE  /\ Append(Front(cs), c) \in Seq(Places) /\ Append(Front(cs), c) # <<>>
         /\ Len(Append(Front(cs), c)) = Len(cs)
         /\ Alternating(Append(Front(cs), c))
<1>1. Len(cs) \in Nat /\ Len(cs) >= 1 /\ ~Odd(Len(cs))
  BY FrontIs, TopKind
<1>2. \A n \in Nat : n >= 1 /\ ~Odd(n) => n > 1
  BY Parity
<1>2a. Len(cs) > 1
  BY <1>1, <1>2
<1>3. /\ Front(cs) \in Seq(Places) /\ Front(cs) # <<>>
      /\ Len(Front(cs)) = Len(cs) - 1
      /\ Alternating(Front(cs))
  BY <1>2a, Popped
<1>4. Len(Front(cs)) + 1 = Len(cs)
  BY <1>1, <1>3
<1>5. IsBlock(c) <=> Odd(Len(Front(cs)) + 1)
  BY <1>1, <1>4
<1> QED BY <1>3, <1>4, <1>5, Pushed

-----------------------------------------------------------------------------
LEMMA InitInv == Init => LayoutInv
<1> SUFFICES ASSUME Init PROVE LayoutInv
  OBVIOUS
<1>1. calls = <<Block("file")>> /\ Block("file") \in Places /\ IsBlock(Block("file"))
  BY DEF Init, Block, Places, IsBlock
<1>2. /\ calls \in Seq(Places) /\ calls # <<>> /\ Len(calls) = 1
      /\ calls[1] = Block("file")
  BY <1>1
<1>3. Alternating(calls)
  BY <1>1, <1>2, Parity DEF Alternating, Block
<1>4. indents \in Seq(Nat) /\ indents # <<>> /\ Len(indents) = 1
  BY DEF Init
<1>5. TypeOK
  BY <1>2, <1>4 DEF Init, TypeOK, NoWord
<1>6. LevelsMatchBlocks
  BY <1>2, <1>4 DEF Init, LevelsMatchBlocks, Depth, NoWord
<1>7. tok # "EOF"
  BY DEF Init, NoWord
<1> QED BY <1>3, <1>5, <1>6, <1>7 DEF LayoutInv

\* The lexer never touches the calls.  It keeps the levels and the token it
\* emits in step: a level more with INDENT, one less with DEDENT.
LEMMA LexerKeepsInv == LayoutInv /\ LexerNext => LayoutInv'
<1> SUFFICES ASSUME LayoutInv, LexerNext PROVE LayoutInv'
  OBVIOUS
<1>1. /\ tok = NoWord /\ calls' = calls /\ status' = status
  BY DEF LexerNext, BlankLine, Indent, Dedent, Word, Newline, EndOfSource, FinalDedent,
         Eof, TakeLine, SecondWord, Emit, parser
<1>2. /\ Alternating(calls') /\ Depth' = Depth /\ Depth = Len(indents)
      /\ calls' \in Seq(Places) /\ calls' # <<>> /\ status' \in {"reading", "accepted", "rejected"}
  BY <1>1 DEF LayoutInv, TypeOK, LevelsMatchBlocks, Depth, NoWord
<1>3. /\ indents \in Seq(Nat) /\ indents # <<>> /\ Len(indents) \in Nat
      /\ line \in [width : Nat, word : Py!Words \cup {NoWord}]
      /\ Last(indents) \in Nat /\ Front(indents) \in Seq(Nat)
      /\ Len(Front(indents)) = Len(indents) - 1
      /\ pos \in {"start", "indent", "dedent", "words", "end", "done"}
  BY FrontIs DEF LayoutInv, TypeOK
<1>w. \A w \in Py!Words : w \notin {"INDENT", "DEDENT", "NEWLINE", "EOF", NoWord}
  BY DEF Py!Words, Py!Headers, Py!Clauses, NoWord
<1>k. ASSUME indents' = indents, line' \in [width : Nat, word : Py!Words \cup {NoWord}],
             pos' \in {"start", "indent", "dedent", "words", "end", "done"},
             tok' \in Py!Words \cup {NoWord, "NEWLINE"}
      PROVE  LayoutInv'
  <2>1. TypeOK'
    BY <1>k, <1>2, <1>3 DEF TypeOK, Tokens
  <2>2. tok' \notin {"INDENT", "DEDENT", "EOF"}
    BY <1>k, <1>w DEF NoWord
  <2>3. LevelsMatchBlocks'
    BY <1>k, <1>2, <2>2 DEF LevelsMatchBlocks
  <2> QED BY <1>2, <2>1, <2>2, <2>3 DEF LayoutInv
<1>p. ASSUME indents' = Front(indents), Len(indents) > 1, tok' = "DEDENT", line' = line,
             pos' \in {"dedent", "end"}
      PROVE  LayoutInv'
  <2>1. Len(indents') = Len(indents) - 1 /\ indents' \in Seq(Nat)
    BY <1>p, <1>3
  <2>2. indents' # <<>>
    BY <2>1, <1>p, <1>3
  <2>3. TypeOK'
    BY <1>p, <1>2, <1>3, <2>1, <2>2 DEF TypeOK, Tokens
  <2>4. LevelsMatchBlocks'
    BY <1>p, <1>2, <1>3, <2>1 DEF LevelsMatchBlocks
  <2> QED BY <1>p, <1>2, <2>3, <2>4 DEF LayoutInv
<1>4. CASE BlankLine
  BY <1>4, <1>k, <1>3 DEF BlankLine, Emit, lexer
<1>5. CASE Indent
  <2>1. /\ indents' = Append(indents, line.width) /\ line' = line
        /\ pos' = "words" /\ tok' = "INDENT" /\ line.width \in Nat
    BY <1>5, <1>3 DEF Indent, Emit
  <2>a. /\ Append(indents, line.width) \in Seq(Nat) /\ Append(indents, line.width) # <<>>
        /\ Len(Append(indents, line.width)) = Len(indents) + 1
    <3>1. \A w \in Nat : /\ Append(indents, w) \in Seq(Nat) /\ Append(indents, w) # <<>>
                         /\ Len(Append(indents, w)) = Len(indents) + 1
      BY SMTT(30), <1>3, AppendProperties
    <3> QED BY <3>1, <2>1
  <2>2. /\ indents' \in Seq(Nat) /\ indents' # <<>> /\ Len(indents') = Len(indents) + 1
    BY <2>1, <2>a
  <2>3. TypeOK'
    BY <2>1, <2>2, <1>2, <1>3 DEF TypeOK, Tokens
  <2>4. LevelsMatchBlocks'
    BY <2>1, <2>2, <1>2, <1>3 DEF LevelsMatchBlocks
  <2> QED BY <2>1, <2>3, <2>4, <1>2 DEF LayoutInv
<1>6. CASE Dedent
  BY <1>6, <1>p DEF Dedent, Emit
<1>7. CASE Word
  <2>1. line.word \in Py!Words /\ tok' = line.word
    BY <1>7, <1>3 DEF Word, Emit
  <2>2. line' \in [width : Nat, word : Py!Words \cup {NoWord}]
    BY <1>7, <1>3 DEF Word
  <2> QED BY <1>7, <1>k, <2>1, <2>2 DEF Word
<1>8. CASE Newline
  <2>1. line' \in [width : Nat, word : Py!Words \cup {NoWord}]
    BY <1>8, <1>3 DEF Newline
  <2> QED BY <1>8, <1>k, <2>1 DEF Newline, Emit
<1>9. CASE EndOfSource
  <2>1. line' \in [width : Nat, word : Py!Words \cup {NoWord}]
    BY <1>9, <1>3 DEF EndOfSource
  <2> QED BY <1>9, <1>1, <1>k, <2>1 DEF EndOfSource
<1>10. CASE FinalDedent
  BY <1>10, <1>3, <1>p DEF FinalDedent, Emit
<1>11. CASE Eof
  <2>1. /\ indents' = indents /\ line' = line /\ Len(indents) = 1
        /\ tok' = "EOF" /\ pos' = "done"
    BY <1>11 DEF Eof, Emit
  <2>2. TypeOK'
    BY <2>1, <1>2, <1>3 DEF TypeOK, Tokens
  <2>3. LevelsMatchBlocks'
    BY <2>1, <1>2 DEF LevelsMatchBlocks
  <2> QED BY <2>1, <2>2, <2>3, <1>2 DEF LayoutInv
<1>12. ASSUME NEW width \in Widths, NEW word \in Py!Words \cup {NoWord}, TakeLine(width, word)
       PROVE  LayoutInv'
  BY <1>12, <1>k, WidthsAreNat DEF TakeLine
<1>13. ASSUME NEW word \in Py!Words, SecondWord(word) PROVE LayoutInv'
  <2>1. line' \in [width : Nat, word : Py!Words \cup {NoWord}]
    BY <1>13, <1>3 DEF SecondWord
  <2> QED BY <1>13, <1>3, <1>k, <2>1 DEF SecondWord
<1> QED BY <1>4, <1>5, <1>6, <1>7, <1>8, <1>9, <1>10, <1>11, <1>12, <1>13 DEF LexerNext

\* The parser never touches the levels.  A block more takes an INDENT, a block
\* less a DEDENT, and pushing or popping a statement changes no depth.
LEMMA ParserKeepsInv == LayoutInv /\ Parser => LayoutInv'
<1> SUFFICES ASSUME LayoutInv, Parser PROVE LayoutInv'
  OBVIOUS
<1>1. /\ calls \in Seq(Places) /\ calls # <<>> /\ Alternating(calls)
      /\ Len(calls) \in Nat /\ Len(calls) >= 1
      /\ Top \in Places /\ Top = Last(calls)
      /\ IsBlock(Top) <=> Odd(Len(calls))
      /\ Len(calls) = 1 => Top.word = "file"
      /\ Depth = Half(Len(calls)) /\ Depth \in Nat
      /\ indents \in Seq(Nat) /\ Len(indents) \in Nat
  BY FrontIs, TopKind, Parity DEF LayoutInv, TypeOK, Top, Depth, Half
<1>2. /\ indents' = indents /\ line' = line /\ pos' = pos
      /\ status' \in {"reading", "accepted", "rejected"} /\ tok' \in {tok, NoWord}
  BY DEF Parser, ParserNext, SkipNewline, EnterBlock, ParseStatement, DecoratedDef, LeaveBlock,
         Clause, Return, Accept, Reject, Consume, lexer, LayoutInv, TypeOK
<1>i. InBlock <=> IsBlock(Top)
  BY DEF InBlock, IsBlock
<1>t. Top.at # "body" => ~IsBlock(Top)
  BY <1>1 DEF Places, IsBlock
\* What is left to show of a step that leaves such a call stack.
<1>k. ASSUME calls' \in Seq(Places), calls' # <<>>, Alternating(calls'),
             Half(Len(calls')) = CASE tok = "INDENT" /\ tok' = NoWord -> Half(Len(calls)) + 1
                                   [] tok = "DEDENT" /\ tok' = NoWord -> Half(Len(calls)) - 1
                                   [] OTHER -> Half(Len(calls))
      PROVE  LayoutInv'
  <2>1. TypeOK'
    BY <1>k, <1>2 DEF LayoutInv, TypeOK
  <2>2. Depth' = Half(Len(calls'))
    BY DEF Depth, Half
  <2>3. LevelsMatchBlocks'
    <3>1. CASE tok' = tok
      BY <3>1, <1>k, <1>1, <1>2, <2>2 DEF LayoutInv, LevelsMatchBlocks, NoWord
    <3>2. CASE tok' = NoWord
      BY <3>2, <1>k, <1>1, <1>2, <2>2 DEF LayoutInv, LevelsMatchBlocks, NoWord
    <3> QED BY <3>1, <3>2, <1>2
  <2> QED BY <1>k, <1>2, <2>1, <2>3 DEF LayoutInv, NoWord
\* The stack is as it was.
<1>s. ASSUME calls' = calls, tok \notin {"INDENT", "DEDENT"} \/ tok' = tok PROVE LayoutInv'
  <2>1. tok # NoWord \/ tok' = NoWord
    BY <1>2
  <2>2. CASE tok \notin {"INDENT", "DEDENT"}
    BY <2>2, <1>s, <1>1, <1>k
  <2>3. CASE tok' = tok /\ tok \in {"INDENT", "DEDENT"}
    BY <2>3, <1>s, <1>1, <1>k DEF NoWord
  <2> QED BY <1>s, <2>2, <2>3
\* The statement on top is replaced.
<1>r. ASSUME NEW c \in Places, ~IsBlock(c), ~IsBlock(Top), calls' = Becomes(c),
             tok \notin {"INDENT", "DEDENT"}
      PROVE  LayoutInv'
  <2>1. /\ Becomes(c) \in Seq(Places) /\ Becomes(c) # <<>>
        /\ Len(Becomes(c)) = Len(calls) /\ Alternating(Becomes(c))
    BY <1>r, <1>1, Replaced DEF Becomes
  <2> QED BY <2>1, <1>r, <1>k
\* The statement on top returns.
<1>q. ASSUME ~IsBlock(Top), calls' = Front(calls), tok' = tok \/ tok \notin {"INDENT", "DEDENT"},
             tok # NoWord
      PROVE  LayoutInv'
  <2>1. Len(calls) > 1
    <3>1. \A n \in Nat : n >= 1 /\ ~Odd(n) => n > 1
      BY Parity
    <3> QED BY <3>1, <1>q, <1>1
  <2>2. /\ Front(calls) \in Seq(Places) /\ Front(calls) # <<>>
        /\ Len(Front(calls)) = Len(calls) - 1 /\ Alternating(Front(calls))
    BY <2>1, <1>1, Popped
  <2>3. Half(Len(calls) - 1) = Half(Len(calls))
    <3>1. \A n \in Nat : n > 1 /\ ~Odd(n) => Half(n - 1) = Half(n)
      <4> SUFFICES ASSUME NEW n \in Nat, n > 1, ~Odd(n) PROVE Half(n - 1) = Half(n)
        OBVIOUS
      <4>1. n - 1 \in Nat /\ (n - 1) + 1 = n
        OBVIOUS
      <4>2. Odd(n - 1) /\ Half((n - 1) + 1) = Half(n - 1)
        BY <4>1, Parity
      <4> QED BY <4>1, <4>2
    <3> QED BY <3>1, <2>1, <1>q, <1>1
  <2>4. Half(Len(calls')) = Half(Len(calls))
    BY <1>q, <2>2, <2>3
  <2> QED BY <1>q, <2>2, <2>4, <1>k DEF NoWord
<1>3. CASE SkipNewline
  <2>1. CASE calls' = calls
    BY <2>1, <1>3, <1>s DEF SkipNewline
  <2>2. CASE Top.at = "newline" /\ calls' = Becomes([Top EXCEPT !.at = "indent"])
    <3>1. [Top EXCEPT !.at = "indent"] \in Places /\ ~IsBlock([Top EXCEPT !.at = "indent"])
      BY <2>2, <1>1 DEF Places, IsBlock
    <3> QED BY <3>1, <2>2, <1>3, <1>t, <1>r DEF SkipNewline
  <2> QED BY <2>1, <2>2, <1>3 DEF SkipNewline, Consume
<1>4. CASE EnterBlock
  <2> DEFINE c  == [Top EXCEPT !.at = "block"]
             b  == Block(IF Top.word = "class" THEN "methods" ELSE "suite")
             cs == Becomes(c)
  <2>1. /\ tok = "INDENT" /\ tok' = NoWord /\ ~IsBlock(Top) /\ calls' = Append(cs, b)
    BY <1>4, <1>t DEF EnterBlock, Consume
  <2>2. c \in Places /\ ~IsBlock(c)
    BY <2>1, <1>1 DEF Places, IsBlock
  <2>3. b \in Places /\ IsBlock(b)
    BY DEF Places, Block, IsBlock
  <2> HIDE DEF c, b
  <2>4. /\ cs \in Seq(Places) /\ cs # <<>> /\ Len(cs) = Len(calls) /\ Alternating(cs)
    BY <2>1, <2>2, <1>1, Replaced DEF Becomes
  <2> HIDE DEF cs
  <2>5. Odd(Len(cs) + 1) /\ Half(Len(cs) + 1) = Half(Len(calls)) + 1
    BY <2>1, <2>4, <1>1, Parity
  <2>6. /\ calls' \in Seq(Places) /\ calls' # <<>> /\ Len(calls') = Len(cs) + 1
        /\ Alternating(calls')
    BY <2>1, <2>3, <2>4, <2>5, Pushed
  <2>7. Half(Len(calls')) = Half(Len(calls)) + 1
    BY <2>5, <2>6
  <2> QED BY <2>1, <2>6, <2>7, <1>k DEF NoWord
<1>5. CASE ParseStatement
  <2>1. tok \notin {"INDENT", "DEDENT"} /\ IsBlock(Top) /\ tok' = NoWord
    BY <1>5, <1>i DEF ParseStatement, CanStart, Consume
  <2>2. CASE calls' = calls
    BY <2>1, <2>2, <1>s
  <2>3. ASSUME NEW c \in Places, ~IsBlock(c), calls' = Append(calls, c) PROVE LayoutInv'
    <3>1. ~Odd(Len(calls) + 1) /\ Half(Len(calls) + 1) = Half(Len(calls))
      BY <2>1, <1>1, Parity
    <3>2. /\ calls' \in Seq(Places) /\ calls' # <<>> /\ Len(calls') = Len(calls) + 1
          /\ Alternating(calls')
      BY <2>3, <3>1, <1>1, Pushed
    <3>3. Half(Len(calls')) = Half(Len(calls))
      BY <3>1, <3>2
    <3> QED BY <2>1, <3>2, <3>3, <1>k
  <2>4. CASE tok = "extern" /\ calls' = Append(calls, Statement("extern", "function"))
    <3>1. Statement("extern", "function") \in Places /\ ~IsBlock(Statement("extern", "function"))
      BY DEF Places, Statement, IsBlock
    <3> QED BY <2>4, <3>1, <2>3
  <2>5. CASE /\ tok \in {"if", "loop", "def", "class", "try"}
             /\ calls' = Append(calls, Statement(tok, "newline"))
    <3>1. Statement(tok, "newline") \in Places /\ ~IsBlock(Statement(tok, "newline"))
      BY <2>5 DEF Places, Statement, IsBlock, Py!Headers
    <3> QED BY <2>5, <3>1, <2>3
  <2> QED BY <1>5, <2>2, <2>4, <2>5 DEF ParseStatement, CanStart, Consume
<1>6. CASE DecoratedDef
  <2>1. ~IsBlock(Top) /\ tok \in {"def", "stub"} /\ tok' = NoWord
    BY <1>6, <1>t DEF DecoratedDef, Consume
  <2>2. CASE calls' = Front(calls)
    BY <2>1, <2>2, <1>q DEF NoWord
  <2>3. CASE calls' = Becomes(Statement("def", "newline"))
    <3>1. Statement("def", "newline") \in Places /\ ~IsBlock(Statement("def", "newline"))
      BY DEF Places, Statement, IsBlock, Py!Headers
    <3> QED BY <2>1, <2>3, <3>1, <1>r
  <2> QED BY <1>6, <2>2, <2>3 DEF DecoratedDef, Consume
<1>7. CASE LeaveBlock
  <2> DEFINE under == Front(calls)
             c     == [Last(under) EXCEPT !.at = "after"]
  <2>1. /\ tok = "DEDENT" /\ tok' = NoWord /\ IsBlock(Top) /\ Len(calls) > 1
        /\ calls' = Append(Front(under), c)
    <3>1. Top.word # "file" /\ ~(Len(calls) = 1)
      BY <1>7, <1>1 DEF LeaveBlock
    <3>2. \A n \in Nat : n >= 1 /\ ~(n = 1) => n > 1
      OBVIOUS
    <3>3. Len(calls) > 1
      BY <3>1, <3>2, <1>1
    <3> QED BY <3>3, <1>7, <1>i DEF LeaveBlock, Consume
  <2>2. /\ under \in Seq(Places) /\ under # <<>> /\ Len(under) = Len(calls) - 1
        /\ Alternating(under)
    BY <2>1, <1>1, Popped
  <2> HIDE DEF under
  <2>3. Len(under) \in Nat /\ Len(under) + 1 = Len(calls)
    BY <2>1, <2>2, <1>1
  <2>4. ~Odd(Len(under)) /\ Half(Len(under)) = Half(Len(calls)) - 1
    <3>1. \A n \in Nat : Odd(n + 1) => ~Odd(n) /\ Half(n) = Half(n + 1) - 1
      BY Parity
    <3>2. Odd(Len(under) + 1)
      BY <2>1, <2>3, <1>1
    <3> QED BY <3>1, <3>2, <2>3
  <2>5. Last(under) \in Places /\ ~IsBlock(Last(under))
    BY <2>2, <2>4, TopKind
  <2>6. c \in Places /\ ~IsBlock(c)
    BY <2>5 DEF Places, IsBlock
  <2> HIDE DEF c
  <2>7. /\ calls' \in Seq(Places) /\ calls' # <<>> /\ Len(calls') = Len(under)
        /\ Alternating(calls')
    BY <2>1, <2>2, <2>5, <2>6, Replaced
  <2>8. Half(Len(calls')) = Half(Len(calls)) - 1
    BY <2>4, <2>7
  <2> QED BY <2>1, <2>7, <2>8, <1>k DEF NoWord
<1>8. CASE Clause
  <2>1. ~IsBlock(Top) /\ tok \in Py!Clauses
    BY <1>8, <1>t DEF Clause, TakesClause, After, Py!Clauses
  <2>2. Statement(tok, "newline") \in Places /\ ~IsBlock(Statement(tok, "newline"))
    BY <2>1 DEF Places, Statement, IsBlock, Py!Headers
  <2>3. tok \notin {"INDENT", "DEDENT"} /\ calls' = Becomes(Statement(tok, "newline"))
    BY <1>8, <2>1 DEF Clause, Consume, Py!Clauses
  <2> QED BY <2>1, <2>2, <2>3, <1>r
<1>9. CASE Return
  BY <1>9, <1>t, <1>q DEF Return
<1>10. CASE Accept
  BY <1>10, <1>s DEF Accept
<1>11. CASE Reject
  BY <1>11, <1>s DEF Reject
<1> QED BY <1>3, <1>4, <1>5, <1>6, <1>7, <1>8, <1>9, <1>10, <1>11 DEF Parser, ParserNext

LEMMA LayoutIsInvariant == Spec => []LayoutInv
<1>1. LayoutInv /\ [Next]_vars => LayoutInv'
  <2> SUFFICES ASSUME LayoutInv, [Next]_vars PROVE LayoutInv'
    OBVIOUS
  <2>1. CASE LexerNext
    BY <2>1, LexerKeepsInv
  <2>2. CASE Parser
    BY <2>2, ParserKeepsInv
  <2>3. CASE Done \/ UNCHANGED vars
    BY <2>3 DEF Done, vars, LayoutInv, TypeOK, LevelsMatchBlocks, Depth
  <2> QED BY <2>1, <2>2, <2>3 DEF Next
<1> QED BY <1>1, InitInv, PTL DEF Spec

\* The lexer's levels, its point in the line, the token between the two and the
\* parser's calls keep the forms the code gives them, whatever the file.
THEOREM LayoutTypeCorrect == Spec => []TypeOK
<1>1. LayoutInv => TypeOK
  BY DEF LayoutInv
<1> QED BY <1>1, LayoutIsInvariant, PTL

\* However long the file and however its lines are indented, the lexer has as
\* many levels open as the parser has blocks, but for the token between them:
\* each DEDENT ends the block its INDENT began, and at EOF none is open.
THEOREM LevelsAreBlocks == Spec => []LevelsMatchBlocks
<1>1. LayoutInv => LevelsMatchBlocks
  BY DEF LayoutInv
<1> QED BY <1>1, LayoutIsInvariant, PTL
-----------------------------------------------------------------------------
(***************************************************************************)
(* What the lines mean.  The blocks of the state are read off the levels   *)
(* and the calls; in the middle of a line they are not yet what py is, but *)
(* the rest of the line makes py of them, by the rules of Python.          *)
(***************************************************************************)
OpenOf(ind, cs, m) ==
  [i \in 1..m |-> [width   |-> ind[i],
                   ending  |-> IF 2 * i \in DOMAIN cs THEN Py!Ending(cs[2 * i].word) ELSE "none",
                   methods |-> cs[2 * i - 1].word = "methods"]]

Open == OpenOf(indents, calls, Len(indents))

Shaped(cs) ==
  \A i \in 1..Len(cs) :
    /\ cs[i].word = "file" <=> i = 1
    /\ cs[i].word = "extern" <=> cs[i].at = "function"
    /\ ~IsBlock(cs[i]) => (i < Len(cs) <=> cs[i].at = "block")

\* Nothing of the line is left to be taken into account.
Read == /\ Top.at # "after"
        /\ py = [ok |-> TRUE, open |-> Open, due |-> Due]

\* Only the place of the word is left to be found.
Placing(word) == /\ word \in Py!Words /\ Due = "none"
                 /\ py = Py!PlaceIn(Open, word)

\* Its indentation is left to be looked at, too, or the rest of it.
LineLeft == /\ line.word \in Py!Words
            /\ py = Py!Line([ok |-> TRUE, open |-> Open, due |-> Due], line.width, line.word)

Entering == /\ line.word \in Py!Words /\ Top.at \in {"newline", "indent"}
            /\ py = Py!PlaceIn(Append(OpenOf(indents, calls, Len(indents) - 1),
                                      [width |-> Last(indents), ending |-> "none",
                                       methods |-> Top.word = "class"]), line.word)

LastEnding == IF InBlock THEN "none" ELSE Py!Ending(Top.word)

Finished == /\ Due = "none"
            /\ \A i \in 1..Len(calls) : Py!Ending(calls[i].word) \notin Py!Unfinished

InStep ==
  /\ pos = "start" => tok \in {NoWord, "NEWLINE"} /\ Read
  /\ pos = "indent" =>
       /\ tok = NoWord
       /\ \/ LineLeft
          \/ line.word = NoWord /\ Read /\ line.width = Last(indents) /\ Due = "none"
  /\ pos = "dedent" => /\ tok \in {NoWord, "DEDENT"} /\ Due = "none" /\ LineLeft
                       /\ tok = "DEDENT" => LastEnding \notin Py!Unfinished
  /\ pos = "words" => \/ tok = "INDENT" /\ Entering
                      \/ tok = NoWord /\ line.word = NoWord /\ Read
                      \/ tok = NoWord /\ Placing(line.word)
                      \/ line.word = NoWord /\ Placing(tok)
  /\ pos \in {"end", "done"} => /\ tok \in {NoWord, "DEDENT", "EOF"}
                                /\ Py!Complete(py) <=> Finished

Agrees ==
  py.ok => /\ status = "reading"  => InStep
           /\ status = "accepted" => Py!Complete(py)
           /\ status = "rejected" => \/ Top.at = "indent" /\ tok = "NEWLINE"
                                     \/ pos \in {"end", "done"} /\ ~Py!Complete(py)

ReadInv == LayoutInv /\ Shaped(calls) /\ indents[1] = 0 /\ Agrees
-----------------------------------------------------------------------------
\* Words and what they end in.
LEMMA WordFacts ==
  /\ NoWord \notin Py!Words
  /\ \A w \in Py!Words : w \notin {"INDENT", "DEDENT", "NEWLINE", "EOF", "file", "suite", "methods"}
  /\ \A w : Py!Ending(w) \in {w, "none"}
  /\ \A w \in {"file", "suite", "methods", "simple", "stub", "loop", "def", "class", "else",
               "finally", "broken"} : Py!Ending(w) = "none"
  /\ \A w \in {"if", "elif", "try", "except", "bare", "extern"} : Py!Ending(w) = w
  /\ "none" \notin Py!Unfinished
  /\ \A w : <<"none", w>> \notin Py!Follow
<1>1. \A w : Py!Ending(w) \in {w, "none"}
  BY DEF Py!Ending
<1>2. \A w \in {"file", "suite", "methods", "simple", "stub", "loop", "def", "class", "else",
               "finally", "broken"} : Py!Ending(w) = "none"
  BY DEF Py!Ending, Py!Follow
<1>3. \A w \in {"if", "elif", "try", "except", "bare", "extern"} : \E x \in Py!Words : <<w, x>> \in Py!Follow
  <2>1. /\ <<"if", "else">> \in Py!Follow /\ <<"elif", "else">> \in Py!Follow
        /\ <<"try", "bare">> \in Py!Follow /\ <<"except", "bare">> \in Py!Follow
        /\ <<"bare", "finally">> \in Py!Follow /\ <<"extern", "def">> \in Py!Follow
    BY DEF Py!Follow
  <2>2. {"else", "bare", "finally", "def"} \subseteq Py!Words
    BY DEF Py!Words, Py!Headers, Py!Clauses
  <2> QED BY <2>1, <2>2
<1>4. \A w \in {"if", "elif", "try", "except", "bare", "extern"} : Py!Ending(w) = w
  BY <1>3 DEF Py!Ending
<1>5. "none" \notin Py!Unfinished /\ \A w : <<"none", w>> \notin Py!Follow
  BY DEF Py!Unfinished, Py!Follow
<1>6. /\ NoWord \notin Py!Words
      /\ \A w \in Py!Words : w \notin {"INDENT", "DEDENT", "NEWLINE", "EOF", "file", "suite", "methods"}
  BY DEF Py!Words, Py!Headers, Py!Clauses, NoWord
<1> QED BY <1>1, <1>2, <1>4, <1>5, <1>6

Blocks == [width : Nat, ending : Py!Words \cup {"none"}, methods : BOOLEAN]

LEMMA EndingType == \A w \in Py!Words \cup {"file", "suite", "methods"} :
                      Py!Ending(w) \in Py!Words \cup {"none"}
BY WordFacts

\* The blocks a stack of calls and one of levels make.
LEMMA OpenIs ==
  ASSUME NEW ind \in Seq(Nat), NEW cs \in Seq(Places), NEW m \in Nat, m <= Len(ind)
  PROVE  /\ OpenOf(ind, cs, m) \in Seq(Blocks)
         /\ Len(OpenOf(ind, cs, m)) = m
         /\ DOMAIN OpenOf(ind, cs, m) = 1..m
<1> DEFINE e(i) == [width   |-> ind[i],
                    ending  |-> IF 2 * i \in DOMAIN cs THEN Py!Ending(cs[2 * i].word) ELSE "none",
                    methods |-> cs[2 * i - 1].word = "methods"]
           o == [i \in 1..m |-> e(i)]
<1>1. \A i \in 1..m : e(i) \in Blocks
  <2> TAKE i \in 1..m
  <2>1. ind[i] \in Nat
    <3>1. i \in 1..Len(ind)
      BY LenProperties
    <3> QED BY <3>1, ElementOfSeq
  <2>2. 2 * i \in DOMAIN cs => Py!Ending(cs[2 * i].word) \in Py!Words \cup {"none"}
    <3>1. 2 * i \in DOMAIN cs => cs[2 * i] \in Places
      BY LenProperties, ElementOfSeq
    <3>2. \A c \in Places : c.word \in Py!Words \cup {"file", "suite", "methods"}
      BY DEF Places, Py!Words
    <3> QED BY <3>1, <3>2, EndingType
  <2> QED BY <2>1, <2>2 DEF Blocks
<1> HIDE DEF e
<1>2. o \in [1..m -> Blocks]
  BY <1>1
<1>3. o \in Seq(Blocks) /\ Len(o) = m /\ DOMAIN o = 1..m
  BY <1>2
<1> QED BY <1>3 DEF OpenOf, e

\* Only the words of the calls count, up to the statement in the last block.
LEMMA OpenSame ==
  ASSUME NEW ind, NEW jnd, NEW cs, NEW ds, NEW m \in Nat,
         \A i \in 1..m : jnd[i] = ind[i],
         \A i \in 1..2 * m - 1 : ds[i].word = cs[i].word,
         2 * m \in DOMAIN ds <=> 2 * m \in DOMAIN cs,
         2 * m \in DOMAIN cs => ds[2 * m].word = cs[2 * m].word,
         1..2 * m - 1 \subseteq DOMAIN cs, 1..2 * m - 1 \subseteq DOMAIN ds
  PROVE  OpenOf(jnd, ds, m) = OpenOf(ind, cs, m)
<1>1. \A i \in 1..m : 2 * i - 1 \in 1..2 * m - 1 /\ (2 * i \in 1..2 * m - 1 \/ i = m)
  OBVIOUS
<1> QED BY <1>1 DEF OpenOf
-----------------------------------------------------------------------------
\* The rules of Python, one case at a time.

\* A set of naturals with a bound that is not empty has a largest element.
LEMMA LargestOf ==
  ASSUME NEW m \in Nat, NEW T \in SUBSET (1..m), T # {}
  PROVE  \E x \in T : \A y \in T : y <= x
<1> DEFINE R == OpToRel(<, Nat)
           U == {m - y : y \in T}
<1>1. IsWellFoundedOn(R, Nat)
  BY NatLessThanWellFounded
<1>2. \A x, y \in Nat : x < y => <<x, y>> \in R
  BY DEF OpToRel
<1>3. U \in SUBSET Nat /\ U # {}
  <2>1. \A y \in T : y \in Nat /\ m - y \in Nat
    OBVIOUS
  <2> QED BY <2>1
<1> HIDE DEF R, U
<1>4. PICK u \in U : \A y \in U : ~(<<y, u>> \in R)
  BY <1>1, <1>3, WFMin
<1>5. PICK x \in T : u = m - x
  BY DEF U
<1>6. ASSUME NEW y \in T PROVE y <= x
  <2>1. m - y \in U /\ m - y \in Nat /\ u \in Nat
    BY <1>3 DEF U
  <2>2. ~(m - y < u)
    BY <1>2, <1>4, <2>1
  <2> QED BY <1>5, <2>1, <2>2
<1> QED BY <1>6

LEMMA PlaceIs ==
  ASSUME NEW open \in Seq(Blocks), open # <<>>, NEW word \in Py!Words,
         Py!PlaceIn(open, word).ok
  PROVE  /\ Py!MayCome(open[Len(open)], word)
         /\ Py!PlaceIn(open, word) =
              [ok   |-> TRUE,
               open |-> [open EXCEPT ![Len(open)].ending = Py!Ending(word)],
               due  |-> IF word \in Py!Headers THEN word ELSE "none"]
BY DEF Py!PlaceIn, Py!NoProgram

Structured(open, due) == [ok |-> TRUE, open |-> open, due |-> due]

\* A line after a header.
LEMMA LineDue ==
  ASSUME NEW open, NEW due, due # "none", NEW width, NEW word,
         Py!Line(Structured(open, due), width, word).ok
  PROVE  /\ width > open[Len(open)].width
         /\ Py!Line(Structured(open, due), width, word) =
              Py!PlaceIn(Append(open, [width |-> width, ending |-> "none",
                                       methods |-> due = "class"]), word)
BY DEF Py!Line, Structured, Py!OpenBlock, Py!NoProgram

Outer(open, width) == {i \in 1..Len(open) : open[i].width <= width}
Home(open, width) == CHOOSE i \in Outer(open, width) : \A j \in Outer(open, width) : j <= i

\* Any other line belongs to a block that is open.
LEMMA LineOpen ==
  ASSUME NEW open \in Seq(Blocks), open # <<>>, open[1].width = 0,
         NEW width \in Nat, NEW word
  PROVE  /\ Home(open, width) \in Outer(open, width)
         /\ \A j \in Outer(open, width) : j <= Home(open, width)
         /\ Py!Line(Structured(open, "none"), width, word) =
              IF /\ open[Home(open, width)].width = width
                 /\ \A i \in Home(open, width) + 1..Len(open) : open[i].ending \notin Py!Unfinished
                THEN Py!PlaceIn(SubSeq(open, 1, Home(open, width)), word)
                ELSE Py!NoProgram
<1>1. Len(open) \in Nat /\ Len(open) >= 1
  BY EmptySeq, LenProperties
<1>2. Outer(open, width) \in SUBSET (1..Len(open)) /\ 1 \in Outer(open, width)
  BY <1>1 DEF Outer
<1>3. \E x \in Outer(open, width) : \A y \in Outer(open, width) : y <= x
  BY <1>1, <1>2, LargestOf
<1>4. /\ Home(open, width) \in Outer(open, width)
      /\ \A j \in Outer(open, width) : j <= Home(open, width)
  BY <1>3 DEF Home
<1>5. Py!Line(Structured(open, "none"), width, word) =
              IF /\ open[Home(open, width)].width = width
                 /\ \A i \in Home(open, width) + 1..Len(open) : open[i].ending \notin Py!Unfinished
                THEN Py!PlaceIn(SubSeq(open, 1, Home(open, width)), word)
                ELSE Py!NoProgram
  BY DEF Py!Line, Structured, Outer, Home
<1> QED BY <1>4, <1>5

\* The line is at the last level, or it is not a program.
LEMMA LineHere ==
  ASSUME NEW open \in Seq(Blocks), open # <<>>, open[1].width = 0,
         NEW width \in Nat, NEW word, open[Len(open)].width <= width,
         Py!Line(Structured(open, "none"), width, word).ok
  PROVE  /\ open[Len(open)].width = width
         /\ Py!Line(Structured(open, "none"), width, word) = Py!PlaceIn(open, word)
<1>1. Len(open) \in Nat /\ Len(open) >= 1
  BY EmptySeq, LenProperties
<1>2. Len(open) \in Outer(open, width) /\ Outer(open, width) \in SUBSET (1..Len(open))
  BY <1>1 DEF Outer
<1>3. Home(open, width) = Len(open)
  BY <1>1, <1>2, LineOpen
<1>4. SubSeq(open, 1, Len(open)) = open
  BY SubSeqFull
<1> DEFINE h == Home(open, width)
           AllEnd == \A i \in h + 1..Len(open) : open[i].ending \notin Py!Unfinished
<1>5. Py!Line(Structured(open, "none"), width, word) =
        IF open[h].width = width /\ AllEnd THEN Py!PlaceIn(SubSeq(open, 1, h), word)
                                           ELSE Py!NoProgram
  BY LineOpen
<1> HIDE DEF h, AllEnd
<1>6. open[h].width = width /\ AllEnd
  BY <1>5 DEF Py!NoProgram
<1> QED BY <1>3, <1>4, <1>5, <1>6 DEF h

\* The line is outside the last block, which must not wait for a clause.
LEMMA LineOutside ==
  ASSUME NEW open \in Seq(Blocks), open # <<>>, open[1].width = 0,
         NEW width \in Nat, NEW word, width < open[Len(open)].width,
         Py!Line(Structured(open, "none"), width, word).ok,
         NEW rest \in Seq(Blocks), Len(rest) = Len(open) - 1, rest # <<>>,
         \A i \in 1..Len(rest) : rest[i] = open[i]
  PROVE  /\ open[Len(open)].ending \notin Py!Unfinished
         /\ Py!Line(Structured(rest, "none"), width, word) =
              Py!Line(Structured(open, "none"), width, word)
<1>1. /\ Len(open) \in Nat /\ Len(rest) \in Nat /\ Len(rest) >= 1 /\ Len(open) = Len(rest) + 1
      /\ open[Len(open)].width \in Nat
  <2>1. Len(open) \in Nat /\ Len(rest) \in Nat /\ Len(rest) >= 1
    BY EmptySeq, LenProperties
  <2>2. open[Len(open)] \in Blocks
    BY <2>1, ElementOfSeq
  <2> QED BY <2>1, <2>2 DEF Blocks
<1>2. Outer(open, width) = Outer(rest, width)
  BY <1>1 DEF Outer
<1>3. Home(open, width) = Home(rest, width)
  BY <1>2 DEF Home
<1> DEFINE h == Home(rest, width)
<1>4. h \in 1..Len(rest)
  <2>1. rest[1].width = 0
    BY <1>1
  <2>2. h \in Outer(rest, width)
    BY <2>1, LineOpen
  <2> QED BY <2>2 DEF Outer
<1>5. SubSeq(open, 1, h) = SubSeq(rest, 1, h)
  <2>1. h \in 1..Len(open) /\ h \in Nat
    BY <1>1, <1>4
  <2>a. \A i \in 1..h : i \in 1..Len(open) /\ i \in 1..Len(rest)
    BY <1>1, <1>4
  <2>b. \A i \in 1..h : open[i] \in Blocks /\ rest[i] \in Blocks
    BY <2>a, ElementOfSeq
  <2>2. /\ SubSeq(open, 1, h) \in Seq(Blocks) /\ Len(SubSeq(open, 1, h)) = h
        /\ \A i \in 1..h : SubSeq(open, 1, h)[i] = open[i]
    <3>1. \A i \in 1..h - 1 + 1 : SubSeq(open, 1, h)[i] = open[1 + i - 1]
      BY <2>1, <2>b, SubSeqProperties
    <3>2. \A i \in 1..h : i \in 1..h - 1 + 1 /\ 1 + i - 1 = i
      BY <2>1
    <3> HIDE DEF h
    <3>3. SubSeq(open, 1, h) \in Seq(Blocks) /\ Len(SubSeq(open, 1, h)) = IF 1 <= h THEN h - 1 + 1 ELSE 0
      BY <2>1, <2>b, SubSeqProperties
    <3> QED BY <2>1, <3>1, <3>2, <3>3
  <2>3. /\ SubSeq(rest, 1, h) \in Seq(Blocks) /\ Len(SubSeq(rest, 1, h)) = h
        /\ \A i \in 1..h : SubSeq(rest, 1, h)[i] = rest[i]
    <3>1. \A i \in 1..h - 1 + 1 : SubSeq(rest, 1, h)[i] = rest[1 + i - 1]
      BY <2>1, <2>b, SubSeqProperties
    <3>2. \A i \in 1..h : i \in 1..h - 1 + 1 /\ 1 + i - 1 = i
      BY <2>1
    <3> HIDE DEF h
    <3>3. SubSeq(rest, 1, h) \in Seq(Blocks) /\ Len(SubSeq(rest, 1, h)) = IF 1 <= h THEN h - 1 + 1 ELSE 0
      BY <2>1, <2>b, SubSeqProperties
    <3> QED BY <2>1, <3>1, <3>2, <3>3
  <2> HIDE DEF h
  <2> DEFINE a == SubSeq(open, 1, h)
             b == SubSeq(rest, 1, h)
  <2>4. \A i \in 1..h : a[i] = b[i]
    BY <2>2, <2>3, <2>a
  <2>5. a \in Seq(Blocks) /\ b \in Seq(Blocks) /\ Len(a) = h /\ Len(b) = h
    BY <2>2, <2>3
  <2> HIDE DEF a, b
  <2>6. a = b
    BY <2>4, <2>5, SeqEqual
  <2> QED BY <2>6 DEF a, b
<1>6. /\ open[h] = rest[h]
      /\ \A i \in h + 1..Len(open) : i \in h + 1..Len(rest) \/ i = Len(open)
      /\ \A i \in h + 1..Len(rest) : i \in h + 1..Len(open) /\ open[i] = rest[i]
      /\ Len(open) \in h + 1..Len(open)
  BY <1>1, <1>4
<1> DEFINE AsWide == open[h].width = width
           AllEnd == \A i \in h + 1..Len(open) : open[i].ending \notin Py!Unfinished
           AllIn  == \A i \in h + 1..Len(rest) : rest[i].ending \notin Py!Unfinished
<1>7. Py!Line(Structured(open, "none"), width, word) =
        IF AsWide /\ AllEnd THEN Py!PlaceIn(SubSeq(open, 1, h), word) ELSE Py!NoProgram
  BY <1>3, LineOpen
<1>8. Py!Line(Structured(rest, "none"), width, word) =
        IF AsWide /\ AllIn THEN Py!PlaceIn(SubSeq(rest, 1, h), word) ELSE Py!NoProgram
  <2>1. rest[1].width = 0
    BY <1>1
  <2> QED BY <2>1, <1>6, LineOpen
<1> HIDE DEF h
<1>9. AsWide /\ AllEnd
  BY <1>7 DEF Py!NoProgram
<1>10. AllIn /\ open[Len(open)].ending \notin Py!Unfinished
  BY <1>6, <1>9
<1> HIDE DEF AsWide, AllEnd, AllIn
<1> QED BY <1>5, <1>7, <1>8, <1>9, <1>10
-----------------------------------------------------------------------------
\* How long the stack of calls is, and what the blocks it makes are.
LEMMA HowDeep ==
  ASSUME LayoutInv
  PROVE  /\ Len(calls) \in Nat /\ Len(calls) >= 1 /\ Top = calls[Len(calls)] /\ Top \in Places
         /\ Len(indents) \in Nat /\ Len(indents) >= 1
         /\ Last(indents) = indents[Len(indents)] /\ Last(indents) \in Nat
         /\ \A i \in 1..Len(calls) : calls[i] \in Places
         /\ InBlock <=> IsBlock(Top)
         /\ InBlock <=> Top.at = "body"
         /\ tok \notin {"INDENT", "DEDENT"} =>
              Len(calls) = IF InBlock THEN 2 * Len(indents) - 1 ELSE 2 * Len(indents)
         /\ tok = "INDENT" =>
              Len(calls) = IF InBlock THEN 2 * Len(indents) - 3 ELSE 2 * Len(indents) - 2
         /\ tok = "DEDENT" =>
              Len(calls) = IF InBlock THEN 2 * Len(indents) + 1 ELSE 2 * Len(indents) + 2
<1> DEFINE L == Len(calls)
           n == Len(indents)
<1>1. /\ L \in Nat /\ L >= 1 /\ Top = calls[L] /\ Top \in Places
      /\ IsBlock(Top) <=> Odd(L)
      /\ \A i \in 1..L : calls[i] \in Places
  BY FrontIs, TopKind, ElementOfSeq DEF LayoutInv, TypeOK, Top
<1>2. n \in Nat /\ n >= 1 /\ Last(indents) = indents[n] /\ Last(indents) \in Nat
  BY FrontIs DEF LayoutInv, TypeOK
<1>3. (InBlock <=> IsBlock(Top)) /\ (InBlock <=> Top.at = "body")
  BY <1>1 DEF InBlock, IsBlock, Places
<1>4. Half(L) = CASE tok = "INDENT" -> n - 1 [] tok = "DEDENT" -> n + 1 [] OTHER -> n
  BY DEF LayoutInv, LevelsMatchBlocks, Depth, Half
<1> HIDE DEF L, n
<1>5. \A l, m \in Int : l = IF Odd(l) THEN 2 * Half(l) - 1 ELSE 2 * Half(l)
  BY DEF Odd, Half
<1>6. L = IF InBlock THEN 2 * Half(L) - 1 ELSE 2 * Half(L)
  BY <1>1, <1>3, <1>5
<1>7. /\ tok \notin {"INDENT", "DEDENT"} => L = IF InBlock THEN 2 * n - 1 ELSE 2 * n
      /\ tok = "INDENT" => L = IF InBlock THEN 2 * n - 3 ELSE 2 * n - 2
      /\ tok = "DEDENT" => L = IF InBlock THEN 2 * n + 1 ELSE 2 * n + 2
  BY <1>1, <1>2, <1>4, <1>6
<1> QED BY <1>1, <1>2, <1>3, <1>7 DEF L, n

LEMMA OpenType ==
  ASSUME LayoutInv
  PROVE  Open \in Seq(Blocks) /\ Len(Open) = Len(indents)
<1>1. Len(indents) \in Nat
  BY HowDeep
<1> QED BY <1>1, OpenIs DEF LayoutInv, TypeOK, Open

LEMMA OpenNow ==
  ASSUME LayoutInv, indents[1] = 0
  PROVE  /\ Open \in Seq(Blocks) /\ Open # <<>> /\ Len(Open) = Len(indents)
         /\ Open[1].width = 0
         /\ Open[Len(indents)].width = Last(indents)
         /\ tok \notin {"INDENT", "DEDENT"} => Open[Len(indents)].ending = LastEnding
<1>1. Len(indents) \in Nat /\ Len(indents) >= 1 /\ Last(indents) = indents[Len(indents)]
  BY HowDeep
<1>2. /\ Open \in Seq(Blocks) /\ Len(Open) = Len(indents)
  BY OpenType
<1>3. Open # <<>>
  BY <1>1, <1>2
<1>4. Open[1].width = 0 /\ Open[Len(indents)].width = Last(indents)
  BY <1>1 DEF Open, OpenOf
<1>5. ASSUME tok \notin {"INDENT", "DEDENT"} PROVE Open[Len(indents)].ending = LastEnding
  <2>1. /\ DOMAIN calls = 1..Len(calls) /\ Top = calls[Len(calls)]
        /\ Len(calls) = IF InBlock THEN 2 * Len(indents) - 1 ELSE 2 * Len(indents)
    BY <1>5, HowDeep, LenProperties DEF LayoutInv, TypeOK
  <2>2. Open[Len(indents)].ending = IF 2 * Len(indents) \in DOMAIN calls
                                      THEN Py!Ending(calls[2 * Len(indents)].word) ELSE "none"
    BY <1>1 DEF Open, OpenOf
  <2>3. 2 * Len(indents) \in DOMAIN calls <=> ~InBlock
    BY <1>1, <2>1
  <2> QED BY <2>1, <2>2, <2>3 DEF LastEnding
<1> QED BY <1>2, <1>3, <1>4, <1>5

\* At the end of the source what the levels and the calls make is no longer
\* compared: only whether all of it is finished.
LEMMA FinishedIs ==
  ASSUME LayoutInv, Shaped(calls), Read, tok \notin {"INDENT", "DEDENT"}
  PROVE  Py!Complete(py) <=> Finished
<1> DEFINE n == Len(indents)
           L == Len(calls)
<1>1. /\ L \in Nat /\ L >= 1 /\ n \in Nat /\ n >= 1 /\ L \in {2 * n - 1, 2 * n}
      /\ \A i \in 1..L : calls[i] \in Places
      /\ DOMAIN calls = 1..L
  BY HowDeep, LenProperties DEF LayoutInv, TypeOK
<1>2. Open \in Seq(Blocks) /\ Len(Open) = n
  BY OpenType
<1>3. Py!Complete(py) <=> Due = "none" /\ \A i \in 1..n : Open[i].ending \notin Py!Unfinished
  BY <1>2 DEF Read, Py!Complete
<1>4. \A i \in 1..n : Open[i].ending = IF 2 * i \in 1..L THEN Py!Ending(calls[2 * i].word) ELSE "none"
  BY <1>1 DEF Open, OpenOf
<1>5. \A i \in 1..L : Odd(i) => Py!Ending(calls[i].word) \notin Py!Unfinished
  <2> SUFFICES ASSUME NEW i \in 1..L, Odd(i) PROVE Py!Ending(calls[i].word) \notin Py!Unfinished
    OBVIOUS
  <2>1. IsBlock(calls[i]) /\ calls[i] \in Places
    BY <1>1 DEF LayoutInv, Alternating
  <2>2. calls[i].word \in {"file", "suite", "methods"}
    BY <2>1 DEF IsBlock, Places
  <2> QED BY <2>2, WordFacts
<1> HIDE DEF n, L
<1>6. \A i \in 1..L : Odd(i) \/ \E j \in 1..n : i = 2 * j
  <2> SUFFICES ASSUME NEW i \in 1..L, ~Odd(i) PROVE \E j \in 1..n : i = 2 * j
    OBVIOUS
  <2>1. i = 2 * (i \div 2) /\ i \div 2 \in 1..n
    BY <1>1 DEF Odd
  <2> QED BY <2>1
<1>7. (\A i \in 1..n : Open[i].ending \notin Py!Unfinished)
        => \A i \in 1..L : Py!Ending(calls[i].word) \notin Py!Unfinished
  BY <1>1, <1>4, <1>5, <1>6
<1>8. (\A i \in 1..L : Py!Ending(calls[i].word) \notin Py!Unfinished)
        => \A i \in 1..n : Open[i].ending \notin Py!Unfinished
  BY <1>1, <1>4, WordFacts
<1> QED BY <1>3, <1>7, <1>8 DEF Finished, L
-----------------------------------------------------------------------------
\* The lexer keeps in step with the lines.
LEMMA LexerReads == ReadInv /\ LexerNext => ReadInv'
<1> SUFFICES ASSUME ReadInv, LexerNext PROVE ReadInv'
  OBVIOUS
<1>1. /\ tok = NoWord /\ status = "reading" /\ calls' = calls /\ status' = status
  BY DEF LexerNext, BlankLine, Indent, Dedent, Word, Newline, EndOfSource, FinalDedent,
         Eof, TakeLine, SecondWord, Emit, parser
<1>2. LayoutInv /\ LayoutInv' /\ Shaped(calls)' /\ Shaped(calls)
  BY <1>1, LexerKeepsInv DEF ReadInv
<1>3. /\ Len(indents) \in Nat /\ Len(indents) >= 1 /\ Last(indents) = indents[Len(indents)]
      /\ Last(indents) \in Nat
      /\ indents \in Seq(Nat) /\ indents # <<>> /\ indents[1] = 0
      /\ line.width \in Nat
  BY <1>2, HowDeep DEF ReadInv, LayoutInv, TypeOK
<1>4. indents'[1] = 0
  <2>1. CASE indents' = indents
    BY <2>1, <1>3
  <2>2. CASE Len(indents) > 1 /\ indents' = Front(indents)
    BY <2>2, <1>3, FrontIs
  <2>3. CASE indents' = Append(indents, line.width)
    BY <2>3, <1>3, AppendProperties
  <2> QED BY <2>1, <2>2, <2>3 DEF LexerNext, BlankLine, Indent, Dedent, Word, Newline, EndOfSource,
                 FinalDedent, Eof, TakeLine, SecondWord, lexer
<1>5. SUFFICES ASSUME py'.ok PROVE InStep'
  BY <1>1, <1>2, <1>4 DEF ReadInv, Agrees
<1>6. Top' = Top /\ Due' = Due /\ InBlock' = InBlock /\ LastEnding' = LastEnding
  BY <1>1 DEF Top, Due, InBlock, LastEnding
<1>7. indents' = indents => Open' = Open
  BY <1>1 DEF Open
<1>o. /\ Open \in Seq(Blocks) /\ Open # <<>> /\ Len(Open) = Len(indents)
      /\ Open[1].width = 0 /\ Open[Len(indents)].width = Last(indents)
      /\ Open[Len(indents)].ending = LastEnding
  BY <1>1, <1>2, <1>3, OpenNow DEF NoWord
<1>n. NoWord \notin {"INDENT", "DEDENT", "NEWLINE", "EOF"} /\ NoWord \notin Py!Words
  BY WordFacts DEF NoWord
<1>f. Finished' = Finished
  BY <1>1, <1>6 DEF Finished
<1>s. py.ok => InStep
  BY <1>1 DEF ReadInv, Agrees
<1>l. LineLeft => py = Py!Line(Structured(Open, Due), line.width, line.word)
  BY DEF LineLeft, Structured
<1>8. CASE BlankLine
  <2>1. /\ pos = "start" /\ pos' = "start" /\ tok' = "NEWLINE" /\ indents' = indents /\ py' = py
    BY <1>8 DEF BlankLine, Emit, lexer
  <2>2. Read'
    BY <2>1, <1>5, <1>6, <1>7, <1>s DEF InStep, Read
  <2> QED BY <2>1, <2>2 DEF InStep
<1>9. CASE Indent
  <2>1. /\ pos = "indent" /\ pos' = "words" /\ line.width > Last(indents) /\ tok' = "INDENT"
        /\ indents' = Append(indents, line.width) /\ line' = line /\ py' = py
    BY <1>9 DEF Indent, Emit
  <2>2. LineLeft
    BY <2>1, <1>3, <1>5, <1>s DEF InStep
  <2>3. Due # "none"
    <3> SUFFICES ASSUME Due = "none" PROVE FALSE
      OBVIOUS
    <3>1. Py!Line(Structured(Open, "none"), line.width, line.word).ok
      BY <2>1, <2>2, <1>5, <1>l
    <3>2. Last(indents) = line.width
      BY <2>1, <3>1, <1>o, <1>3, LineHere
    <3> QED BY <2>1, <3>2, <1>3
  <2>4. Top.at \in {"newline", "indent"} /\ Due = Top.word
    BY <2>3 DEF Due
  <2>5. py = Py!PlaceIn(Append(Open, [width |-> line.width, ending |-> "none",
                                      methods |-> Top.word = "class"]), line.word)
    BY <2>1, <2>2, <2>3, <2>4, <1>5, <1>l, LineDue
  <2>6. /\ Len(indents') = Len(indents) + 1 /\ Last(indents') = line.width
        /\ \A i \in 1..Len(indents) : indents'[i] = indents[i]
    BY <2>1, <1>3, AppendProperties DEF Last
  <2>7. OpenOf(indents', calls', Len(indents') - 1) = Open
    <3>1. Len(indents') - 1 = Len(indents)
      BY <2>6, <1>3
    <3> QED BY <3>1, <2>6, <1>1 DEF Open, OpenOf
  <2>8. Entering'
    BY <2>1, <2>2, <2>4, <2>5, <2>6, <2>7, <1>6 DEF Entering, LineLeft
  <2> QED BY <2>1, <2>8 DEF InStep
<1>10. CASE Dedent
  <2>1. /\ pos \in {"indent", "dedent"} /\ pos' = "dedent" /\ Last(indents) > line.width
        /\ tok' = "DEDENT" /\ Len(indents) > 1
        /\ indents' = Front(indents) /\ line' = line /\ py' = py
    BY <1>10 DEF Dedent, Emit
  <2>2. LineLeft
    BY <2>1, <1>3, <1>5, <1>s DEF InStep
  <2>3. Due = "none"
    <3> SUFFICES ASSUME Due # "none" PROVE FALSE
      OBVIOUS
    <3>a. Py!Line(Structured(Open, Due), line.width, line.word).ok
      BY <2>1, <2>2, <1>5, <1>l
    <3>1. line.width > Open[Len(Open)].width
      BY <3>a, LineDue
    <3> QED BY <2>1, <3>1, <1>o, <1>3
  <2>4. /\ Len(indents') = Len(indents) - 1 /\ indents' \in Seq(Nat)
        /\ \A i \in 1..Len(indents') : indents'[i] = indents[i]
    BY <2>1, <1>3, FrontIs
  <2> DEFINE rest == OpenOf(indents', calls', Len(indents'))
  <2>5. rest \in Seq(Blocks) /\ Len(rest) = Len(indents') /\ rest # <<>>
    <3>1. Len(indents') \in Nat /\ Len(indents') >= 1
      BY <2>1, <2>4, <1>3
    <3>2. calls' \in Seq(Places)
      BY <1>1, <1>2 DEF LayoutInv, TypeOK
    <3>3. rest \in Seq(Blocks) /\ Len(rest) = Len(indents')
      BY <2>4, <3>1, <3>2, OpenIs
    <3> QED BY <3>1, <3>3
  <2>6. \A i \in 1..Len(rest) : rest[i] = Open[i]
    <3>1. \A i \in 1..Len(indents') : i \in 1..Len(indents)
      BY <2>4, <1>3
    <3>2. \A i \in 1..Len(indents') : rest[i] = Open[i]
      BY <3>1, <2>4, <1>1 DEF Open, OpenOf
    <3> HIDE DEF rest
    <3> QED BY <3>2, <2>5
  <2> HIDE DEF rest
  <2>7. py = Py!Line(Structured(Open, "none"), line.width, line.word)
    BY <2>2, <2>3, <1>l
  <2>8. /\ LastEnding \notin Py!Unfinished
        /\ Py!Line(Structured(rest, "none"), line.width, line.word) = py
    BY <2>1, <2>4, <2>5, <2>6, <2>7, <1>3, <1>5, <1>o, LineOutside
  <2>9. Open' = rest
    BY DEF Open, rest
  <2>10. LineLeft' /\ Due' = "none"
    BY <2>1, <2>2, <2>3, <2>8, <2>9, <1>6 DEF LineLeft, Structured
  <2> QED BY <2>1, <2>8, <2>10, <1>6 DEF InStep
<1>h. ASSUME LineLeft, py.ok, IndentationDone, pos \in {"indent", "dedent"} PROVE Placing(line.word)
  <2>1. line.width >= Last(indents)
    BY <1>h, <1>3 DEF IndentationDone
  <2>2. pos = "indent" => line.width = Last(indents)
    BY <1>h DEF IndentationDone
  <2>3. Due = "none"
    <3> SUFFICES ASSUME Due # "none" PROVE FALSE
      OBVIOUS
    <3>1. pos = "indent"
      BY <1>h, <1>s DEF InStep
    <3>a. Py!Line(Structured(Open, Due), line.width, line.word).ok
      BY <1>h, <1>l
    <3>2. line.width > Open[Len(Open)].width
      BY <3>a, LineDue
    <3> QED BY <3>1, <3>2, <2>2, <1>o, <1>3
  <2>4. py = Py!PlaceIn(Open, line.word)
    BY <2>1, <2>3, <1>h, <1>l, <1>o, <1>3, LineHere
  <2> QED BY <2>3, <2>4, <1>h DEF Placing, LineLeft
<1>11. CASE Word
  <2>1. /\ line.word # NoWord /\ tok' = line.word /\ pos' = "words" /\ IndentationDone
        /\ line'.word = NoWord /\ indents' = indents /\ py' = py
    BY <1>11, <1>2 DEF Word, Emit, LayoutInv, TypeOK
  <2>2. Placing(line.word)
    <3>1. CASE pos = "words"
      BY <3>1, <2>1, <1>1, <1>5, <1>n, <1>s DEF InStep
    <3>2. CASE pos \in {"indent", "dedent"}
      <4>1. LineLeft
        BY <3>2, <2>1, <1>5, <1>s DEF InStep
      <4> QED BY <4>1, <3>2, <2>1, <1>5, <1>h
    <3> QED BY <3>1, <3>2, <2>1 DEF IndentationDone
  <2>3. Placing(tok)'
    BY <2>1, <2>2, <1>6, <1>7 DEF Placing
  <2> QED BY <2>1, <2>3 DEF InStep
<1>12. CASE Newline
  <2>1. /\ line.word = NoWord /\ tok' = "NEWLINE" /\ pos' = "start" /\ IndentationDone
        /\ indents' = indents /\ py' = py
    BY <1>12 DEF Newline, Emit
  <2>2. Read
    BY <2>1, <1>1, <1>5, <1>n, <1>s DEF InStep, IndentationDone, LineLeft, Placing
  <2>3. Read'
    BY <2>1, <2>2, <1>6, <1>7 DEF Read
  <2> QED BY <2>1, <2>3 DEF InStep
<1>13. CASE EndOfSource
  <2>1. /\ pos' = "end" /\ tok' = tok /\ py' = py
        /\ pos = "start" \/ (pos = "words" /\ line.word = NoWord)
    BY <1>13 DEF EndOfSource
  <2>2. Read
    BY <2>1, <1>1, <1>5, <1>n, <1>s DEF InStep, Placing
  <2>3. Py!Complete(py) <=> Finished
    BY <2>2, <1>1, <1>2, <1>n, FinishedIs
  <2> QED BY <2>1, <2>3, <1>1, <1>f DEF InStep
<1>14. CASE FinalDedent
  <2>1. pos = "end" /\ pos' = pos /\ tok' = "DEDENT" /\ py' = py
    BY <1>14 DEF FinalDedent, Emit
  <2> QED BY <2>1, <1>5, <1>f, <1>s DEF InStep
<1>15. CASE Eof
  <2>1. pos = "end" /\ pos' = "done" /\ tok' = "EOF" /\ py' = py
    BY <1>15 DEF Eof, Emit
  <2> QED BY <2>1, <1>5, <1>f, <1>s DEF InStep
<1>16. ASSUME NEW width \in Widths, NEW word \in Py!Words \cup {NoWord}, TakeLine(width, word)
       PROVE  InStep'
  <2>1. /\ pos = "start" /\ pos' = "indent" /\ tok' = NoWord /\ indents' = indents
        /\ line' = [width |-> width, word |-> word]
    BY <1>16, <1>1 DEF TakeLine
  <2>2. CASE word # NoWord
    <3>1. py' = Py!Line(py, width, word)
      BY <2>2, <1>16 DEF TakeLine
    <3>2. py.ok
      BY <3>1, <1>5 DEF Py!Line, Py!NoProgram
    <3>3. py = [ok |-> TRUE, open |-> Open, due |-> Due]
      BY <3>2, <2>1, <1>s DEF InStep, Read
    <3>4. LineLeft'
      BY <2>1, <2>2, <3>1, <3>3, <1>6, <1>7 DEF LineLeft
    <3> QED BY <2>1, <3>4 DEF InStep
  <2>3. CASE word = NoWord
    <3>1. py' = IF width = Last(indents) /\ py.due = "none" THEN py ELSE Py!NotRead
      BY <2>3, <1>16 DEF TakeLine
    <3>2. width = Last(indents) /\ py.due = "none" /\ py' = py
      BY <3>1, <1>5 DEF Py!NotRead, Py!NoProgram
    <3>3. Read
      BY <3>2, <2>1, <1>5, <1>s DEF InStep
    <3>4. Read' /\ Due' = "none"
      BY <3>2, <3>3, <2>1, <1>6, <1>7 DEF Read
    <3> QED BY <2>1, <2>3, <3>2, <3>4 DEF InStep
  <2> QED BY <2>2, <2>3
<1>17. ASSUME NEW word \in Py!Words, SecondWord(word) PROVE InStep'
  BY <1>17, <1>5 DEF SecondWord, Py!NoProgram
<1> QED BY <1>8, <1>9, <1>10, <1>11, <1>12, <1>13, <1>14, <1>15, <1>16, <1>17 DEF LexerNext
-----------------------------------------------------------------------------
\* The stack after a call, a return, and a change of the call on top.
LEMMA StackOps ==
  ASSUME NEW cs \in Seq(Places), cs # <<>>, NEW c \in Places
  PROVE  /\ Len(cs) \in Nat /\ Len(cs) >= 1
         /\ Len(Append(cs, c)) = Len(cs) + 1
         /\ \A i \in 1..Len(cs) : Append(cs, c)[i] = cs[i]
         /\ Append(cs, c)[Len(cs) + 1] = c
         /\ Len(Front(cs)) = Len(cs) - 1
         /\ \A i \in 1..Len(cs) - 1 : Front(cs)[i] = cs[i]
         /\ Len(Append(Front(cs), c)) = Len(cs)
         /\ \A i \in 1..Len(cs) - 1 : Append(Front(cs), c)[i] = cs[i]
         /\ Append(Front(cs), c)[Len(cs)] = c
         /\ Append(Front(cs), c) \in Seq(Places)
<1> DEFINE fs == Front(cs)
<1>1. /\ Len(cs) \in Nat /\ Len(cs) >= 1
      /\ fs \in Seq(Places) /\ Len(fs) = Len(cs) - 1
      /\ \A i \in 1..Len(cs) - 1 : fs[i] = cs[i]
  BY FrontIs
<1>2. /\ Len(Append(cs, c)) = Len(cs) + 1
      /\ \A i \in 1..Len(cs) : Append(cs, c)[i] = cs[i]
      /\ Append(cs, c)[Len(cs) + 1] = c
  BY AppendProperties
<1> HIDE DEF fs
<1>3. /\ Append(fs, c) \in Seq(Places) /\ Len(Append(fs, c)) = Len(fs) + 1
      /\ \A i \in 1..Len(fs) : Append(fs, c)[i] = fs[i]
      /\ Append(fs, c)[Len(fs) + 1] = c
  BY <1>1, AppendProperties
<1>4. Len(fs) + 1 = Len(cs) /\ 1..Len(fs) = 1..Len(cs) - 1
  BY <1>1
<1>5. /\ Len(Append(fs, c)) = Len(cs)
      /\ \A i \in 1..Len(cs) - 1 : Append(fs, c)[i] = cs[i]
      /\ Append(fs, c)[Len(cs)] = c
  BY <1>1, <1>3, <1>4
<1> QED BY <1>1, <1>2, <1>3, <1>5 DEF fs

\* A statement on top may be replaced, or may return; it may be begun in a block.
LEMMA ShapeTop ==
  ASSUME NEW cs \in Seq(Places), cs # <<>>, Shaped(cs), NEW c \in Places,
         c.word # "file", c.word = "extern" <=> c.at = "function",
         ~IsBlock(c), c.at # "block"
  PROVE  /\ Len(cs) > 1 => Shaped(Append(Front(cs), c))
         /\ IsBlock(cs[Len(cs)]) => Shaped(Append(cs, c))
<1>1. ASSUME Len(cs) > 1 PROVE Shaped(Append(Front(cs), c))
  <2> DEFINE ds == Append(Front(cs), c)
  <2>1. /\ Len(cs) \in Nat /\ Len(ds) = Len(cs) /\ ds[Len(cs)] = c
        /\ \A i \in 1..Len(cs) - 1 : ds[i] = cs[i]
    BY StackOps
  <2> HIDE DEF ds
  <2>2. ASSUME NEW i \in 1..Len(ds)
        PROVE  /\ ds[i].word = "file" <=> i = 1
               /\ ds[i].word = "extern" <=> ds[i].at = "function"
               /\ ~IsBlock(ds[i]) => (i < Len(ds) <=> ds[i].at = "block")
    <3>1. CASE i = Len(cs)
      BY <3>1, <2>1, <1>1
    <3>2. CASE i # Len(cs)
      <4>1. i \in 1..Len(cs) - 1 /\ i \in 1..Len(cs) /\ i < Len(cs)
        BY <3>2, <2>1
      <4> QED BY <4>1, <2>1 DEF Shaped
    <3> QED BY <3>1, <3>2
  <2> QED BY <2>2 DEF Shaped, ds
<1>2. ASSUME IsBlock(cs[Len(cs)]) PROVE Shaped(Append(cs, c))
  <2> DEFINE ds == Append(cs, c)
  <2>1. /\ Len(cs) \in Nat /\ Len(cs) >= 1 /\ Len(ds) = Len(cs) + 1 /\ ds[Len(cs) + 1] = c
        /\ \A i \in 1..Len(cs) : ds[i] = cs[i]
    BY StackOps
  <2> HIDE DEF ds
  <2>2. ASSUME NEW i \in 1..Len(ds)
        PROVE  /\ ds[i].word = "file" <=> i = 1
               /\ ds[i].word = "extern" <=> ds[i].at = "function"
               /\ ~IsBlock(ds[i]) => (i < Len(ds) <=> ds[i].at = "block")
    <3>1. CASE i = Len(cs) + 1
      BY <3>1, <2>1
    <3>2. CASE i # Len(cs) + 1
      <4>1. i \in 1..Len(cs) /\ i < Len(ds) /\ (i < Len(cs) \/ i = Len(cs))
        BY <3>2, <2>1
      <4> QED BY <4>1, <2>1, <1>2 DEF Shaped
    <3> QED BY <3>1, <3>2
  <2> QED BY <2>2 DEF Shaped, ds
<1> QED BY <1>1, <1>2

LEMMA ShapeReturn ==
  ASSUME NEW cs \in Seq(Places), Shaped(cs), Len(cs) > 1, IsBlock(cs[Len(cs) - 1])
  PROVE  Shaped(Front(cs))
<1> DEFINE ds == Front(cs)
<1>0. cs # <<>>
  OBVIOUS
<1>1. /\ Len(cs) \in Nat /\ Len(ds) = Len(cs) - 1
      /\ \A i \in 1..Len(cs) - 1 : ds[i] = cs[i]
  BY <1>0, FrontIs
<1> HIDE DEF ds
<1>2. \A i \in 1..Len(ds) : i \in 1..Len(cs) /\ i < Len(cs) /\ (i < Len(ds) \/ i = Len(cs) - 1)
  BY <1>1
<1> QED BY <1>1, <1>2 DEF Shaped, ds

\* The word read last has its place: the blocks are what they are to be, once the
\* calls say so of the last of them.
LEMMA PlaceNow ==
  ASSUME LayoutInv, indents[1] = 0, Placing(tok), py.ok
  PROVE  /\ tok \in Py!Words /\ tok \notin {"INDENT", "DEDENT", "NEWLINE", "EOF"}
         /\ Py!MayCome(Open[Len(indents)], tok)
         /\ Open[Len(indents)].ending = LastEnding
         /\ py = [ok   |-> TRUE,
                  open |-> [Open EXCEPT ![Len(indents)].ending = Py!Ending(tok)],
                  due  |-> IF tok \in Py!Headers THEN tok ELSE "none"]
<1>1. tok \in Py!Words /\ tok \notin {"INDENT", "DEDENT", "NEWLINE", "EOF"}
  BY WordFacts DEF Placing
<1>2. /\ Open \in Seq(Blocks) /\ Open # <<>> /\ Len(Open) = Len(indents)
      /\ Open[Len(indents)].ending = LastEnding
  BY <1>1, OpenNow
<1>3. Py!PlaceIn(Open, tok).ok /\ py = Py!PlaceIn(Open, tok)
  BY DEF Placing
<1> QED BY <1>1, <1>2, <1>3, PlaceIs

LEMMA PlacedIs ==
  ASSUME LayoutInv, NEW ds \in Seq(Places), NEW e,
         \A i \in 1..2 * Len(indents) - 1 : ds[i].word = calls[i].word,
         Len(calls) >= 2 * Len(indents) - 1,
         Len(ds) >= 2 * Len(indents) - 1,
         e = IF Len(ds) >= 2 * Len(indents) THEN Py!Ending(ds[2 * Len(indents)].word) ELSE "none"
  PROVE  OpenOf(indents, ds, Len(indents)) = [Open EXCEPT ![Len(indents)].ending = e]
<1> DEFINE n == Len(indents)
           o == [Open EXCEPT ![n].ending = e]
           p == OpenOf(indents, ds, n)
<1>1. /\ n \in Nat /\ n >= 1 /\ Len(ds) \in Nat /\ Len(calls) \in Nat
      /\ DOMAIN ds = 1..Len(ds) /\ DOMAIN calls = 1..Len(calls)
  BY HowDeep, LenProperties DEF LayoutInv, TypeOK
<1>2. DOMAIN Open = 1..n /\ DOMAIN p = 1..n
  BY DEF Open, OpenOf
<1>3. Open[n] = [width |-> indents[n], ending |-> Open[n].ending,
                 methods |-> calls[2 * n - 1].word = "methods"]
  BY <1>1 DEF Open, OpenOf
<1>4. [Open[n] EXCEPT !.ending = e] =
        [width |-> indents[n], ending |-> e, methods |-> calls[2 * n - 1].word = "methods"]
  BY <1>3
<1>5. p[n] = [Open[n] EXCEPT !.ending = e]
  <2>1. 2 * n \in DOMAIN ds <=> Len(ds) >= 2 * n
    BY <1>1
  <2>2. ds[2 * n - 1].word = calls[2 * n - 1].word
    BY <1>1
  <2>3. p[n] = [width |-> indents[n],
                ending |-> IF 2 * n \in DOMAIN ds THEN Py!Ending(ds[2 * n].word) ELSE "none",
                methods |-> ds[2 * n - 1].word = "methods"]
    BY <1>1 DEF OpenOf
  <2> HIDE DEF p, n
  <2> QED BY <1>4, <2>1, <2>2, <2>3 DEF n
<1>6. \A i \in 1..n - 1 : p[i] = Open[i]
  <2> TAKE i \in 1..n - 1
  <2>1. /\ i \in 1..n /\ 2 * i \in 1..2 * n - 1 /\ 2 * i - 1 \in 1..2 * n - 1
        /\ 2 * i \in DOMAIN ds /\ 2 * i \in DOMAIN calls
    BY <1>1
  <2> QED BY <2>1 DEF Open, OpenOf
<1>7. o = [i \in 1..n |-> IF i = n THEN [Open[n] EXCEPT !.ending = e] ELSE Open[i]]
  BY <1>2
<1> HIDE DEF o, n
<1>8. p = [i \in 1..n |-> IF i = n THEN [Open[n] EXCEPT !.ending = e] ELSE Open[i]]
  <2>1. p = [i \in 1..n |-> p[i]]
    BY DEF OpenOf, n
  <2>2. \A i \in 1..n : i = n \/ i \in 1..n - 1
    BY <1>1
  <2> HIDE DEF p
  <2> QED BY <1>5, <1>6, <2>1, <2>2
<1> QED BY <1>7, <1>8 DEF o, n, p
-----------------------------------------------------------------------------
\* What an end of a block or of a statement leaves of what must be finished.
LEMMA EndingOfTop ==
  ASSUME LayoutInv, Shaped(calls)
  PROVE  /\ InBlock => Py!Ending(Top.word) = "none"
         /\ Top.at = "after" => Top.word # "extern"
         /\ Top.at = "function" => Top.word = "extern"
         /\ LastEnding = Py!Ending(Top.word)
<1>1. Len(calls) \in 1..Len(calls) /\ Top = calls[Len(calls)] /\ Top \in Places
  BY HowDeep
<1>2. InBlock => Top.word \in {"file", "suite", "methods"}
  BY <1>1 DEF InBlock, Places
<1>3. InBlock => Py!Ending(Top.word) = "none"
  BY <1>2, WordFacts
<1>4. Top.word = "extern" <=> Top.at = "function"
  BY <1>1 DEF Shaped
<1> QED BY <1>3, <1>4 DEF LastEnding

\* A statement that returns can end where it is.
LEMMA ReturnIs ==
  ASSUME LayoutInv, Shaped(calls), Return
  PROVE  /\ ~InBlock /\ Len(calls) > 1 /\ calls' = Front(calls) /\ tok' = tok /\ tok # NoWord
         /\ IsBlock(calls[Len(calls) - 1])
         /\ Due = "none" /\ Due' = "none" /\ InBlock' /\ Top'.at = "body"
         /\ tok \in Tokens \ Py!Words => LastEnding \notin Py!Unfinished
         /\ <<LastEnding, tok>> \notin Py!Follow
<1>1. /\ Top.at = "after" /\ tok # NoWord /\ ~TakesClause /\ ~BadTry
      /\ calls' = Front(calls) /\ tok' = tok
  BY DEF Return
<1>2. /\ Len(calls) \in Nat /\ Len(calls) >= 1 /\ Top = calls[Len(calls)] /\ ~InBlock /\ ~IsBlock(Top)
      /\ \A i \in 1..Len(calls) : calls[i] \in Places
  BY <1>1, HowDeep
<1>3. Alternating(calls) /\ calls # <<>> /\ calls \in Seq(Places) /\ tok \in Tokens
  BY <1>1 DEF LayoutInv, TypeOK
<1>4. ~Odd(Len(calls))
  BY <1>2, <1>3 DEF Alternating
<1>5. Len(calls) > 1 /\ Odd(Len(calls) - 1)
  BY <1>2, <1>4 DEF Odd
<1>6. IsBlock(calls[Len(calls) - 1]) /\ calls[Len(calls) - 1] \in Places
  BY <1>2, <1>3, <1>5 DEF Alternating
<1>7. Top' = calls[Len(calls) - 1]
  <2>1. /\ Front(calls) \in Seq(Places) /\ Front(calls) # <<>>
        /\ Len(Front(calls)) = Len(calls) - 1
        /\ \A i \in 1..Len(calls) - 1 : Front(calls)[i] = calls[i]
    BY <1>3, <1>5, FrontIs, Popped
  <2>2. Top' = Last(Front(calls))
    BY <1>1 DEF Top
  <2>3. Last(Front(calls)) = Front(calls)[Len(Front(calls))]
    BY DEF Last
  <2> QED BY <2>1, <2>2, <2>3, <1>2, <1>5
<1>8. InBlock' /\ Top'.at = "body"
  BY <1>6, <1>7 DEF InBlock, IsBlock, Places
<1>9. Due = "none" /\ Due' = "none"
  BY <1>1, <1>8 DEF Due
<1>10. Top.word # "extern" /\ LastEnding = Py!Ending(Top.word) /\ LastEnding \in {Top.word, "none"}
  BY <1>1, EndingOfTop, WordFacts
<1>11. ASSUME tok \in Tokens \ Py!Words PROVE LastEnding \notin Py!Unfinished
  <2>1. tok \notin {"except", "bare", "finally"}
    BY <1>11 DEF Py!Words, Py!Headers, Py!Clauses
  <2>2. Top.word # "try"
    BY <1>1, <1>11, <2>1 DEF BadTry, After
  <2> QED BY <1>10, <2>2, WordFacts DEF Py!Unfinished
<1>12. <<LastEnding, tok>> \notin Py!Follow
  <2>1. <<"none", tok>> \notin Py!Follow
    BY WordFacts
  <2>2. <<Top.word, tok>> \notin Py!Follow
    BY <1>1, <1>10 DEF Py!Follow, TakesClause, After, BadTry
  <2> QED BY <1>10, <2>1, <2>2
<1> QED BY <1>1, <1>2, <1>5, <1>6, <1>8, <1>9, <1>11, <1>12

LEMMA ReturnReads ==
  ASSUME ReadInv, status = "reading", py.ok, Return
  PROVE  InStep'
<1> DEFINE n == Len(indents)
<1>1. LayoutInv /\ LayoutInv' /\ Shaped(calls) /\ indents[1] = 0 /\ InStep
  <2>1. Parser
    BY DEF Parser, ParserNext
  <2> QED BY <2>1, ParserKeepsInv DEF ReadInv, Agrees
<1>2. /\ indents' = indents /\ line' = line /\ pos' = pos /\ py' = py
  BY DEF Return, lexer
<1>3. /\ ~InBlock /\ Len(calls) > 1 /\ calls' = Front(calls) /\ tok' = tok /\ tok # NoWord
      /\ Due = "none" /\ Due' = "none" /\ InBlock' /\ Top'.at = "body"
      /\ tok \in Tokens \ Py!Words => LastEnding \notin Py!Unfinished
      /\ <<LastEnding, tok>> \notin Py!Follow
  BY <1>1, ReturnIs
<1>4. /\ Len(calls) \in Nat /\ n \in Nat /\ n >= 1 /\ calls \in Seq(Places) /\ calls # <<>>
      /\ Front(calls) \in Seq(Places) /\ Len(Front(calls)) = Len(calls) - 1
      /\ \A i \in 1..Len(calls) - 1 : Front(calls)[i] = calls[i]
      /\ DOMAIN calls = 1..Len(calls) /\ DOMAIN Front(calls) = 1..Len(calls) - 1
      /\ Top = calls[Len(calls)] /\ LastEnding = Py!Ending(Top.word)
  <2>1. calls \in Seq(Places) /\ calls # <<>>
    BY <1>1 DEF LayoutInv, TypeOK
  <2>2. /\ Len(calls) \in Nat /\ n \in Nat /\ n >= 1 /\ Top = calls[Len(calls)]
        /\ LastEnding = Py!Ending(Top.word)
    BY <1>1, HowDeep, EndingOfTop
  <2>3. /\ Front(calls) \in Seq(Places) /\ Len(Front(calls)) = Len(calls) - 1
        /\ \A i \in 1..Len(calls) - 1 : Front(calls)[i] = calls[i]
    BY <2>1, FrontIs
  <2>4. DOMAIN calls = 1..Len(calls) /\ DOMAIN Front(calls) = 1..Len(Front(calls))
    BY <2>1, <2>3, LenProperties
  <2> QED BY <2>1, <2>2, <2>3, <2>4
<1>5. pos \notin {"start", "indent"}
  <2>1. Top.at = "after"
    BY DEF Return
  <2> QED BY <2>1, <1>1, <1>3 DEF InStep, Read
<1>6. CASE pos = "dedent"
  <2>1. tok = "DEDENT" /\ LineLeft /\ Len(calls) = 2 * n + 2
    BY <1>1, <1>3, <1>6, HowDeep DEF InStep
  <2>2. Open' = Open
    <3>1. \A i \in 1..2 * n - 1 : calls'[i].word = calls[i].word
      BY <1>3, <1>4, <2>1
    <3>2. 2 * n \in DOMAIN calls /\ 2 * n \in DOMAIN calls' /\ calls'[2 * n].word = calls[2 * n].word
      BY <1>3, <1>4, <2>1
    <3>3. 1..2 * n - 1 \subseteq DOMAIN calls /\ 1..2 * n - 1 \subseteq DOMAIN calls'
      BY <1>3, <1>4, <2>1
    <3> HIDE DEF n
    <3>4. OpenOf(indents, calls', n) = OpenOf(indents, calls, n)
      BY <1>4, <3>1, <3>2, <3>3, OpenSame
    <3> QED BY <3>4, <1>2 DEF Open, n
  <2>3. LineLeft' /\ LastEnding' = "none"
    BY <2>1, <2>2, <1>2, <1>3 DEF LineLeft, LastEnding
  <2> QED BY <1>2, <1>3, <1>6, <2>1, <2>3, WordFacts DEF InStep
<1>7. CASE pos = "words"
  <2>1. line.word = NoWord /\ Placing(tok)
    <3>1. Top.at = "after"
      BY DEF Return
    <3> QED BY <3>1, <1>1, <1>3, <1>7 DEF InStep, Entering
  <2>2. /\ tok \in Py!Words /\ tok \notin {"INDENT", "DEDENT", "NEWLINE", "EOF"}
        /\ Py!MayCome(Open[n], tok)
        /\ Open[n].ending = LastEnding
        /\ py = [ok   |-> TRUE,
                 open |-> [Open EXCEPT ![n].ending = Py!Ending(tok)],
                 due  |-> IF tok \in Py!Headers THEN tok ELSE "none"]
    BY <1>1, <2>1, PlaceNow
  <2>3. Len(calls) = 2 * n
    BY <1>1, <1>3, <2>2, HowDeep
  <2>4. OpenOf(indents, calls', n) = [Open EXCEPT ![n].ending = "none"]
    <3>1. /\ \A i \in 1..2 * n - 1 : calls'[i].word = calls[i].word
          /\ Len(calls) >= 2 * n - 1 /\ Len(calls') >= 2 * n - 1 /\ ~(Len(calls') >= 2 * n)
          /\ calls' \in Seq(Places)
      BY <1>3, <1>4, <2>3
    <3> QED BY <3>1, <1>1, PlacedIs
  <2>5. Open' = [Open EXCEPT ![n].ending = "none"]
    BY <2>4, <1>2 DEF Open
  <2>6. /\ Open \in Seq(Blocks) /\ Len(Open) = n /\ Open' \in Seq(Blocks) /\ Len(Open') = n
        /\ n \in DOMAIN Open /\ DOMAIN Open' = DOMAIN Open
    <3>1. Open \in Seq(Blocks) /\ Len(Open) = n
      BY <1>1, OpenType
    <3>2. Open' \in Seq(Blocks) /\ Len(Open') = n
      <4>1. indents \in Seq(Nat) /\ calls' \in Seq(Places) /\ n <= Len(indents)
        BY <1>1, <1>3, <1>4 DEF LayoutInv, TypeOK
      <4> HIDE DEF n
      <4>2. OpenOf(indents, calls', n) \in Seq(Blocks) /\ Len(OpenOf(indents, calls', n)) = n
        BY <4>1, <1>4, OpenIs
      <4> QED BY <4>2, <1>2 DEF Open, n
    <3>3. n \in DOMAIN Open /\ DOMAIN Open' = DOMAIN Open
      BY <3>1, <3>2, <1>4, LenProperties
    <3> QED BY <3>1, <3>2, <3>3
  <2>7. Open'[n] = [Open[n] EXCEPT !.ending = "none"]
    BY <2>5, <2>6
  <2>8. Open[n] \in Blocks
    BY <2>6, <1>4, ElementOfSeq
  <2> DEFINE w == Open[n].width
             e == Open[n].ending
             m == Open[n].methods
  <2>9. Open[n] = [width |-> w, ending |-> e, methods |-> m]
    BY <2>8 DEF Blocks
  <2>10. Open'[n].ending = "none" /\ Open'[n].methods = Open[n].methods
    BY <2>7, <2>9
  <2>11. Py!MayCome(Open'[n], tok)
    BY <2>2, <2>10, <1>3, WordFacts DEF Py!MayCome
  <2>12. [Open' EXCEPT ![n].ending = Py!Ending(tok)] = [Open EXCEPT ![n].ending = Py!Ending(tok)]
    <3>1. [Open'[n] EXCEPT !.ending = Py!Ending(tok)] = [Open[n] EXCEPT !.ending = Py!Ending(tok)]
      BY <2>7, <2>9
    <3>2. \A i \in DOMAIN Open : i # n => Open'[i] = Open[i]
      BY <2>5
    <3>3. [Open' EXCEPT ![n] = [Open'[n] EXCEPT !.ending = Py!Ending(tok)]] =
            [Open EXCEPT ![n] = [Open[n] EXCEPT !.ending = Py!Ending(tok)]]
      <4> DEFINE r == [Open[n] EXCEPT !.ending = Py!Ending(tok)]
                 O == Open'
      <4>1. O = [i \in DOMAIN Open |-> O[i]]
        BY <2>6 DEF Open, OpenOf
      <4>2. \A i \in DOMAIN Open : i # n => O[i] = Open[i]
        BY <3>2
      <4>3. DOMAIN O = DOMAIN Open
        BY <2>6
      <4> HIDE DEF r, O
      <4>4. [O EXCEPT ![n] = r] = [Open EXCEPT ![n] = r]
        <5>1. [O EXCEPT ![n] = r] = [i \in DOMAIN Open |-> IF i = n THEN r ELSE O[i]]
          BY <4>3
        <5>2. [Open EXCEPT ![n] = r] = [i \in DOMAIN Open |-> IF i = n THEN r ELSE Open[i]]
          OBVIOUS
        <5> QED BY <5>1, <5>2, <4>2
      <4> QED BY <4>4, <3>1 DEF r, O
    <3> QED BY <3>3
  <2>13. Placing(tok)'
    <3>1. Py!PlaceIn(Open', tok) = [ok   |-> TRUE,
                 open |-> [Open' EXCEPT ![n].ending = Py!Ending(tok)],
                 due  |-> IF tok \in Py!Headers THEN tok ELSE "none"]
      BY <2>6, <2>11 DEF Py!PlaceIn
    <3>2. py = Py!PlaceIn(Open', tok)
      BY <2>2, <2>12, <3>1
    <3> QED BY <3>2, <1>2, <1>3, <2>2 DEF Placing
  <2> QED BY <1>2, <1>7, <2>1, <2>13 DEF InStep
<1>8. CASE pos \in {"end", "done"}
  <2>1. tok \in {"DEDENT", "EOF"}
    BY <1>1, <1>3, <1>8 DEF InStep
  <2>2. tok \in Tokens \ Py!Words
    BY <2>1, WordFacts DEF Tokens
  <2>3. Finished' <=> Finished
    <3>1. /\ Len(calls') = Len(calls) - 1
          /\ \A i \in 1..Len(calls') : i \in 1..Len(calls) /\ calls'[i] = calls[i]
          /\ \A i \in 1..Len(calls) : i \in 1..Len(calls') \/ i = Len(calls)
      BY <1>3, <1>4
    <3>2. Py!Ending(calls[Len(calls)].word) \notin Py!Unfinished
      BY <1>3, <1>4, <2>2
    <3> QED BY <3>1, <3>2, <1>3 DEF Finished
  <2> QED BY <1>1, <1>2, <1>3, <1>8, <2>1, <2>3 DEF InStep
<1>9. pos \in {"start", "indent", "dedent", "words", "end", "done"}
  BY <1>1 DEF LayoutInv, TypeOK
<1> QED BY <1>5, <1>6, <1>7, <1>8, <1>9
-----------------------------------------------------------------------------
\* The calls say of the last block that its last statement is the word just read.
LEMMA PlacedReads ==
  ASSUME LayoutInv, indents[1] = 0, py.ok, Placing(tok),
         indents' = indents, py' = py, calls' \in Seq(Places), calls' # <<>>,
         Len(calls') \in {2 * Len(indents) - 1, 2 * Len(indents)},
         \A i \in 1..2 * Len(indents) - 1 : calls'[i].word = calls[i].word,
         Len(calls') = 2 * Len(indents) - 1 => tok \in {"simple", "stub"},
         Len(calls') = 2 * Len(indents) =>
           \/ tok \in Py!Headers /\ calls'[2 * Len(indents)] = Statement(tok, "newline")
           \/ tok = "extern" /\ calls'[2 * Len(indents)] = Statement("extern", "function"),
         Len(calls') = 2 * Len(indents) - 1 => IsBlock(calls'[2 * Len(indents) - 1])
  PROVE  Read'
<1> DEFINE n == Len(indents)
           L == Len(calls')
           due == IF tok \in Py!Headers THEN tok ELSE "none"
<1>1. n \in Nat /\ n >= 1 /\ Len(calls) \in Nat /\ Top' = calls'[L]
  BY HowDeep DEF Top, Last
<1>2. /\ tok \notin {"INDENT", "DEDENT"}
      /\ py = [ok |-> TRUE, open |-> [Open EXCEPT ![n].ending = Py!Ending(tok)], due |-> due]
  BY PlaceNow
<1>3. Len(calls) >= 2 * n - 1 /\ L >= 2 * n - 1 /\ L \in Nat /\ (L = 2 * n - 1 \/ L = 2 * n)
  BY <1>1, <1>2, HowDeep
<1>4. L = 2 * n - 1 => /\ due = "none" /\ Py!Ending(tok) = "none"
                       /\ calls'[L].at = "body"
  <2> SUFFICES ASSUME L = 2 * n - 1 PROVE due = "none" /\ Py!Ending(tok) = "none" /\ calls'[L].at = "body"
    OBVIOUS
  <2>1. tok \in {"simple", "stub"} /\ IsBlock(calls'[L])
    OBVIOUS
  <2>2. L \in 1..L
    BY <1>1, <1>3
  <2>3. calls'[L] \in Places
    BY <2>2, ElementOfSeq
  <2>4. calls'[L].at = "body"
    BY <2>1, <2>3 DEF Places, IsBlock
  <2> QED BY <2>1, <2>4, WordFacts DEF Py!Headers, Py!Clauses
<1>5. L = 2 * n => /\ calls'[L].word = tok
                   /\ calls'[L].at = IF tok \in Py!Headers THEN "newline" ELSE "function"
  BY DEF Statement, Py!Headers, Py!Clauses
<1>6. Py!Ending(tok) = IF L >= 2 * n THEN Py!Ending(calls'[2 * n].word) ELSE "none"
  <2>1. ~(2 * n - 1 >= 2 * n) /\ 2 * n >= 2 * n
    BY <1>1
  <2> HIDE DEF n, L, due
  <2> QED BY <1>3, <1>4, <1>5, <2>1
<1>7. OpenOf(indents, calls', n) = [Open EXCEPT ![n].ending = Py!Ending(tok)]
  BY <1>3, <1>6, PlacedIs
<1>8. Open' = [Open EXCEPT ![n].ending = Py!Ending(tok)]
  BY <1>7 DEF Open
<1>9. Due' = due /\ Top'.at # "after"
  <2>1. Due' = IF calls'[L].at \in {"newline", "indent"} THEN calls'[L].word ELSE "none"
    BY <1>1 DEF Due
  <2> HIDE DEF L
  <2>2. CASE L = 2 * n - 1
    BY <2>1, <2>2, <1>1, <1>4
  <2>3. CASE L = 2 * n
    BY <2>1, <2>3, <1>1, <1>5
  <2> QED BY <2>2, <2>3, <1>3
<1> QED BY <1>2, <1>8, <1>9 DEF Read

LEMMA StatementStep ==
  ASSUME ReadInv, status = "reading", ParseStatement \/ DecoratedDef \/ Clause
  PROVE  Shaped(calls)' /\ (py.ok => InStep')
<1> DEFINE n == Len(indents)
           L == Len(calls)
           s == Statement(tok, "newline")
           x == Statement("extern", "function")
<1>1. LayoutInv /\ Shaped(calls) /\ indents[1] = 0 /\ (py.ok => InStep)
  BY DEF ReadInv, Agrees
<1>2. /\ indents' = indents /\ line' = line /\ pos' = pos /\ py' = py /\ tok' = NoWord
      /\ tok \in Py!Words /\ tok \notin {"INDENT", "DEDENT", "NEWLINE", "EOF"}
  <2>1. /\ indents' = indents /\ line' = line /\ pos' = pos /\ py' = py /\ tok' = NoWord
    BY DEF ParseStatement, DecoratedDef, Clause, Consume, lexer
  <2>2. tok \in Py!Words
    BY DEF ParseStatement, DecoratedDef, Clause, CanStart, TakesClause, After,
           Py!Words, Py!Headers, Py!Clauses
  <2> QED BY <2>1, <2>2, WordFacts
<1>3. /\ L \in Nat /\ L >= 1 /\ n \in Nat /\ n >= 1 /\ Top = calls[L] /\ (InBlock <=> IsBlock(Top))
      /\ L = IF InBlock THEN 2 * n - 1 ELSE 2 * n
      /\ calls \in Seq(Places) /\ calls # <<>> /\ (InBlock <=> Top.at = "body")
  BY <1>1, <1>2, HowDeep DEF LayoutInv, TypeOK
<1>4. \/ InBlock /\ calls' = calls /\ tok \in {"simple", "stub"}
      \/ InBlock /\ calls' = Append(calls, x) /\ tok = "extern"
      \/ InBlock /\ calls' = Append(calls, s) /\ tok \in Py!Headers
      \/ ~InBlock /\ calls' = Front(calls) /\ tok = "stub"
      \/ ~InBlock /\ calls' = Append(Front(calls), s) /\ tok \in Py!Headers
  <2>1. CASE ParseStatement
    BY <2>1 DEF ParseStatement, CanStart, Consume, Py!Headers, Py!Clauses
  <2>2. CASE DecoratedDef
    BY <2>2, <1>3 DEF DecoratedDef, Consume, Becomes, Py!Headers
  <2>3. CASE Clause
    <3>1. Top.at = "after" /\ tok \in Py!Clauses
      BY <2>3 DEF Clause, TakesClause, After, Py!Clauses
    <3>2. calls' = Append(Front(calls), s) /\ tok \in Py!Headers
      BY <2>3, <3>1 DEF Clause, Consume, Becomes, Py!Headers
    <3> QED BY <3>1, <3>2, <1>3
  <2> QED BY <2>1, <2>2, <2>3
<1>5. /\ x \in Places /\ ~IsBlock(x) /\ x.word = "extern" /\ x.at = "function"
      /\ tok \in Py!Headers => /\ s \in Places /\ ~IsBlock(s) /\ s.at = "newline"
                               /\ s.word = tok /\ s.word \notin {"file", "extern"}
  BY DEF Places, Statement, IsBlock, Py!Headers, Py!Clauses
<1>6. py.ok => /\ pos = "words" /\ line.word = NoWord /\ Placing(tok)
  BY <1>1, <1>2, WordFacts DEF InStep, LayoutInv, TypeOK, NoWord
<1> HIDE DEF s, x, n, L
<1>7. L \in Nat /\ 1..2 * n - 1 \subseteq 1..L /\ (~InBlock => L > 1 /\ L - 1 = 2 * n - 1)
  BY <1>3
\* It remains to show what the stack is.
<1>8. ASSUME Shaped(calls'), calls' \in Seq(Places), calls' # <<>>,
             Len(calls') \in {2 * n - 1, 2 * n},
             \A i \in 1..2 * n - 1 : calls'[i].word = calls[i].word,
             Len(calls') = 2 * n - 1 => tok \in {"simple", "stub"} /\ IsBlock(calls'[2 * n - 1]),
             Len(calls') = 2 * n => \/ tok \in Py!Headers /\ calls'[2 * n] = s
                                    \/ tok = "extern" /\ calls'[2 * n] = x
      PROVE  Shaped(calls)' /\ (py.ok => InStep')
  <2>1. ASSUME py.ok PROVE Read'
    BY <1>1, <1>2, <1>6, <1>8, <2>1, PlacedReads DEF n, s, x
  <2>2. line.word = NoWord => line'.word = NoWord
    BY <1>2
  <2> QED BY <1>2, <1>6, <1>8, <2>1, <2>2 DEF InStep
<1>9. CASE InBlock /\ calls' = calls /\ tok \in {"simple", "stub"}
  <2>1. Len(calls') = 2 * n - 1 /\ 2 * n - 1 # 2 * n
    BY <1>3, <1>9 DEF L
  <2>2. IsBlock(calls'[2 * n - 1])
    BY <1>3, <1>9, <2>1 DEF L
  <2> QED BY <1>1, <1>3, <1>8, <1>9, <2>1, <2>2
<1>10. ASSUME InBlock, NEW c \in Places, calls' = Append(calls, c), ~IsBlock(c),
              c.word # "file", c.word = "extern" <=> c.at = "function", c.at # "block",
              \/ tok \in Py!Headers /\ c = s
              \/ tok = "extern" /\ c = x
       PROVE  Shaped(calls)' /\ (py.ok => InStep')
  <2>1. /\ Len(calls') = L + 1 /\ calls' \in Seq(Places) /\ calls' # <<>>
        /\ \A i \in 1..L : calls'[i] = calls[i]
        /\ calls'[L + 1] = c
    BY <1>3, <1>10, AppendProperties DEF L
  <2>2. Shaped(calls')
    BY <1>1, <1>3, <1>10, ShapeTop DEF L
  <2>3. L = 2 * n - 1 /\ Len(calls') = 2 * n /\ 2 * n # 2 * n - 1 /\ calls'[2 * n] = c
        /\ \A i \in 1..2 * n - 1 : calls'[i].word = calls[i].word
    BY <1>3, <1>10, <2>1
  <2> QED BY <1>8, <1>10, <2>1, <2>2, <2>3
<1>11. CASE ~InBlock /\ calls' = Front(calls) /\ tok = "stub"
  <2>1. /\ Len(calls') = L - 1 /\ calls' \in Seq(Places)
        /\ \A i \in 1..L - 1 : calls'[i] = calls[i]
    BY <1>3, <1>11, FrontIs DEF L
  <2>2. IsBlock(calls[L - 1])
    <3>1. Odd(2 * n - 1) /\ 2 * n - 1 \in 1..L
      BY <1>3, <1>11 DEF Odd
    <3> QED BY <3>1, <1>1, <1>7, <1>11 DEF LayoutInv, Alternating, L
  <2>3. Shaped(calls')
    BY <2>2, <1>1, <1>3, <1>7, <1>11, ShapeReturn DEF L
  <2>4. Len(calls') = 2 * n - 1 /\ 2 * n - 1 # 2 * n /\ calls' # <<>>
        /\ \A i \in 1..2 * n - 1 : calls'[i].word = calls[i].word
    BY <1>3, <1>7, <1>11, <2>1
  <2>5. IsBlock(calls'[2 * n - 1])
    BY <1>3, <1>7, <1>11, <2>1, <2>2
  <2> QED BY <1>8, <1>11, <2>1, <2>3, <2>4, <2>5
<1>12. CASE ~InBlock /\ calls' = Append(Front(calls), s) /\ tok \in Py!Headers
  <2>1. /\ Len(calls') = L /\ calls' \in Seq(Places)
        /\ \A i \in 1..L - 1 : calls'[i] = calls[i]
        /\ calls'[L] = s
    BY <1>3, <1>5, <1>12, StackOps DEF L
  <2>2. Shaped(calls')
    BY <1>1, <1>3, <1>5, <1>7, <1>12, ShapeTop DEF L
  <2>3. Len(calls') = 2 * n /\ 2 * n # 2 * n - 1 /\ calls' # <<>> /\ calls'[2 * n] = s
        /\ \A i \in 1..2 * n - 1 : calls'[i].word = calls[i].word
    BY <1>3, <1>7, <1>12, <2>1
  <2> QED BY <1>8, <1>12, <2>1, <2>2, <2>3
<1>13. CASE InBlock /\ calls' = Append(calls, x) /\ tok = "extern"
  BY <1>5, <1>10, <1>13
<1>14. CASE InBlock /\ calls' = Append(calls, s) /\ tok \in Py!Headers
  BY <1>5, <1>10, <1>14
<1> QED BY <1>4, <1>9, <1>11, <1>12, <1>13, <1>14

LEMMA SkipStep ==
  ASSUME ReadInv, status = "reading", SkipNewline
  PROVE  Shaped(calls)' /\ (py.ok => InStep')
<1> DEFINE n == Len(indents)
           L == Len(calls)
           c == [Top EXCEPT !.at = "indent"]
<1>1. LayoutInv /\ Shaped(calls) /\ indents[1] = 0 /\ (py.ok => InStep)
  BY DEF ReadInv, Agrees
<1>2. /\ indents' = indents /\ line' = line /\ pos' = pos /\ py' = py /\ tok' = NoWord
      /\ tok = "NEWLINE"
      /\ calls' = calls \/ (Top.at = "newline" /\ calls' = Append(Front(calls), c))
  BY DEF SkipNewline, Consume, lexer, Becomes
<1>3. py.ok => pos = "start" /\ Read
  BY <1>1, <1>2, WordFacts DEF InStep, LayoutInv, TypeOK, Placing, NoWord
<1>4. CASE calls' = calls
  <2>1. Read => Read'
    BY <1>2, <1>4 DEF Read, Open, Due, Top
  <2> QED BY <1>1, <1>2, <1>3, <1>4, <2>1 DEF InStep
<1>5. CASE Top.at = "newline" /\ calls' = Append(Front(calls), c)
  <2>1. /\ L \in Nat /\ n \in Nat /\ n >= 1 /\ Top = calls[L] /\ ~InBlock /\ ~IsBlock(Top)
        /\ L = 2 * n /\ Top \in Places /\ calls \in Seq(Places) /\ calls # <<>>
    BY <1>1, <1>2, <1>5, HowDeep DEF LayoutInv, TypeOK
  <2>2. c \in Places /\ ~IsBlock(c) /\ c.at = "indent" /\ c.word = Top.word
    BY <2>1, <1>5 DEF Places, IsBlock
  <2>3. Top.word # "file" /\ Top.word # "extern"
    <3>1. L \in 1..L /\ L # 1
      BY <2>1
    <3> QED BY <3>1, <2>1, <1>1, <1>5 DEF Shaped
  <2> HIDE DEF c
  <2>4. /\ Len(calls') = L /\ calls' \in Seq(Places)
        /\ \A i \in 1..L - 1 : calls'[i] = calls[i]
        /\ calls'[L] = c
    BY <2>1, <2>2, <1>5, StackOps
  <2>5. Shaped(calls')
    <3>1. L > 1
      BY <2>1
    <3> QED BY <3>1, <2>1, <2>2, <2>3, <1>1, <1>5, ShapeTop
  <2>6. Top' = c
    BY <2>4 DEF Top, Last
  <2>7. OpenOf(indents, calls', n) = OpenOf(indents, calls, n)
    <3>1. /\ DOMAIN calls = 1..2 * n /\ DOMAIN calls' = 1..2 * n
      BY <2>1, <2>4, LenProperties
    <3>2. \A i \in 1..2 * n - 1 : calls'[i].word = calls[i].word
      BY <2>1, <2>4
    <3>3. 2 * n \in 1..2 * n /\ calls'[2 * n].word = calls[2 * n].word
      BY <2>1, <2>2, <2>4
    <3>4. 1..2 * n - 1 \subseteq 1..2 * n
      BY <2>1
    <3> HIDE DEF n
    <3> QED BY <3>1, <3>2, <3>3, <3>4, <2>1, OpenSame
  <2>8. Open' = Open
    BY <2>7, <1>2 DEF Open
  <2>9. Due' = Due
    BY <2>2, <2>6, <1>5 DEF Due
  <2>10. Read => Read'
    BY <2>2, <2>6, <2>8, <2>9, <1>2 DEF Read
  <2> QED BY <2>5, <2>10, <1>2, <1>3 DEF InStep
<1> QED BY <1>2, <1>4, <1>5

LEMMA EnterStep ==
  ASSUME ReadInv, status = "reading", EnterBlock
  PROVE  Shaped(calls)' /\ (py.ok => InStep')
<1> DEFINE n == Len(indents)
           L == Len(calls)
           c == [Top EXCEPT !.at = "block"]
           b == Block(IF Top.word = "class" THEN "methods" ELSE "suite")
           cs == Append(Front(calls), c)
<1>1. LayoutInv /\ Shaped(calls) /\ indents[1] = 0 /\ (py.ok => InStep)
  BY DEF ReadInv, Agrees
<1>2. /\ indents' = indents /\ line' = line /\ pos' = pos /\ py' = py /\ tok' = NoWord
      /\ tok = "INDENT" /\ Top.at \in {"newline", "indent"}
      /\ calls' = Append(cs, b)
  BY DEF EnterBlock, Consume, lexer, Becomes
<1>3. /\ L \in Nat /\ L >= 1 /\ n \in Nat /\ n >= 1 /\ Top = calls[L] /\ ~InBlock /\ ~IsBlock(Top)
      /\ L = 2 * n - 2 /\ Top \in Places /\ calls \in Seq(Places) /\ calls # <<>>
      /\ Last(indents) = indents[n]
  BY <1>1, <1>2, HowDeep DEF LayoutInv, TypeOK
<1>4. c \in Places /\ ~IsBlock(c) /\ c.at = "block" /\ c.word = Top.word
  BY <1>3, <1>2 DEF Places, IsBlock
<1>5. /\ b \in Places /\ IsBlock(b) /\ b.at = "body" /\ b.word \in {"methods", "suite"}
      /\ b.word = "methods" <=> Top.word = "class"
  BY DEF Places, Block, IsBlock
<1>6. Top.word # "file" /\ Top.word # "extern" /\ L > 1
  <2>1. L \in 1..L /\ L # 1 /\ L > 1
    BY <1>3
  <2> QED BY <2>1, <1>3, <1>1, <1>2 DEF Shaped
<1> HIDE DEF c, b
<1>7. /\ Len(cs) = L /\ cs \in Seq(Places)
      /\ \A i \in 1..L - 1 : cs[i] = calls[i]
      /\ cs[L] = c
  BY <1>3, <1>4, StackOps
<1> HIDE DEF cs
<1>8. /\ Len(calls') = L + 1 /\ calls' \in Seq(Places)
      /\ \A i \in 1..L : calls'[i] = cs[i]
      /\ calls'[L + 1] = b
  BY <1>2, <1>5, <1>7, AppendProperties
<1>9. \A i \in 1..L - 1 : calls'[i] = calls[i] /\ i \in 1..L
  <2>1. \A i \in 1..L - 1 : i \in 1..L
    BY <1>3
  <2> HIDE DEF L
  <2> QED BY <2>1, <1>7, <1>8
<1>10. calls'[L] = c
  BY <1>3, <1>7, <1>8
<1>11. Shaped(calls')
  <2>1. ASSUME NEW i \in 1..L + 1
        PROVE  /\ calls'[i].word = "file" <=> i = 1
               /\ calls'[i].word = "extern" <=> calls'[i].at = "function"
               /\ ~IsBlock(calls'[i]) => (i < L + 1 <=> calls'[i].at = "block")
    <3>1. CASE i = L + 1
      BY <3>1, <1>3, <1>5, <1>8
    <3>2. CASE i = L
      BY <3>2, <1>2, <1>3, <1>4, <1>6, <1>10
    <3>3. CASE i \in 1..L - 1
      <4>1. i < L /\ i < L + 1 /\ i \in 1..L
        BY <3>3, <1>3
      <4> QED BY <3>3, <4>1, <1>1, <1>9 DEF Shaped
    <3> QED BY <3>1, <3>2, <3>3, <1>3
  <2> HIDE DEF L
  <2> QED BY <2>1, <1>8 DEF Shaped
<1>12. Top' = b
  BY <1>8 DEF Top, Last
<1>13. OpenOf(indents, calls', n) = Append(OpenOf(indents, calls, n - 1),
                                           [width |-> Last(indents), ending |-> "none",
                                            methods |-> Top.word = "class"])
  <2> DEFINE p == OpenOf(indents, calls', n)
             o == OpenOf(indents, calls, n - 1)
             r == [width |-> Last(indents), ending |-> "none", methods |-> Top.word = "class"]
  <2>1. /\ o \in Seq(Blocks) /\ Len(o) = n - 1
        /\ p \in Seq(Blocks) /\ Len(p) = n
    <3>1. /\ indents \in Seq(Nat) /\ n <= Len(indents) /\ n - 1 <= Len(indents) /\ n - 1 \in Nat
      BY <1>1, <1>3 DEF LayoutInv, TypeOK
    <3>2. \A m \in Nat : m <= Len(indents) =>
            /\ OpenOf(indents, calls, m) \in Seq(Blocks) /\ Len(OpenOf(indents, calls, m)) = m
            /\ OpenOf(indents, calls', m) \in Seq(Blocks) /\ Len(OpenOf(indents, calls', m)) = m
      BY <3>1, <1>3, <1>8, OpenIs
    <3> HIDE DEF n
    <3> QED BY <3>1, <3>2, <1>3
  <2>2. DOMAIN calls = 1..L /\ DOMAIN calls' = 1..L + 1
    BY <1>3, <1>8, LenProperties
  <2>3. p[n] = r
    <3>1. 2 * n \notin DOMAIN calls' /\ 2 * n - 1 = L + 1 /\ n \in 1..n
      BY <2>2, <1>3
    <3>2. p[n] = [width |-> indents[n], ending |-> "none",
                  methods |-> calls'[2 * n - 1].word = "methods"]
      BY <3>1 DEF OpenOf
    <3> QED BY <3>1, <3>2, <1>3, <1>5, <1>8
  <2>4. \A i \in 1..n - 1 : p[i] = o[i]
    <3> TAKE i \in 1..n - 1
    <3>1. /\ i \in 1..n /\ 2 * i \in 1..L /\ 2 * i \in 1..L + 1 /\ 2 * i - 1 \in 1..L - 1
          /\ 2 * i = L \/ 2 * i \in 1..L - 1
      BY <1>3
    <3>2. calls'[2 * i].word = calls[2 * i].word /\ calls'[2 * i - 1].word = calls[2 * i - 1].word
      BY <3>1, <1>3, <1>4, <1>9, <1>10
    <3> QED BY <3>1, <3>2, <2>2 DEF OpenOf
  <2>5. r \in Blocks
    <3>1. Last(indents) \in Nat
      BY <1>1, HowDeep
    <3> QED BY <3>1 DEF Blocks
  <2> HIDE DEF p, o, r
  <2>6. /\ Append(o, r) \in Seq(Blocks) /\ Len(Append(o, r)) = n
        /\ \A i \in 1..n - 1 : Append(o, r)[i] = o[i]
        /\ Append(o, r)[n] = r
    <3>1. /\ Append(o, r) \in Seq(Blocks) /\ Len(Append(o, r)) = Len(o) + 1
          /\ \A i \in 1..Len(o) : Append(o, r)[i] = o[i]
          /\ Append(o, r)[Len(o) + 1] = r
      BY <2>1, <2>5, AppendProperties
    <3>2. n - 1 + 1 = n
      BY <1>3
    <3> QED BY <3>1, <3>2, <2>1
  <2>7. \A i \in 1..n : p[i] = Append(o, r)[i]
    <3>1. \A i \in 1..n : i = n \/ i \in 1..n - 1
      BY <1>3
    <3> QED BY <3>1, <2>3, <2>4, <2>6
  <2>8. p = Append(o, r)
    BY <2>1, <2>6, <2>7, SeqEqual
  <2> QED BY <2>8 DEF p, o, r
<1>14. ASSUME py.ok PROVE InStep'
  <2>1. pos = "words" /\ Entering
    BY <1>1, <1>2, <1>14, WordFacts DEF InStep, LayoutInv, TypeOK, Placing, NoWord
  <2>2. Open' = OpenOf(indents, calls', n)
    BY <1>2 DEF Open
  <2>3. Due' = "none"
    BY <1>5, <1>12 DEF Due
  <2>4. Placing(line.word)'
    BY <2>1, <2>2, <2>3, <1>2, <1>13 DEF Entering, Placing
  <2> QED BY <2>1, <2>4, <1>2 DEF InStep
<1> QED BY <1>11, <1>14

LEMMA LeaveStep ==
  ASSUME ReadInv, status = "reading", LeaveBlock
  PROVE  Shaped(calls)' /\ (py.ok => InStep')
<1> DEFINE n == Len(indents)
           L == Len(calls)
           under == Front(calls)
           c == [Last(under) EXCEPT !.at = "after"]
<1>1. LayoutInv /\ Shaped(calls) /\ indents[1] = 0 /\ (py.ok => InStep)
  BY DEF ReadInv, Agrees
<1>2. /\ indents' = indents /\ line' = line /\ pos' = pos /\ py' = py /\ tok' = NoWord
      /\ tok = "DEDENT" /\ InBlock
      /\ calls' = Append(Front(under), c)
  BY DEF LeaveBlock, Consume, lexer
<1>3. /\ L \in Nat /\ n \in Nat /\ n >= 1 /\ Top = calls[L] /\ L = 2 * n + 1
      /\ calls \in Seq(Places) /\ calls # <<>>
      /\ \A i \in 1..L : calls[i] \in Places
  BY <1>1, <1>2, HowDeep DEF LayoutInv, TypeOK
<1>4. /\ under \in Seq(Places) /\ Len(under) = L - 1 /\ under # <<>>
      /\ \A i \in 1..L - 1 : under[i] = calls[i]
      /\ Last(under) = calls[L - 1]
  <2>1. /\ under \in Seq(Places) /\ Len(under) = L - 1
        /\ \A i \in 1..L - 1 : under[i] = calls[i]
    BY <1>3, FrontIs
  <2>2. under # <<>> /\ L - 1 \in 1..L - 1
    BY <2>1, <1>3
  <2> HIDE DEF under
  <2> QED BY <2>1, <2>2 DEF Last
<1>5. /\ calls[L - 1] \in Places /\ ~IsBlock(calls[L - 1]) /\ calls[L - 1].at = "block"
      /\ calls[L - 1].word \notin {"file", "extern"}
  <2>1. L - 1 \in 1..L /\ L - 1 # 1 /\ ~Odd(L - 1) /\ L - 1 < L
    BY <1>3 DEF Odd
  <2>2. ~IsBlock(calls[L - 1])
    BY <2>1, <1>1 DEF LayoutInv, Alternating
  <2> QED BY <2>1, <2>2, <1>1, <1>3 DEF Shaped
<1>6. c \in Places /\ ~IsBlock(c) /\ c.at = "after" /\ c.word = calls[L - 1].word
  BY <1>4, <1>5 DEF Places, IsBlock
<1> HIDE DEF c
<1>7. /\ Len(calls') = L - 1 /\ calls' \in Seq(Places) /\ calls' # <<>>
      /\ \A i \in 1..L - 2 : calls'[i] = calls[i]
      /\ calls'[L - 1] = c
  <2> HIDE DEF under
  <2>1. /\ Len(calls') = Len(under) /\ calls' \in Seq(Places)
        /\ \A i \in 1..Len(under) - 1 : calls'[i] = under[i]
        /\ calls'[Len(under)] = c
    BY <1>2, <1>4, <1>6, StackOps
  <2>2. \A i \in 1..L - 2 : i \in 1..Len(under) - 1 /\ i \in 1..L - 1
    BY <1>3, <1>4
  <2> QED BY <2>1, <2>2, <1>3, <1>4
<1>8. Shaped(calls')
  <2>1. ASSUME NEW i \in 1..L - 1
        PROVE  /\ calls'[i].word = "file" <=> i = 1
               /\ calls'[i].word = "extern" <=> calls'[i].at = "function"
               /\ ~IsBlock(calls'[i]) => (i < L - 1 <=> calls'[i].at = "block")
    <3>1. CASE i = L - 1
      BY <3>1, <1>3, <1>5, <1>6, <1>7
    <3>2. CASE i \in 1..L - 2
      <4>1. i < L - 1 /\ i < L /\ i \in 1..L
        BY <3>2, <1>3
      <4> QED BY <3>2, <4>1, <1>1, <1>7 DEF Shaped
    <3> QED BY <3>1, <3>2, <1>3
  <2> HIDE DEF L
  <2> QED BY <2>1, <1>7 DEF Shaped
<1>9. Top' = c
  BY <1>7 DEF Top, Last
<1>10. OpenOf(indents, calls', n) = OpenOf(indents, calls, n)
  <2>1. DOMAIN calls = 1..2 * n + 1 /\ DOMAIN calls' = 1..2 * n
    BY <1>3, <1>7, LenProperties
  <2>2. \A i \in 1..2 * n - 1 : calls'[i].word = calls[i].word
    BY <1>3, <1>7
  <2>3. /\ 2 * n \in 1..2 * n /\ 2 * n \in 1..2 * n + 1 /\ calls'[2 * n].word = calls[2 * n].word
        /\ 1..2 * n - 1 \subseteq 1..2 * n /\ 1..2 * n - 1 \subseteq 1..2 * n + 1
    BY <1>3, <1>6, <1>7
  <2> HIDE DEF n
  <2> QED BY <2>1, <2>2, <2>3, <1>3, OpenSame
<1>11. Open' = Open
  BY <1>10, <1>2 DEF Open
<1>12. Due = "none" /\ Due' = "none"
  <2>1. Top.at = "body"
    BY <1>1, <1>2, HowDeep
  <2> QED BY <2>1, <1>6, <1>9 DEF Due
<1>13. ASSUME py.ok PROVE InStep'
  <2>1. pos \in {"dedent", "end", "done"}
    BY <1>1, <1>2, <1>13, WordFacts DEF InStep, LayoutInv, TypeOK, Placing, NoWord
  <2>2. CASE pos = "dedent"
    <3>1. LineLeft
      BY <2>2, <1>1, <1>13 DEF InStep
    <3>2. LineLeft'
      BY <3>1, <1>2, <1>11, <1>12 DEF LineLeft
    <3> QED BY <2>2, <3>2, <1>2, <1>12, WordFacts DEF InStep, NoWord
  <2>3. CASE pos \in {"end", "done"}
    <3>1. Py!Ending(calls[L].word) = "none"
      BY <1>1, <1>2, <1>3, EndingOfTop
    <3>2. Finished' <=> Finished
      <4>1. \A i \in 1..L - 1 : i \in 1..L /\ calls'[i].word = calls[i].word
        BY <1>3, <1>6, <1>7
      <4>2. \A i \in 1..L : i \in 1..L - 1 \/ i = L
        BY <1>3
      <4> QED BY <3>1, <4>1, <4>2, <1>7, <1>12, WordFacts DEF Finished
    <3> QED BY <2>3, <3>2, <1>1, <1>2, <1>13 DEF InStep
  <2> QED BY <2>1, <2>2, <2>3
<1> QED BY <1>8, <1>13

\* An error is one of Python's, but for a blank line after a header.
LEMMA RejectIs ==
  ASSUME ReadInv, status = "reading", py.ok, Unexpected, tok # NoWord
  PROVE  \/ Top.at = "indent" /\ tok = "NEWLINE"
         \/ pos \in {"end", "done"} /\ ~Py!Complete(py)
<1> DEFINE n == Len(indents)
           e == LastEnding
<1>1. LayoutInv /\ Shaped(calls) /\ indents[1] = 0 /\ InStep
  BY DEF ReadInv, Agrees
<1>2. /\ Len(calls) \in Nat /\ Len(calls) >= 1 /\ Top = calls[Len(calls)] /\ Top \in Places
      /\ InBlock <=> Top.at = "body"
      /\ tok \in Tokens
      /\ pos \in {"start", "indent", "dedent", "words", "end", "done"}
  BY <1>1, HowDeep DEF LayoutInv, TypeOK
<1>3. /\ Top.at = "function" => Top.word = "extern"
      /\ e = Py!Ending(Top.word)
      /\ InBlock => e = "none"
  BY <1>1, EndingOfTop
<1>4. /\ Top.word \in {"try", "extern"} => e = Top.word /\ e \in Py!Unfinished
      /\ Top.word = "bare" => e = "bare"
  BY <1>3, WordFacts DEF Py!Unfinished
<1>5. tok = "DEDENT" => Top.word # "file"
  <2> SUFFICES ASSUME tok = "DEDENT", Top.word = "file" PROVE FALSE
    OBVIOUS
  <2>1. Len(calls) \in 1..Len(calls)
    BY <1>2
  <2>2. Len(calls) = 1
    BY <2>1, <1>1, <1>2 DEF Shaped
  <2>3. Len(indents) \in Nat /\ Len(indents) >= 1 /\ Len(calls) >= 2 * Len(indents) + 1
    BY <1>1, HowDeep
  <2> QED BY <2>2, <2>3
<1>6. CASE pos = "start"
  <2>1. tok = "NEWLINE" /\ Top.at # "after"
    BY <1>1, <1>6 DEF InStep, Read
  <2>2. Top.at # "newline"
    <3> SUFFICES ASSUME Top.at = "newline" PROVE Top.at = "indent"
      BY <2>1, <1>6 DEF Unexpected, BadTry, After
    <3> QED BY <2>1 DEF Unexpected, InBlock, BadTry, After
  <2> QED BY <2>1, <2>2, <1>2 DEF Unexpected, BadTry, After
<1>7. CASE pos = "indent"
  BY <1>1, <1>7 DEF InStep
<1>8. CASE pos = "dedent"
  <2>1. tok = "DEDENT" /\ Due = "none" /\ e \notin Py!Unfinished
    BY <1>1, <1>8 DEF InStep
  <2>2. Top.at \notin {"newline", "indent"}
    <3> SUFFICES ASSUME Top.at \in {"newline", "indent"} PROVE FALSE
      OBVIOUS
    <3>1. Top.word = "none"
      BY <2>1 DEF Due
    <3> QED BY <3>1, <1>2 DEF Places, Py!Headers, Py!Clauses
  <2>3. Top.at # "function" /\ ~BadTry
    BY <2>1, <1>3, <1>4 DEF BadTry, After
  <2> QED BY <2>1, <2>2, <2>3, <1>5 DEF Unexpected
<1>9. CASE pos = "words"
  <2>1. CASE tok = "INDENT"
    <3>1. Top.at \in {"newline", "indent"}
      BY <2>1, <1>1, <1>9, WordFacts DEF InStep, Entering, Placing
    <3> QED BY <2>1, <3>1, <1>2 DEF Unexpected, BadTry, After
  <2>2. CASE tok # "INDENT"
    <3>1. Placing(tok)
      BY <2>2, <1>1, <1>9 DEF InStep
    <3>2. /\ tok \in Py!Words /\ Py!MayCome(Open[n], tok) /\ Open[n].ending = e
          /\ tok \notin {"INDENT", "DEDENT", "NEWLINE", "EOF"} /\ Due = "none"
      BY <3>1, <1>1, PlaceNow DEF Placing
    <3>3. \/ <<e, tok>> \in Py!Follow
          \/ /\ e \notin Py!Unfinished
             /\ tok \notin Py!Clauses \cup {"broken"}
             /\ Open[n].methods => tok \in {"def", "stub"}
      BY <3>2 DEF Py!MayCome
    <3>4. CASE InBlock
      <4>1. tok \notin Py!Clauses \cup {"broken"} /\ (Open[n].methods => tok \in {"def", "stub"})
        BY <3>3, <3>4, <1>3, WordFacts
      <4>2. Top.word = "methods" => Open[n].methods
        <5>1. Len(calls) = 2 * n - 1 /\ n \in Nat /\ n >= 1
          BY <3>2, <3>4, <1>1, HowDeep
        <5>2. Open[n].methods = (calls[2 * n - 1].word = "methods")
          BY <5>1 DEF Open, OpenOf
        <5> QED BY <5>1, <5>2, <1>2
      <4>3. tok \in CanStart
        BY <3>2, <4>1, <4>2 DEF CanStart, Py!Words, Py!Headers, Py!Clauses
      <4> QED BY <3>2, <3>4, <4>3, <1>2 DEF Unexpected, BadTry, After
    <3>5. CASE ~InBlock
      <4>1. Top.at \notin {"newline", "indent"}
        <5> SUFFICES ASSUME Top.at \in {"newline", "indent"} PROVE FALSE
          OBVIOUS
        <5>1. Top.word = "none"
          BY <3>2 DEF Due
        <5> QED BY <5>1, <1>2 DEF Places, Py!Headers, Py!Clauses
      <4>2. Top.at # "function"
        <5> SUFFICES ASSUME Top.at = "function" PROVE FALSE
          OBVIOUS
        <5>1. e = "extern" /\ e \in Py!Unfinished
          BY <1>3, <1>4
        <5>2. tok \in {"def", "stub"}
          BY <3>3, <5>1 DEF Py!Follow
        <5> QED BY <3>5, <4>1, <5>2, <3>2 DEF Unexpected, BadTry, After
      <4>3. ~BadTry
        <5>1. ~After({"bare"}, {"except", "bare"})
          BY <3>3, <1>4 DEF After, Py!Follow, Py!Clauses
        <5>2. ~After({"try"}, Tokens \ {"except", "bare", "finally"})
          BY <3>3, <1>4 DEF After, Py!Follow
        <5> QED BY <5>1, <5>2 DEF BadTry
      <4> QED BY <3>5, <4>1, <4>2, <4>3 DEF Unexpected
    <3> QED BY <3>4, <3>5
  <2> QED BY <2>1, <2>2
<1>10. CASE pos \in {"end", "done"}
  <2>1. tok \in {"DEDENT", "EOF"} /\ (Py!Complete(py) <=> Finished)
    BY <1>1, <1>10 DEF InStep
  <2>2. ~Finished
    <3>1. CASE Top.at \in {"newline", "indent"}
      <4>1. Top.word # "none"
        BY <3>1, <1>2 DEF Places, Py!Headers, Py!Clauses
      <4> QED BY <3>1, <4>1 DEF Finished, Due
    <3>2. CASE Top.word \in {"try", "extern"}
      <4>1. Py!Ending(calls[Len(calls)].word) \in Py!Unfinished /\ Len(calls) \in 1..Len(calls)
        BY <3>2, <1>2, <1>3, <1>4
      <4> QED BY <4>1 DEF Finished
    <3>3. Top.at \in {"newline", "indent"} \/ Top.word \in {"try", "extern"}
      BY <2>1, <1>3, <1>5 DEF Unexpected, BadTry, After
    <3> QED BY <3>1, <3>2, <3>3
  <2> QED BY <2>1, <2>2, <1>10
<1> QED BY <1>2, <1>6, <1>7, <1>8, <1>9, <1>10

\* The parser keeps in step with the lines.
LEMMA ParserReads == ReadInv /\ Parser => ReadInv'
<1> SUFFICES ASSUME ReadInv, Parser PROVE ReadInv'
  OBVIOUS
<1>1. LayoutInv /\ LayoutInv' /\ Shaped(calls) /\ indents[1] = 0 /\ status = "reading"
      /\ (py.ok => InStep)
  BY ParserKeepsInv DEF ReadInv, Agrees, Parser
<1>2. indents' = indents /\ py' = py /\ pos' = pos
  BY DEF Parser, ParserNext, SkipNewline, EnterBlock, ParseStatement, DecoratedDef, LeaveBlock,
         Clause, Return, Accept, Reject, Consume, lexer
<1>3. ASSUME Shaped(calls)', py.ok => InStep', status' = status PROVE ReadInv'
  BY <1>1, <1>2, <1>3 DEF ReadInv, Agrees
<1>4. CASE SkipNewline
  BY <1>1, <1>3, <1>4, SkipStep DEF SkipNewline, Consume
<1>5. CASE EnterBlock
  BY <1>1, <1>3, <1>5, EnterStep DEF EnterBlock, Consume
<1>6. CASE ParseStatement \/ DecoratedDef \/ Clause
  <2>1. status' = status
    BY <1>6 DEF ParseStatement, DecoratedDef, Clause, Consume
  <2> QED BY <2>1, <1>1, <1>3, <1>6, StatementStep
<1>7. CASE LeaveBlock
  BY <1>1, <1>3, <1>7, LeaveStep DEF LeaveBlock, Consume
<1>8. CASE Return
  <2>1. Shaped(Front(calls))
    BY <1>1, <1>8, ReturnIs, ShapeReturn DEF LayoutInv, TypeOK
  <2>2. Shaped(calls)' /\ status' = status
    BY <2>1, <1>8 DEF Return
  <2> QED BY <2>2, <1>1, <1>3, <1>8, ReturnReads
<1>9. CASE Accept
  <2>1. /\ tok = "EOF" /\ InBlock /\ Top.word = "file" /\ calls' = calls /\ status' = "accepted"
    BY <1>9 DEF Accept
  <2>2. Shaped(calls)'
    BY <2>1, <1>1
  <2>3. ASSUME py.ok PROVE Py!Complete(py)
    <3>1. Py!Complete(py) <=> Finished
      BY <2>1, <2>3, <1>1, WordFacts DEF InStep, Entering, Placing, LayoutInv, TypeOK, NoWord
    <3>2. Len(calls) \in 1..Len(calls) /\ Top = calls[Len(calls)] /\ Top.at = "body"
      BY <2>1, <1>1, HowDeep
    <3>3. Len(calls) = 1
      BY <2>1, <3>2, <1>1 DEF Shaped
    <3>4. \A i \in 1..Len(calls) : i = 1
      BY <3>3
    <3>5. Py!Ending(calls[1].word) \notin Py!Unfinished
      BY <2>1, <3>2, <3>3, WordFacts
    <3>6. Finished
      BY <3>2, <3>4, <3>5 DEF Finished, Due
    <3> QED BY <3>1, <3>6
  <2> QED BY <2>1, <2>2, <2>3, <1>1, <1>2 DEF ReadInv, Agrees
<1>10. CASE Reject
  <2>1. calls' = calls /\ tok' = tok /\ status' = "rejected" /\ Unexpected /\ tok # NoWord
    BY <1>10 DEF Reject
  <2>2. Shaped(calls)' /\ Top' = Top
    BY <2>1, <1>1 DEF Top
  <2>3. py.ok => \/ Top.at = "indent" /\ tok = "NEWLINE"
                 \/ pos \in {"end", "done"} /\ ~Py!Complete(py)
    BY <2>1, <1>1, RejectIs
  <2> QED BY <2>1, <2>2, <2>3, <1>1, <1>2 DEF ReadInv, Agrees
<1> QED BY <1>4, <1>5, <1>6, <1>7, <1>8, <1>9, <1>10 DEF Parser, ParserNext

LEMMA ReadInit == Init => ReadInv
<1> SUFFICES ASSUME Init PROVE ReadInv
  OBVIOUS
<1>1. LayoutInv
  BY InitInv
<1>2. calls = <<Block("file")>> /\ indents = <<0>> /\ Len(calls) = 1 /\ Len(indents) = 1
      /\ calls[1] = Block("file") /\ indents[1] = 0 /\ Top = Block("file")
      /\ DOMAIN calls = 1..1
  BY DEF Init, Top, Last
<1>3. Shaped(calls)
  BY <1>2 DEF Shaped, Block, IsBlock
<1>4. Open = <<Py!File>>
  <2>1. Open \in Seq(Blocks) /\ Len(Open) = 1
    BY <1>1, <1>2, OpenType
  <2>2. 2 * 1 \notin 1..1 /\ 2 * 1 - 1 = 1 /\ 1 \in 1..Len(indents)
    BY <1>2
  <2>3. Open[1] = [width |-> indents[1],
                   ending |-> IF 2 * 1 \in DOMAIN calls THEN Py!Ending(calls[2 * 1].word) ELSE "none",
                   methods |-> calls[2 * 1 - 1].word = "methods"]
    BY <2>2 DEF Open, OpenOf
  <2>4. calls[2 * 1 - 1].word = "file"
    BY <1>2, <2>2 DEF Block
  <2>5. Open[1] = Py!File
    BY <1>2, <2>2, <2>3, <2>4 DEF Py!File
  <2>6. <<Py!File>> \in Seq(Blocks) /\ Len(<<Py!File>>) = 1 /\ <<Py!File>>[1] = Py!File
    BY DEF Py!File, Blocks
  <2>7. \A i \in 1..1 : i = 1
    OBVIOUS
  <2> QED BY <2>1, <2>5, <2>6, <2>7, SeqEqual
<1>5. Read
  BY <1>2, <1>4 DEF Read, Init, Py!Start, Due, Block
<1>6. InStep
  BY <1>5 DEF InStep, Init
<1> QED BY <1>1, <1>2, <1>3, <1>6 DEF ReadInv, Agrees, Init

LEMMA ReadingIsInvariant == Spec => []ReadInv
<1>1. ReadInv /\ [Next]_vars => ReadInv'
  <2> SUFFICES ASSUME ReadInv, [Next]_vars PROVE ReadInv'
    OBVIOUS
  <2>1. CASE LexerNext
    BY <2>1, LexerReads
  <2>2. CASE Parser
    BY <2>2, ParserReads
  <2>3. CASE Done \/ UNCHANGED vars
    <3>1. UNCHANGED vars
      BY <2>3 DEF Done
    <3>2. /\ indents' = indents /\ line' = line /\ pos' = pos /\ tok' = tok
          /\ calls' = calls /\ status' = status /\ py' = py
      BY <3>1 DEF vars
    <3>3. LayoutInv'
      BY <3>2 DEF ReadInv, LayoutInv, TypeOK, LevelsMatchBlocks, Depth
    <3>4. Agrees'
      BY <3>2 DEF ReadInv, Agrees, InStep, Read, LineLeft, Placing, Entering, LastEnding, InBlock,
                  Finished, Open, Due, Top
    <3> QED BY <3>2, <3>3, <3>4 DEF ReadInv
  <2> QED BY <2>1, <2>2, <2>3 DEF Next
<1> QED BY <1>1, ReadInit, PTL DEF Spec
-----------------------------------------------------------------------------
\* However long the file and however its lines are indented: after every line the
\* parser is in the blocks that the indentation means, at the widths they were
\* written at, each with the statement that may still take a clause.
THEOREM BlocksAreAsWritten == Spec => []BlocksAsWritten
<1>1. ReadInv => BlocksAsWritten
  <2> SUFFICES ASSUME ReadInv, pos = "start", tok = NoWord, status = "reading", py.ok
               PROVE  Structure = py
    BY DEF BlocksAsWritten
  <2>1. Read /\ LayoutInv
    BY DEF ReadInv, Agrees, InStep
  <2>2. Depth = Len(indents)
    BY <2>1 DEF LayoutInv, LevelsMatchBlocks, NoWord
  <2>3. [i \in 1..Depth |-> BlockAt(i)] = Open
    BY <2>2 DEF BlockAt, Open, OpenOf
  <2> QED BY <2>1, <2>3 DEF Structure, Read
<1> QED BY <1>1, ReadingIsInvariant, PTL

\* A file laid out by the rules of Python is accepted if it is a whole program
\* and otherwise rejected at its end; a blank line right after a header is the
\* only other reason to reject it.
THEOREM AcceptedAsPython == Spec => []AcceptsAsPython
<1>1. ReadInv => AcceptsAsPython
  BY DEF ReadInv, Agrees, AcceptsAsPython
<1> QED BY <1>1, ReadingIsInvariant, PTL
=============================================================================
