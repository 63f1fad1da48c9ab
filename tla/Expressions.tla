---------------------------- MODULE Expressions ----------------------------
(***************************************************************************)
(* The expression parser: precedence climbing (parseExpr) over unary       *)
(* operators, power, postfix forms and displays, each a function of         *)
(* parser.go that calls the others.  A frame of "stack" is an active call;  *)
(* fn is the function and the place in it, min the minimal precedence (for  *)
(* a subscript the number of colons consumed), op the operator or argument  *)
(* form whose operand is being parsed, acc the trees collected so far.  A   *)
(* call that returns appends its tree to its caller's acc.                  *)
(*                                                                         *)
(* Tokens are told apart by type; every name and literal is "x" but super. *)
(***************************************************************************)
EXTENDS Naturals, Sequences, SequencesExt

CONSTANT Inputs     \* what may stand in a source file: phrases [tokens, tree]

VARIABLES input,    \* the tokens, and the tree they were written from or NoTree
          pos,      \* Parser.pos
          stack,    \* the active calls, innermost last
          verdict   \* parsing, accepted or rejected

vars == <<input, pos, stack, verdict>>

Py == INSTANCE PyGrammar
Node(op, of) == Py!Node(op, of)
NoTree == Node("no tree", <<>>)
NoPart == Node("none", <<>>)

Frame(fn, min, op) == [fn |-> fn, min |-> min, op |-> op, acc |-> <<>>]

\* parseExpr(k) begins with parseUnary.
ExprCall(k) == <<Frame("expr", k, ""), Frame("unary", 0, "")>>

Init == /\ input \in Inputs
        /\ pos = 1
        /\ stack = <<Frame("caller", 0, "")>> \o ExprCall(0)
        /\ verdict = "parsing"
-----------------------------------------------------------------------------
\* peekN; what follows the expression is a newline.
Names == {"x", "super"}
PeekN(n) == IF pos + n \in DOMAIN input.tokens THEN input.tokens[pos + n] ELSE "newline"
Peek == PeekN(0)

Top == Last(stack)
Calls(fn, n) == Top.fn = fn /\ Len(Top.acc) = n
Push(t) == [Top EXCEPT !.acc = Append(@, t)]

Advance(n) == verdict = "parsing" /\ pos' = pos + n /\ UNCHANGED <<input, verdict>>

\* The innermost call goes on as frame f and calls the functions cs.
Goto(f, cs) == stack' = Front(stack) \o <<f>> \o cs

\* The innermost call returns tree t.
Return(t) ==
  stack' = [Front(stack) EXCEPT ![Len(stack) - 1].acc = Append(@, t)]
-----------------------------------------------------------------------------
\* Precedences of parser.go; 0 stands for ok = false.
BinaryPrec(t) ==
  CASE t = "or" -> 1
    [] t = "and" -> 2
    [] t \in {"==", "<"} -> 3
    [] t = "|" -> 4
    [] t = "^" -> 5
    [] t = "&" -> 6
    [] t = "<<" -> 7
    [] t \in {"+", "-"} -> 8
    [] t \in {"*", "/"} -> 9
    [] OTHER -> 0

Membership == Peek = "in" \/ (Peek = "not" /\ PeekN(1) = "in")

\* The loop of parseExpr with its left operand.
ExprMember ==
  /\ Calls("expr", 1) /\ Membership /\ 3 >= Top.min
  /\ Advance(IF Peek = "not" THEN 2 ELSE 1)
  /\ Goto([Top EXCEPT !.op = IF Peek = "not" THEN "not in" ELSE "in"], ExprCall(4))

\* Mutant: the right operand may begin with an operator of the same precedence.
ExprBinarySame ==
  /\ Calls("expr", 1) /\ ~Membership
  /\ BinaryPrec(Peek) > 0 /\ BinaryPrec(Peek) >= Top.min
  /\ Advance(1)
  /\ Goto([Top EXCEPT !.op = Peek], ExprCall(BinaryPrec(Peek)))

ExprBinary ==
  /\ Calls("expr", 1) /\ ~Membership
  /\ BinaryPrec(Peek) > 0 /\ BinaryPrec(Peek) >= Top.min
  /\ Advance(1)
  /\ Goto([Top EXCEPT !.op = Peek], ExprCall(BinaryPrec(Peek) + 1))

ExprRight == /\ Calls("expr", 2)
             /\ Advance(0)
             /\ Goto([Top EXCEPT !.acc = <<Node(Top.op, Top.acc)>>], <<>>)

ExprEnd ==
  /\ Calls("expr", 1)
  /\ IF Membership THEN 3 < Top.min
                   ELSE BinaryPrec(Peek) = 0 \/ BinaryPrec(Peek) < Top.min
  /\ Advance(0)
  /\ Return(Top.acc[1])

Unary ==
  /\ Calls("unary", 0)
  /\ \/ /\ Peek = "not"
        /\ Advance(1)
        /\ Goto([Top EXCEPT !.op = Peek], ExprCall(3))
     \/ /\ Peek \in {"-", "~"}
        /\ Advance(1)
        /\ Goto([Top EXCEPT !.op = Peek], <<Frame("unary", 0, "")>>)
     \/ /\ Peek \notin {"not", "-", "~"}
        /\ Advance(0)
        /\ Goto(Frame("power", 0, ""), <<Frame("postfix", 0, ""), Frame("primary", 0, "")>>)

UnaryEnd == /\ Calls("unary", 1)
            /\ Advance(0)
            /\ Return(Node(Top.op, Top.acc))

\* The base is a postfix expression, the exponent a unary one.
Power ==
  /\ Calls("power", 1)
  /\ \/ /\ Peek = "**"
        /\ Advance(1)
        /\ Goto(Top, <<Frame("unary", 0, "")>>)
     \/ /\ Peek # "**"
        /\ Advance(0)
        /\ Return(Top.acc[1])

PowerEnd == /\ Calls("power", 2)
            /\ Advance(0)
            /\ Return(Node("**", Top.acc))
-----------------------------------------------------------------------------
(* Primaries.  Displays share one loop: an element, then a comma and the   *)
(* next, or a comma and the closing token, or the closing token.           *)

Closing(fn) == CASE fn \in {"paren", "tuple", "call"} -> ")"
                 [] fn = "list" -> "]"
                 [] OTHER -> "}"

Primary ==
  /\ Calls("primary", 0)
  /\ \/ /\ Peek \in Names
        /\ Advance(1)
        /\ Return(Node(Peek, <<>>))
     \/ /\ Peek = "lambda"
        /\ Advance(1)
        /\ Goto(Frame("lambda", 0, ""), <<>>)
     \/ \E d \in {<<"(", "tuple", "paren">>, <<"[", "list", "list">>, <<"{", "map", "brace">>} :
          /\ Peek = d[1]
          /\ \/ /\ PeekN(1) = Closing(d[2])
                /\ Advance(2)
                /\ Return(Node(d[2], <<>>))
             \/ /\ PeekN(1) # Closing(d[2])
                /\ Advance(1)
                /\ Goto(Frame(d[3], 0, ""), ExprCall(0))

\* Grouping, or the first element of a tuple.
Paren ==
  /\ Calls("paren", 1)
  /\ \/ (Peek = ")" /\ Advance(1) /\ Return(Top.acc[1]))
     \/ (Peek = "," /\ Advance(0) /\ Goto([Top EXCEPT !.fn = "tuple"], <<>>))

\* A key of a map, or the first element of a set.
Brace ==
  /\ Calls("brace", 1)
  /\ Advance(0)
  /\ Goto([Top EXCEPT !.fn = IF Peek = ":" THEN "map" ELSE "set"], <<>>)

KeyAlone == Top.fn = "map" /\ Len(Top.acc) % 2 = 1
Between  == Top.fn \in {"tuple", "list", "set", "map"} /\ Top.acc # <<>> /\ ~KeyAlone

MapValue == /\ KeyAlone /\ Peek = ":"
            /\ Advance(1)
            /\ Goto(Top, ExprCall(0))

NextElement ==
  /\ Between /\ Peek = "," /\ PeekN(1) # Closing(Top.fn)
  /\ Advance(1)
  /\ Goto(Top, ExprCall(0))

CloseDisplay ==
  /\ Between
  /\ \/ (Peek = Closing(Top.fn) /\ Advance(1))
     \/ (Peek = "," /\ PeekN(1) = Closing(Top.fn) /\ Advance(2))
  /\ Return(Node(Top.fn, Top.acc))

\* min = 1 once a comma has been consumed: another name must follow.
LambdaParam ==
  /\ Top.fn = "lambda" /\ Peek \in Names /\ PeekN(1) = ","
  /\ Advance(2)
  /\ Goto([Push(Node(Peek, <<>>)) EXCEPT !.min = 1], <<>>)

LambdaBody ==
  /\ Top.fn = "lambda"
  /\ \/ /\ Peek = ":" /\ Top.min = 0
        /\ Advance(1)
        /\ Goto([Top EXCEPT !.fn = "body"], ExprCall(0))
     \/ /\ Peek \in Names /\ PeekN(1) = ":"
        /\ Advance(2)
        /\ Goto([Push(Node(Peek, <<>>)) EXCEPT !.fn = "body", !.min = Len(Top.acc) + 1],
                ExprCall(0))

LambdaEnd == /\ Top.fn = "body" /\ Len(Top.acc) > Top.min
             /\ Advance(0)
             /\ Return(Node("lambda", Top.acc))
-----------------------------------------------------------------------------
(* Postfix forms; acc[1] is the object. *)

Postfix ==
  /\ Calls("postfix", 1)
  /\ \/ /\ Peek = "("
        /\ Advance(1)
        /\ Goto([Top EXCEPT !.fn = "call"], <<>>)
     \/ /\ Peek = "["
        /\ Advance(1)
        /\ Goto([Top EXCEPT !.fn = "subscript", !.min = 0], <<>>)
     \/ /\ Peek = "." /\ PeekN(1) \in Names
        /\ Advance(2)
        /\ Goto([Top EXCEPT !.acc = <<Node("attr", Top.acc)>>], <<>>)
     \/ /\ Peek \notin {"(", "[", "."}
        /\ Advance(0)
        /\ Return(Top.acc[1])

\* In a call min counts the arguments begun, op is the form of the last one,
\* or empty when a closing parenthesis or another argument must follow.
Wants == Top.fn = "call" /\ Top.op = ""
HasArgument == Top.fn = "call" /\ Top.op # "" /\ Len(Top.acc) = Top.min + 1

ArgumentForm ==
  CASE Peek = "**" -> "**arg"
    [] Peek = "*" -> "*arg"
    [] Peek \in Names /\ PeekN(1) = "=" -> "kw"
    [] OTHER -> "pos"

AfterKeyword ==
  /\ \E i \in 2..Len(Top.acc) : Top.acc[i].op \in {"kw", "**arg"}
  /\ ArgumentForm \in {"pos", "*arg"}

StartArgument ==
  /\ Wants /\ ~AfterKeyword
  /\ Top.min = 0 => Peek # ")"
  /\ Advance(CASE ArgumentForm = "pos" -> 0 [] ArgumentForm = "kw" -> 2 [] OTHER -> 1)
  /\ Goto([Top EXCEPT !.min = @ + 1, !.op = ArgumentForm], ExprCall(0))

\* The call's arguments, the last one noted with its form.
Arguments == IF Top.op = "pos" THEN Top.acc
             ELSE Append(Front(Top.acc), Node(Top.op, <<Last(Top.acc)>>))

NextArgument ==
  /\ HasArgument /\ Peek = "," /\ PeekN(1) # ")"
  /\ Advance(1)
  /\ Goto([Top EXCEPT !.op = "", !.acc = Arguments], <<>>)

CloseCall ==
  \/ /\ HasArgument
     /\ \/ (Peek = ")" /\ Advance(1))
        \/ (Peek = "," /\ PeekN(1) = ")" /\ Advance(2))
     /\ Goto([Frame("postfix", 0, "") EXCEPT !.acc = <<Node("call", Arguments)>>], <<>>)
  \/ /\ Wants /\ Top.min = 0 /\ Peek = ")"
     /\ Advance(1)
     /\ Goto([Frame("postfix", 0, "") EXCEPT !.acc =
                IF Top.acc[1].op = "super" THEN <<Node("super()", <<>>)>>
                                           ELSE <<Node("call", Top.acc)>>], <<>>)

\* In a subscript min counts the colons consumed; a part follows each.
WantsPart == Top.fn = "subscript" /\ Len(Top.acc) = Top.min + 1
HasPart   == Top.fn = "subscript" /\ Len(Top.acc) = Top.min + 2

SlicePart ==
  /\ WantsPart
  /\ Advance(0)
  /\ IF Peek \in {":", "]"} THEN Goto(Push(NoPart), <<>>) ELSE Goto(Top, ExprCall(0))

SliceColon ==
  /\ HasPart /\ Peek = ":" /\ Top.min < 2
  /\ Advance(1)
  /\ Goto([Top EXCEPT !.min = @ + 1], <<>>)

CloseSubscript ==
  /\ HasPart /\ Peek = "]"
  /\ Top.min = 0 => Last(Top.acc) # NoPart
  /\ Advance(1)
  /\ LET t == CASE Top.min = 0 -> Node("index", Top.acc)
                [] Top.min = 1 -> Node("slice", Append(Top.acc, NoPart))
                [] Top.min = 2 -> Node("slice", Top.acc)
     IN  Goto([Frame("postfix", 0, "") EXCEPT !.acc = <<t>>], <<>>)
-----------------------------------------------------------------------------
Accept == /\ Calls("caller", 1) /\ verdict = "parsing"
          /\ verdict' = "accepted"
          /\ UNCHANGED <<input, pos, stack>>

\* The error returns; every caller passes an error on.
Unexpected ==
  \/ (Calls("primary", 0) /\ Peek \notin Names \cup {"lambda", "(", "[", "{"})
  \/ (Calls("paren", 1) /\ Peek \notin {")", ","})
  \/ (KeyAlone /\ Peek # ":")
  \/ (Between /\ Peek \notin {",", Closing(Top.fn)})
  \/ (Top.fn = "lambda" /\ Peek \in Names /\ PeekN(1) \notin {",", ":"})
  \/ (Top.fn = "lambda" /\ Peek \notin Names /\ (Peek = ":" => Top.min = 1))
  \/ (Calls("postfix", 1) /\ Peek = "." /\ PeekN(1) \notin Names)
  \/ (Wants /\ (Top.min = 0 => Peek # ")") /\ AfterKeyword)
  \/ (HasArgument /\ Peek \notin {",", ")"})
  \/ (HasPart /\ (Peek = ":" => Top.min = 2) /\ Peek # "]")
  \/ (HasPart /\ Peek = "]" /\ Top.min = 0 /\ Last(Top.acc) = NoPart)

Reject == /\ Unexpected /\ verdict = "parsing"
          /\ verdict' = "rejected"
          /\ UNCHANGED <<input, pos, stack>>

\* The parse is over; a call that could neither go on nor fail would deadlock.
Finished == verdict # "parsing" /\ UNCHANGED vars

Next == \/ ExprMember \/ ExprBinary \/ ExprRight \/ ExprEnd
        \/ Unary \/ UnaryEnd \/ Power \/ PowerEnd
        \/ Primary \/ Paren \/ Brace \/ MapValue \/ NextElement \/ CloseDisplay
        \/ LambdaParam \/ LambdaBody \/ LambdaEnd
        \/ Postfix \/ StartArgument \/ NextArgument \/ CloseCall
        \/ SlicePart \/ SliceColon \/ CloseSubscript
        \/ Accept \/ Reject \/ Finished

Spec == Init /\ [][Next]_vars
-----------------------------------------------------------------------------
(* Whatever tree of operators, calls, subscripts and displays a programmer *)
(* writes down with no more parentheses than Python's grammar needs, the   *)
(* parser builds that tree: precedences, the side an operator associates   *)
(* to, unary minus against power, not against comparison, all of it.       *)
ParsesBack ==
  input.tree # NoTree =>
    /\ verdict # "rejected"
    /\ verdict = "accepted" =>
         /\ stack[1].acc = <<input.tree>>
         /\ pos = Len(input.tokens) + 1
=============================================================================
