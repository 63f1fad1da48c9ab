------------------------------ MODULE PyGrammar ------------------------------
(***************************************************************************)
(* Python's expressions as trees together with how they are written.  A     *)
(* tree is [op, of]: the operator and the operands in order; a phrase is    *)
(* [tokens, tree].  The precedences are those of the Python language        *)
(* reference, not of parser.go.                                             *)
(*                                                                          *)
(* A phrase has parentheses exactly where the grammar needs them, so its    *)
(* tokens have one parse only, the tree they were written from.             *)
(***************************************************************************)
EXTENDS Naturals, Sequences, SequencesExt

Node(op, of) == [op |-> op, of |-> of]

\* A name or a literal, and a part of a slice that is left out.
Atom == [tokens |-> <<"x">>, tree |-> Node("x", <<>>)]
None == [tokens |-> <<>>, tree |-> Node("none", <<>>)]

(***************************************************************************)
(* The level of the nonterminal a tree with n operands is an instance of:   *)
(* from lambda (0) over or, and, not, comparison, |, ^, &, shift, sum,      *)
(* product, unary, power, to primary (13).                                  *)
(***************************************************************************)
Level(op, n) ==
  CASE op = "lambda" -> 0
    [] op = "or" -> 1
    [] op = "and" -> 2
    [] op = "not" -> 3
    [] op \in {"<", "==", "in", "not in"} -> 4
    [] op = "|" -> 5
    [] op = "^" -> 6
    [] op = "&" -> 7
    [] op = "<<" -> 8
    [] op \in {"+", "-"} /\ n = 2 -> 9
    [] op \in {"*", "/"} -> 10
    [] op \in {"-", "~"} /\ n = 1 -> 11
    [] op = "**" -> 12
    [] OTHER -> 13

\* The phrase as an operand that must have level k.
AtLevel(k, p) ==
  IF Level(p.tree.op, Len(p.tree.of)) < k THEN <<"(">> \o p.tokens \o <<")">> ELSE p.tokens

Trees(ps) == [i \in DOMAIN ps |-> ps[i].tree]

Separated(parts) ==
  FoldLeft(LAMBDA s, p : IF s = <<>> THEN p ELSE s \o <<",">> \o p, <<>>, parts)
List(ps) == Separated([i \in DOMAIN ps |-> AtLevel(0, ps[i])])

Prefixed(op, p) ==
  [tokens |-> <<op>> \o AtLevel(Level(op, 1), p), tree |-> Node(op, <<p.tree>>)]

\* Operators associate to the left, but power; comparisons are not chained.
Infixed(op, p, q) ==
  LET k == Level(op, 2)
      left == CASE k = 4 -> 5 [] k = 12 -> 13 [] OTHER -> k
      right == CASE k = 12 -> 11 [] OTHER -> k + 1
      word == IF op = "not in" THEN <<"not", "in">> ELSE <<op>>
  IN  [tokens |-> AtLevel(left, p) \o word \o AtLevel(right, q),
       tree |-> Node(op, <<p.tree, q.tree>>)]

Lambda(params, p) ==
  [tokens |-> <<"lambda">> \o List(params) \o <<":">> \o p.tokens,
   tree |-> Node("lambda", Append(Trees(params), p.tree))]

Attribute(p) == [tokens |-> AtLevel(13, p) \o <<".", "x">>, tree |-> Node("attr", <<p.tree>>)]

Index(p, q) == [tokens |-> AtLevel(13, p) \o <<"[">> \o q.tokens \o <<"]">>,
                tree |-> Node("index", <<p.tree, q.tree>>)]

Slice(p, low, high, step) ==
  [tokens |-> AtLevel(13, p) \o <<"[">> \o low.tokens \o <<":">> \o high.tokens
                \o (IF step = None THEN <<>> ELSE <<":">> \o step.tokens) \o <<"]">>,
   tree |-> Node("slice", <<p.tree, low.tree, high.tree, step.tree>>)]

\* A positional argument is its expression; the other forms are marked.
Argument(form, p) ==
  [tokens |-> (CASE form = "*arg" -> <<"*">> [] form = "**arg" -> <<"**">>
                 [] form = "kw" -> <<"x", "=">>) \o p.tokens,
   tree |-> Node(form, <<p.tree>>)]

Call(p, args) == [tokens |-> AtLevel(13, p) \o <<"(">> \o List(args) \o <<")">>,
                  tree |-> Node("call", <<p.tree>> \o Trees(args))]

Super == [tokens |-> <<"super", "(", ")">>, tree |-> Node("super()", <<>>)]

Tuple(ps) ==
  [tokens |-> <<"(">> \o List(ps) \o (IF Len(ps) = 1 THEN <<",", ")">> ELSE <<")">>),
   tree |-> Node("tuple", Trees(ps))]

ListDisplay(ps) == [tokens |-> <<"[">> \o List(ps) \o <<"]">>, tree |-> Node("list", Trees(ps))]

SetDisplay(ps) == [tokens |-> <<"{">> \o List(ps) \o <<"}">>, tree |-> Node("set", Trees(ps))]

\* Keys and values in turn.
MapDisplay(ps) ==
  [tokens |-> <<"{">> \o Separated([i \in 1..(Len(ps) \div 2) |->
                           ps[2 * i - 1].tokens \o <<":">> \o ps[2 * i].tokens]) \o <<"}">>,
   tree |-> Node("map", Trees(ps))]
=============================================================================
