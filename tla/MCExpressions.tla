---------------------------- MODULE MCExpressions ----------------------------
(***************************************************************************)
(* The texts Expressions is checked on: every tree of up to three operators *)
(* of the kinds whose precedences meet, every tree of up to two forms of    *)
(* all kinds, and each short text with one token left out.                  *)
(***************************************************************************)
EXTENDS Expressions

CONSTANTS Binary, Prefix,   \* operators of the trees with up to three operators
          MoreBinary        \* further operators of the trees with up to two

Unaries(s) == {Py!Prefixed(op, p) : op \in Prefix, p \in s}
Infixes(ops, s, r) == {Py!Infixed(op, p, q) : op \in ops, p \in s, q \in r}

Zero == {Py!Atom}
One(ops)   == Unaries(Zero) \cup Infixes(ops, Zero, Zero)
Two(ops)   == Unaries(One(ops)) \cup Infixes(ops, Zero, One(ops)) \cup Infixes(ops, One(ops), Zero)
Three(ops) == Unaries(Two(ops)) \cup Infixes(ops, Zero, Two(ops)) \cup Infixes(ops, Two(ops), Zero)
              \cup Infixes(ops, One(ops), One(ops))

\* Forms with brackets, around and inside each other and operators.
FormsOf(p) ==
  LET x == Py!Atom
      n == Py!None
  IN  {Py!Lambda(<<>>, p), Py!Lambda(<<x, x>>, p), Py!Attribute(p), Py!Index(p, x),
       Py!Index(x, p), Py!Slice(p, n, n, n), Py!Slice(x, p, x, n), Py!Slice(x, n, p, x),
       Py!Call(p, <<>>), Py!Call(x, <<p>>), Py!Call(x, <<x, Py!Argument("*arg", p)>>),
       Py!Call(x, <<p, Py!Argument("kw", p), Py!Argument("**arg", p)>>),
       Py!Tuple(<<>>), Py!Tuple(<<p>>), Py!Tuple(<<x, p>>), Py!ListDisplay(<<>>),
       Py!ListDisplay(<<p, x>>), Py!SetDisplay(<<p>>), Py!SetDisplay(<<x, p>>),
       Py!MapDisplay(<<>>), Py!MapDisplay(<<p, x>>), Py!MapDisplay(<<x, x, x, p>>)}
Forms(s) == UNION {FormsOf(p) : p \in s}

All == Binary \cup MoreBinary
SuperCall == Py!Call(Py!Attribute(Py!Super), <<>>)

Written ==
  Zero \cup {SuperCall} \cup Two(All) \cup Three(Binary)
  \cup Forms(One(All) \cup Forms(Zero)) \cup Unaries(Forms(Zero))
  \cup Infixes(All, Zero, Forms(Zero)) \cup Infixes(All, Forms(Zero), Zero)

\* A text with one token left out may no longer be Python.
Damaged ==
  UNION {{[tokens |-> RemoveAt(p.tokens, i), tree |-> NoTree] : i \in DOMAIN p.tokens} :
           p \in Forms(Zero \cup Forms(Zero))}

MCInputs == Written \cup Damaged
=============================================================================
