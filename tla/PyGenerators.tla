---------------------------- MODULE PyGenerators ----------------------------
(***************************************************************************)
(* The body of a generator function, as a list of statements in which each   *)
(* loop is closed by an end of its own, and the values Python's generator   *)
(* yields: those the body computes if it is run through without a stop, with *)
(* every yield writing its value down.                                      *)
(*                                                                          *)
(*   yield x, x += 1, x = 0, while x < 2, for x in inner(p),                 *)
(*   yield from inner(p), end, break, continue, return, raise               *)
(***************************************************************************)
EXTENDS Integers, Sequences, SequencesExt, FiniteSets, TLC

CONSTANT Wrap     \* numbers are below it

Num == 0..(Wrap - 1)

Stop  == -1         \* StopIteration
Error == -2         \* another exception

Add1(n) == (n + 1) % Wrap
Locals(p) == [p |-> p, v |-> 0]

Opens(body, i) == body[i].op \in {"while", "for"}
Depth(body, i, j) ==
  Cardinality({k \in i..j : Opens(body, k)}) - Cardinality({k \in i..j : body[k].op = "end"})

\* The end of the loop that begins at i, and the beginning of the loop around i.
EndOf(body, i) == CHOOSE j \in i..Len(body) :
  Depth(body, i, j) = 0 /\ \A k \in i..(j - 1) : Depth(body, i, k) > 0
LoopOf(body, i) == CHOOSE j \in 1..(i - 1) :
  Opens(body, j) /\ EndOf(body, j) >= i /\ \A k \in (j + 1)..(i - 1) : Opens(body, k) => EndOf(body, k) < i

\* Every loop ends, every end, break and continue is in a loop.
WellFormed(body) ==
  /\ \A j \in DOMAIN body : Depth(body, 1, j) >= 0
  /\ Depth(body, 1, Len(body)) = 0
  /\ \A j \in DOMAIN body : body[j].op \in {"break", "continue"} => Depth(body, 1, j) > 0

Loops == {"for", "from"}
Statements == [op  : Loops \cup {"yield", "add", "zero", "while", "end", "break", "continue",
                                 "return", "raise"},
               var : {"p", "v"}]
IsBody(body) == body \in Seq(Statements) /\ WellFormed(body)

\* One statement.  at: the place in inner's values of the loops that are open.
\* inner: for every argument, the values and the end of the generator called.
Statement(body, inner, s) ==
  IF s.pc > Len(body) THEN [s EXCEPT !.ended = Stop] ELSE
  LET b     == body[s.pc]
      inVal == inner[s.arg[s.pc]].out
      after(i) == EndOf(body, i) + 1
      go(pc) == [s EXCEPT !.pc = pc]
  IN  CASE b.op = "yield" -> [s EXCEPT !.out = Append(@, s.env[b.var]), !.pc = @ + 1]
        [] b.op = "zero"  -> [s EXCEPT !.env[b.var] = 0, !.pc = @ + 1]
        [] b.op = "add"   -> [s EXCEPT !.env[b.var] = Add1(@), !.pc = @ + 1]
        [] b.op = "while" -> go(IF s.env[b.var] < 2 THEN s.pc + 1 ELSE after(s.pc))
        [] b.op = "end"   -> go(LoopOf(body, s.pc))
        [] b.op = "break" -> [go(after(LoopOf(body, s.pc))) EXCEPT !.at[LoopOf(body, s.pc)] = 0]
        [] b.op = "continue" -> go(LoopOf(body, s.pc))
        [] b.op = "return"   -> [s EXCEPT !.ended = Stop]
        [] b.op = "raise"    -> [s EXCEPT !.ended = Error]
        [] b.op \in {"for", "from"} /\ s.at[s.pc] = 0 ->
             [s EXCEPT !.at[s.pc] = 1, !.arg[s.pc] = s.env.p]
        [] b.op \in {"for", "from"} /\ s.at[s.pc] > 0 /\ s.at[s.pc] > Len(inVal) ->
             IF inner[s.arg[s.pc]].ended # Stop
             THEN [s EXCEPT !.ended = inner[s.arg[s.pc]].ended]
             ELSE [s EXCEPT !.at[s.pc] = 0,
                            !.pc = IF b.op = "for" THEN after(@) ELSE @ + 1]
        [] b.op = "for" /\ s.at[s.pc] \in DOMAIN inVal ->
             [s EXCEPT !.env[b.var] = inVal[s.at[s.pc]], !.at[s.pc] = @ + 1, !.pc = @ + 1]
        [] b.op = "from" /\ s.at[s.pc] \in DOMAIN inVal ->
             [s EXCEPT !.out = Append(@, inVal[s.at[s.pc]]), !.at[s.pc] = @ + 1]

\* What a body has come to after fuel statements, when it is called with p.
Started(body, p) ==
  [pc |-> 1, env |-> Locals(p), out |-> <<>>, ended |-> 0,
   at |-> [i \in DOMAIN body |-> 0], arg |-> [i \in DOMAIN body |-> 0]]

RunThrough(body, inner, p, fuel) ==
  LET run[n \in 0..fuel] ==
        IF n = 0 THEN Started(body, p)
        ELSE LET s == run[n - 1] IN IF s.ended # 0 THEN s ELSE Statement(body, inner, s)
  IN  run[fuel]

\* The values it yields, and how it ends: with a StopIteration, an error, or, 0,
\* not within fuel statements.
Yields(body, inner, p, fuel) ==
  LET s == RunThrough(body, inner, p, fuel) IN [out |-> s.out, ended |-> s.ended]

\* What the n-th call of next on it gives.
Answer(run, n) == IF n <= Len(run.out) THEN run.out[n] ELSE run.ended

NoInner == [p \in Num |-> [out |-> <<>>, ended |-> Stop]]

\* The values of outer(p), whose inner generator is the other body.
YieldsOf(outer, inner, p, fuel) ==
  Yields(outer, [q \in Num |-> Yields(inner, NoInner, q, fuel)], p, fuel)
=============================================================================
