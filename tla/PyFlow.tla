------------------------------- MODULE PyFlow -------------------------------
(***************************************************************************)
(* What the lowering of exceptions promises: Python's rules for how        *)
(* control leaves a nest of functions, loops and try statements.  A        *)
(* statement that does not complete normally produces a completion, and a  *)
(* completion goes, in ONE step, to the innermost construct that           *)
(* intercepts it; an exception nobody intercepts ends the program.  There  *)
(* is no handler chain, no jump buffer and no shared in-flight pointer     *)
(* here: every finally block remembers its own completion.                 *)
(***************************************************************************)
EXTENDS Naturals, Sequences, FiniteSetsExt

CONSTANTS Exc,      \* exceptions, by what the except clauses tell apart
          Stop      \* StopIteration, the one a for-over-iterator swallows

VARIABLES stk,      \* the constructs control is inside, outermost first
          outcome   \* "running", or how the program ended

vars == <<stk, outcome>>

Normal      == [kind |-> "normal"]
Raising(e)  == [kind |-> "raise", exc |-> e]
Exits       == {[kind |-> k] : k \in {"return", "break", "continue"}}

Func        == [kind |-> "func"]
Loop        == [kind |-> "loop"]
Iter(p)     == [kind |-> "iter", phase |-> p]
Try(F, C)   == [kind |-> "try", phase |-> "body", fin |-> F, catches |-> C]
Handler(r)  == [kind |-> "try", phase |-> "handler", fin |-> r.fin]
Finally(c)  == [kind |-> "finally", saved |-> c]

Fresh       == {Func, Loop, Iter("head")}
                 \cup {Try(F, C) : F \in BOOLEAN, C \in SUBSET Exc}

\* The construct r stops completion c on its way out.
Intercepts(r, c) ==
  \/ r.kind = "func" /\ c.kind = "return"
  \/ r.kind = "loop" /\ c.kind \in {"break", "continue"}
  \/ r.kind = "iter" /\ r.phase = "body" /\ c.kind \in {"break", "continue"}
  \/ r.kind = "iter" /\ r.phase = "next" /\ c = Raising(Stop)
  \/ r.kind = "try" /\ r.fin
  \/ r.kind = "try" /\ r.phase = "body" /\ c.kind = "raise" /\ c.exc \in r.catches

\* A call made by an iterator loop hands its value to the loop's body.
Resume(s) ==
  IF s # <<>> /\ s[Len(s)] = Iter("next") THEN [s EXCEPT ![Len(s)] = Iter("body")]
                                          ELSE s

\* What is left when the construct r, inside the constructs s, intercepts c.
Settle(s, r, c) ==
  CASE r.kind = "func" -> Resume(s)
    [] r.kind = "loop" -> IF c.kind = "break" THEN s ELSE Append(s, r)
    [] r.kind = "iter" -> IF c.kind = "continue" THEN Append(s, Iter("head")) ELSE s
    [] r.kind = "try"  ->
         IF r.phase = "body" /\ c.kind = "raise" /\ c.exc \in r.catches
         THEN Append(s, Handler(r))
         ELSE Append(s, Finally(c))

Deliver(s, c) ==
  LET stops == {i \in DOMAIN s : Intercepts(s[i], c)}
      t     == Max(stops)
  IN  IF c = Normal THEN s
      ELSE IF stops = {} THEN <<>>
      ELSE Settle(SubSeq(s, 1, t - 1), s[t], c)

-----------------------------------------------------------------------------
top  == stk[Len(stk)]
rest == SubSeq(stk, 1, Len(stk) - 1)

Running == outcome = "running"

\* An empty stack means that the program is over, by an exception or normally.
Become(s, ended) == /\ stk' = s
                    /\ outcome' = IF s = <<>> THEN ended ELSE "running"

Init == /\ stk = <<Func>>
        /\ outcome = "running"

Enter == Running /\ \E r \in Fresh : Become(Append(stk, r), "done")

CallNext == /\ Running /\ top = Iter("head")
            /\ Become(Append(Append(rest, Iter("next")), Func), "done")

EndBody == /\ Running
           /\ \/ top.kind = "func" /\ Become(Resume(rest), "done")
              \/ top.kind = "loop" /\ Become(rest, "done")
              \/ top = Iter("body") /\ Become(Append(rest, Iter("head")), "done")
              \/ /\ top.kind = "try"
                 /\ Become(IF top.fin THEN Append(rest, Finally(Normal)) ELSE rest, "done")
              \/ top.kind = "finally" /\ Become(Deliver(rest, top.saved), "uncaught")

\* return leaves a called function, break and continue a loop of the running
\* function, and none of them is written inside a finally block.
Legal(c) ==
  \E i \in DOMAIN stk :
    /\ \A j \in i + 1 .. Len(stk) : stk[j].kind \notin {"func", "finally"}
    /\ IF c.kind = "return" THEN stk[i].kind = "func" /\ i > 1
                            ELSE stk[i].kind \in {"loop", "iter"}

Exit == /\ Running
        /\ \E c \in Exits : Legal(c) /\ Become(Deliver(stk, c), "lost")

Raise == Running /\ \E e \in Exc : Become(Deliver(stk, Raising(e)), "uncaught")

Next == Enter \/ CallNext \/ EndBody \/ Exit \/ Raise

Spec == Init /\ [][Next]_vars
=============================================================================
