--------------------------- MODULE ExcRefinement ---------------------------
(***************************************************************************)
(* The lowering implements Python's rules: ExcLowering, seen through the   *)
(* mapping below, is a behaviour of PyFlow.  A raise takes several steps   *)
(* of landing and rethrowing; the mapping shows the construct the          *)
(* exception is heading for from the start, so that the raise is the       *)
(* abstract step and every landing is a stutter that must not change the   *)
(* destination.                                                            *)
(***************************************************************************)
EXTENDS ExcLowering

Rules == INSTANCE PyFlow WITH stk <- <<>>, outcome <- "running"

\* The completion a finally block remembers, from its pending slot.
Saved(r) == CASE r.pending = "fallthrough" -> Rules!Normal
              [] r.pending = "rethrow"     -> Rules!Raising(r.owed)
              [] OTHER                     -> [kind |-> r.pending]

Decode(r) ==
  CASE r.kind = "func"        -> Rules!Func
    [] r.kind = "loop"        -> Rules!Loop
    [] r.kind = "iter"        -> Rules!Iter(r.phase)
    [] r.phase = "finally"    -> Rules!Finally(Saved(r))
    [] r.phase = "handler"    -> Rules!Handler([fin |-> r.fin])
    [] OTHER                  -> Rules!Try(r.fin, r.catches)

Decoded == [i \in 1 .. n |-> Decode(ctx[i])]

mappedStk ==
  IF pc = "land" THEN Rules!Deliver(Decoded, Rules!Raising(spy_exc_inflight))
                 ELSE Decoded

mappedOutcome == IF mappedStk # <<>> THEN "running"
                 ELSE IF pc = "done" THEN "done" ELSE "uncaught"

Flow == INSTANCE PyFlow WITH stk <- mappedStk, outcome <- mappedOutcome

\* Every exception is caught by the innermost construct that wants it, every
\* return, break and continue reaches its function or loop, each of them stops
\* at every finally on its way, and what a finally interrupted is resumed.
ImplementsPython == Flow!Spec
=============================================================================
