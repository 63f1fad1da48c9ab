---------------------------- MODULE ExcLowering ----------------------------
(***************************************************************************)
(* How a compiled spython program leaves blocks: the code emitted by       *)
(* codegen/exceptions.go, codegen/codegen.go and codegen/generators.go     *)
(* for try, raise, return, break, continue and loops, running against the  *)
(* handler chain of runtime/runtime.c.                                     *)
(*                                                                         *)
(* ctx is the nest of constructs control is inside, outermost first, over  *)
(* all active functions.  The buffer of the construct at position i is     *)
(* called i; spy_exc_top and prev hold such positions, 0 for NULL, and     *)
(* like the real buffers they keep their contents when control leaves.  A  *)
(* statement has one buffer, hoisted to its function's entry, and pushes   *)
(* it again whenever control enters the statement again.  A position does  *)
(* not tell whether that happened or two statements were there in turn;    *)
(* it matters only after a jump out of a try body, see Rethrow.            *)
(*                                                                         *)
(* The environment is every program the checker accepts whose generators   *)
(* neither yield nor return inside a try statement: user code may enter a  *)
(* construct, finish, raise or leave at any point.  (A __next__ that gives *)
(* a value is then a function that returns, one that is exhausted a        *)
(* function that raises Stop.)  Features names the program shapes the      *)
(* lowering gets wrong (see README); a shape that is not listed is not     *)
(* taken, so Features = {} is the fragment in which the lowering is        *)
(* correct and each other value exhibits one defect.                       *)
(***************************************************************************)
EXTENDS Naturals, Sequences

CONSTANTS Exc,        \* exceptions, by what the except clauses tell apart
          NoExc,      \* NULL in spy_exc_inflight
          Stop,       \* StopIteration
          MaxDepth,   \* bound on the nesting, over all active functions
          Features    \* program shapes admitted beyond the correct fragment

Shapes == {"exit_try_body",       \* leave the body of a try that has no finally
           "exit_two_finallys",   \* leave, from the inside, with two finallys open
           "handle_in_rethrow"}   \* handle an exception while a finally owes one

ASSUME ExcAssumption == /\ NoExc \notin Exc
                        /\ Stop \in Exc
                        /\ MaxDepth \in Nat \ {0}
                        /\ Features \subseteq Shapes

VARIABLES ctx,                \* constructs control is inside
          spy_exc_top,        \* innermost pushed handler frame
          prev,               \* the prev field of each frame
          spy_exc_inflight,   \* the raised object, while nobody has taken it
          pc                  \* "run" in user code, "land" just after a longjmp

vars == <<ctx, spy_exc_top, prev, spy_exc_inflight, pc>>

Pending == {"fallthrough", "rethrow", "return", "break", "continue"}

\* owed is history: the object in flight when pending became "rethrow".
Region == [kind    : {"func", "loop", "iter", "try"},
           phase   : {"body", "head", "next", "handler", "finally"},
           fin     : BOOLEAN,
           catches : SUBSET Exc,
           pending : Pending,
           owed    : Exc \cup {NoExc}]

Plain(k, p) == [kind |-> k, phase |-> p, fin |-> FALSE, catches |-> {},
                pending |-> "fallthrough", owed |-> NoExc]

Try(F, C)   == [Plain("try", "body") EXCEPT !.fin = F, !.catches = C]

-----------------------------------------------------------------------------
n       == Len(ctx)
here    == ctx[n]
Keep(k) == SubSeq(ctx, 1, k)

\* A construct whose frame the emitted code has pushed and not yet popped.
Armed(r) == \/ r.kind = "try" /\ r.phase = "body"
            \/ r.kind = "try" /\ r.phase = "handler" /\ r.fin
            \/ r.kind = "iter" /\ r.phase = "next"

Innermost(S, i) == i \in S /\ \A j \in S : j <= i

Funcs        == {i \in 1 .. n : ctx[i].kind = "func"}
Loops(f)     == {i \in f + 1 .. n : ctx[i].kind \in {"loop", "iter"}}

\* Mutant: a try whose handler is running no longer counts as open.
OpenFinallysBodyOnly(f) ==
  {i \in f + 1 .. n : ctx[i].kind = "try" /\ ctx[i].fin /\ ctx[i].phase = "body"}

\* g.finallyStack at the running point of the function at f.
OpenFinallys(f) ==
  {i \in f + 1 .. n : ctx[i].kind = "try" /\ ctx[i].fin /\ ctx[i].phase \in {"body", "handler"}}

\* Bodies of try statements without finally that a jump out of k .. n leaves.
BareBodies(k) ==
  {i \in k + 1 .. n : ctx[i].kind = "try" /\ ~ctx[i].fin /\ ctx[i].phase = "body"}

\* A finally block that is running on behalf of an exception.
OwingFinallys == {i \in 1 .. n : ctx[i].phase = "finally" /\ ctx[i].pending = "rethrow"}

UserCode == pc = "run" /\ here.phase # "head"

-----------------------------------------------------------------------------
\* runtime.c: the handler chain.

\* Mutant: the chain is made to start one frame beyond the one filled in.
PushedBeyond(i) == /\ prev' = [prev EXCEPT ![i] = spy_exc_top]
                   /\ spy_exc_top' = i + 1

Pushed(i) == /\ prev' = [prev EXCEPT ![i] = spy_exc_top]
             /\ spy_exc_top' = i

Popped    == IF spy_exc_top = 0 THEN 0 ELSE prev[spy_exc_top]

Pop       == spy_exc_top' = Popped /\ UNCHANGED prev

NoChain   == UNCHANGED <<spy_exc_top, prev>>

\* The end of spy_exc_throw and spy_exc_rethrow: longjmp to frame t while only
\* the first k constructs still want an exception.  A stale landing, in the pad
\* of a block that control has left, is where the model stops: its function may
\* be gone, or the pad runs once more.
LongjmpTo(k, t) ==
  \/ t = 0 /\ pc' = "abort" /\ ctx' = <<>>
  \/ t \in 1 .. k /\ Armed(ctx[t]) /\ pc' = "land" /\ ctx' = Keep(t)
  \/ t # 0 /\ ~(t \in 1 .. k /\ Armed(ctx[t])) /\ pc' = "stale" /\ ctx' = Keep(k)

\* spy_exc_rethrow from the pad of the construct at n, whose own frame has been
\* popped.  A buffer that was pushed while it headed the chain, by one statement
\* entered twice, is its own prev: the pop changes nothing, and its setjmp, which
\* is live, returns to the same pad.
Rethrow(t) == IF t = n THEN UNCHANGED <<ctx, pc>> ELSE LongjmpTo(n - 1, t)

Throw(e)  == spy_exc_inflight' = e /\ LongjmpTo(n, spy_exc_top) /\ NoChain

Goto(s)   == ctx' = s /\ pc' = "run"

\* br finally.entry of the try at i: pop its frame and run the finally block.
GotoFinally(i, r) == Goto(Append(Keep(i - 1), [r EXCEPT !.phase = "finally"])) /\ Pop

\* Mutant: the frame around __next__ stays when it returns a value.
RetNoPop(f) ==
  IF f > 1 /\ ctx[f - 1].kind = "iter" /\ ctx[f - 1].phase = "next"
  THEN Goto(Append(Keep(f - 2), [ctx[f - 1] EXCEPT !.phase = "body"])) /\ NoChain
  ELSE Goto(Keep(f - 1)) /\ NoChain

\* ret from the function at f: a call made by an iterator loop pops its frame.
Ret(f) ==
  IF f > 1 /\ ctx[f - 1].kind = "iter" /\ ctx[f - 1].phase = "next"
  THEN Goto(Append(Keep(f - 2), [ctx[f - 1] EXCEPT !.phase = "body"])) /\ Pop
  ELSE Goto(Keep(f - 1)) /\ NoChain

\* The real label of a break or continue out of the loop at l.
BreakLabel(l)    == Goto(Keep(l - 1))
ContinueLabel(l) ==
  Goto(IF ctx[l].kind = "iter" THEN Append(Keep(l - 1), [ctx[l] EXCEPT !.phase = "head"])
                               ELSE Keep(l))

Label(c, l) == IF c = "break" THEN BreakLabel(l) ELSE ContinueLabel(l)

-----------------------------------------------------------------------------
Init == /\ ctx = <<Plain("func", "body")>>
        /\ spy_exc_top = 0
        /\ prev = [i \in 1 .. MaxDepth |-> 0]
        /\ spy_exc_inflight = NoExc
        /\ pc = "run"

\* Entering constructs.

EnterCall == /\ UserCode /\ n < MaxDepth
             /\ Goto(Append(ctx, Plain("func", "body")))
             /\ NoChain /\ UNCHANGED spy_exc_inflight

EnterLoop == /\ UserCode /\ n < MaxDepth
             /\ Goto(Append(ctx, Plain("loop", "body")))
             /\ NoChain /\ UNCHANGED spy_exc_inflight

MayHandle == OwingFinallys = {} \/ "handle_in_rethrow" \in Features

EnterIterLoop == /\ UserCode /\ n + 1 < MaxDepth /\ MayHandle
                 /\ Goto(Append(ctx, Plain("iter", "head")))
                 /\ NoChain /\ UNCHANGED spy_exc_inflight

\* foriter.head and foriter.try: push the frame and call __next__.
CallNext == /\ pc = "run" /\ here.phase = "head" /\ n < MaxDepth
            /\ Goto(Append(Append(Keep(n - 1), [here EXCEPT !.phase = "next"]),
                           Plain("func", "body")))
            /\ Pushed(n) /\ UNCHANGED spy_exc_inflight

EnterTry(F, C) == /\ UserCode /\ n < MaxDepth
                  /\ F \/ C # {}
                  /\ C = {} \/ MayHandle
                  /\ Goto(Append(ctx, Try(F, C)))
                  /\ Pushed(n + 1) /\ UNCHANGED spy_exc_inflight

\* Leaving them normally.

FuncEnd == /\ UserCode /\ here.kind = "func"
           /\ IF n > 1 THEN Ret(n) ELSE ctx' = <<>> /\ pc' = "done" /\ NoChain
           /\ UNCHANGED spy_exc_inflight

LoopEnd == /\ UserCode /\ here.kind = "loop"
           /\ BreakLabel(n) /\ NoChain /\ UNCHANGED spy_exc_inflight

IterBodyEnd == /\ UserCode /\ here.kind = "iter"
               /\ ContinueLabel(n) /\ NoChain /\ UNCHANGED spy_exc_inflight

\* Mutant: spy_exc_pop is emitted only when there is a finally.
TryBodyEndNoPop ==
  /\ UserCode /\ here.kind = "try" /\ here.phase = "body"
  /\ IF here.fin THEN GotoFinally(n, here) ELSE Goto(Keep(n - 1)) /\ NoChain
  /\ UNCHANGED spy_exc_inflight

TryBodyEnd == /\ UserCode /\ here.kind = "try" /\ here.phase = "body"
              /\ IF here.fin THEN GotoFinally(n, here) ELSE Goto(Keep(n - 1)) /\ Pop
              /\ UNCHANGED spy_exc_inflight

HandlerEnd == /\ UserCode /\ here.kind = "try" /\ here.phase = "handler"
              /\ IF here.fin THEN GotoFinally(n, here) ELSE Goto(Keep(n - 1)) /\ NoChain
              /\ UNCHANGED spy_exc_inflight

\* The switch on pending after a finally body.  break and continue go to the
\* entry of the finally outside this one, whatever lies between, or if there is
\* none to the label of the loop.
FinallyEnd ==
  /\ UserCode /\ here.phase = "finally"
  /\ UNCHANGED spy_exc_inflight
  /\ \/ here.pending = "fallthrough" /\ Goto(Keep(n - 1)) /\ NoChain
     \/ here.pending = "rethrow" /\ LongjmpTo(n, spy_exc_top) /\ NoChain
     \/ here.pending = "return" /\ \E f \in Funcs : Innermost(Funcs, f) /\ Ret(f)
     \/ /\ here.pending \in {"break", "continue"}
        /\ \E f \in Funcs :
             /\ Innermost(Funcs, f)
             /\ \/ \E i \in OpenFinallys(f) :
                     Innermost(OpenFinallys(f), i) /\ GotoFinally(i, ctx[i])
                \/ /\ OpenFinallys(f) = {}
                   /\ \E l \in Loops(f) : /\ Innermost(Loops(f), l)
                                          /\ Label(here.pending, l) /\ NoChain

\* Leaving them by return, break and continue.

\* The checker rejects all three inside a finally block.
MayExit(f) == /\ UserCode
              /\ Innermost(Funcs, f)
              /\ \A i \in f + 1 .. n : ctx[i].phase # "finally"

\* A jump that leaves k + 1 .. n has a shape that is admitted.
Admitted(f, k) ==
  /\ BareBodies(k) = {} \/ "exit_try_body" \in Features
  /\ (\A i, j \in OpenFinallys(f) : i = j) \/ "exit_two_finallys" \in Features

RouteExit(i, code) == GotoFinally(i, [ctx[i] EXCEPT !.pending = code])

Return ==
  \E f \in Funcs \ {1} :
    /\ MayExit(f) /\ Admitted(f, f)
    /\ UNCHANGED spy_exc_inflight
    /\ \/ \E i \in OpenFinallys(f) : Innermost(OpenFinallys(f), i) /\ RouteExit(i, "return")
       \/ OpenFinallys(f) = {} /\ Ret(f)

\* routeExit compares loop labels: the finally takes the exit unless the loop
\* was entered inside its try.
BreakContinue(code) ==
  \E f \in Funcs : \E l \in Loops(f) :
    /\ MayExit(f) /\ Innermost(Loops(f), l)
    /\ UNCHANGED spy_exc_inflight
    /\ \/ \E i \in OpenFinallys(f) :
            /\ Innermost(OpenFinallys(f), i) /\ l < i
            /\ Admitted(f, l)
            /\ RouteExit(i, code)
       \/ /\ \A i \in OpenFinallys(f) : i < l
          /\ BareBodies(l) = {} \/ "exit_try_body" \in Features
          /\ Label(code, l) /\ NoChain

\* Raising, and the places a longjmp arrives at.

Raise == UserCode /\ \E e \in Exc : Throw(e)

\* emitIsInstanceRaw reads the vtable of NULL; only a bare except does without.
NullDispatch ==
  /\ pc = "land" /\ spy_exc_inflight = NoExc
  /\ here.kind = "iter" \/ (here.phase = "body" /\ here.catches # {})
  /\ pc' = "segv" /\ UNCHANGED <<ctx, spy_exc_top, prev, spy_exc_inflight>>

Matches == \/ spy_exc_inflight \in here.catches
           \/ spy_exc_inflight = NoExc /\ here.catches = Exc

\* Mutant: spy_exc_clear is not called before the handler body.
CatchNoClear == /\ pc = "land" /\ here.kind = "try" /\ here.phase = "body"
                /\ Matches
                /\ Goto(Append(Keep(n - 1), [here EXCEPT !.phase = "handler"]))
                /\ UNCHANGED spy_exc_inflight
                /\ IF here.fin THEN NoChain ELSE Pop

\* Mutant: the phase flag is not tested, so an exception that escapes from a
\* handler body is dispatched to the clauses of the same try again.
CatchTwice == /\ pc = "land" /\ here.kind = "try"
              /\ Matches
              /\ Goto(Append(Keep(n - 1), [here EXCEPT !.phase = "handler"]))
              /\ spy_exc_inflight' = NoExc
              /\ IF here.fin THEN NoChain ELSE Pop

\* try.dispatch when a clause matches; the frame stays for a finally.
Catch == /\ pc = "land" /\ here.kind = "try" /\ here.phase = "body"
         /\ Matches
         /\ Goto(Append(Keep(n - 1), [here EXCEPT !.phase = "handler"]))
         /\ spy_exc_inflight' = NoExc
         /\ IF here.fin THEN NoChain ELSE Pop

\* Mutant: the rethrow is emitted without the pop before it.
PassOnNoPop == /\ pc = "land" /\ here.kind = "try" /\ ~here.fin
               /\ ~Matches /\ spy_exc_inflight # NoExc
               /\ LongjmpTo(n, spy_exc_top) /\ NoChain
               /\ UNCHANGED spy_exc_inflight

\* No clause matches and there is no finally: pop, then rethrow.
PassOn == /\ pc = "land" /\ here.kind = "try" /\ ~here.fin
          /\ ~Matches /\ spy_exc_inflight # NoExc
          /\ Pop /\ Rethrow(Popped)
          /\ UNCHANGED spy_exc_inflight

\* No clause matches, or the exception escaped from a handler body.
OweAndFinally == /\ pc = "land" /\ here.kind = "try" /\ here.fin
                 /\ here.phase = "body" =>
                      ~Matches /\ (spy_exc_inflight # NoExc \/ here.catches = {})
                 /\ GotoFinally(n, [here EXCEPT !.pending = "rethrow", !.owed = spy_exc_inflight])
                 /\ UNCHANGED spy_exc_inflight

\* foriter.dispatch: StopIteration ends the loop, anything else goes on.
LandIter == /\ pc = "land" /\ here.kind = "iter" /\ spy_exc_inflight # NoExc
            /\ Pop
            /\ \/ spy_exc_inflight = Stop /\ Goto(Keep(n - 1)) /\ spy_exc_inflight' = NoExc
               \/ /\ spy_exc_inflight # Stop /\ Rethrow(Popped)
                  /\ UNCHANGED spy_exc_inflight

Rethrowing == /\ pc = "land" /\ spy_exc_inflight # NoExc
              /\ \/ here.kind = "try" /\ ~here.fin /\ ~Matches
                 \/ here.kind = "iter" /\ spy_exc_inflight # Stop

\* The other reading of a frame that is its own prev: another statement was at
\* this position before, and the frame on the chain is that one's.
RethrowElsewhere == /\ Rethrowing /\ Popped = n
                    /\ Pop /\ pc' = "stale" /\ ctx' = Keep(n - 1)
                    /\ UNCHANGED spy_exc_inflight

Land == Catch \/ PassOn \/ OweAndFinally \/ LandIter \/ NullDispatch

Ended == pc \in {"done", "abort", "stale", "segv"} /\ UNCHANGED vars

Enter == \/ EnterCall \/ EnterLoop \/ EnterIterLoop \/ CallNext
         \/ \E F \in BOOLEAN, C \in SUBSET Exc : EnterTry(F, C)

End == FuncEnd \/ LoopEnd \/ IterBodyEnd \/ TryBodyEnd \/ HandlerEnd \/ FinallyEnd

Exit == Return \/ \E code \in {"break", "continue"} : BreakContinue(code)

Next == Enter \/ End \/ Exit \/ Raise \/ Land \/ RethrowElsewhere \/ Ended

\* The landing code runs without waiting for anything.  (RethrowElsewhere is the
\* other outcome of a rethrow that Land has already, so it is owed nothing.)
Spec == Init /\ [][Next]_vars /\ WF_vars(Land)

-----------------------------------------------------------------------------
\* Type correctness: every variable holds a value the runtime can represent.
TypeOK == /\ ctx \in Seq(Region) /\ n <= MaxDepth
          /\ spy_exc_top \in 0 .. MaxDepth
          /\ prev \in [1 .. MaxDepth -> 0 .. MaxDepth]
          /\ spy_exc_inflight \in Exc \cup {NoExc}
          /\ pc \in {"run", "land", "done", "abort", "stale", "segv"}

\* p is the innermost armed construct among the first k of s, 0 if none is.
HeadOf(s, k, p) == /\ p \in 0 .. k
                   /\ p # 0 => Armed(s[p])
                   /\ \A j \in 1 .. k : Armed(s[j]) => j <= p

Chain(s, t, p) == /\ HeadOf(s, Len(s), t)
                  /\ \A i \in 1 .. Len(s) : Armed(s[i]) => HeadOf(s, i - 1, p[i])

\* The handler chain of runtime.c holds exactly the frames of the constructs
\* that still want an exception, innermost first: no frame is left behind by a
\* jump, none is popped twice, and every frame's prev is the next one out.
HandlerDiscipline == pc \in {"run", "land"} => Chain(ctx, spy_exc_top, prev)

\* The single spy_exc_inflight is enough: whenever user code runs, the innermost
\* finally that owes an exception finds its own there, and the pointer is NULL
\* when none does.  So the rethrow after a finally body raises the exception
\* that entered it, although calls, raises and handlers ran in between.
InflightIsOwed ==
  /\ pc = "run" => \/ OwingFinallys = {} /\ spy_exc_inflight = NoExc
                   \/ \E i \in OwingFinallys : /\ Innermost(OwingFinallys, i)
                                              /\ spy_exc_inflight = ctx[i].owed
  /\ pc = "land" => spy_exc_inflight # NoExc

\* A try with a finally is never left, by any path and across any number of
\* calls, except through its finally block.
FinallyRuns ==
  [][\A i \in 1 .. n :
       ctx[i].kind = "try" /\ ctx[i].fin /\ ctx[i].phase # "finally"
         => Len(ctx') >= i /\ ctx'[i].kind = "try"]_vars

\* exceptions.go: the pop at the start of the exception path makes a rethrow or a
\* re-raise go "to the parent handler instead of this same try's buffer", on
\* whatever way control got there.  It holds while the chain is exact and fails
\* for exit_try_body, where the head of the chain may then be a frame that control
\* has left, or the same buffer, pushed a second time.
RethrowsOutward == Rethrowing => Popped < n

\* Over any number of landings an exception finds its handler or ends the
\* program; no pads send it round among themselves.  It holds for Features = {}.
\* For exit_try_body it fails: a buffer that is its own prev is rethrown into for
\* ever.
UnwindEnds == (pc = "land") ~> (pc # "land")

\* runtime.h: whoever pushed a frame pops it, so a longjmp never reaches the
\* frame of a block that control has left.  It holds for Features = {} and fails
\* for exit_try_body.
NoStaleLanding == pc # "stale"
=============================================================================
