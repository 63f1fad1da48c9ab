------------------------- MODULE ExcLoweringProofs -------------------------
(***************************************************************************)
(* The handler chain is exact, for every nesting depth and every set of    *)
(* exceptions, as long as return, break and continue are taken in the      *)
(* places where the emitted code keeps the chain right (NoUnarmedExits).   *)
(*                                                                         *)
(* HandlerDiscipline is not inductive: that a return from a finally block  *)
(* leaves no frame behind depends on what lies between the block and its   *)
(* function, which was decided when the return was routed.  Shape records  *)
(* it, together with the form of the nest; every step either cuts the nest *)
(* or replaces what is above a cut by one construct, so two lemmas on cuts *)
(* carry the whole proof.                                                  *)
(*                                                                         *)
(* QInv adds what the finally blocks that are running owe, and with it     *)
(* comes the refinement: the construct at the head of the chain is the     *)
(* innermost one that Python lets intercept an exception, and every jump   *)
(* ends where the language delivers it.                                    *)
(***************************************************************************)
EXTENDS ExcRefinement, SequenceTheorems, WellFoundedInduction, TLAPS

-----------------------------------------------------------------------------
NoUnarmedExits == Features \subseteq {"handle_in_rethrow"}

\* The strengthening.

Calling(r) == r.kind = "iter" /\ r.phase = "next"

Owes(r, code) == r.kind = "try" /\ r.phase = "finally" /\ r.pending = code

Open(r) == r.kind = "try" /\ r.fin /\ r.phase \in {"body", "handler"}

WellFormed(r) == /\ r.kind = "func" => r.phase = "body"
                 /\ r.phase \in {"handler", "finally"} => r.kind = "try"
                 /\ r.phase # "finally" => r.pending = "fallthrough"
                 /\ r.phase \in {"head", "next"} => r.kind = "iter"

\* A function (a loop or a function) begins between j and i.
FuncBetween(s, j, i) == \E m \in j + 1 .. i : s[m].kind = "func"
LoopBetween(s, j, i) == \E m \in j + 1 .. i : s[m].kind \in {"func", "loop", "iter"}

\* The exit that r, a finally above the first k of s, has pending leaves no frame
\* behind and, for break and continue, meets no other finally in its function.
ExitClear(s, k, r) ==
  /\ Owes(r, "return") => /\ FuncBetween(s, 1, k)
                          /\ \A j \in 1 .. k : Armed(s[j]) => FuncBetween(s, j, k)
  /\ Owes(r, "break") \/ Owes(r, "continue") =>
       \A j \in 1 .. k : /\ Armed(s[j]) => LoopBetween(s, j, k)
                         /\ Open(s[j]) => FuncBetween(s, j, k)

Shape(s) ==
  /\ Len(s) >= 1 /\ s[1].kind = "func"
  /\ \A i \in 1 .. Len(s) : /\ WellFormed(s[i])
                            /\ ExitClear(s, i - 1, s[i])
  /\ \A i \in 1 .. Len(s) - 1 : Calling(s[i]) => s[i + 1].kind = "func"

\* A longjmp arrives at the head of the chain; a loop that waits for __next__
\* does not run.
LandsOnTop == /\ pc = "land" => spy_exc_top = n /\ Armed(here)
              /\ pc = "run" => ~Calling(here)

\* The inductive invariant.
IInv == /\ TypeOK
        /\ HandlerDiscipline
        /\ pc \in {"run", "land"} => Shape(ctx)
        /\ LandsOnTop

-----------------------------------------------------------------------------
\* Lemmas on cuts.  t is s cut to its first k elements, or that with one more.

Cut(s, t, k) == k \in 0 .. Len(s) /\ \A i \in 1 .. k : t[i] = s[i]

\* SubSeq and Append, as the actions use them.
LEMMA KeepFacts ==
  ASSUME NEW S, NEW s \in Seq(S), NEW k \in 0 .. Len(s)
  PROVE  /\ SubSeq(s, 1, k) \in Seq(S)
         /\ Len(SubSeq(s, 1, k)) = k
         /\ Cut(s, SubSeq(s, 1, k), k)
<1>1. \A i \in 1 .. k : s[i] \in S
  BY ElementOfSeq
<1>2. Len(s) \in Nat
  BY LenProperties
<1> QED BY <1>1, <1>2, SubSeqProperties DEF Cut

LEMMA PutFacts ==
  ASSUME NEW S, NEW s \in Seq(S), NEW k \in 0 .. Len(s), NEW r \in S
  PROVE  /\ Append(SubSeq(s, 1, k), r) \in Seq(S)
         /\ Len(Append(SubSeq(s, 1, k), r)) = k + 1
         /\ Append(SubSeq(s, 1, k), r)[k + 1] = r
         /\ Cut(s, Append(SubSeq(s, 1, k), r), k)
<1> DEFINE u == SubSeq(s, 1, k)
<1>1. u \in Seq(S) /\ Len(u) = k /\ Cut(s, u, k)
  BY KeepFacts
<1>2. /\ Append(u, r) \in Seq(S)
      /\ Len(Append(u, r)) = Len(u) + 1
      /\ \A i \in 1 .. Len(u) : Append(u, r)[i] = u[i]
      /\ Append(u, r)[Len(u) + 1] = r
  BY <1>1, AppendProperties
<1> QED BY <1>1, <1>2 DEF Cut

\* Nothing armed above k: the head among the first m is the head among the
\* first k.
LEMMA HeadBelow ==
  ASSUME NEW s, NEW m \in Nat, NEW k \in 0 .. m, NEW p,
         HeadOf(s, m, p), \A j \in k + 1 .. m : ~Armed(s[j])
  PROVE  HeadOf(s, k, p)
BY DEF HeadOf

\* HeadOf depends on the first k elements only.
LEMMA HeadOfCut ==
  ASSUME NEW s, NEW t, NEW k, Cut(s, t, k), NEW p, HeadOf(s, k, p), k \in Nat
  PROVE  HeadOf(t, k, p)
BY DEF HeadOf, Cut

\* Cutting the nest keeps the chain, once its head is the head of the rest.
LEMMA ChainCut ==
  ASSUME NEW s, NEW t, NEW k \in Nat, NEW u, NEW p, NEW h,
         Len(s) \in Nat, Cut(s, t, k), Len(t) = k,
         Chain(s, h, p), HeadOf(s, k, u)
  PROVE  Chain(t, u, p)
<1>1. HeadOf(t, Len(t), u)
  BY HeadOfCut
<1>2. ASSUME NEW i \in 1 .. Len(t), Armed(t[i]) PROVE HeadOf(t, i - 1, p[i])
  <2>1. HeadOf(s, i - 1, p[i]) /\ Cut(s, t, i - 1) /\ i - 1 \in Nat
    BY <1>2 DEF Chain, Cut
  <2> QED BY <2>1, HeadOfCut
<1> QED BY <1>1, <1>2 DEF Chain

\* Putting one construct above a cut: if it is not armed the head stays.
LEMMA ChainPut ==
  ASSUME NEW s, NEW t, NEW k \in Nat, NEW u, NEW p, NEW h,
         Len(s) \in Nat, Cut(s, t, k), Len(t) = k + 1, ~Armed(t[k + 1]),
         Chain(s, h, p), HeadOf(s, k, u)
  PROVE  Chain(t, u, p)
<1>1. HeadOf(t, k, u)
  BY HeadOfCut
<1>2. HeadOf(t, Len(t), u)
  BY <1>1 DEF HeadOf
<1>3. ASSUME NEW i \in 1 .. Len(t), Armed(t[i]) PROVE HeadOf(t, i - 1, p[i])
  <2>1. i \in 1 .. k
    BY <1>3
  <2>2. HeadOf(s, i - 1, p[i]) /\ Cut(s, t, i - 1) /\ i - 1 \in Nat
    BY <1>3, <2>1 DEF Chain, Cut
  <2> QED BY <2>2, HeadOfCut
<1> QED BY <1>2, <1>3 DEF Chain

\* If it is armed it is the new head, and its prev must be the old one.
LEMMA ChainPutArmed ==
  ASSUME NEW s, NEW t, NEW k \in Nat, NEW p, NEW q, NEW h,
         Len(s) \in Nat, Cut(s, t, k), Len(t) = k + 1, Armed(t[k + 1]),
         Chain(s, h, p), HeadOf(s, k, q[k + 1]),
         \A i \in 1 .. k : q[i] = p[i]
  PROVE  Chain(t, k + 1, q)
<1>1. HeadOf(t, k, q[k + 1])
  BY HeadOfCut
<1>2. HeadOf(t, Len(t), k + 1)
  BY DEF HeadOf
<1>3. ASSUME NEW i \in 1 .. Len(t), Armed(t[i]) PROVE HeadOf(t, i - 1, q[i])
  <2>1. CASE i = k + 1
    BY <1>1, <2>1
  <2>2. CASE i \in 1 .. k
    <3>1. HeadOf(s, i - 1, p[i]) /\ Cut(s, t, i - 1) /\ i - 1 \in Nat
      BY <1>3, <2>2 DEF Chain, Cut
    <3> QED BY <3>1, <2>2, HeadOfCut
  <2> QED BY <2>1, <2>2
<1> QED BY <1>2, <1>3 DEF Chain

\* The same for Shape.
LEMMA ExitClearCut ==
  ASSUME NEW s, NEW t, NEW k \in Nat, Cut(s, t, k), NEW r, ExitClear(s, k, r)
  PROVE  ExitClear(t, k, r)
<1>1. \A j \in 1 .. k : t[j] = s[j]
  BY DEF Cut
<1>2. \A j \in 1 .. k + 1 : /\ FuncBetween(s, j, k) => FuncBetween(t, j, k)
                            /\ LoopBetween(s, j, k) => LoopBetween(t, j, k)
  BY <1>1 DEF FuncBetween, LoopBetween
<1> QED BY <1>1, <1>2 DEF ExitClear

LEMMA ShapeCut ==
  ASSUME NEW s, NEW t, NEW k \in Nat \ {0},
         Len(s) \in Nat, Cut(s, t, k), Len(t) = k, Shape(s)
  PROVE  Shape(t)
<1>1. k <= Len(s) /\ \A i \in 1 .. k : t[i] = s[i]
  BY DEF Cut
<1>2. ASSUME NEW i \in 1 .. k PROVE WellFormed(t[i]) /\ ExitClear(t, i - 1, t[i])
  <2>1. Cut(s, t, i - 1) /\ i - 1 \in Nat /\ t[i] = s[i]
    BY <1>1 DEF Cut
  <2>2. WellFormed(s[i]) /\ ExitClear(s, i - 1, s[i])
    BY <1>1 DEF Shape
  <2> QED BY <2>1, <2>2, ExitClearCut
<1>3. \A i \in 1 .. k - 1 : Calling(t[i]) => t[i + 1].kind = "func"
  BY <1>1 DEF Shape
<1>4. t[1].kind = "func"
  BY <1>1 DEF Shape
<1> QED BY <1>2, <1>3, <1>4 DEF Shape

LEMMA ShapePut ==
  ASSUME NEW s, NEW t, NEW k \in Nat,
         Len(s) \in Nat, Cut(s, t, k), Len(t) = k + 1, Shape(s),
         WellFormed(t[k + 1]), ExitClear(s, k, t[k + 1]),
         k = 0 \/ Calling(s[k]) => t[k + 1].kind = "func"
  PROVE  Shape(t)
<1>1. k <= Len(s) /\ \A i \in 1 .. k : t[i] = s[i]
  BY DEF Cut
<1>2. ASSUME NEW i \in 1 .. k PROVE WellFormed(t[i]) /\ ExitClear(t, i - 1, t[i])
  <2>1. Cut(s, t, i - 1) /\ i - 1 \in Nat /\ t[i] = s[i]
    BY <1>1 DEF Cut
  <2>2. WellFormed(s[i]) /\ ExitClear(s, i - 1, s[i])
    BY <1>1 DEF Shape
  <2> QED BY <2>1, <2>2, ExitClearCut
<1>3. \A i \in 1 .. k - 1 : Calling(t[i]) => t[i + 1].kind = "func"
  BY <1>1 DEF Shape
<1>4. t[1].kind = "func"
  BY <1>1 DEF Shape
<1>5. k >= 1 => t[k] = s[k]
  BY <1>1
<1>6. \A i \in 1 .. k : Calling(t[i]) => t[i + 1].kind = "func"
  BY <1>3, <1>5
<1>7. ExitClear(t, k, t[k + 1])
  BY ExitClearCut
<1> QED BY <1>2, <1>4, <1>6, <1>7 DEF Shape

-----------------------------------------------------------------------------
\* What the steps have in common.

\* The invariant, as the lemmas on cuts use it.
LEMMA Now ==
  ASSUME IInv, pc \in {"run", "land"}
  PROVE  /\ ctx \in Seq(Region) /\ n \in Nat \ {0} /\ n <= MaxDepth
         /\ n = Len(ctx) /\ Len(ctx) \in Nat
         /\ \A i \in 1 .. n : ctx[i] \in Region
         /\ Chain(ctx, spy_exc_top, prev)
         /\ Shape(ctx)
<1>1. ctx \in Seq(Region) /\ n <= MaxDepth
  BY DEF IInv, TypeOK
<1>2. Shape(ctx) /\ Chain(ctx, spy_exc_top, prev)
  BY DEF IInv, HandlerDiscipline
<1>3. n \in Nat
  BY <1>1, LenProperties DEF n
<1>4. \A i \in 1 .. n : ctx[i] \in Region
  BY <1>1, ElementOfSeq DEF n
<1> QED BY <1>1, <1>2, <1>3, <1>4 DEF n, Shape

\* A step that cuts the nest at k and goes on with user code.
LEMMA CutStep ==
  ASSUME IInv, pc \in {"run", "land"}, NEW k \in 1 .. n,
         ctx' = Keep(k), pc' = "run", prev' = prev,
         HeadOf(ctx, k, spy_exc_top'), ~Calling(ctx[k]),
         spy_exc_inflight' \in Exc \cup {NoExc}
  PROVE  IInv'
<1> USE ExcAssumption
<1>1. /\ ctx \in Seq(Region) /\ n \in Nat \ {0} /\ n <= MaxDepth
      /\ n = Len(ctx) /\ Len(ctx) \in Nat
      /\ Chain(ctx, spy_exc_top, prev) /\ Shape(ctx)
  BY Now
<1>2. ctx' \in Seq(Region) /\ Len(ctx') = k /\ Cut(ctx, ctx', k)
  BY <1>1, KeepFacts DEF Keep
<1>3. Chain(ctx', spy_exc_top', prev')
  BY <1>1, <1>2, ChainCut
<1>4. Shape(ctx')
  BY <1>1, <1>2, ShapeCut
<1>5. TypeOK'
  BY <1>1, <1>2 DEF IInv, TypeOK, n, HeadOf
<1>6. ~Calling(here')
  BY <1>1, <1>2 DEF here, n, Cut, Calling, Armed
<1> QED BY <1>3, <1>4, <1>5, <1>6 DEF IInv, HandlerDiscipline, LandsOnTop

\* A step that puts r, not armed, above a cut at k.
LEMMA PutStep ==
  ASSUME IInv, pc \in {"run", "land"}, NEW k \in 0 .. n, NEW r \in Region,
         ctx' = Append(Keep(k), r), pc' = "run", prev' = prev, k < MaxDepth,
         HeadOf(ctx, k, spy_exc_top'), ~Armed(r), WellFormed(r),
         k = 0 \/ Calling(ctx[k]) => r.kind = "func",
         ExitClear(ctx, k, r),
         spy_exc_inflight' \in Exc \cup {NoExc}
  PROVE  IInv'
<1> USE ExcAssumption
<1>1. /\ ctx \in Seq(Region) /\ n \in Nat \ {0} /\ n <= MaxDepth
      /\ n = Len(ctx) /\ Len(ctx) \in Nat
      /\ Chain(ctx, spy_exc_top, prev) /\ Shape(ctx)
  BY Now
<1>2. /\ ctx' \in Seq(Region) /\ Len(ctx') = k + 1 /\ Cut(ctx, ctx', k)
      /\ ctx'[k + 1] = r
  BY <1>1, PutFacts DEF Keep
<1>a. /\ k \in Nat
      /\ ~Armed(ctx'[k + 1]) /\ WellFormed(ctx'[k + 1])
      /\ k = 0 \/ Calling(ctx[k]) => ctx'[k + 1].kind = "func"
      /\ ExitClear(ctx, k, ctx'[k + 1])
  BY <1>1, <1>2
<1>3. Chain(ctx', spy_exc_top', prev')
  BY <1>1, <1>2, <1>a, ChainPut
<1>4. Shape(ctx')
  BY <1>1, <1>2, <1>a, ShapePut
<1>5. TypeOK'
  BY <1>1, <1>2 DEF IInv, TypeOK, n, HeadOf
<1>6. ~Calling(here')
  BY <1>1, <1>2 DEF here, n, Cut, Calling, Armed
<1> QED BY <1>3, <1>4, <1>5, <1>6 DEF IInv, HandlerDiscipline, LandsOnTop

\* A step that puts a try, armed, above a cut at k.
LEMMA PutArmedStep ==
  ASSUME IInv, pc \in {"run", "land"}, NEW k \in 1 .. n, NEW r \in Region,
         ctx' = Append(Keep(k), r), pc' = "run", k < MaxDepth,
         spy_exc_top' = k + 1, prev' \in [1 .. MaxDepth -> 0 .. MaxDepth],
         \A i \in 1 .. k : prev'[i] = prev[i],
         HeadOf(ctx, k, prev'[k + 1]),
         Armed(r), WellFormed(r), r.kind = "try", ~Calling(ctx[k]),
         spy_exc_inflight' \in Exc \cup {NoExc}
  PROVE  IInv'
<1> USE ExcAssumption
<1>1. /\ ctx \in Seq(Region) /\ n \in Nat \ {0} /\ n <= MaxDepth
      /\ n = Len(ctx) /\ Len(ctx) \in Nat
      /\ Chain(ctx, spy_exc_top, prev) /\ Shape(ctx)
  BY Now
<1>2. /\ ctx' \in Seq(Region) /\ Len(ctx') = k + 1 /\ Cut(ctx, ctx', k)
      /\ ctx'[k + 1] = r
  BY <1>1, PutFacts DEF Keep
<1>a. k \in Nat /\ Armed(ctx'[k + 1]) /\ WellFormed(ctx'[k + 1])
  BY <1>1, <1>2
<1>b. k = 0 \/ Calling(ctx[k]) => ctx'[k + 1].kind = "func"
  BY <1>1
<1>3. Chain(ctx', spy_exc_top', prev')
  BY <1>1, <1>2, <1>a, ChainPutArmed
<1>4. ExitClear(ctx, k, ctx'[k + 1])
  BY <1>2 DEF ExitClear, Owes, Armed
<1>5. Shape(ctx')
  BY <1>1, <1>2, <1>4, <1>a, <1>b, ShapePut
<1>6. TypeOK'
  BY <1>1, <1>2 DEF IInv, TypeOK, n
<1>7. ~Calling(here')
  BY <1>1, <1>2 DEF here, n, Calling
<1> QED BY <1>3, <1>5, <1>6, <1>7 DEF IInv, HandlerDiscipline, LandsOnTop

\* A longjmp to the head of what is left never finds a dead frame.
LEMMA JumpStep ==
  ASSUME IInv, pc \in {"run", "land"}, NEW k \in 0 .. n,
         LongjmpTo(k, spy_exc_top'), prev' = prev,
         HeadOf(ctx, k, spy_exc_top'),
         spy_exc_inflight' \in Exc \cup {NoExc}
  PROVE  IInv' /\ pc' \in {"land", "abort"}
<1> USE ExcAssumption
<1> DEFINE t == spy_exc_top'
<1>1. /\ ctx \in Seq(Region) /\ n \in Nat \ {0} /\ n <= MaxDepth
      /\ n = Len(ctx) /\ Len(ctx) \in Nat
      /\ Chain(ctx, spy_exc_top, prev) /\ Shape(ctx)
  BY Now
<1>2. CASE t = 0
  <2>1. pc' = "abort" /\ ctx' = <<>>
    BY <1>2 DEF LongjmpTo
  <2>2. ctx' \in Seq(Region) /\ Len(ctx') = 0
    BY <2>1, EmptySeq
  <2>3. TypeOK'
    BY <1>1, <1>2, <2>1, <2>2 DEF IInv, TypeOK, n
  <2> QED BY <2>1, <2>3 DEF IInv, HandlerDiscipline, LandsOnTop
<1>3. CASE t # 0
  <2>1. t \in 1 .. k /\ Armed(ctx[t]) /\ t \in 1 .. n
    BY <1>1, <1>3 DEF HeadOf
  <2>2. pc' = "land" /\ ctx' = Keep(t)
    BY <1>3, <2>1 DEF LongjmpTo
  <2>a. t \in 0 .. Len(ctx) /\ ctx' = SubSeq(ctx, 1, t)
    BY <1>1, <2>1, <2>2 DEF Keep
  <2>3. ctx' \in Seq(Region) /\ Len(ctx') = t /\ Cut(ctx, ctx', t)
    BY ONLY <1>1, <2>a, KeepFacts
  <2>4. HeadOf(ctx, t, t)
    BY <2>1 DEF HeadOf
  <2>5. Chain(ctx', t, prev')
    BY <1>1, <2>1, <2>3, <2>4, ChainCut
  <2>6. Shape(ctx')
    BY <1>1, <2>1, <2>3, ShapeCut
  <2>7. Armed(ctx'[t])
    BY <2>1, <2>3 DEF Cut
  <2>8. TypeOK'
    BY <1>1, <2>1, <2>2, <2>3 DEF IInv, TypeOK, n
  <2> QED BY <2>2, <2>3, <2>5, <2>6, <2>7, <2>8 DEF IInv, HandlerDiscipline, LandsOnTop, here, n
<1> QED BY <1>2, <1>3

\* The frame of the innermost armed construct is the one a pop removes.
LEMMA PopsTheInnermost ==
  ASSUME IInv, pc \in {"run", "land"}, NEW i \in 1 .. n, Armed(ctx[i]),
         \A j \in i + 1 .. n : ~Armed(ctx[j])
  PROVE  spy_exc_top = i /\ HeadOf(ctx, i - 1, Popped)
<1>1. n \in Nat
  BY Now
<1>2. HeadOf(ctx, n, spy_exc_top) /\ HeadOf(ctx, i - 1, prev[i])
  BY Now DEF Chain
<1>3. spy_exc_top = i
  BY <1>1, <1>2 DEF HeadOf
<1> QED BY <1>2, <1>3 DEF Popped

LEMMA BelowNotCalling ==
  ASSUME IInv, pc \in {"run", "land"}, NEW i \in 2 .. n, ctx[i].kind # "func"
  PROVE  i - 1 \in 1 .. n /\ ~Calling(ctx[i - 1])
<1>1. n \in Nat /\ n = Len(ctx) /\ Shape(ctx)
  BY Now
<1>2. i - 1 \in 1 .. Len(ctx) - 1 /\ (i - 1) + 1 = i
  BY <1>1
<1> QED BY <1>1, <1>2 DEF Shape

\* Whatever is not the main program has something below it.
LEMMA AboveMain ==
  ASSUME IInv, pc \in {"run", "land"}, NEW i \in 1 .. n, ctx[i].kind # "func"
  PROVE  i \in 2 .. n
BY Now DEF Shape

\* br finally.entry: the frame on top is the one of the try that owns the finally.
LEMMA FinallyStep ==
  ASSUME IInv, pc \in {"run", "land"}, NEW i \in 1 .. n, ctx[i].kind = "try",
         Armed(ctx[i]), \A j \in i + 1 .. n : ~Armed(ctx[j]),
         NEW r \in Region, r.kind = "try",
         GotoFinally(i, r), ExitClear(ctx, i - 1, [r EXCEPT !.phase = "finally"]),
         spy_exc_inflight' \in Exc \cup {NoExc}
  PROVE  IInv'
<1> DEFINE q == [r EXCEPT !.phase = "finally"]
<1>1. i \in 2 .. n /\ n \in Nat /\ n <= MaxDepth /\ MaxDepth \in Nat
  BY Now, AboveMain, ExcAssumption
<1>2. i - 1 \in 0 .. n /\ (i - 1) + 1 = i /\ i - 1 # 0 /\ i - 1 < MaxDepth
  BY <1>1
<1>3. ~Calling(ctx[i - 1])
  BY <1>1, BelowNotCalling
<1>4. HeadOf(ctx, i - 1, Popped)
  BY PopsTheInnermost
<1>5. q \in Region /\ q.kind = "try" /\ q.phase = "finally"
  BY DEF Region
<1>6. ~Armed(q) /\ WellFormed(q)
  BY <1>5 DEF Armed, WellFormed
<1>7. /\ ctx' = Append(Keep(i - 1), q) /\ pc' = "run"
      /\ prev' = prev /\ spy_exc_top' = Popped
  BY DEF GotoFinally, Goto, Pop
<1> QED BY <1>2, <1>3, <1>4, <1>5, <1>6, <1>7, PutStep

\* ret: nothing of the function is left on the chain.
LEMMA RetStep ==
  ASSUME IInv, pc = "run", NEW f \in 2 .. n, ctx[f].kind = "func",
         \A j \in f + 1 .. n : ~Armed(ctx[j]), Ret(f),
         spy_exc_inflight' \in Exc \cup {NoExc}
  PROVE  IInv'
<1>1. /\ n \in Nat /\ n <= MaxDepth /\ MaxDepth \in Nat /\ n = Len(ctx)
      /\ Shape(ctx) /\ HeadOf(ctx, n, spy_exc_top)
      /\ \A i \in 1 .. n : ctx[i] \in Region
  BY Now, ExcAssumption DEF Chain
<1>2. \A j \in f .. n : ~Armed(ctx[j])
  BY DEF Armed
<1>3. CASE Calling(ctx[f - 1])
  <2> DEFINE r == [ctx[f - 1] EXCEPT !.phase = "body"]
  <2>1. /\ f - 1 \in 1 .. n /\ Armed(ctx[f - 1])
        /\ \A j \in (f - 1) + 1 .. n : ~Armed(ctx[j])
    BY <1>1, <1>2, <1>3 DEF Armed, Calling
  <2>2. HeadOf(ctx, (f - 1) - 1, Popped)
    BY <2>1, PopsTheInnermost
  <2>3. f - 1 \in 2 .. n
    BY <1>3, <2>1, AboveMain DEF Calling
  <2>4. ~Calling(ctx[(f - 1) - 1])
    BY <1>3, <2>3, BelowNotCalling DEF Calling
  <2>5. /\ f - 2 \in 0 .. n /\ f - 2 # 0 /\ f - 2 < MaxDepth /\ f - 2 = (f - 1) - 1
    BY <1>1, <2>3
  <2>6. ctx[f - 1] \in Region /\ WellFormed(ctx[f - 1])
    BY <1>1, <2>1 DEF Shape
  <2>7. /\ r \in Region /\ r.kind = "iter" /\ r.phase = "body"
        /\ r.pending = "fallthrough"
    BY <1>3, <2>6 DEF Region, WellFormed, Calling
  <2>8. ~Armed(r) /\ WellFormed(r) /\ ExitClear(ctx, f - 2, r)
    BY <2>7 DEF Armed, WellFormed, ExitClear, Owes
  <2>9. /\ ctx' = Append(Keep(f - 2), r) /\ pc' = "run"
        /\ prev' = prev /\ spy_exc_top' = Popped
    BY <1>3 DEF Ret, Goto, Pop, Calling
  <2> QED BY <2>2, <2>4, <2>5, <2>7, <2>8, <2>9, PutStep
<1>4. CASE ~Calling(ctx[f - 1])
  <2>1. f - 1 \in 1 .. n /\ \A j \in (f - 1) + 1 .. n : ~Armed(ctx[j])
    BY <1>1, <1>2
  <2>2. ctx' = Keep(f - 1) /\ pc' = "run" /\ spy_exc_top' = spy_exc_top /\ prev' = prev
    BY <1>4 DEF Ret, Goto, NoChain, Calling
  <2>3. HeadOf(ctx, f - 1, spy_exc_top)
    BY <1>1, <2>1, HeadBelow
  <2> QED BY <1>4, <2>1, <2>2, <2>3, CutStep
<1> QED BY <1>3, <1>4

\* br to the label of a loop: nothing of the loop is left on the chain.
LEMMA LabelStep ==
  ASSUME IInv, pc = "run", NEW l \in 1 .. n, ctx[l].kind \in {"loop", "iter"},
         \A j \in l .. n : ~Armed(ctx[j]), NEW c, Label(c, l), NoChain,
         spy_exc_inflight' \in Exc \cup {NoExc}
  PROVE  IInv'
<1>1. /\ n \in Nat /\ n <= MaxDepth /\ MaxDepth \in Nat /\ n = Len(ctx)
      /\ Shape(ctx) /\ HeadOf(ctx, n, spy_exc_top)
      /\ \A i \in 1 .. n : ctx[i] \in Region
  BY Now, ExcAssumption DEF Chain
<1>2. l \in 2 .. n /\ l - 1 \in 1 .. n /\ ~Calling(ctx[l - 1])
  BY AboveMain, BelowNotCalling
<1>3. spy_exc_top' = spy_exc_top /\ prev' = prev
  BY DEF NoChain
<1>4. HeadOf(ctx, l - 1, spy_exc_top') /\ HeadOf(ctx, l, spy_exc_top')
  BY <1>1, <1>2, <1>3, HeadBelow
<1>5. CASE BreakLabel(l)
  BY <1>2, <1>3, <1>4, <1>5, CutStep DEF BreakLabel, Goto
<1>6. CASE ContinueLabel(l) /\ ctx[l].kind = "loop"
  <2>1. ctx' = Keep(l) /\ pc' = "run" /\ ~Calling(ctx[l])
    BY <1>6 DEF ContinueLabel, Goto, Calling
  <2> QED BY <1>3, <1>4, <2>1, CutStep
<1>7. CASE ContinueLabel(l) /\ ctx[l].kind = "iter"
  <2> DEFINE r == [ctx[l] EXCEPT !.phase = "head"]
  <2>1. ctx' = Append(Keep(l - 1), r) /\ pc' = "run"
    BY <1>7 DEF ContinueLabel, Goto
  <2>2. ctx[l] \in Region /\ WellFormed(ctx[l])
    BY <1>1 DEF Shape
  <2>3. r \in Region /\ r.kind = "iter" /\ r.phase = "head" /\ r.pending = "fallthrough"
    BY <1>7, <2>2 DEF Region, WellFormed
  <2>4. ~Armed(r) /\ WellFormed(r) /\ ExitClear(ctx, l - 1, r)
    BY <2>3 DEF Armed, WellFormed, ExitClear, Owes
  <2>5. l - 1 \in 0 .. n /\ l - 1 # 0 /\ l - 1 < MaxDepth
    BY <1>1, <1>2
  <2> QED BY <1>2, <1>3, <1>4, <2>1, <2>3, <2>4, <2>5, PutStep
<1> QED BY <1>5, <1>6, <1>7 DEF Label

\* While user code runs, an armed construct of the running function is a try:
\* one with a finally, or the body of one without.
LEMMA ArmedHere ==
  ASSUME IInv, pc = "run", NEW f \in 1 .. n, Innermost(Funcs, f),
         NEW j \in f + 1 .. n, Armed(ctx[j])
  PROVE  \/ j \in OpenFinallys(f) /\ Open(ctx[j])
         \/ ctx[j].kind = "try" /\ ~ctx[j].fin /\ ctx[j].phase = "body"
<1>1. n \in Nat /\ n = Len(ctx) /\ Shape(ctx) /\ ctx[j] \in Region
  BY Now
<1>2. ~Calling(ctx[j])
  <2>1. CASE j = n
    BY <2>1 DEF IInv, LandsOnTop, here
  <2>2. CASE j < n
    <3>1. j \in 1 .. Len(ctx) - 1 /\ j + 1 \in 1 .. n /\ j + 1 > f
      BY <1>1, <2>2
    <3>2. ctx[j + 1].kind # "func"
      BY <3>1 DEF Innermost, Funcs
    <3> QED BY <1>1, <3>1, <3>2 DEF Shape
  <2> QED BY <1>1, <2>1, <2>2
<1>3. ctx[j].fin \in BOOLEAN
  BY <1>1 DEF Region
<1> QED BY <1>2, <1>3 DEF Armed, Calling, OpenFinallys, Open

-----------------------------------------------------------------------------
\* One lemma per group of actions.

LEMMA EnterPreserves ==
  ASSUME IInv, Enter
  PROVE  IInv'
<1> USE ExcAssumption
<1>1. pc \in {"run", "land"}
  BY DEF Enter, EnterCall, EnterLoop, EnterIterLoop, CallNext, EnterTry, UserCode
<1>2. /\ n \in Nat \ {0} /\ n <= MaxDepth /\ n = Len(ctx) /\ ctx \in Seq(Region)
      /\ Shape(ctx) /\ Chain(ctx, spy_exc_top, prev) /\ HeadOf(ctx, n, spy_exc_top)
      /\ n \in 1 .. n /\ here \in Region /\ n \in 0 .. n
  BY <1>1, Now DEF Chain, here
<1>3. Keep(n) = ctx
  BY <1>2, SubSeqFull DEF Keep
<1>4. prev \in [1 .. MaxDepth -> 0 .. MaxDepth] /\ spy_exc_inflight \in Exc \cup {NoExc}
      /\ spy_exc_top \in 0 .. MaxDepth
  BY DEF IInv, TypeOK
<1>5. pc = "run" => ~Calling(ctx[n])
  BY DEF IInv, LandsOnTop, here
<1>6. ASSUME NEW k \in {"func", "loop", "iter"}, NEW p \in {"body", "head"},
             k = "iter" <=> p = "head", pc = "run", n < MaxDepth,
             Goto(Append(ctx, Plain(k, p))), NoChain,
             spy_exc_inflight' = spy_exc_inflight
      PROVE  IInv'
  <2> DEFINE r == Plain(k, p)
  <2>1. r \in Region /\ r.kind = k /\ r.phase = p /\ r.pending = "fallthrough"
    BY DEF Plain, Region, Pending
  <2>2. ~Armed(r) /\ WellFormed(r) /\ ExitClear(ctx, n, r)
    BY <1>6, <2>1 DEF Armed, WellFormed, ExitClear, Owes
  <2>3. /\ ctx' = Append(Keep(n), r) /\ pc' = "run"
        /\ prev' = prev /\ spy_exc_top' = spy_exc_top
    BY <1>3, <1>6 DEF Goto, NoChain
  <2>4. HeadOf(ctx, n, spy_exc_top') /\ spy_exc_inflight' \in Exc \cup {NoExc} /\ n # 0
    BY <1>2, <1>4, <1>6, <2>3
  <2> QED BY <1>1, <1>2, <1>5, <1>6, <2>1, <2>2, <2>3, <2>4, PutStep
<1>7. CASE EnterCall
  BY <1>6, <1>7 DEF EnterCall, UserCode
<1>8. CASE EnterLoop
  BY <1>6, <1>8 DEF EnterLoop, UserCode
<1>9. CASE EnterIterLoop
  <2>1. n < MaxDepth
    BY <1>2, <1>9 DEF EnterIterLoop
  <2> QED BY <1>6, <1>9, <2>1 DEF EnterIterLoop, UserCode
<1>10. CASE CallNext
  <2> DEFINE r == [here EXCEPT !.phase = "next"]
             g == Plain("func", "body")
             t == Append(Keep(n - 1), r)
  <2>1. here.phase = "head" /\ WellFormed(here) /\ n < MaxDepth
    BY <1>2, <1>10 DEF CallNext, Shape, here
  <2>2. /\ r \in Region /\ r.kind = "iter" /\ r.phase = "next" /\ r.pending = "fallthrough"
        /\ g \in Region /\ g.kind = "func" /\ g.phase = "body" /\ g.pending = "fallthrough"
    BY <1>2, <2>1 DEF Region, WellFormed, Plain, Pending
  <2>3. ~Armed(here) /\ here.kind = "iter"
    BY <2>1 DEF Armed, WellFormed
  <2>4. n \in 2 .. n /\ n - 1 \in 1 .. n /\ ~Calling(ctx[n - 1])
    BY <1>1, <1>2, <2>3, AboveMain, BelowNotCalling DEF here
  <2>5. /\ t \in Seq(Region) /\ Len(t) = n /\ Cut(ctx, t, n - 1) /\ t[n] = r
    <3>1. n - 1 \in 0 .. Len(ctx) /\ (n - 1) + 1 = n
      BY <1>2
    <3>2. r \in Region
      BY <2>2
    <3> HIDE DEF r
    <3>3. /\ t \in Seq(Region) /\ Len(t) = (n - 1) + 1 /\ t[(n - 1) + 1] = r
          /\ Cut(ctx, t, n - 1)
      BY <1>2, <3>1, <3>2, PutFacts DEF Keep
    <3> QED BY <3>1, <3>3
  <2>6. HeadOf(ctx, n - 1, spy_exc_top)
    <3>1. \A j \in (n - 1) + 1 .. n : ~Armed(ctx[j])
      BY <1>2, <2>3 DEF here
    <3> QED BY <1>2, <2>4, <3>1, HeadBelow
  <2>7. /\ prev' = [prev EXCEPT ![n] = spy_exc_top] /\ spy_exc_top' = n
        /\ ctx' = Append(t, g) /\ pc' = "run" /\ spy_exc_inflight' = spy_exc_inflight
    BY <1>10 DEF CallNext, Pushed, Goto
  <2>8. prev'[n] = spy_exc_top /\ \A i \in 1 .. n - 1 : prev'[i] = prev[i]
    BY <1>2, <1>4, <2>7
  <2>9. Chain(t, n, prev')
    <3>1. Armed(t[n])
      BY <2>2, <2>5 DEF Armed
    <3>2. n - 1 \in Nat /\ (n - 1) + 1 = n /\ Len(ctx) \in Nat
      BY <1>2
    <3> HIDE DEF t
    <3>3. Len(t) = (n - 1) + 1 /\ Armed(t[(n - 1) + 1]) /\ HeadOf(ctx, n - 1, prev'[(n - 1) + 1])
      BY <2>5, <2>6, <2>8, <3>1, <3>2
    <3>4. Chain(t, (n - 1) + 1, prev')
      BY <1>2, <2>5, <2>8, <3>2, <3>3, ChainPutArmed
    <3> QED BY <3>2, <3>4
  <2>10. Shape(t)
    <3> HIDE DEF r, t
    <3>1. WellFormed(t[n]) /\ ExitClear(ctx, n - 1, t[n])
      BY <2>2, <2>5 DEF WellFormed, ExitClear, Owes
    <3>2. n - 1 \in Nat /\ (n - 1) + 1 = n /\ Len(ctx) \in Nat /\ n - 1 # 0
      BY <1>2, <2>4
    <3> QED BY <1>2, <2>4, <2>5, <3>1, <3>2, ShapePut
  <2>11. /\ ctx' \in Seq(Region) /\ Len(ctx') = n + 1 /\ Cut(t, ctx', n) /\ ctx'[n + 1] = g
    <3>1. /\ Append(t, g) \in Seq(Region) /\ Len(Append(t, g)) = Len(t) + 1
          /\ \A i \in 1 .. Len(t) : Append(t, g)[i] = t[i]
          /\ Append(t, g)[Len(t) + 1] = g
      BY <2>2, <2>5, AppendProperties
    <3> QED BY <1>2, <2>5, <2>7, <3>1 DEF Cut
  <2>12. Chain(ctx', n, prev')
    <3>1. ~Armed(ctx'[n + 1]) /\ HeadOf(t, n, n) /\ Len(t) \in Nat
      BY <1>2, <2>2, <2>5, <2>9, <2>11 DEF Armed, Chain
    <3> QED BY <1>2, <2>9, <2>11, <3>1, ChainPut
  <2>13. Shape(ctx')
    <3> HIDE DEF g, t
    <3>1. /\ WellFormed(ctx'[n + 1]) /\ ExitClear(t, n, ctx'[n + 1]) /\ Len(t) \in Nat
          /\ ctx'[n + 1].kind = "func"
      BY <1>2, <2>2, <2>5, <2>11 DEF WellFormed, ExitClear, Owes
    <3> QED BY <1>2, <2>10, <2>11, <3>1, ShapePut
  <2>14. ~Calling(here')
    BY <2>2, <2>11 DEF Calling, here, n
  <2>15. TypeOK'
    BY <1>2, <1>4, <2>1, <2>7, <2>11 DEF TypeOK, n
  <2> QED BY <2>7, <2>12, <2>13, <2>14, <2>15 DEF IInv, HandlerDiscipline, LandsOnTop
<1>11. ASSUME NEW F \in BOOLEAN, NEW C \in SUBSET Exc, EnterTry(F, C) PROVE IInv'
  <2> DEFINE r == Try(F, C)
  <2>1. /\ r \in Region /\ r.kind = "try" /\ r.phase = "body" /\ r.pending = "fallthrough"
    BY DEF Try, Plain, Region, Pending
  <2>2. Armed(r) /\ WellFormed(r)
    BY <2>1 DEF Armed, WellFormed
  <2>3. /\ ctx' = Append(Keep(n), r) /\ pc' = "run" /\ pc = "run" /\ n < MaxDepth
        /\ prev' = [prev EXCEPT ![n + 1] = spy_exc_top] /\ spy_exc_top' = n + 1
        /\ spy_exc_inflight' = spy_exc_inflight
    BY <1>3, <1>11 DEF EnterTry, UserCode, Goto, Pushed
  <2>4. /\ prev' \in [1 .. MaxDepth -> 0 .. MaxDepth] /\ prev'[n + 1] = spy_exc_top
        /\ \A i \in 1 .. n : prev'[i] = prev[i]
    BY <1>2, <1>4, <2>3
  <2> QED BY <1>1, <1>2, <1>4, <1>5, <2>1, <2>2, <2>3, <2>4, PutArmedStep
<1> QED BY <1>7, <1>8, <1>9, <1>10, <1>11 DEF Enter

\* The last construct, seen from user code or from a landing.
LEMMA Here ==
  ASSUME IInv, pc \in {"run", "land"}
  PROVE  /\ n \in Nat \ {0} /\ n \in 1 .. n /\ n = Len(ctx) /\ here = ctx[n]
         /\ here \in Region /\ WellFormed(here) /\ ExitClear(ctx, n - 1, here)
         /\ \A j \in n + 1 .. n : ~Armed(ctx[j])
         /\ HeadOf(ctx, n, spy_exc_top)
         /\ spy_exc_inflight \in Exc \cup {NoExc}
         /\ here.kind # "func" => n \in 2 .. n /\ n - 1 \in 1 .. n /\ ~Calling(ctx[n - 1])
<1>1. /\ n \in Nat \ {0} /\ n \in 1 .. n /\ n = Len(ctx) /\ here = ctx[n] /\ here \in Region
      /\ Shape(ctx) /\ HeadOf(ctx, n, spy_exc_top)
  BY Now DEF here, Chain
<1>2. here.kind # "func" => n \in 2 .. n /\ n - 1 \in 1 .. n /\ ~Calling(ctx[n - 1])
  BY <1>1, AboveMain, BelowNotCalling
<1> QED BY <1>1, <1>2 DEF Shape, IInv, TypeOK

\* A construct that ends goes to its finally with nothing pending.
\* While the chain is exact a landing pad pops to a frame further out, so its
\* rethrow leaves it and RethrowElsewhere does not arise.
LEMMA LandingPops ==
  ASSUME IInv, pc = "land"
  PROVE  HeadOf(ctx, n - 1, Popped) /\ Popped < n
<1>1. n \in Nat \ {0} /\ n \in 1 .. n /\ n = Len(ctx) /\ Armed(ctx[n]) /\ spy_exc_top = n
  BY Here DEF IInv, LandsOnTop
<1>2. HeadOf(ctx, n - 1, Popped)
  BY <1>1, PopsTheInnermost DEF IInv
<1> QED BY <1>1, <1>2 DEF HeadOf

LEMMA RethrowOutward ==
  ASSUME IInv, pc = "land", Rethrow(Popped)
  PROVE  LongjmpTo(n - 1, Popped)
BY LandingPops, Here DEF Rethrow, IInv

LEMMA NoRethrowElsewhere ==
  ASSUME IInv, RethrowElsewhere
  PROVE  FALSE
BY LandingPops, Here DEF RethrowElsewhere, Rethrowing, IInv

LEMMA EndIntoFinally ==
  ASSUME IInv, UserCode, here.kind = "try", here.fin,
         here.phase \in {"body", "handler"}, GotoFinally(n, here),
         spy_exc_inflight' = spy_exc_inflight
  PROVE  IInv'
<1>1. pc \in {"run", "land"}
  BY DEF UserCode
<1>2. Armed(ctx[n]) /\ ctx[n].kind = "try" /\ here.pending = "fallthrough"
  BY <1>1, Here DEF Armed, WellFormed
<1>3. [here EXCEPT !.phase = "finally"].pending = "fallthrough"
  BY <1>1, <1>2, Here DEF Region
<1>4. ExitClear(ctx, n - 1, [here EXCEPT !.phase = "finally"])
  BY <1>3 DEF ExitClear, Owes
<1> QED BY <1>1, <1>2, <1>4, Here, FinallyStep

LEMMA FinallyEndPreserves ==
  ASSUME IInv, FinallyEnd
  PROVE  IInv'
<1>1. /\ pc = "run" /\ UserCode /\ here.phase = "finally" /\ spy_exc_inflight' = spy_exc_inflight
  BY DEF FinallyEnd, UserCode
<1>2. here.kind = "try" /\ ~Armed(here) /\ spy_exc_inflight' \in Exc \cup {NoExc}
  BY <1>1, Here DEF WellFormed, Armed
<1>3. CASE here.pending = "fallthrough" /\ Goto(Keep(n - 1)) /\ NoChain
  <2>1. n - 1 \in 1 .. n /\ ~Calling(ctx[n - 1]) /\ n \in Nat
    BY <1>1, <1>2, Here
  <2>2. /\ ctx' = Keep(n - 1) /\ pc' = "run"
        /\ spy_exc_top' = spy_exc_top /\ prev' = prev
    BY <1>3 DEF Goto, NoChain
  <2>3. HeadOf(ctx, n - 1, spy_exc_top')
    <3>1. \A j \in (n - 1) + 1 .. n : ~Armed(ctx[j])
      BY <1>1, <1>2, <2>1, Here
    <3> QED BY <1>1, <2>1, <2>2, <3>1, Here, HeadBelow
  <2> QED BY <1>1, <1>2, <2>1, <2>2, <2>3, CutStep
<1>4. CASE here.pending = "rethrow" /\ LongjmpTo(n, spy_exc_top) /\ NoChain
  <2>1. spy_exc_top' = spy_exc_top /\ prev' = prev /\ n \in 0 .. n
    BY <1>1, <1>4, Here DEF NoChain
  <2>2. LongjmpTo(n, spy_exc_top') /\ HeadOf(ctx, n, spy_exc_top')
    BY <1>1, <1>4, <2>1, Here DEF LongjmpTo
  <2> QED BY <1>1, <1>2, <2>1, <2>2, JumpStep
<1>5. CASE here.pending = "return" /\ \E f \in Funcs : Innermost(Funcs, f) /\ Ret(f)
  <2>1. PICK f \in Funcs : Innermost(Funcs, f) /\ Ret(f)
    BY <1>5
  <2>2. f \in 1 .. n /\ ctx[f].kind = "func"
    BY <2>1 DEF Funcs
  <2>3. ASSUME NEW j \in f + 1 .. n PROVE ~Armed(ctx[j])
    <3>1. CASE j = n
      BY <1>1, <1>2, <3>1, Here
    <3>2. CASE j < n
      <4>1. j \in 1 .. n - 1 /\ n \in Nat
        BY <1>1, <2>2, <3>2, Here
      <4>2. ~FuncBetween(ctx, j, n - 1)
        BY <2>1, <2>2, <4>1 DEF FuncBetween, Innermost, Funcs
      <4>3. Owes(here, "return")
        BY <1>1, <1>2, <1>5 DEF Owes
      <4> QED BY <1>1, <4>1, <4>2, <4>3, Here DEF ExitClear
    <3> QED BY <1>1, <2>2, <3>1, <3>2, Here
  <2>4. f \in 2 .. n
    <3>1. FuncBetween(ctx, 1, n - 1)
      BY <1>1, <1>2, <1>5, Here DEF ExitClear, Owes
    <3>2. PICK m \in 2 .. n - 1 : ctx[m].kind = "func"
      BY <3>1 DEF FuncBetween
    <3>3. m <= f
      BY <1>1, <2>1, <3>2, Here DEF Innermost, Funcs
    <3> QED BY <1>1, <2>2, <3>2, <3>3, Here
  <2> QED BY <1>1, <1>2, <2>1, <2>2, <2>3, <2>4, RetStep
<1>6. ASSUME NEW f \in Funcs, Innermost(Funcs, f), here.pending \in {"break", "continue"}
      PROVE  OpenFinallys(f) = {} /\ \A j \in f + 1 .. n :
               Armed(ctx[j]) => \E m \in j + 1 .. n - 1 : ctx[m].kind \in {"loop", "iter"}
  <2>1. f \in 1 .. n /\ Owes(here, here.pending) /\ n \in Nat
    BY <1>1, <1>2, <1>6, Here DEF Funcs, Owes
  <2>2. ASSUME NEW j \in f + 1 .. n PROVE ~FuncBetween(ctx, j, n - 1)
    BY <1>6, <2>1, <2>2 DEF FuncBetween, Innermost, Funcs
  <2>3. ASSUME NEW j \in f + 1 .. n PROVE ~Open(ctx[j])
    <3>1. CASE j = n
      BY <1>1, <3>1, Here DEF Open
    <3>2. CASE j < n
      <4>1. j \in 1 .. n - 1
        BY <2>1, <3>2
      <4> QED BY <1>1, <1>6, <2>1, <2>2, <4>1, Here DEF ExitClear
    <3> QED BY <2>1, <3>1, <3>2
  <2>4. OpenFinallys(f) = {}
    BY <2>1, <2>3 DEF OpenFinallys, Open
  <2>5. ASSUME NEW j \in f + 1 .. n, Armed(ctx[j])
        PROVE  \E m \in j + 1 .. n - 1 : ctx[m].kind \in {"loop", "iter"}
    <3>1. j \in 1 .. n - 1
      BY <1>1, <1>2, <2>1, <2>5, Here
    <3>2. LoopBetween(ctx, j, n - 1)
      BY <1>1, <1>6, <2>1, <2>5, <3>1, Here DEF ExitClear
    <3> QED BY <2>2, <3>2 DEF LoopBetween, FuncBetween
  <2> QED BY <2>4, <2>5
<1>7. CASE /\ here.pending \in {"break", "continue"}
           /\ \E f \in Funcs :
                /\ Innermost(Funcs, f)
                /\ \/ \E i \in OpenFinallys(f) :
                        Innermost(OpenFinallys(f), i) /\ GotoFinally(i, ctx[i])
                   \/ /\ OpenFinallys(f) = {}
                      /\ \E l \in Loops(f) : /\ Innermost(Loops(f), l)
                                             /\ Label(here.pending, l) /\ NoChain
  <2>1. PICK f \in Funcs : Innermost(Funcs, f) /\
                \/ \E i \in OpenFinallys(f) :
                        Innermost(OpenFinallys(f), i) /\ GotoFinally(i, ctx[i])
                \/ /\ OpenFinallys(f) = {}
                   /\ \E l \in Loops(f) : /\ Innermost(Loops(f), l)
                                          /\ Label(here.pending, l) /\ NoChain
    BY <1>7
  <2>2. PICK l \in Loops(f) : Innermost(Loops(f), l) /\ Label(here.pending, l) /\ NoChain
    BY <1>6, <1>7, <2>1
  <2>3. /\ f \in 1 .. n /\ l \in f + 1 .. n /\ l \in 1 .. n /\ n \in Nat
        /\ ctx[l].kind \in {"loop", "iter"}
    BY <1>1, <2>2, Here DEF Funcs, Loops
  <2>4. ASSUME NEW j \in l .. n PROVE ~Armed(ctx[j])
    <3>1. SUFFICES ASSUME Armed(ctx[j]) PROVE FALSE
      OBVIOUS
    <3>2. j \in f + 1 .. n
      BY <2>3
    <3>3. PICK m \in j + 1 .. n - 1 : ctx[m].kind \in {"loop", "iter"}
      BY <1>6, <1>7, <2>1, <3>1, <3>2
    <3>4. m \in Loops(f) /\ m > l
      BY <2>3, <3>2, <3>3 DEF Loops
    <3> QED BY <2>2, <2>3, <3>4 DEF Innermost
  <2> QED BY <1>1, <1>2, <2>2, <2>3, <2>4, LabelStep
<1> QED BY <1>3, <1>4, <1>5, <1>7 DEF FinallyEnd

LEMMA EndPreserves ==
  ASSUME IInv, End
  PROVE  IInv'
<1>1. UserCode /\ pc = "run" /\ pc \in {"run", "land"}
  BY DEF End, FuncEnd, LoopEnd, IterBodyEnd, TryBodyEnd, HandlerEnd, FinallyEnd, UserCode
<1>2. /\ n \in Nat \ {0} /\ n \in 1 .. n /\ n = Len(ctx) /\ here = ctx[n]
      /\ here \in Region /\ WellFormed(here) /\ HeadOf(ctx, n, spy_exc_top)
      /\ \A j \in n + 1 .. n : ~Armed(ctx[j])
      /\ spy_exc_inflight \in Exc \cup {NoExc}
  BY <1>1, Here
<1>3. ASSUME ~Armed(here), n - 1 \in 1 .. n PROVE HeadOf(ctx, n - 1, spy_exc_top)
  <2>1. \A j \in (n - 1) + 1 .. n : ~Armed(ctx[j])
    BY <1>2, <1>3
  <2> QED BY <1>2, <1>3, <2>1, HeadBelow
<1>4. CASE FuncEnd
  <2>1. CASE n > 1
    <3>1. Ret(n) /\ n \in 2 .. n /\ ctx[n].kind = "func" /\ spy_exc_inflight' = spy_exc_inflight
      BY <1>2, <1>4, <2>1 DEF FuncEnd
    <3> QED BY <1>1, <1>2, <3>1, RetStep
  <2>2. CASE ~(n > 1)
    <3>1. /\ ctx' = <<>> /\ pc' = "done" /\ spy_exc_top' = spy_exc_top /\ prev' = prev
          /\ spy_exc_inflight' = spy_exc_inflight
      BY <1>4, <2>2 DEF FuncEnd, NoChain
    <3>2. ctx' \in Seq(Region) /\ Len(ctx') = 0
      BY <3>1, EmptySeq
    <3> QED BY <3>1, <3>2, ExcAssumption DEF IInv, TypeOK, n, HandlerDiscipline, LandsOnTop
  <2> QED BY <2>1, <2>2
<1>5. CASE LoopEnd
  <2>1. /\ ctx' = Keep(n - 1) /\ pc' = "run" /\ spy_exc_top' = spy_exc_top /\ prev' = prev
        /\ spy_exc_inflight' = spy_exc_inflight /\ here.kind = "loop"
    BY <1>5 DEF LoopEnd, BreakLabel, Goto, NoChain
  <2>2. n - 1 \in 1 .. n /\ ~Calling(ctx[n - 1]) /\ ~Armed(here)
    BY <1>1, <2>1, Here DEF Armed
  <2> QED BY <1>1, <1>2, <1>3, <2>1, <2>2, CutStep
<1>6. CASE IterBodyEnd
  <2>1. /\ Label("continue", n) /\ NoChain /\ spy_exc_inflight' = spy_exc_inflight
        /\ here.kind = "iter"
    BY <1>6 DEF IterBodyEnd, Label
  <2>2. ~Armed(here)
    BY <1>1, <2>1 DEF IInv, LandsOnTop, Armed, Calling
  <2>3. \A j \in n .. n : ~Armed(ctx[j])
    BY <1>2, <2>2
  <2> QED BY <1>1, <1>2, <2>1, <2>3, LabelStep
<1>7. CASE TryBodyEnd
  <2>1. here.kind = "try" /\ here.phase = "body" /\ spy_exc_inflight' = spy_exc_inflight
    BY <1>7 DEF TryBodyEnd
  <2>2. CASE here.fin
    BY <1>1, <1>7, <2>1, <2>2, EndIntoFinally DEF TryBodyEnd
  <2>3. CASE ~here.fin
    <3>1. /\ ctx' = Keep(n - 1) /\ pc' = "run" /\ spy_exc_top' = Popped /\ prev' = prev
      BY <1>7, <2>3 DEF TryBodyEnd, Goto, Pop
    <3>2. Armed(ctx[n]) /\ n - 1 \in 1 .. n /\ ~Calling(ctx[n - 1])
      BY <1>1, <1>2, <2>1, Here DEF Armed
    <3>3. HeadOf(ctx, n - 1, Popped)
      BY <1>1, <1>2, <3>2, PopsTheInnermost
    <3> QED BY <1>1, <1>2, <2>1, <3>1, <3>2, <3>3, CutStep
  <2> QED BY <2>2, <2>3
<1>8. CASE HandlerEnd
  <2>1. here.kind = "try" /\ here.phase = "handler" /\ spy_exc_inflight' = spy_exc_inflight
    BY <1>8 DEF HandlerEnd
  <2>2. CASE here.fin
    BY <1>1, <1>8, <2>1, <2>2, EndIntoFinally DEF HandlerEnd
  <2>3. CASE ~here.fin
    <3>1. /\ ctx' = Keep(n - 1) /\ pc' = "run" /\ spy_exc_top' = spy_exc_top /\ prev' = prev
      BY <1>8, <2>3 DEF HandlerEnd, Goto, NoChain
    <3>2. ~Armed(here) /\ n - 1 \in 1 .. n /\ ~Calling(ctx[n - 1])
      BY <1>1, <2>1, <2>3, Here DEF Armed
    <3> QED BY <1>1, <1>2, <1>3, <2>1, <3>1, <3>2, CutStep
  <2> QED BY <2>2, <2>3
<1> QED BY <1>4, <1>5, <1>6, <1>7, <1>8, FinallyEndPreserves DEF End

\* A return, break or continue that some finally takes on its way.
LEMMA RoutePreserves ==
  ASSUME IInv, UserCode, NEW f \in Funcs, Innermost(Funcs, f),
         NEW i \in OpenFinallys(f), Innermost(OpenFinallys(f), i),
         NEW k \in f .. i - 1, NEW code \in {"return", "break", "continue"},
         BareBodies(k) = {}, \A a, b \in OpenFinallys(f) : a = b,
         code = "return" => k = f /\ f # 1,
         code # "return" => ctx[k].kind \in {"loop", "iter"},
         RouteExit(i, code), spy_exc_inflight' = spy_exc_inflight
  PROVE  IInv'
<1>1. pc = "run" /\ pc \in {"run", "land"}
  BY DEF UserCode
<1>2. /\ n \in Nat /\ f \in 1 .. n /\ i \in f + 1 .. n /\ i \in 1 .. n /\ k \in 1 .. n
      /\ ctx[f].kind = "func"
      /\ ctx[i].kind = "try" /\ ctx[i].fin /\ ctx[i].phase \in {"body", "handler"}
      /\ ctx[i] \in Region
      /\ spy_exc_inflight' \in Exc \cup {NoExc}
  BY <1>1, Here, Now DEF Funcs, OpenFinallys
<1>3. Armed(ctx[i])
  BY <1>2 DEF Armed
<1>4. ASSUME NEW j \in k + 1 .. n, Armed(ctx[j]) PROVE j = i
  <2>1. j \in f + 1 .. n
    BY <1>2
  <2>2. j \notin BareBodies(k)
    OBVIOUS
  <2> QED BY <1>1, <1>2, <1>4, <2>1, <2>2, ArmedHere DEF BareBodies
<1>5. \A j \in i + 1 .. n : ~Armed(ctx[j])
  BY <1>2, <1>4
<1> DEFINE r == [ctx[i] EXCEPT !.pending = code]
           q == [r EXCEPT !.phase = "finally"]
<1>6. /\ r \in Region /\ r.kind = "try" /\ q.pending = code
  BY <1>2 DEF Region, Pending
<1>7. ASSUME code = "return"
      PROVE  FuncBetween(ctx, 1, i - 1)
             /\ \A j \in 1 .. i - 1 : Armed(ctx[j]) => FuncBetween(ctx, j, i - 1)
  <2>1. f \in 2 .. i - 1
    BY <1>2, <1>7
  <2>2. ASSUME NEW j \in 1 .. i - 1, Armed(ctx[j]) PROVE j < f
    <3>1. j # f
      BY <1>2, <2>2 DEF Armed
    <3>2. ~(j \in k + 1 .. n)
      BY <1>2, <1>4, <2>2
    <3> QED BY <1>2, <1>7, <2>1, <3>1, <3>2
  <2>3. ASSUME NEW j \in 1 .. i - 1, Armed(ctx[j]) PROVE FuncBetween(ctx, j, i - 1)
    <3>1. f \in j + 1 .. i - 1
      BY <2>1, <2>2, <2>3
    <3> QED BY <1>2, <3>1 DEF FuncBetween
  <2>4. FuncBetween(ctx, 1, i - 1)
    BY <1>2, <2>1 DEF FuncBetween
  <2> QED BY <2>3, <2>4
<1>8. ASSUME code # "return", NEW j \in 1 .. i - 1
      PROVE  /\ Armed(ctx[j]) => LoopBetween(ctx, j, i - 1)
             /\ Open(ctx[j]) => FuncBetween(ctx, j, i - 1)
  <2>1. ctx[k].kind \in {"loop", "iter"} /\ k \in f + 1 .. i - 1
    BY <1>2, <1>8
  <2>2. ASSUME Armed(ctx[j]) PROVE LoopBetween(ctx, j, i - 1)
    <3>1. CASE j < k
      <4>1. k \in j + 1 .. i - 1
        BY <1>2, <3>1
      <4> QED BY <2>1, <4>1 DEF LoopBetween
    <3>2. CASE j = k
      <4>1. j \in f + 1 .. n
        BY <1>2, <2>1, <3>2
      <4> QED BY <1>1, <1>2, <2>1, <2>2, <3>2, <4>1, ArmedHere DEF OpenFinallys
    <3>3. CASE j > k
      <4>1. j \in k + 1 .. n /\ j # i
        BY <1>2, <1>8, <3>3
      <4> QED BY <1>4, <2>2, <4>1
    <3> QED BY <1>2, <1>8, <3>1, <3>2, <3>3
  <2>3. ASSUME Open(ctx[j]) PROVE FuncBetween(ctx, j, i - 1)
    <3>1. CASE j < f
      <4>1. f \in j + 1 .. i - 1
        BY <1>2, <3>1
      <4> QED BY <1>2, <4>1 DEF FuncBetween
    <3>2. CASE j = f
      BY <1>2, <2>3, <3>2 DEF Open
    <3>3. CASE j > f
      <4>1. j \in OpenFinallys(f) /\ j # i
        BY <1>2, <1>8, <2>3, <3>3 DEF OpenFinallys, Open
      <4> QED BY <4>1
    <3> QED BY <1>2, <1>8, <3>1, <3>2, <3>3
  <2> QED BY <2>2, <2>3
<1>9. ExitClear(ctx, i - 1, q)
  <2>1. Owes(q, "return") => code = "return"
    BY <1>6 DEF Owes
  <2>2. Owes(q, "break") \/ Owes(q, "continue") => code # "return"
    BY <1>6 DEF Owes
  <2> QED BY <1>7, <1>8, <2>1, <2>2 DEF ExitClear
<1>10. GotoFinally(i, r)
  BY DEF RouteExit
<1> QED BY <1>1, <1>2, <1>3, <1>5, <1>6, <1>9, <1>10, FinallyStep

LEMMA ExitPreserves ==
  ASSUME NoUnarmedExits, IInv, Exit
  PROVE  IInv'
<1>1. ASSUME NEW f \in Funcs \ {1}, MayExit(f), Admitted(f, f),
             spy_exc_inflight' = spy_exc_inflight,
             \/ \E i \in OpenFinallys(f) :
                    Innermost(OpenFinallys(f), i) /\ RouteExit(i, "return")
             \/ OpenFinallys(f) = {} /\ Ret(f)
      PROVE  IInv'
  <2>1. /\ UserCode /\ pc = "run" /\ pc \in {"run", "land"} /\ Innermost(Funcs, f)
        /\ BareBodies(f) = {} /\ \A a, b \in OpenFinallys(f) : a = b
    BY <1>1 DEF MayExit, UserCode, Admitted, NoUnarmedExits
  <2>2. /\ n \in Nat /\ f \in 1 .. n /\ f \in 2 .. n /\ ctx[f].kind = "func"
        /\ spy_exc_inflight' \in Exc \cup {NoExc}
    BY <1>1, <2>1, Here DEF Funcs
  <2>3. CASE \E i \in OpenFinallys(f) :
               Innermost(OpenFinallys(f), i) /\ RouteExit(i, "return")
    <3>1. PICK i \in OpenFinallys(f) :
               Innermost(OpenFinallys(f), i) /\ RouteExit(i, "return")
      BY <2>3
    <3>2. f \in f .. i - 1 /\ f # 1
      BY <2>2 DEF OpenFinallys
    <3> QED BY <1>1, <2>1, <3>1, <3>2, RoutePreserves
  <2>4. CASE OpenFinallys(f) = {} /\ Ret(f)
    <3>1. ASSUME NEW j \in f + 1 .. n PROVE ~Armed(ctx[j])
      <4>1. j \notin BareBodies(f)
        BY <2>1
      <4> QED BY <2>1, <2>2, <2>4, <4>1, ArmedHere DEF BareBodies
    <3> QED BY <2>1, <2>2, <2>4, <3>1, RetStep
  <2> QED BY <1>1, <2>3, <2>4
<1>2. ASSUME NEW code \in {"break", "continue"}, NEW f \in Funcs, NEW l \in Loops(f),
             MayExit(f), Innermost(Loops(f), l), spy_exc_inflight' = spy_exc_inflight,
             \/ \E i \in OpenFinallys(f) :
                    /\ Innermost(OpenFinallys(f), i) /\ l < i
                    /\ Admitted(f, l)
                    /\ RouteExit(i, code)
             \/ /\ \A i \in OpenFinallys(f) : i < l
                /\ BareBodies(l) = {} \/ "exit_try_body" \in Features
                /\ Label(code, l) /\ NoChain
      PROVE  IInv'
  <2>1. UserCode /\ pc = "run" /\ pc \in {"run", "land"} /\ Innermost(Funcs, f)
    BY <1>2 DEF MayExit, UserCode
  <2>2. /\ n \in Nat /\ f \in 1 .. n /\ l \in f + 1 .. n /\ l \in 1 .. n
        /\ ctx[l].kind \in {"loop", "iter"}
        /\ spy_exc_inflight' \in Exc \cup {NoExc}
    BY <1>2, <2>1, Here DEF Funcs, Loops
  <2>3. CASE \E i \in OpenFinallys(f) :
               /\ Innermost(OpenFinallys(f), i) /\ l < i
               /\ Admitted(f, l)
               /\ RouteExit(i, code)
    <3>1. PICK i \in OpenFinallys(f) :
               /\ Innermost(OpenFinallys(f), i) /\ l < i
               /\ Admitted(f, l)
               /\ RouteExit(i, code)
      BY <2>3
    <3>2. /\ l \in f .. i - 1 /\ code \in {"return", "break", "continue"} /\ code # "return"
          /\ BareBodies(l) = {} /\ \A a, b \in OpenFinallys(f) : a = b
      BY <2>2, <3>1 DEF OpenFinallys, Admitted, NoUnarmedExits
    <3> QED BY <1>2, <2>1, <2>2, <3>1, <3>2, RoutePreserves
  <2>4. CASE /\ \A i \in OpenFinallys(f) : i < l
             /\ BareBodies(l) = {} \/ "exit_try_body" \in Features
             /\ Label(code, l) /\ NoChain
    <3>1. ASSUME NEW j \in l .. n PROVE ~Armed(ctx[j])
      <4>1. j \in f + 1 .. n
        BY <2>2
      <4>2. CASE j = l
        BY <2>1, <2>2, <4>1, <4>2, ArmedHere DEF OpenFinallys
      <4>3. CASE j > l
        <5>1. j \notin BareBodies(l) /\ j \notin OpenFinallys(f)
          BY <2>2, <2>4, <4>3 DEF NoUnarmedExits
        <5> QED BY <2>1, <2>2, <4>1, <4>3, <5>1, ArmedHere DEF BareBodies
      <4> QED BY <2>2, <4>2, <4>3
    <3> QED BY <2>1, <2>2, <2>4, <3>1, LabelStep
  <2> QED BY <1>2, <2>3, <2>4
<1> QED BY <1>1, <1>2 DEF Exit, Return, BreakContinue

LEMMA RaisePreserves ==
  ASSUME IInv, Raise
  PROVE  IInv'
<1>1. PICK e \in Exc : Throw(e)
  BY DEF Raise
<1>2. pc \in {"run", "land"}
  BY DEF Raise, UserCode
<1>3. /\ spy_exc_inflight' \in Exc \cup {NoExc} /\ LongjmpTo(n, spy_exc_top)
      /\ prev' = prev /\ spy_exc_top' = spy_exc_top
  BY <1>1 DEF Throw, NoChain
<1>4. n \in 0 .. n /\ HeadOf(ctx, n, spy_exc_top')
  BY <1>2, <1>3, Here
<1>5. LongjmpTo(n, spy_exc_top')
  BY <1>3 DEF LongjmpTo
<1> QED BY <1>2, <1>3, <1>4, <1>5, JumpStep

LEMMA LandPreserves ==
  ASSUME IInv, Land
  PROVE  IInv'
<1> USE ExcAssumption
<1>1. pc = "land" /\ pc \in {"run", "land"}
  BY DEF Land, Catch, PassOn, OweAndFinally, LandIter, NullDispatch
<1>2. spy_exc_top = n /\ Armed(here) /\ Armed(ctx[n])
  BY <1>1, Here DEF IInv, LandsOnTop
<1>3. /\ n \in Nat \ {0} /\ n \in 1 .. n /\ n = Len(ctx) /\ here = ctx[n]
      /\ here \in Region /\ n <= MaxDepth
      /\ \A j \in n + 1 .. n : ~Armed(ctx[j])
      /\ spy_exc_inflight \in Exc \cup {NoExc}
      /\ n \in 2 .. n /\ n - 1 \in 1 .. n /\ ~Calling(ctx[n - 1])
      /\ n - 1 \in 0 .. n /\ n - 1 # 0 /\ n - 1 < MaxDepth /\ (n - 1) + 1 = n
  <2>1. here.kind # "func"
    BY <1>2 DEF Armed
  <2>2. n \in 2 .. n /\ n <= MaxDepth
    BY <1>1, <2>1, Here, Now
  <2> QED BY <1>1, <2>1, <2>2, Here
<1>4. HeadOf(ctx, n - 1, Popped) /\ Popped = prev[n]
  BY <1>1, <1>2, <1>3, PopsTheInnermost DEF Popped
<1>5. CASE NullDispatch
  <2>1. /\ pc' = "segv" /\ ctx' = ctx /\ spy_exc_top' = spy_exc_top /\ prev' = prev
        /\ spy_exc_inflight' = spy_exc_inflight
    BY <1>5 DEF NullDispatch
  <2> QED BY <2>1 DEF IInv, TypeOK, n, HandlerDiscipline, LandsOnTop
<1>6. CASE Catch
  <2> DEFINE r == [here EXCEPT !.phase = "handler"]
  <2>1. /\ here.kind = "try" /\ here.phase = "body" /\ spy_exc_inflight' = NoExc
        /\ ctx' = Append(Keep(n - 1), r) /\ pc' = "run"
    BY <1>6 DEF Catch, Goto
  <2>2. /\ r \in Region /\ r.kind = "try" /\ r.phase = "handler" /\ r.fin = here.fin
        /\ r.pending = "fallthrough"
    BY <1>1, <1>3, <2>1, Here DEF Region, WellFormed
  <2>3. WellFormed(r) /\ ExitClear(ctx, n - 1, r) /\ (Armed(r) <=> here.fin)
    BY <1>3, <2>2 DEF WellFormed, ExitClear, Owes, Armed, Region
  <2>4. CASE here.fin
    <3>1. spy_exc_top' = (n - 1) + 1 /\ prev' = prev
      BY <1>2, <1>3, <1>6, <2>4 DEF Catch, NoChain
    <3>2. /\ prev' \in [1 .. MaxDepth -> 0 .. MaxDepth]
          /\ \A i \in 1 .. n - 1 : prev'[i] = prev[i]
          /\ HeadOf(ctx, n - 1, prev'[(n - 1) + 1])
      BY <1>3, <1>4, <3>1 DEF IInv, TypeOK
    <3>3. spy_exc_inflight' \in Exc \cup {NoExc} /\ Armed(r)
      BY <2>1, <2>3, <2>4
    <3> QED BY <1>1, <1>3, <2>1, <2>2, <2>3, <3>1, <3>2, <3>3, PutArmedStep
  <2>5. CASE ~here.fin
    <3>1. spy_exc_top' = Popped /\ prev' = prev
      BY <1>6, <2>5 DEF Catch, Pop
    <3>2. HeadOf(ctx, n - 1, spy_exc_top') /\ spy_exc_inflight' \in Exc \cup {NoExc} /\ ~Armed(r)
      BY <1>4, <2>1, <2>3, <2>5, <3>1
    <3> QED BY <1>1, <1>3, <2>1, <2>2, <2>3, <3>1, <3>2, PutStep
  <2> QED BY <2>4, <2>5
<1>7. ASSUME Pop, LongjmpTo(n - 1, Popped), spy_exc_inflight' = spy_exc_inflight PROVE IInv'
  <2>1. spy_exc_top' = Popped /\ prev' = prev /\ HeadOf(ctx, n - 1, spy_exc_top')
    BY <1>4, <1>7 DEF Pop
  <2>2. LongjmpTo(n - 1, spy_exc_top')
    BY <1>7, <2>1 DEF LongjmpTo
  <2> QED BY <1>1, <1>3, <1>7, <2>1, <2>2, JumpStep
<1>8. CASE PassOn
  BY <1>1, <1>7, <1>8, RethrowOutward DEF PassOn
<1>9. CASE OweAndFinally
  <2> DEFINE r == [here EXCEPT !.pending = "rethrow", !.owed = spy_exc_inflight]
  <2>1. /\ here.kind = "try" /\ GotoFinally(n, r) /\ spy_exc_inflight' = spy_exc_inflight
    BY <1>9 DEF OweAndFinally
  <2>2. r \in Region /\ r.kind = "try" /\ [r EXCEPT !.phase = "finally"].pending = "rethrow"
    BY <1>3, <2>1 DEF Region, Pending
  <2>3. ExitClear(ctx, n - 1, [r EXCEPT !.phase = "finally"])
    BY <2>2 DEF ExitClear, Owes
  <2> QED BY <1>1, <1>2, <1>3, <2>1, <2>2, <2>3, FinallyStep
<1>10. CASE LandIter
  <2>1. CASE spy_exc_inflight = Stop
    <3>1. /\ spy_exc_top' = Popped /\ prev' = prev /\ ctx' = Keep(n - 1) /\ pc' = "run"
          /\ spy_exc_inflight' \in Exc \cup {NoExc}
      BY <1>10, <2>1 DEF LandIter, Pop, Goto
    <3>2. HeadOf(ctx, n - 1, spy_exc_top')
      BY <1>4, <3>1
    <3> QED BY <1>1, <1>3, <3>1, <3>2, CutStep
  <2>2. CASE spy_exc_inflight # Stop
    BY <1>1, <1>7, <1>10, <2>2, RethrowOutward DEF LandIter
  <2> QED BY <2>1, <2>2
<1> QED BY <1>5, <1>6, <1>8, <1>9, <1>10 DEF Land

LEMMA NextPreserves ==
  ASSUME NoUnarmedExits, IInv, [Next]_vars
  PROVE  IInv'
<1>1. CASE UNCHANGED vars
  <2>1. /\ ctx' = ctx /\ spy_exc_top' = spy_exc_top /\ prev' = prev
        /\ spy_exc_inflight' = spy_exc_inflight /\ pc' = pc
    BY <1>1 DEF vars
  <2> QED BY <2>1 DEF IInv, TypeOK, HandlerDiscipline, LandsOnTop, n, here
<1>2. CASE Next
  BY <1>1, <1>2, EnterPreserves, EndPreserves, ExitPreserves, RaisePreserves, LandPreserves,
     NoRethrowElsewhere DEF Next, Ended
<1> QED BY <1>1, <1>2

LEMMA InitHolds == Init => IInv
<1> SUFFICES ASSUME Init PROVE IInv
  OBVIOUS
<1> USE ExcAssumption
<1> DEFINE r == Plain("func", "body")
<1>1. r \in Region /\ r.kind = "func" /\ r.phase = "body" /\ r.pending = "fallthrough"
  BY DEF Plain, Region, Pending
<1>2. ctx = <<r>> /\ pc = "run" /\ spy_exc_top = 0 /\ spy_exc_inflight = NoExc
      /\ prev = [i \in 1 .. MaxDepth |-> 0]
  BY DEF Init
<1>3. ctx \in Seq(Region) /\ n = 1 /\ Len(ctx) = 1 /\ ctx[1] = r
  BY <1>1, <1>2 DEF n
<1>4. ~Armed(r) /\ WellFormed(r) /\ ExitClear(ctx, 0, r) /\ ~Calling(r)
  BY <1>1 DEF Armed, WellFormed, ExitClear, Owes, Calling
<1>5. TypeOK
  BY <1>2, <1>3 DEF TypeOK
<1>6. HandlerDiscipline
  <2> HIDE DEF r
  <2> QED BY <1>2, <1>3, <1>4 DEF HandlerDiscipline, Chain, HeadOf
<1>7. Shape(ctx) /\ LandsOnTop
  <2> HIDE DEF r
  <2> QED BY <1>1, <1>2, <1>3, <1>4 DEF Shape, LandsOnTop, here, n
<1> QED BY <1>5, <1>6, <1>7 DEF IInv

\* Every value stays in its type: no jump of the lowering leaves the nest or the
\* chain in a form the emitted code does not expect.
THEOREM TypeCorrect == ASSUME NoUnarmedExits PROVE Spec => []TypeOK
<1>1. IInv /\ [Next]_vars => IInv'
  BY NextPreserves
<1>2. IInv => TypeOK
  BY DEF IInv
<1> QED BY <1>1, <1>2, InitHolds, PTL DEF Spec

\* The runtime's handler chain is exactly the list of constructs that still want
\* an exception, for every nesting depth and every set of exceptions.
THEOREM ChainIsExact == ASSUME NoUnarmedExits PROVE Spec => []HandlerDiscipline
<1>1. IInv /\ [Next]_vars => IInv'
  BY NextPreserves
<1>2. IInv => HandlerDiscipline
  BY DEF IInv
<1> QED BY <1>1, <1>2, InitHolds, PTL DEF Spec

\* A landing pad that rethrows has taken its own frame off the chain, so the
\* exception goes to a handler further out or ends the program.
THEOREM PadsRethrowOutward == ASSUME NoUnarmedExits PROVE Spec => []RethrowsOutward
<1>1. IInv /\ [Next]_vars => IInv'
  BY NextPreserves
<1>2. IInv => RethrowsOutward
  BY LandingPops DEF RethrowsOutward, Rethrowing
<1> QED BY <1>1, <1>2, InitHolds, PTL DEF Spec

-----------------------------------------------------------------------------
\* Finally blocks and the exception in flight.

NoHandlingInRethrow == "handle_in_rethrow" \notin Features

\* A finally block that runs because of an exception, or because of a jump.
OwesExc(r) == r.phase = "finally" /\ r.pending = "rethrow"
Exiting(r) == r.phase = "finally" /\ r.pending \in {"return", "break", "continue"}

\* r may stand above the first k of s: a jump is resumed in a function where no
\* other finally is running, what is owed is an exception, nothing above a block
\* that owes one can take it, and an iterator loop at its head is on top.
QuietAt(s, k, r) ==
  /\ Exiting(r) => \A j \in 1 .. k : s[j].phase = "finally" => FuncBetween(s, j, k)
  /\ OwesExc(r) => r.owed # NoExc
  /\ r.kind = "iter" \/ r.catches # {} => \A j \in 1 .. k : ~OwesExc(s[j])
  /\ k # 0 => s[k].phase # "head"

Quiet(s) == \A i \in 1 .. Len(s) : QuietAt(s, i - 1, s[i])

\* x is what the innermost block of s that owes an exception owes.
OwedIn(s, x) ==
  \/ (\A i \in 1 .. Len(s) : ~OwesExc(s[i])) /\ x = NoExc
  \/ \E i \in 1 .. Len(s) : /\ OwesExc(s[i]) /\ x = s[i].owed
                            /\ \A j \in i + 1 .. Len(s) : ~OwesExc(s[j])

\* The strengthening of InflightIsOwed; it needs IInv beside it.
QInv == /\ pc \in {"run", "land"} => Quiet(ctx)
        /\ pc = "run" => OwedIn(ctx, spy_exc_inflight)
        /\ pc = "land" => spy_exc_inflight # NoExc

\* A step keeps every try with a finally that has not run.
Kept == \A i \in 1 .. n : Open(ctx[i]) => Len(ctx') >= i /\ ctx'[i].kind = "try"

\* What every step is shown to do.
Sound == /\ Kept
         /\ QInv /\ NoHandlingInRethrow => QInv'

\* QuietAt depends on the first k elements only.
LEMMA QuietAtCut ==
  ASSUME NEW s, NEW t, NEW k \in Nat, Cut(s, t, k), NEW r, QuietAt(s, k, r)
  PROVE  QuietAt(t, k, r)
<1>1. \A j \in 1 .. k : t[j] = s[j]
  BY DEF Cut
<1>2. \A j \in 1 .. k : FuncBetween(s, j, k) => FuncBetween(t, j, k)
  BY <1>1 DEF FuncBetween
<1>3. k # 0 => t[k] = s[k]
  BY <1>1
<1> QED BY <1>1, <1>2, <1>3 DEF QuietAt

LEMMA QuietCut ==
  ASSUME NEW s, NEW t, NEW k \in Nat, Len(s) \in Nat, Cut(s, t, k), Quiet(s),
         NEW i \in 1 .. k
  PROVE  QuietAt(t, i - 1, t[i])
<1>1. i \in 1 .. Len(s) /\ t[i] = s[i] /\ i - 1 \in Nat /\ Cut(s, t, i - 1)
  BY DEF Cut
<1> QED BY <1>1, QuietAtCut DEF Quiet

\* What is owed does not change when nothing that owes is dropped or added.
LEMMA OwedCut ==
  ASSUME NEW s, NEW t, NEW k \in Nat, NEW m \in {k, k + 1}, NEW x,
         Len(s) \in Nat, Cut(s, t, k), Len(t) = m,
         m = k + 1 => ~OwesExc(t[m]),
         \A j \in k + 1 .. Len(s) : ~OwesExc(s[j]), OwedIn(s, x)
  PROVE  OwedIn(t, x)
<1>1. k <= Len(s) /\ \A j \in 1 .. k : t[j] = s[j]
  BY DEF Cut
<1>2. \A j \in k + 1 .. Len(t) : ~OwesExc(t[j])
  OBVIOUS
<1>3. CASE (\A i \in 1 .. Len(s) : ~OwesExc(s[i])) /\ x = NoExc
  <2>1. \A i \in 1 .. Len(t) : ~OwesExc(t[i])
    BY <1>1, <1>2, <1>3
  <2> QED BY <1>3, <2>1 DEF OwedIn
<1>4. CASE \E i \in 1 .. Len(s) : /\ OwesExc(s[i]) /\ x = s[i].owed
                                  /\ \A j \in i + 1 .. Len(s) : ~OwesExc(s[j])
  <2>1. PICK i \in 1 .. Len(s) : /\ OwesExc(s[i]) /\ x = s[i].owed
                                 /\ \A j \in i + 1 .. Len(s) : ~OwesExc(s[j])
    BY <1>4
  <2>2. i \in 1 .. k /\ i \in 1 .. Len(t) /\ t[i] = s[i]
    BY <1>1, <2>1
  <2>3. \A j \in i + 1 .. Len(t) : ~OwesExc(t[j])
    BY <1>1, <1>2, <2>1
  <2> QED BY <2>1, <2>2, <2>3 DEF OwedIn
<1> QED BY <1>3, <1>4 DEF OwedIn

LEMMA QInvIsOwed == QInv => InflightIsOwed
<1> SUFFICES ASSUME QInv PROVE InflightIsOwed
  OBVIOUS
<1>1. ASSUME pc = "run"
      PROVE  \/ OwingFinallys = {} /\ spy_exc_inflight = NoExc
             \/ \E i \in OwingFinallys : /\ Innermost(OwingFinallys, i)
                                        /\ spy_exc_inflight = ctx[i].owed
  <2>1. OwedIn(ctx, spy_exc_inflight) /\ OwingFinallys = {i \in 1 .. Len(ctx) : OwesExc(ctx[i])}
    BY <1>1 DEF QInv, OwingFinallys, OwesExc, n
  <2>2. CASE (\A i \in 1 .. Len(ctx) : ~OwesExc(ctx[i])) /\ spy_exc_inflight = NoExc
    BY <2>1, <2>2
  <2>3. CASE \E i \in 1 .. Len(ctx) : /\ OwesExc(ctx[i]) /\ spy_exc_inflight = ctx[i].owed
                                      /\ \A j \in i + 1 .. Len(ctx) : ~OwesExc(ctx[j])
    <3>1. PICK i \in 1 .. Len(ctx) : /\ OwesExc(ctx[i]) /\ spy_exc_inflight = ctx[i].owed
                                     /\ \A j \in i + 1 .. Len(ctx) : ~OwesExc(ctx[j])
      BY <2>3
    <3>2. i \in OwingFinallys
      BY <2>1, <3>1
    <3>3. Innermost(OwingFinallys, i)
      BY <2>1, <3>1, <3>2 DEF Innermost
    <3> QED BY <3>1, <3>2, <3>3
  <2> QED BY <2>1, <2>2, <2>3 DEF OwedIn
<1> QED BY <1>1 DEF QInv, InflightIsOwed

-----------------------------------------------------------------------------
\* The steps, again by cuts.

\* User code that cuts the nest at k goes on.
LEMMA CutSound ==
  ASSUME IInv, pc = "run", NEW k \in 1 .. n,
         \A j \in k + 1 .. n : ~Open(ctx[j]) /\ (QInv => ~OwesExc(ctx[j])),
         ctx' = Keep(k), pc' = "run", spy_exc_inflight' = spy_exc_inflight
  PROVE  Sound
<1>1. /\ ctx \in Seq(Region) /\ n \in Nat \ {0} /\ n = Len(ctx) /\ Len(ctx) \in Nat /\ k \in Nat
  BY Now
<1>2. Len(ctx') = k /\ Cut(ctx, ctx', k)
  BY <1>1, KeepFacts DEF Keep
<1>3. Kept
  BY <1>1, <1>2 DEF Kept, Cut, Open
<1>4. ASSUME QInv PROVE QInv'
  <2>1. Quiet(ctx) /\ OwedIn(ctx, spy_exc_inflight)
    BY <1>4 DEF QInv
  <2>2. Quiet(ctx')
    BY <1>1, <1>2, <2>1, QuietCut DEF Quiet
  <2>3. \A j \in k + 1 .. Len(ctx) : ~OwesExc(ctx[j])
    BY <1>1, <1>4
  <2>4. OwedIn(ctx', spy_exc_inflight')
    BY <1>1, <1>2, <2>1, <2>3, OwedCut
  <2> QED BY <2>2, <2>4 DEF QInv
<1> QED BY <1>3, <1>4 DEF Sound

\* User code that puts r above a cut at k.
LEMMA PutSound ==
  ASSUME IInv, pc = "run", NEW k \in 0 .. n, NEW r \in Region,
         \A j \in k + 1 .. n : /\ QInv => ~OwesExc(ctx[j])
                               /\ Open(ctx[j]) => j = k + 1 /\ r.kind = "try",
         ~OwesExc(r), QInv /\ NoHandlingInRethrow => QuietAt(ctx, k, r),
         ctx' = Append(Keep(k), r), pc' = "run", spy_exc_inflight' = spy_exc_inflight
  PROVE  Sound
<1>1. /\ ctx \in Seq(Region) /\ n \in Nat \ {0} /\ n = Len(ctx) /\ Len(ctx) \in Nat /\ k \in Nat
  BY Now
<1>2. Len(ctx') = k + 1 /\ Cut(ctx, ctx', k) /\ ctx'[k + 1] = r
  BY <1>1, PutFacts DEF Keep
<1>3. Kept
  BY <1>1, <1>2 DEF Kept, Cut, Open
<1>4. ASSUME QInv, NoHandlingInRethrow PROVE QInv'
  <2>1. Quiet(ctx) /\ OwedIn(ctx, spy_exc_inflight)
    BY <1>4 DEF QInv
  <2>2. QuietAt(ctx', k, ctx'[k + 1])
    BY <1>1, <1>2, <1>4, QuietAtCut
  <2>3. ASSUME NEW i \in 1 .. Len(ctx') PROVE QuietAt(ctx', i - 1, ctx'[i])
    <3>1. CASE i = k + 1
      BY <1>1, <2>2, <3>1
    <3>2. CASE i \in 1 .. k
      BY <1>1, <1>2, <2>1, <3>2, QuietCut
    <3> QED BY <1>1, <1>2, <3>1, <3>2
  <2>4. Quiet(ctx')
    BY <2>3 DEF Quiet
  <2>5. \A j \in k + 1 .. Len(ctx) : ~OwesExc(ctx[j])
    BY <1>1, <1>4
  <2>6. k + 1 \in {k, k + 1} /\ ~OwesExc(ctx'[k + 1])
    BY <1>2
  <2>7. OwedIn(ctx', spy_exc_inflight')
    BY <1>1, <1>2, <2>1, <2>5, <2>6, OwedCut
  <2> QED BY <2>4, <2>7 DEF QInv
<1> QED BY <1>3, <1>4 DEF Sound

\* A longjmp with an exception in flight.
LEMMA JumpSound ==
  ASSUME IInv, pc \in {"run", "land"}, NEW k \in 0 .. n,
         \A j \in k + 1 .. n : ~Open(ctx[j]),
         LongjmpTo(k, spy_exc_top'), HeadOf(ctx, k, spy_exc_top'),
         QInv => spy_exc_inflight' # NoExc
  PROVE  Sound
<1> DEFINE t == spy_exc_top'
<1>1. ctx \in Seq(Region) /\ n \in Nat \ {0} /\ n = Len(ctx) /\ Len(ctx) \in Nat
  BY Now
<1>2. ASSUME NEW i \in 1 .. n, Open(ctx[i]) PROVE i <= t /\ t \in 1 .. k
  <2>1. Armed(ctx[i]) /\ i \in 1 .. k
    BY <1>1, <1>2 DEF Open, Armed
  <2> QED BY <1>1, <2>1 DEF HeadOf
<1>3. CASE t = 0
  <2>1. pc' = "abort" /\ ctx' = <<>>
    BY <1>3 DEF LongjmpTo
  <2>2. Kept
    BY <1>2, <1>3 DEF Kept
  <2> QED BY <2>1, <2>2 DEF Sound, QInv
<1>4. CASE t # 0
  <2>1. t \in 1 .. k /\ Armed(ctx[t]) /\ t \in 1 .. n /\ t \in Nat
    BY <1>1, <1>4 DEF HeadOf
  <2>2. pc' = "land" /\ ctx' = Keep(t)
    BY <1>4, <2>1 DEF LongjmpTo
  <2>a. t \in 0 .. Len(ctx) /\ ctx' = SubSeq(ctx, 1, t)
    BY <1>1, <2>1, <2>2 DEF Keep
  <2>3. Len(ctx') = t /\ Cut(ctx, ctx', t)
    BY ONLY <1>1, <2>a, KeepFacts
  <2>4. Kept
    BY <1>1, <1>2, <2>1, <2>3 DEF Kept, Cut, Open
  <2>5. ASSUME QInv PROVE QInv'
    <3>1. Quiet(ctx)
      BY <2>5 DEF QInv
    <3>2. Quiet(ctx')
      BY <1>1, <2>1, <2>3, <3>1, QuietCut DEF Quiet
    <3> QED BY <2>2, <2>5, <3>2 DEF QInv
  <2> QED BY <2>4, <2>5 DEF Sound
<1> QED BY <1>3, <1>4

\* What is there already may be there again, in another phase.
LEMMA QuietAgain ==
  ASSUME IInv, pc \in {"run", "land"}, QInv, NEW i \in 1 .. n, NEW r,
         ~OwesExc(r), ~Exiting(r), r.kind = ctx[i].kind, r.catches = ctx[i].catches
  PROVE  QuietAt(ctx, i - 1, r)
<1>1. Quiet(ctx) /\ n = Len(ctx)
  BY Now DEF QInv
<1>2. QuietAt(ctx, i - 1, ctx[i])
  BY <1>1 DEF Quiet
<1> QED BY <1>2 DEF QuietAt

\* br finally.entry, with nothing or a jump pending.
LEMMA FinallySound ==
  ASSUME IInv, pc = "run", NEW i \in 1 .. n, Open(ctx[i]),
         \A j \in i + 1 .. n : ~Open(ctx[j]) /\ (QInv => ~OwesExc(ctx[j])),
         NEW code \in Pending \ {"rethrow"}, NEW r \in Region,
         r = ctx[i] \/ r = [ctx[i] EXCEPT !.pending = code], r.pending = code,
         code # "fallthrough" =>
           \A j \in 1 .. i - 1 : ctx[j].phase = "finally" => FuncBetween(ctx, j, i - 1),
         GotoFinally(i, r), spy_exc_inflight' = spy_exc_inflight
  PROVE  Sound
<1> DEFINE q == [r EXCEPT !.phase = "finally"]
<1>1. n \in Nat /\ pc \in {"run", "land"} /\ ctx[i] \in Region
  BY Now
<1>2. /\ q \in Region /\ q.kind = "try" /\ q.phase = "finally" /\ q.pending = code
      /\ q.catches = ctx[i].catches
  BY <1>1 DEF Region, Open
<1>3. ~OwesExc(q)
  BY <1>2 DEF OwesExc
<1>4. ASSUME QInv PROVE QuietAt(ctx, i - 1, q)
  <2>1. Quiet(ctx) /\ n = Len(ctx)
    BY <1>1, <1>4, Now DEF QInv
  <2>2. QuietAt(ctx, i - 1, ctx[i])
    BY <2>1 DEF Quiet
  <2>3. q.kind = "iter" \/ q.catches # {} => \A j \in 1 .. i - 1 : ~OwesExc(ctx[j])
    BY <1>2, <2>2 DEF QuietAt
  <2>4. Exiting(q) => code # "fallthrough"
    BY <1>2 DEF Exiting
  <2> QED BY <1>3, <2>2, <2>3, <2>4 DEF QuietAt
<1>5. ctx' = Append(Keep(i - 1), q) /\ pc' = "run" /\ i - 1 \in 0 .. n /\ (i - 1) + 1 = i
  BY <1>1 DEF GotoFinally, Goto
<1>6. \A j \in (i - 1) + 1 .. n : /\ QInv => ~OwesExc(ctx[j])
                                  /\ Open(ctx[j]) => j = (i - 1) + 1 /\ q.kind = "try"
  BY <1>1, <1>2 DEF Open, OwesExc
<1> HIDE DEF q
<1> QED BY <1>2, <1>3, <1>4, <1>5, <1>6, PutSound

\* ret.
LEMMA RetSound ==
  ASSUME IInv, pc = "run", NEW f \in 2 .. n, ctx[f].kind = "func",
         \A j \in f + 1 .. n : ~Open(ctx[j]) /\ (QInv => ~OwesExc(ctx[j])), Ret(f),
         spy_exc_inflight' = spy_exc_inflight
  PROVE  Sound
<1>1. /\ n \in Nat /\ n = Len(ctx) /\ Shape(ctx) /\ pc \in {"run", "land"}
      /\ \A i \in 1 .. n : ctx[i] \in Region
  BY Now
<1>2. WellFormed(ctx[f]) /\ WellFormed(ctx[f - 1])
  BY <1>1 DEF Shape
<1>3. \A j \in f .. n : ~Open(ctx[j]) /\ (QInv => ~OwesExc(ctx[j]))
  BY <1>2 DEF Open, OwesExc, WellFormed
<1>4. CASE Calling(ctx[f - 1])
  <2> DEFINE r == [ctx[f - 1] EXCEPT !.phase = "body"]
  <2>1. f - 1 \in 1 .. n /\ ctx[f - 1] \in Region
    BY <1>1
  <2>2. /\ r \in Region /\ r.kind = "iter" /\ r.phase = "body" /\ r.catches = ctx[f - 1].catches
        /\ ctx[f - 1].kind = "iter"
    BY <1>4, <2>1 DEF Region, Calling
  <2>3. ~OwesExc(r) /\ ~Exiting(r)
    BY <2>2 DEF OwesExc, Exiting
  <2>4. /\ f - 2 \in 0 .. n /\ (f - 1) - 1 = f - 2
        /\ ctx' = Append(Keep(f - 2), r) /\ pc' = "run"
    BY <1>1, <1>4 DEF Ret, Goto, Calling
  <2>5. \A j \in (f - 2) + 1 .. n : /\ QInv => ~OwesExc(ctx[j])
                                    /\ Open(ctx[j]) => j = (f - 2) + 1 /\ r.kind = "try"
    <3>1. ~OwesExc(ctx[f - 1]) /\ ~Open(ctx[f - 1])
      BY <1>4 DEF Calling, OwesExc, Open
    <3> QED BY <1>1, <1>3, <3>1
  <2> HIDE DEF r
  <2>6. QInv => QuietAt(ctx, f - 2, r)
    BY <1>1, <2>1, <2>2, <2>3, <2>4, QuietAgain
  <2> QED BY <2>2, <2>3, <2>4, <2>5, <2>6, PutSound
<1>5. CASE ~Calling(ctx[f - 1])
  <2>1. f - 1 \in 1 .. n /\ \A j \in (f - 1) + 1 .. n : ~Open(ctx[j]) /\ (QInv => ~OwesExc(ctx[j]))
    BY <1>1, <1>3
  <2>2. ctx' = Keep(f - 1) /\ pc' = "run"
    BY <1>5 DEF Ret, Goto, Calling
  <2> QED BY <2>1, <2>2, CutSound
<1> QED BY <1>4, <1>5

\* br to the label of a loop.
LEMMA LabelSound ==
  ASSUME IInv, pc = "run", NEW l \in 1 .. n, ctx[l].kind \in {"loop", "iter"},
         \A j \in l + 1 .. n : ~Open(ctx[j]) /\ (QInv => ~OwesExc(ctx[j])), NEW c, Label(c, l),
         spy_exc_inflight' = spy_exc_inflight
  PROVE  Sound
<1>1. /\ n \in Nat /\ n = Len(ctx) /\ Shape(ctx) /\ pc \in {"run", "land"}
      /\ ctx[l] \in Region /\ l \in 2 .. n /\ l - 1 \in 1 .. n
  BY Now, AboveMain
<1>2. ~Open(ctx[l]) /\ ~OwesExc(ctx[l])
  BY <1>1 DEF Open, OwesExc, Shape, WellFormed
<1>3. \A j \in (l - 1) + 1 .. n : ~Open(ctx[j]) /\ (QInv => ~OwesExc(ctx[j]))
  BY <1>1, <1>2
<1>4. CASE BreakLabel(l)
  BY <1>1, <1>3, <1>4, CutSound DEF BreakLabel, Goto
<1>5. CASE ContinueLabel(l) /\ ctx[l].kind = "loop"
  BY <1>5, CutSound DEF ContinueLabel, Goto
<1>6. CASE ContinueLabel(l) /\ ctx[l].kind = "iter"
  <2> DEFINE r == [ctx[l] EXCEPT !.phase = "head"]
  <2>1. /\ r \in Region /\ r.kind = ctx[l].kind /\ r.phase = "head" /\ r.catches = ctx[l].catches
    BY <1>1, <1>6 DEF Region
  <2>2. ~OwesExc(r) /\ ~Exiting(r) /\ l - 1 \in 0 .. n
    BY <1>1, <2>1 DEF OwesExc, Exiting
  <2>3. ctx' = Append(Keep(l - 1), r) /\ pc' = "run"
    BY <1>6 DEF ContinueLabel, Goto
  <2>4. \A j \in (l - 1) + 1 .. n : /\ QInv => ~OwesExc(ctx[j])
                                    /\ Open(ctx[j]) => j = (l - 1) + 1 /\ r.kind = "try"
    BY <1>3
  <2> HIDE DEF r
  <2>5. QInv => QuietAt(ctx, l - 1, r)
    BY <1>1, <2>1, <2>2, QuietAgain
  <2> QED BY <2>1, <2>2, <2>3, <2>4, <2>5, PutSound
<1> QED BY <1>4, <1>5, <1>6 DEF Label

\* One lemma per group of actions.

LEMMA EnterSound ==
  ASSUME IInv, Enter
  PROVE  Sound
<1>1. pc = "run" /\ pc \in {"run", "land"}
  BY DEF Enter, EnterCall, EnterLoop, EnterIterLoop, CallNext, EnterTry, UserCode
<1>2. /\ n \in Nat \ {0} /\ n = Len(ctx) /\ ctx \in Seq(Region) /\ Shape(ctx)
      /\ n \in 1 .. n /\ n \in 0 .. n /\ here \in Region /\ here = ctx[n]
  BY <1>1, Now DEF here
<1>3. Keep(n) = ctx
  BY <1>2, SubSeqFull DEF Keep
<1>4. ASSUME NEW r \in Region, r.phase # "finally", ctx' = Append(ctx, r), pc' = "run",
             here.phase # "head", spy_exc_inflight' = spy_exc_inflight,
             r.kind = "iter" \/ r.catches # {} => MayHandle
      PROVE  Sound
  <2>1. ctx' = Append(Keep(n), r)
    BY <1>3, <1>4
  <2>2. ~OwesExc(r) /\ ~Exiting(r)
    BY <1>4 DEF OwesExc, Exiting
  <2>3. ASSUME NoHandlingInRethrow PROVE QuietAt(ctx, n, r)
    <3>1. r.kind = "iter" \/ r.catches # {} => \A j \in 1 .. n : ~OwesExc(ctx[j])
      BY <1>4, <2>3 DEF NoHandlingInRethrow, MayHandle, OwingFinallys, OwesExc
    <3> QED BY <1>2, <1>4, <2>2, <3>1 DEF QuietAt
  <2>4. \A j \in n + 1 .. n : ~OwesExc(ctx[j]) /\ (Open(ctx[j]) => j = n + 1 /\ r.kind = "try")
    BY <1>2
  <2> QED BY <1>1, <1>2, <1>4, <2>1, <2>2, <2>3, <2>4, PutSound
<1>5. ASSUME NEW k \in {"func", "loop", "iter"}, NEW p \in {"body", "head"}
      PROVE  /\ Plain(k, p) \in Region /\ Plain(k, p).kind = k /\ Plain(k, p).phase = p
             /\ Plain(k, p).catches = {}
  BY ExcAssumption DEF Plain, Region, Pending
<1>6. CASE EnterCall
  BY <1>4, <1>5, <1>6 DEF EnterCall, UserCode, Goto
<1>7. CASE EnterLoop
  BY <1>4, <1>5, <1>7 DEF EnterLoop, UserCode, Goto
<1>8. CASE EnterIterLoop
  BY <1>4, <1>5, <1>8 DEF EnterIterLoop, UserCode, Goto
<1>9. ASSUME NEW F \in BOOLEAN, NEW C \in SUBSET Exc, EnterTry(F, C) PROVE Sound
  <2>1. /\ Try(F, C) \in Region /\ Try(F, C).kind = "try" /\ Try(F, C).phase = "body"
        /\ Try(F, C).catches = C
    BY ExcAssumption DEF Try, Plain, Region, Pending
  <2> QED BY <1>4, <1>9, <2>1 DEF EnterTry, UserCode, Goto
<1>10. CASE CallNext
  <2> DEFINE r == [here EXCEPT !.phase = "next"]
             g == Plain("func", "body")
             t == Append(Keep(n - 1), r)
  <2>1. here.phase = "head" /\ WellFormed(here) /\ ctx' = Append(t, g) /\ pc' = "run"
        /\ spy_exc_inflight' = spy_exc_inflight
    BY <1>2, <1>10 DEF CallNext, Goto, Shape
  <2>2. /\ r \in Region /\ r.kind = "iter" /\ r.phase = "next" /\ r.catches = here.catches
        /\ g \in Region /\ g.kind = "func" /\ g.phase = "body" /\ g.catches = {}
        /\ here.kind = "iter"
    BY <1>2, <1>5, <2>1 DEF Region, WellFormed
  <2> HIDE DEF r, g
  <2>3. n - 1 \in 0 .. Len(ctx) /\ (n - 1) + 1 = n /\ n - 1 \in Nat
    BY <1>2
  <2>4. t \in Seq(Region) /\ Len(t) = n /\ t[n] = r /\ Cut(ctx, t, n - 1)
    <3>1. /\ t \in Seq(Region) /\ Len(t) = (n - 1) + 1 /\ t[(n - 1) + 1] = r
          /\ Cut(ctx, t, n - 1)
      BY <1>2, <2>2, <2>3, PutFacts DEF Keep
    <3> QED BY <2>3, <3>1
  <2> HIDE DEF t
  <2>5. Len(ctx') = n + 1 /\ Cut(t, ctx', n) /\ ctx'[n + 1] = g
    <3>1. /\ Append(t, g) \in Seq(Region) /\ Len(Append(t, g)) = Len(t) + 1
          /\ \A i \in 1 .. Len(t) : Append(t, g)[i] = t[i]
          /\ Append(t, g)[Len(t) + 1] = g
      BY <2>2, <2>4, AppendProperties
    <3> QED BY <1>2, <2>1, <2>4, <3>1 DEF Cut
  <2>6. Kept
    <3>1. ~Open(ctx[n])
      BY <1>2, <2>1 DEF Open
    <3>2. ASSUME NEW i \in 1 .. n - 1 PROVE i <= Len(ctx') /\ ctx'[i] = ctx[i]
      BY <1>2, <2>4, <2>5 DEF Cut
    <3> QED BY <1>2, <3>1, <3>2 DEF Kept, Open
  <2>7. ASSUME QInv PROVE QInv'
    <3>1. Quiet(ctx) /\ OwedIn(ctx, spy_exc_inflight)
      BY <1>1, <2>7 DEF QInv
    <3>2. ~OwesExc(r) /\ ~Exiting(r) /\ ~OwesExc(g) /\ ~Exiting(g) /\ ~OwesExc(ctx[n])
      BY <1>2, <2>1, <2>2 DEF OwesExc, Exiting
    <3>3. QuietAt(ctx, n - 1, t[n])
      BY <1>1, <1>2, <2>2, <2>4, <2>7, <3>2, QuietAgain
    <3>4. QuietAt(t, n - 1, t[n])
      BY <2>3, <2>4, <3>3, QuietAtCut
    <3>5. ASSUME NEW i \in 1 .. n PROVE QuietAt(t, i - 1, t[i])
      <4>1. CASE i = n
        BY <3>4, <4>1
      <4>2. CASE i \in 1 .. n - 1
        BY <1>2, <2>3, <2>4, <3>1, <4>2, QuietCut
      <4> QED BY <1>2, <4>1, <4>2
    <3>6. Quiet(t)
      BY <2>4, <3>5 DEF Quiet
    <3>7. QuietAt(t, n, g)
      BY <1>2, <2>2, <2>4, <3>2 DEF QuietAt
    <3>8. QuietAt(ctx', n, ctx'[n + 1])
      BY <1>2, <2>5, <3>7, QuietAtCut
    <3>9. ASSUME NEW i \in 1 .. Len(ctx') PROVE QuietAt(ctx', i - 1, ctx'[i])
      <4>1. CASE i = n + 1
        BY <1>2, <3>8, <4>1
      <4>2. CASE i \in 1 .. n
        BY <1>2, <2>4, <2>5, <3>6, <4>2, QuietCut
      <4> QED BY <1>2, <2>5, <4>1, <4>2
    <3>10. OwedIn(t, spy_exc_inflight)
      <4>1. \A j \in (n - 1) + 1 .. Len(ctx) : ~OwesExc(ctx[j])
        BY <1>2, <3>2
      <4>2. n \in {n - 1, (n - 1) + 1} /\ (n = (n - 1) + 1 => ~OwesExc(t[n]))
        BY <2>3, <2>4, <3>2
      <4>3. Len(ctx) \in Nat
        BY <1>2
      <4> QED BY <2>3, <2>4, <3>1, <4>1, <4>2, <4>3, OwedCut
    <3>11. OwedIn(ctx', spy_exc_inflight')
      <4>1. \A j \in n + 1 .. Len(t) : ~OwesExc(t[j])
        BY <1>2, <2>4
      <4>2. n + 1 \in {n, n + 1} /\ ~OwesExc(ctx'[n + 1]) /\ Len(t) \in Nat /\ n \in Nat
        BY <1>2, <2>4, <2>5, <3>2
      <4> QED BY <2>1, <2>5, <3>10, <4>1, <4>2, OwedCut
    <3> QED BY <2>1, <3>9, <3>11 DEF QInv, Quiet
  <2> QED BY <2>6, <2>7 DEF Sound
<1> QED BY <1>6, <1>7, <1>8, <1>9, <1>10 DEF Enter

\* The jump that a finally resumes passes no other finally of its function.
LEMMA ResumesClear ==
  ASSUME IInv, pc = "run", Exiting(here), NEW f \in Funcs, Innermost(Funcs, f),
         NEW j \in f + 1 .. n
  PROVE  QInv => ~OwesExc(ctx[j])
<1> SUFFICES ASSUME QInv, OwesExc(ctx[j]) PROVE FALSE
  OBVIOUS
<1>1. n \in Nat \ {0} /\ n = Len(ctx) /\ here = ctx[n] /\ f \in 1 .. n /\ pc \in {"run", "land"}
  BY Here DEF Funcs
<1>2. j # n
  BY <1>1 DEF OwesExc, Exiting
<1>3. QuietAt(ctx, n - 1, ctx[n])
  BY <1>1 DEF QInv, Quiet
<1>4. FuncBetween(ctx, j, n - 1)
  BY <1>1, <1>2, <1>3 DEF QuietAt, OwesExc
<1> QED BY <1>1, <1>4 DEF FuncBetween, Innermost, Funcs

LEMMA FinallyEndSound ==
  ASSUME IInv, FinallyEnd
  PROVE  Sound
<1>1. /\ pc = "run" /\ pc \in {"run", "land"} /\ here.phase = "finally"
      /\ spy_exc_inflight' = spy_exc_inflight
  BY DEF FinallyEnd, UserCode
<1>2. /\ n \in Nat \ {0} /\ n = Len(ctx) /\ here = ctx[n] /\ here.kind = "try" /\ n \in 1 .. n
      /\ n \in 0 .. n /\ ~Open(here) /\ n - 1 \in 1 .. n /\ HeadOf(ctx, n, spy_exc_top)
      /\ \A i \in 1 .. n : ctx[i] \in Region
  BY <1>1, Here, Now DEF WellFormed, Open
<1>3. CASE here.pending = "fallthrough" /\ Goto(Keep(n - 1)) /\ NoChain
  <2>1. \A j \in (n - 1) + 1 .. n : ~Open(ctx[j]) /\ ~OwesExc(ctx[j])
    BY <1>2, <1>3 DEF OwesExc
  <2>2. ctx' = Keep(n - 1) /\ pc' = "run"
    BY <1>3 DEF Goto
  <2> QED BY <1>1, <1>2, <2>1, <2>2, CutSound
<1>4. CASE here.pending = "rethrow" /\ LongjmpTo(n, spy_exc_top) /\ NoChain
  <2>1. LongjmpTo(n, spy_exc_top') /\ HeadOf(ctx, n, spy_exc_top')
    BY <1>2, <1>4 DEF NoChain, LongjmpTo
  <2>2. ASSUME QInv PROVE spy_exc_inflight' # NoExc
    <3>1. OwedIn(ctx, spy_exc_inflight) /\ Quiet(ctx) /\ OwesExc(ctx[n])
      BY <1>1, <1>2, <1>4, <2>2 DEF QInv, OwesExc
    <3>2. spy_exc_inflight = ctx[n].owed
      BY <1>2, <3>1 DEF OwedIn
    <3> QED BY <1>1, <1>2, <3>1, <3>2 DEF Quiet, QuietAt
  <2>3. \A j \in n + 1 .. n : ~Open(ctx[j])
    BY <1>2
  <2> QED BY <1>1, <1>2, <2>1, <2>2, <2>3, JumpSound
<1>5. CASE here.pending = "return" /\ \E f \in Funcs : Innermost(Funcs, f) /\ Ret(f)
  <2>1. PICK f \in Funcs : Innermost(Funcs, f) /\ Ret(f)
    BY <1>5
  <2>2. f \in 1 .. n /\ ctx[f].kind = "func" /\ Exiting(here) /\ Owes(here, "return")
    BY <1>1, <1>2, <1>5, <2>1 DEF Funcs, Exiting, Owes
  <2>3. ExitClear(ctx, n - 1, here)
    BY <1>1, Here
  <2>4. f \in 2 .. n
    <3>1. PICK m \in 2 .. n - 1 : ctx[m].kind = "func"
      BY <2>2, <2>3 DEF ExitClear, FuncBetween
    <3> QED BY <1>2, <2>1, <2>2, <3>1 DEF Innermost, Funcs
  <2>5. ASSUME NEW j \in f + 1 .. n PROVE ~Open(ctx[j]) /\ (QInv => ~OwesExc(ctx[j]))
    <3>1. QInv => ~OwesExc(ctx[j])
      BY <1>1, <2>1, <2>2, ResumesClear
    <3>2. CASE j = n
      BY <1>2, <3>1, <3>2
    <3>3. CASE j \in 1 .. n - 1
      <4>1. ~FuncBetween(ctx, j, n - 1)
        BY <1>2, <2>1, <2>2 DEF FuncBetween, Innermost, Funcs
      <4>2. ~Armed(ctx[j])
        BY <2>2, <2>3, <3>3, <4>1 DEF ExitClear
      <4> QED BY <3>1, <4>2 DEF Open, Armed
    <3> QED BY <1>2, <2>2, <3>2, <3>3
  <2> QED BY <1>1, <2>1, <2>2, <2>4, <2>5, RetSound
<1>6. ASSUME here.pending \in {"break", "continue"}, NEW f \in Funcs, Innermost(Funcs, f),
             NEW i \in OpenFinallys(f), Innermost(OpenFinallys(f), i), GotoFinally(i, ctx[i])
      PROVE  Sound
  <2>1. /\ i \in 1 .. n /\ f \in 1 .. n /\ i > f /\ Open(ctx[i]) /\ ctx[i] \in Region
        /\ Exiting(here) /\ WellFormed(ctx[i])
    BY <1>1, <1>2, <1>6, Now DEF OpenFinallys, Funcs, Open, Exiting, Shape
  <2>2. ctx[i].pending = "fallthrough"
    BY <2>1 DEF WellFormed, Open
  <2>3. ASSUME NEW j \in i + 1 .. n PROVE ~Open(ctx[j]) /\ (QInv => ~OwesExc(ctx[j]))
    <3>1. j \in f + 1 .. n /\ j \notin OpenFinallys(f)
      BY <1>2, <1>6, <2>1 DEF Innermost
    <3>2. ~Open(ctx[j])
      BY <3>1 DEF OpenFinallys, Open
    <3> QED BY <1>1, <1>6, <2>1, <3>1, <3>2, ResumesClear
  <2> DEFINE code == "fallthrough"
  <2>4. code \in Pending \ {"rethrow"}
    BY DEF Pending
  <2> QED BY <1>1, <1>6, <2>1, <2>2, <2>3, <2>4, FinallySound
<1>7. ASSUME here.pending \in {"break", "continue"}, NEW f \in Funcs, Innermost(Funcs, f),
             OpenFinallys(f) = {}, NEW l \in Loops(f), Label(here.pending, l)
      PROVE  Sound
  <2>1. /\ l \in 1 .. n /\ f \in 1 .. n /\ l > f /\ ctx[l].kind \in {"loop", "iter"}
        /\ Exiting(here)
    BY <1>1, <1>2, <1>7 DEF Loops, Funcs, Exiting
  <2>2. ASSUME NEW j \in l + 1 .. n PROVE ~Open(ctx[j]) /\ (QInv => ~OwesExc(ctx[j]))
    <3>1. j \in f + 1 .. n /\ j \notin OpenFinallys(f)
      BY <1>2, <1>7, <2>1
    <3>2. ~Open(ctx[j])
      BY <3>1 DEF OpenFinallys, Open
    <3> QED BY <1>1, <1>7, <2>1, <3>1, <3>2, ResumesClear
  <2> QED BY <1>1, <1>7, <2>1, <2>2, LabelSound
<1> QED BY <1>3, <1>4, <1>5, <1>6, <1>7 DEF FinallyEnd

LEMMA EndSound ==
  ASSUME IInv, End
  PROVE  Sound
<1>1. UserCode /\ pc = "run" /\ pc \in {"run", "land"}
  BY DEF End, FuncEnd, LoopEnd, IterBodyEnd, TryBodyEnd, HandlerEnd, FinallyEnd, UserCode
<1>2. /\ n \in Nat \ {0} /\ n \in 1 .. n /\ n = Len(ctx) /\ here = ctx[n] /\ here \in Region
      /\ WellFormed(here) /\ \A j \in n + 1 .. n : ~Open(ctx[j]) /\ ~OwesExc(ctx[j])
      /\ here.kind # "func" => n - 1 \in 1 .. n
  BY <1>1, Here
<1>3. ASSUME ~Open(here), here.phase # "finally", here.kind # "func",
             ctx' = Keep(n - 1), pc' = "run", spy_exc_inflight' = spy_exc_inflight
      PROVE  Sound
  <2>1. \A j \in (n - 1) + 1 .. n : ~Open(ctx[j]) /\ ~OwesExc(ctx[j])
    BY <1>2, <1>3 DEF OwesExc
  <2> QED BY <1>1, <1>2, <1>3, <2>1, CutSound
<1>4. ASSUME here.kind = "try", here.fin, here.phase \in {"body", "handler"},
             GotoFinally(n, here), spy_exc_inflight' = spy_exc_inflight
      PROVE  Sound
  <2> DEFINE code == "fallthrough"
  <2>1. code \in Pending \ {"rethrow"} /\ here.pending = code /\ Open(here)
    BY <1>2, <1>4 DEF Pending, WellFormed, Open
  <2> QED BY <1>1, <1>2, <1>4, <2>1, FinallySound
<1>5. CASE FuncEnd
  <2>1. CASE n > 1
    <3>1. Ret(n) /\ n \in 2 .. n /\ ctx[n].kind = "func" /\ spy_exc_inflight' = spy_exc_inflight
      BY <1>2, <1>5, <2>1 DEF FuncEnd
    <3> QED BY <1>1, <1>2, <3>1, RetSound
  <2>2. CASE ~(n > 1)
    <3>1. pc' = "done" /\ n = 1 /\ ctx[1].kind = "func"
      BY <1>2, <1>5, <2>2 DEF FuncEnd
    <3> QED BY <3>1 DEF Sound, Kept, QInv, Open
  <2> QED BY <2>1, <2>2
<1>6. CASE LoopEnd
  BY <1>2, <1>3, <1>6 DEF LoopEnd, BreakLabel, Goto, Open, WellFormed
<1>7. CASE IterBodyEnd
  <2>1. Label("continue", n) /\ spy_exc_inflight' = spy_exc_inflight /\ here.kind = "iter"
    BY <1>7 DEF IterBodyEnd, Label
  <2> QED BY <1>1, <1>2, <2>1, LabelSound
<1>8. CASE TryBodyEnd
  <2>1. here.kind = "try" /\ here.phase = "body" /\ spy_exc_inflight' = spy_exc_inflight
    BY <1>8 DEF TryBodyEnd
  <2>2. CASE here.fin
    BY <1>4, <1>8, <2>1, <2>2 DEF TryBodyEnd
  <2>3. CASE ~here.fin
    BY <1>3, <1>8, <2>1, <2>3 DEF TryBodyEnd, Goto, Open
  <2> QED BY <2>2, <2>3
<1>9. CASE HandlerEnd
  <2>1. here.kind = "try" /\ here.phase = "handler" /\ spy_exc_inflight' = spy_exc_inflight
    BY <1>9 DEF HandlerEnd
  <2>2. CASE here.fin
    BY <1>4, <1>9, <2>1, <2>2 DEF HandlerEnd
  <2>3. CASE ~here.fin
    BY <1>3, <1>9, <2>1, <2>3 DEF HandlerEnd, Goto, Open
  <2> QED BY <2>2, <2>3
<1> QED BY <1>5, <1>6, <1>7, <1>8, <1>9, FinallyEndSound DEF End

LEMMA ExitSound ==
  ASSUME IInv, Exit
  PROVE  Sound
<1>1. ASSUME NEW f \in Funcs, MayExit(f) PROVE
        /\ pc = "run" /\ pc \in {"run", "land"} /\ Innermost(Funcs, f) /\ f \in 1 .. n /\ n \in Nat
        /\ \A j \in f + 1 .. n : ~OwesExc(ctx[j]) /\ ctx[j].phase # "finally"
  BY <1>1, Now DEF MayExit, UserCode, Funcs, OwesExc
<1>2. ASSUME NEW f \in Funcs, MayExit(f), NEW i \in OpenFinallys(f), Innermost(OpenFinallys(f), i),
             NEW code \in {"return", "break", "continue"}, RouteExit(i, code),
             spy_exc_inflight' = spy_exc_inflight
      PROVE  Sound
  <2>1. i \in f + 1 .. n /\ i \in 1 .. n /\ Open(ctx[i]) /\ ctx[i] \in Region
    BY <1>1, <1>2, Now DEF OpenFinallys, Open
  <2>2. ASSUME NEW j \in i + 1 .. n PROVE ~Open(ctx[j]) /\ ~OwesExc(ctx[j])
    BY <1>1, <1>2, <2>1, <2>2 DEF OpenFinallys, Innermost, Open
  <2>3. ASSUME NEW j \in 1 .. i - 1, ctx[j].phase = "finally" PROVE FuncBetween(ctx, j, i - 1)
    <3>1. j # f
      BY <1>1, <1>2, <2>3, Now DEF Funcs, Shape, WellFormed
    <3>2. f \in j + 1 .. i - 1
      BY <1>1, <1>2, <2>1, <2>3, <3>1
    <3> QED BY <3>2 DEF FuncBetween, Funcs
  <2> DEFINE r == [ctx[i] EXCEPT !.pending = code]
  <2>4. /\ code \in Pending \ {"rethrow"} /\ r \in Region /\ r.pending = code
        /\ GotoFinally(i, r)
    BY <1>2, <2>1 DEF Pending, Region, RouteExit
  <2> QED BY <1>1, <1>2, <2>1, <2>2, <2>3, <2>4, FinallySound
<1>3. CASE Return
  <2>1. PICK f \in Funcs \ {1} :
          /\ MayExit(f) /\ spy_exc_inflight' = spy_exc_inflight
          /\ \/ \E i \in OpenFinallys(f) : Innermost(OpenFinallys(f), i) /\ RouteExit(i, "return")
             \/ OpenFinallys(f) = {} /\ Ret(f)
    BY <1>3 DEF Return
  <2>2. CASE OpenFinallys(f) = {} /\ Ret(f)
    <3>1. f \in 2 .. n /\ ctx[f].kind = "func"
      BY <1>1, <2>1 DEF Funcs
    <3>2. \A j \in f + 1 .. n : ~Open(ctx[j]) /\ ~OwesExc(ctx[j])
      BY <1>1, <2>1, <2>2 DEF OpenFinallys, Open
    <3> QED BY <1>1, <2>1, <2>2, <3>1, <3>2, RetSound
  <2> QED BY <1>2, <2>1, <2>2
<1>4. ASSUME NEW code \in {"break", "continue"}, BreakContinue(code) PROVE Sound
  <2>a. PICK f \in Funcs : \E l \in Loops(f) :
          /\ MayExit(f) /\ Innermost(Loops(f), l) /\ spy_exc_inflight' = spy_exc_inflight
          /\ \/ \E i \in OpenFinallys(f) : Innermost(OpenFinallys(f), i) /\ RouteExit(i, code)
             \/ (\A i \in OpenFinallys(f) : i < l) /\ Label(code, l)
    BY <1>4 DEF BreakContinue
  <2>1. PICK l \in Loops(f) :
          /\ MayExit(f) /\ Innermost(Loops(f), l) /\ spy_exc_inflight' = spy_exc_inflight
          /\ \/ \E i \in OpenFinallys(f) : Innermost(OpenFinallys(f), i) /\ RouteExit(i, code)
             \/ (\A i \in OpenFinallys(f) : i < l) /\ Label(code, l)
    BY <2>a
  <2>2. CASE (\A i \in OpenFinallys(f) : i < l) /\ Label(code, l)
    <3>1. l \in 1 .. n /\ l > f /\ ctx[l].kind \in {"loop", "iter"}
      BY <1>1, <2>1 DEF Loops
    <3>2. ASSUME NEW j \in l + 1 .. n PROVE ~Open(ctx[j]) /\ ~OwesExc(ctx[j])
      <4>1. j \in f + 1 .. n /\ j \notin OpenFinallys(f)
        BY <1>1, <2>1, <2>2, <3>1
      <4> QED BY <1>1, <2>1, <4>1 DEF OpenFinallys, Open
    <3> QED BY <1>1, <2>1, <2>2, <3>1, <3>2, LabelSound
  <2> QED BY <1>2, <2>1, <2>2
<1> QED BY <1>3, <1>4 DEF Exit

LEMMA RaiseSound ==
  ASSUME IInv, Raise
  PROVE  Sound
<1>1. PICK e \in Exc : Throw(e)
  BY DEF Raise
<1>2. pc \in {"run", "land"}
  BY DEF Raise, UserCode
<1>3. /\ spy_exc_inflight' # NoExc /\ LongjmpTo(n, spy_exc_top)
      /\ spy_exc_top' = spy_exc_top
  BY <1>1, ExcAssumption DEF Throw, NoChain
<1>4. /\ n \in 0 .. n /\ HeadOf(ctx, n, spy_exc_top') /\ LongjmpTo(n, spy_exc_top')
      /\ \A j \in n + 1 .. n : ~Open(ctx[j])
  BY <1>2, <1>3, Here DEF LongjmpTo
<1> QED BY <1>2, <1>3, <1>4, JumpSound

LEMMA LandSound ==
  ASSUME IInv, Land
  PROVE  Sound
<1>1. pc = "land" /\ pc \in {"run", "land"}
  BY DEF Land, Catch, PassOn, OweAndFinally, LandIter, NullDispatch
<1>2. /\ ctx \in Seq(Region) /\ n \in Nat \ {0} /\ n = Len(ctx) /\ Len(ctx) \in Nat
      /\ here = ctx[n] /\ here \in Region /\ n \in 1 .. n /\ WellFormed(here)
      /\ spy_exc_top = n /\ Armed(here)
  BY <1>1, Here, Now DEF IInv, LandsOnTop
<1>3. n \in 2 .. n /\ n - 1 \in 1 .. n /\ n - 1 \in 0 .. n /\ n - 1 \in 0 .. Len(ctx) /\ (n - 1) + 1 = n
  BY <1>1, <1>2, AboveMain DEF Armed
<1>4. HeadOf(ctx, n - 1, Popped)
  BY <1>1, <1>2, PopsTheInnermost
<1>5. ASSUME QInv PROVE /\ spy_exc_inflight # NoExc /\ Quiet(ctx)
                        /\ QuietAt(ctx, n - 1, here)
  BY <1>1, <1>2, <1>5 DEF QInv, Quiet
\* A landing that puts r in the place of the construct it arrived at.
<1>6. ASSUME NEW r \in Region, ctx' = Append(Keep(n - 1), r), r.kind = "try", pc' = "run",
             QInv => QuietAt(ctx, n - 1, r),
             QInv => \/ OwesExc(r) /\ spy_exc_inflight' = r.owed
                     \/ /\ \A j \in 1 .. n - 1 : ~OwesExc(ctx[j])
                        /\ ~OwesExc(r) /\ spy_exc_inflight' = NoExc
      PROVE  Sound
  <2>1. Len(ctx') = n /\ Cut(ctx, ctx', n - 1) /\ ctx'[n] = r
    <3>1. Len(ctx') = (n - 1) + 1 /\ Cut(ctx, ctx', n - 1) /\ ctx'[(n - 1) + 1] = r
      BY <1>2, <1>3, <1>6, PutFacts DEF Keep
    <3> QED BY <1>3, <3>1
  <2>2. Kept
    BY <1>2, <1>6, <2>1 DEF Kept, Cut, Open
  <2>3. ASSUME QInv PROVE QInv'
    <3>1. QuietAt(ctx', n - 1, ctx'[n])
      BY <1>3, <1>6, <2>1, <2>3, QuietAtCut
    <3>2. ASSUME NEW i \in 1 .. n PROVE QuietAt(ctx', i - 1, ctx'[i])
      <4>1. CASE i = n
        BY <3>1, <4>1
      <4>2. CASE i \in 1 .. n - 1
        <5>1. n - 1 \in Nat
          BY <1>2
        <5> QED BY <1>2, <1>5, <2>1, <2>3, <4>2, <5>1, QuietCut
      <4> QED BY <1>2, <4>1, <4>2
    <3>3. Quiet(ctx')
      BY <2>1, <3>2 DEF Quiet
    <3>4. CASE OwesExc(r) /\ spy_exc_inflight' = r.owed
      BY <1>2, <1>6, <2>1, <3>3, <3>4 DEF QInv, OwedIn
    <3>5. CASE /\ \A j \in 1 .. n - 1 : ~OwesExc(ctx[j])
               /\ ~OwesExc(r) /\ spy_exc_inflight' = NoExc
      <4>1. \A j \in 1 .. Len(ctx') : ~OwesExc(ctx'[j])
        BY <1>2, <2>1, <3>5 DEF Cut
      <4> QED BY <1>6, <3>3, <3>5, <4>1 DEF QInv, OwedIn
    <3> QED BY <1>6, <2>3, <3>4, <3>5
  <2> QED BY <2>2, <2>3 DEF Sound
<1>7. CASE NullDispatch
  BY <1>2, <1>7 DEF NullDispatch, Sound, Kept, QInv, Open
<1>8. CASE Catch
  <2> DEFINE r == [here EXCEPT !.phase = "handler"]
  <2>1. /\ here.kind = "try" /\ here.phase = "body" /\ spy_exc_inflight' = NoExc /\ Matches
        /\ ctx' = Append(Keep(n - 1), r) /\ pc' = "run"
    BY <1>8 DEF Catch, Goto
  <2>2. /\ r \in Region /\ r.kind = "try" /\ r.phase = "handler" /\ r.catches = here.catches
    BY <1>2, <2>1 DEF Region
  <2>3. ~OwesExc(r) /\ ~Exiting(r)
    BY <2>2 DEF OwesExc, Exiting
  <2> HIDE DEF r
  <2>4. QInv => QuietAt(ctx, n - 1, r)
    BY <1>1, <1>2, <2>1, <2>2, <2>3, QuietAgain
  <2>5. ASSUME QInv PROVE \A j \in 1 .. n - 1 : ~OwesExc(ctx[j])
    <3>1. here.catches # {}
      BY <1>5, <2>1, <2>5 DEF Matches
    <3> QED BY <1>5, <2>5, <3>1 DEF QuietAt
  <2> QED BY <1>6, <2>1, <2>2, <2>3, <2>4, <2>5
<1>9. ASSUME ~Open(here), Pop, LongjmpTo(n - 1, Popped), spy_exc_inflight' = spy_exc_inflight
      PROVE  Sound
  <2>1. HeadOf(ctx, n - 1, spy_exc_top') /\ LongjmpTo(n - 1, spy_exc_top')
    BY <1>4, <1>9 DEF Pop, LongjmpTo
  <2>2. \A j \in (n - 1) + 1 .. n : ~Open(ctx[j])
    BY <1>2, <1>9
  <2> QED BY <1>1, <1>3, <1>5, <1>9, <2>1, <2>2, JumpSound
<1>10. CASE PassOn
  BY <1>1, <1>9, <1>10, RethrowOutward DEF PassOn, Open
<1>11. CASE OweAndFinally
  <2> DEFINE r0 == [here EXCEPT !.pending = "rethrow", !.owed = spy_exc_inflight]
             r  == [r0 EXCEPT !.phase = "finally"]
  <2>1. /\ here.kind = "try" /\ ctx' = Append(Keep(n - 1), r) /\ pc' = "run"
        /\ spy_exc_inflight' = spy_exc_inflight
    BY <1>11 DEF OweAndFinally, GotoFinally, Goto
  <2>2. spy_exc_inflight \in Exc \cup {NoExc}
    BY <1>1, Here
  <2>3. /\ r \in Region /\ r.kind = "try" /\ r.phase = "finally" /\ r.catches = here.catches
        /\ r.pending = "rethrow" /\ r.owed = spy_exc_inflight
    BY <1>2, <2>1, <2>2 DEF Region, Pending
  <2> HIDE DEF r
  <2>4. OwesExc(r) /\ ~Exiting(r)
    BY <2>3 DEF OwesExc, Exiting
  <2>5. QInv => QuietAt(ctx, n - 1, r)
    BY <1>5, <2>3, <2>4 DEF QuietAt
  <2> QED BY <1>6, <2>1, <2>3, <2>4, <2>5
<1>12. CASE LandIter
  <2>1. CASE spy_exc_inflight = Stop
    <3>1. here.kind = "iter" /\ ctx' = Keep(n - 1) /\ pc' = "run" /\ spy_exc_inflight' = NoExc
      <4>1. here.kind = "iter" /\ Goto(Keep(n - 1)) /\ spy_exc_inflight' = NoExc
        BY <1>12, <2>1 DEF LandIter
      <4> QED BY <4>1 DEF Goto
    <3>2. Len(ctx') = n - 1 /\ Cut(ctx, ctx', n - 1) /\ n - 1 \in Nat
      <4>1. ctx' = SubSeq(ctx, 1, n - 1) /\ n - 1 \in Nat
        BY <1>2, <3>1 DEF Keep
      <4> QED BY <1>2, <1>3, <4>1, KeepFacts
    <3>3. Kept
      BY <1>2, <3>1, <3>2 DEF Kept, Cut, Open
    <3>4. ASSUME QInv PROVE QInv'
      <4>1. Quiet(ctx')
        BY <1>2, <1>5, <3>2, <3>4, QuietCut DEF Quiet
      <4>2. \A j \in 1 .. Len(ctx') : ~OwesExc(ctx'[j])
        BY <1>5, <3>1, <3>2, <3>4 DEF QuietAt, Cut
      <4> QED BY <3>1, <4>1, <4>2 DEF QInv, OwedIn
    <3> QED BY <3>3, <3>4 DEF Sound
  <2>2. CASE spy_exc_inflight # Stop
    BY <1>1, <1>9, <1>12, <2>2, RethrowOutward DEF LandIter, Open
  <2> QED BY <2>1, <2>2
<1> QED BY <1>7, <1>8, <1>10, <1>11, <1>12 DEF Land

LEMMA NextSound ==
  ASSUME IInv, [Next]_vars
  PROVE  Sound
<1>1. ASSUME UNCHANGED vars PROVE Sound
  <2>1. ctx' = ctx /\ spy_exc_inflight' = spy_exc_inflight /\ pc' = pc
    BY <1>1 DEF vars
  <2>2. Kept
    <3>1. n \in Nat
      BY LenProperties DEF IInv, TypeOK, n
    <3> QED BY <2>1, <3>1 DEF Kept, Open, n
  <2> QED BY <2>1, <2>2 DEF Sound, QInv
<1> QED BY <1>1, EnterSound, EndSound, ExitSound, RaiseSound, LandSound, NoRethrowElsewhere
        DEF Next, Ended

LEMMA QInvHolds == Init => QInv
<1> SUFFICES ASSUME Init PROVE QInv
  OBVIOUS
<1> DEFINE r == Plain("func", "body")
<1>1. ctx = <<r>> /\ pc = "run" /\ spy_exc_inflight = NoExc
  BY DEF Init
<1>2. r.kind = "func" /\ r.phase = "body" /\ r.catches = {}
  BY DEF Plain
<1> HIDE DEF r
<1>3. Len(ctx) = 1 /\ ctx[1] = r /\ ~OwesExc(r) /\ ~Exiting(r)
  BY <1>1, <1>2 DEF OwesExc, Exiting
<1>4. QuietAt(ctx, 0, r)
  BY <1>2, <1>3 DEF QuietAt
<1> QED BY <1>1, <1>3, <1>4 DEF QInv, Quiet, OwedIn

\* spy_exc_throw, spy_exc_clear and the rethrow after a finally body share one
\* pointer: whatever calls, raises and handlers ran inside the finally block, it
\* rethrows the exception that entered it.
THEOREM OneInflightIsEnough ==
  ASSUME NoUnarmedExits, NoHandlingInRethrow PROVE Spec => []InflightIsOwed
<1>1. IInv /\ QInv /\ [Next]_vars => IInv' /\ QInv'
  BY NextPreserves, NextSound DEF Sound
<1>2. Init => IInv /\ QInv
  BY InitHolds, QInvHolds
<1>3. QInv => InflightIsOwed
  BY QInvIsOwed
<1> QED BY <1>1, <1>2, <1>3, PTL DEF Spec

\* emitTry and routeExit: nothing leaves a try that has a finally otherwise than
\* through the finally block: no jump, no longjmp and no return of a callee.
THEOREM FinallysRun == ASSUME NoUnarmedExits PROVE Spec => FinallyRuns
<1>1. ASSUME IInv, [Next]_vars
      PROVE  [\A i \in 1 .. n :
                ctx[i].kind = "try" /\ ctx[i].fin /\ ctx[i].phase # "finally"
                  => Len(ctx') >= i /\ ctx'[i].kind = "try"]_vars
  <2>1. CASE UNCHANGED vars
    BY <2>1
  <2>2. CASE pc \in {"run", "land"}
    <3>1. ASSUME NEW i \in 1 .. n, ctx[i].kind = "try", ctx[i].fin, ctx[i].phase # "finally"
          PROVE  Open(ctx[i])
      <4>1. ctx[i] \in Region /\ WellFormed(ctx[i])
        BY <1>1, <2>2, Now DEF Shape
      <4> QED BY <3>1, <4>1 DEF Region, WellFormed, Open
    <3> QED BY <1>1, <3>1, NextSound DEF Sound, Kept
  <2>3. CASE Next /\ pc \notin {"run", "land"}
    <3>1. Ended
      BY <2>3 DEF Next, Ended, Enter, End, Exit, Raise, Land, EnterCall, EnterLoop, EnterIterLoop,
                  CallNext, EnterTry, FuncEnd, LoopEnd, IterBodyEnd, TryBodyEnd, HandlerEnd,
                  FinallyEnd, Return, BreakContinue, MayExit, UserCode, Catch, PassOn,
                  OweAndFinally, LandIter, NullDispatch, RethrowElsewhere, Rethrowing
    <3> QED BY <3>1 DEF Ended
  <2> QED BY <1>1, <2>1, <2>2, <2>3
<1>2. IInv /\ [Next]_vars => IInv'
  BY NextPreserves
<1> QED BY <1>1, <1>2, InitHolds, PTL DEF Spec, FinallyRuns

-----------------------------------------------------------------------------
\* Python's rules on the nest as PyFlow sees it.

Seen(s)    == [i \in 1 .. Len(s) |-> Decode(s[i])]
Constructs == {Decode(r) : r \in Region}

\* Two instances of PyFlow, the same rules.
LEMMA SameRules ==
  ASSUME NEW s, NEW c
  PROVE  Flow!Deliver(s, c) = Rules!Deliver(s, c)
BY DEF Flow!Deliver, Rules!Deliver, Flow!Intercepts, Rules!Intercepts, Flow!Settle, Rules!Settle,
       Flow!Resume, Rules!Resume, Flow!Raising, Rules!Raising, Flow!Iter, Rules!Iter,
       Flow!Handler, Rules!Handler, Flow!Finally, Rules!Finally, Flow!Normal, Rules!Normal,
       Flow!Max, Rules!Max

\* A set of naturals that is not empty and has a bound has a largest element.
LEMMA LargestBelow ==
  ASSUME NEW m \in Nat, NEW T \in SUBSET (1 .. m), T # {}
  PROVE  /\ Rules!Max(T) \in T
         /\ \A y \in T : Rules!Max(T) >= y
<1> DEFINE R == OpToRel(<, Nat)
           U == {m - y : y \in T}
<1>1. IsWellFoundedOn(R, Nat)
  BY NatLessThanWellFounded
<1>2. \A x, y \in Nat : x < y => <<x, y>> \in R
  BY DEF OpToRel
<1>3. U \in SUBSET Nat /\ U # {}
  <2>1. \A y \in T : y \in Nat /\ m - y \in Nat
    OBVIOUS
  <2> QED BY <2>1
<1> HIDE DEF R, U
<1>4. PICK u \in U : \A y \in U : ~(<<y, u>> \in R)
  BY <1>1, <1>3, WFMin
<1>5. PICK x \in T : u = m - x
  BY DEF U
<1>6. ASSUME NEW y \in T PROVE x >= y
  <2>1. m - y \in U /\ m - y \in Nat /\ u \in Nat
    BY <1>3 DEF U
  <2>2. ~(m - y < u)
    BY <1>2, <1>4, <2>1
  <2> QED BY <1>5, <2>1, <2>2
<1>7. \E z \in T : \A y \in T : z >= y
  BY <1>6
<1> QED BY <1>7 DEF Rules!Max

\* A completion stops at the last construct that intercepts it.
LEMMA DeliverTo ==
  ASSUME NEW s, NEW m \in Nat, DOMAIN s = 1 .. m, NEW c, c # Rules!Normal, NEW i \in 1 .. m,
         Rules!Intercepts(s[i], c), \A j \in i + 1 .. m : ~Rules!Intercepts(s[j], c)
  PROVE  Rules!Deliver(s, c) = Rules!Settle(SubSeq(s, 1, i - 1), s[i], c)
<1> DEFINE T == {j \in DOMAIN s : Rules!Intercepts(s[j], c)}
<1>1. T \in SUBSET (1 .. m) /\ i \in T /\ T # {} /\ \A j \in T : j <= i
  OBVIOUS
<1> HIDE DEF T
<1>2. Rules!Max(T) = i
  <2>1. Rules!Max(T) \in T /\ Rules!Max(T) >= i
    BY <1>1, LargestBelow
  <2>2. Rules!Max(T) \in 1 .. m /\ Rules!Max(T) <= i
    BY <1>1, <2>1
  <2> QED BY <2>1, <2>2
<1>3. Rules!Deliver(s, c) = IF T = {} THEN <<>>
                            ELSE Rules!Settle(SubSeq(s, 1, Rules!Max(T) - 1), s[Rules!Max(T)], c)
  BY DEF Rules!Deliver, T
<1> QED BY <1>1, <1>2, <1>3

\* What cannot intercept it does not matter.
LEMMA DeliverBelow ==
  ASSUME NEW S, NEW s \in Seq(S), NEW k \in 0 .. Len(s), NEW c, c # Rules!Normal,
         \A j \in k + 1 .. Len(s) : ~Rules!Intercepts(s[j], c)
  PROVE  Rules!Deliver(s, c) = Rules!Deliver(SubSeq(s, 1, k), c)
<1> DEFINE t == SubSeq(s, 1, k)
           T == {j \in DOMAIN s : Rules!Intercepts(s[j], c)}
           U == {j \in DOMAIN t : Rules!Intercepts(t[j], c)}
<1>1. /\ t \in Seq(S) /\ Len(t) = k /\ k \in Nat /\ Len(s) \in Nat
      /\ \A j \in 1 .. k : t[j] = s[j]
  BY KeepFacts, LenProperties DEF Cut
<1>2. DOMAIN s = 1 .. Len(s) /\ DOMAIN t = 1 .. k
  BY <1>1, LenProperties
<1>3. T = U
  <2> HIDE DEF t
  <2> QED BY <1>1, <1>2
<1>4. /\ Rules!Deliver(s, c) = IF T = {} THEN <<>>
                               ELSE Rules!Settle(SubSeq(s, 1, Rules!Max(T) - 1), s[Rules!Max(T)], c)
      /\ Rules!Deliver(t, c) = IF U = {} THEN <<>>
                               ELSE Rules!Settle(SubSeq(t, 1, Rules!Max(U) - 1), t[Rules!Max(U)], c)
  BY DEF Rules!Deliver
<1>5. CASE U = {}
  BY <1>3, <1>4, <1>5
<1>6. CASE U # {}
  <2> DEFINE x == Rules!Max(U)
  <2>1. U \in SUBSET (1 .. k)
    BY <1>2
  <2> HIDE DEF U, T, t
  <2>2. x \in U /\ x \in 1 .. k
    BY <1>1, <1>6, <2>1, LargestBelow
  <2> HIDE DEF x
  <2>3. t[x] = s[x] /\ x - 1 \in 0 .. k /\ x - 1 \in 0 .. Len(s)
    BY <1>1, <2>2
  <2>4. SubSeq(t, 1, x - 1) = SubSeq(s, 1, x - 1)
    <3>1. /\ SubSeq(t, 1, x - 1) \in Seq(S) /\ Len(SubSeq(t, 1, x - 1)) = x - 1
          /\ Cut(t, SubSeq(t, 1, x - 1), x - 1)
      BY <1>1, <2>3, KeepFacts
    <3>2. /\ SubSeq(s, 1, x - 1) \in Seq(S) /\ Len(SubSeq(s, 1, x - 1)) = x - 1
          /\ Cut(s, SubSeq(s, 1, x - 1), x - 1)
      BY <2>3, KeepFacts
    <3>3. \A j \in 1 .. x - 1 : SubSeq(t, 1, x - 1)[j] = SubSeq(s, 1, x - 1)[j]
      BY <1>1, <2>3, <3>1, <3>2 DEF Cut
    <3> QED BY <3>1, <3>2, <3>3, SeqEqual
  <2>5. Rules!Deliver(s, c) = Rules!Settle(SubSeq(s, 1, x - 1), s[x], c)
    BY <1>3, <1>4, <1>6 DEF x
  <2>6. Rules!Deliver(t, c) = Rules!Settle(SubSeq(t, 1, x - 1), t[x], c)
    BY <1>4, <1>6 DEF x
  <2> QED BY <2>3, <2>4, <2>5, <2>6 DEF t
<1> QED BY <1>5, <1>6

\* What the mapping makes of each construct.
LEMMA DecodeFacts ==
  ASSUME NEW r \in Region, WellFormed(r)
  PROVE  /\ r.kind = "func" => Decode(r) = Rules!Func
         /\ r.kind = "loop" => Decode(r) = Rules!Loop
         /\ r.kind = "iter" => Decode(r) = Rules!Iter(r.phase)
         /\ r.kind = "try" /\ r.phase = "body" => Decode(r) = Rules!Try(r.fin, r.catches)
         /\ r.kind = "try" /\ r.phase = "handler" =>
              Decode(r) = [kind |-> "try", phase |-> "handler", fin |-> r.fin]
         /\ r.kind = "try" /\ r.phase = "finally" => Decode(r) = Rules!Finally(Saved(r))
         /\ r.kind = "try" => r.phase \in {"body", "handler", "finally"}
<1>1. r.kind \in {"func", "loop", "iter", "try"}
      /\ r.phase \in {"body", "head", "next", "handler", "finally"}
  BY DEF Region
<1>2. r.phase \in {"handler", "finally"} => r.kind = "try"
  BY DEF WellFormed
<1>3. r.kind = "try" => r.phase \in {"body", "handler", "finally"}
  BY <1>1 DEF WellFormed
<1> QED BY <1>1, <1>2, <1>3 DEF Decode, Rules!Handler

\* Only a construct that has its frame on the chain intercepts an exception.
LEMMA InterceptsRaise ==
  ASSUME NEW r \in Region, WellFormed(r), NEW e
  PROVE  Rules!Intercepts(Decode(r), Rules!Raising(e)) <=>
           /\ Armed(r)
           /\ \/ r.kind = "try" /\ r.fin
              \/ r.kind = "try" /\ r.phase = "body" /\ e \in r.catches
              \/ r.kind = "iter" /\ r.phase = "next" /\ e = Stop
<1> DEFINE c == Rules!Raising(e)
           d == Decode(r)
<1>1. r.kind \in {"func", "loop", "iter", "try"} /\ r.fin \in BOOLEAN
  BY DEF Region
<1>2. c.kind = "raise" /\ c.exc = e /\ (c = Rules!Raising(Stop) <=> e = Stop)
  BY DEF Rules!Raising
<1> HIDE DEF c, d
<1>3. CASE r.kind = "func"
  <2>1. d.kind = "func"
    BY <1>3, DecodeFacts DEF Rules!Func, d
  <2> QED BY <1>2, <1>3, <2>1 DEF Rules!Intercepts, Armed, c, d
<1>4. CASE r.kind = "loop"
  <2>1. d.kind = "loop"
    BY <1>4, DecodeFacts DEF Rules!Loop, d
  <2> QED BY <1>2, <1>4, <2>1 DEF Rules!Intercepts, Armed, c, d
<1>5. CASE r.kind = "iter"
  <2>1. d.kind = "iter" /\ d.phase = r.phase
    BY <1>5, DecodeFacts DEF Rules!Iter, d
  <2> QED BY <1>2, <1>5, <2>1 DEF Rules!Intercepts, Armed, c, d
<1>6. CASE r.kind = "try" /\ r.phase = "body"
  <2>1. d.kind = "try" /\ d.phase = "body" /\ d.fin = r.fin /\ d.catches = r.catches
    BY <1>6, DecodeFacts DEF Rules!Try, d
  <2> QED BY <1>1, <1>2, <1>6, <2>1 DEF Rules!Intercepts, Armed, c, d
<1>7. CASE r.kind = "try" /\ r.phase = "handler"
  <2>1. d.kind = "try" /\ d.phase = "handler" /\ d.fin = r.fin
    BY <1>7, DecodeFacts DEF d
  <2> QED BY <1>1, <1>2, <1>7, <2>1 DEF Rules!Intercepts, Armed, c, d
<1>8. CASE r.kind = "try" /\ r.phase = "finally"
  <2>1. d.kind = "finally"
    BY <1>8, DecodeFacts DEF Rules!Finally, d
  <2> QED BY <1>2, <1>8, <2>1 DEF Rules!Intercepts, Armed, c, d
<1> QED BY <1>1, <1>3, <1>4, <1>5, <1>6, <1>7, <1>8, DecodeFacts

\* The same for a jump.
LEMMA InterceptsExit ==
  ASSUME NEW r \in Region, WellFormed(r), NEW code \in {"return", "break", "continue"}
  PROVE  Rules!Intercepts(Decode(r), [kind |-> code]) <=>
           \/ Open(r)
           \/ r.kind = "func" /\ code = "return"
           \/ r.kind = "loop" /\ code # "return"
           \/ r.kind = "iter" /\ r.phase = "body" /\ code # "return"
<1> DEFINE c == [kind |-> code]
           d == Decode(r)
<1>1. r.kind \in {"func", "loop", "iter", "try"} /\ r.fin \in BOOLEAN
  BY DEF Region
<1>2. c.kind = code /\ c.kind # "raise" /\ c # Rules!Raising(Stop)
  BY DEF Rules!Raising
<1> HIDE DEF c, d
<1>3. CASE r.kind = "func"
  <2>1. d.kind = "func"
    BY <1>3, DecodeFacts DEF Rules!Func, d
  <2> QED BY <1>2, <1>3, <2>1 DEF Rules!Intercepts, Open, c, d
<1>4. CASE r.kind = "loop"
  <2>1. d.kind = "loop"
    BY <1>4, DecodeFacts DEF Rules!Loop, d
  <2> QED BY <1>2, <1>4, <2>1 DEF Rules!Intercepts, Open, c, d
<1>5. CASE r.kind = "iter"
  <2>1. d.kind = "iter" /\ d.phase = r.phase
    BY <1>5, DecodeFacts DEF Rules!Iter, d
  <2> QED BY <1>2, <1>5, <2>1 DEF Rules!Intercepts, Open, c, d
<1>6. CASE r.kind = "try" /\ r.phase = "body"
  <2>1. d.kind = "try" /\ d.phase = "body" /\ d.fin = r.fin /\ d.catches = r.catches
    BY <1>6, DecodeFacts DEF Rules!Try, d
  <2> QED BY <1>1, <1>2, <1>6, <2>1 DEF Rules!Intercepts, Open, c, d
<1>7. CASE r.kind = "try" /\ r.phase = "handler"
  <2>1. d.kind = "try" /\ d.phase = "handler" /\ d.fin = r.fin
    BY <1>7, DecodeFacts DEF d
  <2> QED BY <1>1, <1>2, <1>7, <2>1 DEF Rules!Intercepts, Open, c, d
<1>8. CASE r.kind = "try" /\ r.phase = "finally"
  <2>1. d.kind = "finally"
    BY <1>8, DecodeFacts DEF Rules!Finally, d
  <2> QED BY <1>2, <1>8, <2>1 DEF Rules!Intercepts, Open, c, d
<1> QED BY <1>1, <1>3, <1>4, <1>5, <1>6, <1>7, <1>8, DecodeFacts

-----------------------------------------------------------------------------
\* The mapping, cut by cut.

LEMMA SeenFacts ==
  ASSUME NEW s \in Seq(Region)
  PROVE  /\ Seen(s) \in Seq(Constructs) /\ Len(Seen(s)) = Len(s) /\ Len(s) \in Nat
         /\ DOMAIN Seen(s) = 1 .. Len(s)
         /\ \A i \in 1 .. Len(s) : Seen(s)[i] = Decode(s[i])
<1>1. Len(s) \in Nat /\ \A i \in 1 .. Len(s) : s[i] \in Region
  BY ElementOfSeq, LenProperties
<1>2. \A i \in 1 .. Len(s) : Decode(s[i]) \in Constructs
  BY <1>1 DEF Constructs
<1>3. DOMAIN Seen(s) = 1 .. Len(s) /\ \A i \in 1 .. Len(s) : Seen(s)[i] = Decode(s[i])
  BY DEF Seen
<1>4. Seen(s) \in [1 .. Len(s) -> Constructs]
  BY <1>2 DEF Seen
<1> HIDE DEF Seen
<1>5. Seen(s) \in Seq(Constructs)
  BY <1>1, <1>4, SeqDef
<1> QED BY <1>1, <1>3, <1>5, LenProperties

LEMMA SeenCut ==
  ASSUME NEW s \in Seq(Region), NEW k \in 0 .. Len(s)
  PROVE  Seen(SubSeq(s, 1, k)) = SubSeq(Seen(s), 1, k)
<1> DEFINE t == SubSeq(s, 1, k)
           u == SubSeq(Seen(s), 1, k)
<1>1. t \in Seq(Region) /\ Len(t) = k /\ Cut(s, t, k)
  BY KeepFacts
<1>2. Seen(s) \in Seq(Constructs) /\ Len(Seen(s)) = Len(s)
  BY SeenFacts
<1>3. u \in Seq(Constructs) /\ Len(u) = k /\ Cut(Seen(s), u, k)
  BY <1>2, KeepFacts
<1>4. Seen(t) \in Seq(Constructs) /\ Len(Seen(t)) = k /\ \A i \in 1 .. k : Seen(t)[i] = Decode(t[i])
  BY <1>1, SeenFacts
<1>5. \A i \in 1 .. k : Seen(t)[i] = u[i]
  BY <1>1, <1>3, <1>4, SeenFacts DEF Cut
<1> QED BY <1>3, <1>4, <1>5, SeqEqual

LEMMA SeenPut ==
  ASSUME NEW s \in Seq(Region), NEW r \in Region
  PROVE  Seen(Append(s, r)) = Append(Seen(s), Decode(r))
<1> DEFINE t == Append(s, r)
           u == Append(Seen(s), Decode(r))
<1>1. /\ t \in Seq(Region) /\ Len(t) = Len(s) + 1 /\ t[Len(s) + 1] = r
      /\ \A i \in 1 .. Len(s) : t[i] = s[i]
  BY AppendProperties
<1>2. Seen(s) \in Seq(Constructs) /\ Len(Seen(s)) = Len(s) /\ Decode(r) \in Constructs /\ Len(s) \in Nat
  BY SeenFacts DEF Constructs
<1>3. /\ u \in Seq(Constructs) /\ Len(u) = Len(s) + 1 /\ u[Len(s) + 1] = Decode(r)
      /\ \A i \in 1 .. Len(s) : u[i] = Seen(s)[i]
  BY <1>2, AppendProperties
<1>4. /\ Seen(t) \in Seq(Constructs) /\ Len(Seen(t)) = Len(s) + 1
      /\ \A i \in 1 .. Len(s) + 1 : Seen(t)[i] = Decode(t[i])
  BY <1>1, SeenFacts
<1>5. \A i \in 1 .. Len(s) + 1 : Seen(t)[i] = u[i]
  BY <1>1, <1>2, <1>3, <1>4, SeenFacts
<1> QED BY <1>3, <1>4, <1>5, SeqEqual

\* What PyFlow sees while user code runs, and what a step of it has to reach.
LEMMA RunView ==
  ASSUME IInv, pc = "run"
  PROVE  /\ mappedStk = Seen(ctx) /\ Len(mappedStk) = n /\ DOMAIN mappedStk = 1 .. n
         /\ Flow!Running
         /\ Flow!top = Decode(here) /\ Flow!rest = SubSeq(Seen(ctx), 1, n - 1)
         /\ \A i \in 1 .. n : mappedStk[i] = Decode(ctx[i])
<1>1. ctx \in Seq(Region) /\ n = Len(ctx) /\ n \in Nat \ {0} /\ here = ctx[n]
  BY Now DEF here
<1>2. mappedStk = Seen(ctx)
  BY DEF mappedStk, Decoded, Seen, n
<1>3. /\ Len(Seen(ctx)) = n /\ DOMAIN Seen(ctx) = 1 .. n
      /\ \A i \in 1 .. n : Seen(ctx)[i] = Decode(ctx[i])
  BY <1>1, SeenFacts
<1>4. mappedStk # <<>>
  BY <1>1, <1>2, <1>3
<1> QED BY <1>1, <1>2, <1>3, <1>4 DEF Flow!Running, mappedOutcome, Flow!top, Flow!rest

LEMMA RunNext ==
  ASSUME ctx' \in Seq(Region), Len(ctx') # 0, pc' = "run", NEW x
  PROVE  Flow!Become(Seen(ctx'), x)
<1>1. mappedStk' = Seen(ctx')
  BY DEF mappedStk, Decoded, Seen, n
<1>2. mappedStk' # <<>>
  BY <1>1, SeenFacts
<1> QED BY <1>1, <1>2 DEF Flow!Become, mappedOutcome

LEMMA CutView ==
  ASSUME IInv, pc \in {"run", "land"}, NEW k \in 1 .. n, ctx' = Keep(k), pc' = "run", NEW x
  PROVE  Flow!Become(SubSeq(Seen(ctx), 1, k), x)
<1>1. ctx \in Seq(Region) /\ k \in 0 .. Len(ctx) /\ k # 0 /\ ctx' = SubSeq(ctx, 1, k)
  BY Now DEF Keep
<1>2. ctx' \in Seq(Region) /\ Len(ctx') = k
  BY <1>1, KeepFacts
<1>3. Seen(ctx') = SubSeq(Seen(ctx), 1, k)
  BY <1>1, SeenCut
<1>4. Flow!Become(Seen(ctx'), x)
  BY <1>1, <1>2, RunNext
<1> QED BY <1>3, <1>4

LEMMA PutView ==
  ASSUME IInv, pc \in {"run", "land"}, NEW k \in 0 .. n, NEW r \in Region,
         ctx' = Append(Keep(k), r), pc' = "run", NEW x
  PROVE  Flow!Become(Append(SubSeq(Seen(ctx), 1, k), Decode(r)), x)
<1>1. ctx \in Seq(Region) /\ k \in 0 .. Len(ctx) /\ Keep(k) = SubSeq(ctx, 1, k) /\ k + 1 # 0
  BY Now DEF Keep
<1>2. Keep(k) \in Seq(Region) /\ ctx' \in Seq(Region) /\ Len(ctx') = k + 1
  BY <1>1, KeepFacts, PutFacts
<1>3. Seen(ctx') = Append(SubSeq(Seen(ctx), 1, k), Decode(r))
  BY <1>1, <1>2, SeenCut, SeenPut
<1>4. Flow!Become(Seen(ctx'), x)
  BY <1>1, <1>2, RunNext
<1> QED BY <1>3, <1>4

\* A longjmp from within the first k constructs: the abstract exception reaches
\* the place the landings will take it to.
LEMMA JumpView ==
  ASSUME IInv, pc \in {"run", "land"}, NEW k \in 0 .. n, NEW h,
         LongjmpTo(k, h), HeadOf(ctx, k, h), NEW e, spy_exc_inflight' = e
  PROVE  Flow!Become(Rules!Deliver(SubSeq(Seen(ctx), 1, k), Rules!Raising(e)), "uncaught")
<1> DEFINE c == Rules!Raising(e)
           s == SubSeq(Seen(ctx), 1, k)
<1>1. /\ ctx \in Seq(Region) /\ n \in Nat /\ n = Len(ctx) /\ k \in 0 .. Len(ctx) /\ Shape(ctx)
      /\ \A i \in 1 .. n : ctx[i] \in Region
  BY Now
<1>2. s = Seen(Keep(k)) /\ Keep(k) \in Seq(Region) /\ Len(Keep(k)) = k /\ Cut(ctx, Keep(k), k)
  BY <1>1, SeenCut, KeepFacts DEF Keep
<1> HIDE DEF s
<1>3. s \in Seq(Constructs) /\ Len(s) = k /\ \A i \in 1 .. k : s[i] = Decode(ctx[i])
  BY <1>2, SeenFacts DEF Cut
<1>4. c # Rules!Normal
  BY DEF Rules!Raising, Rules!Normal
<1> HIDE DEF c
<1>5. ASSUME NEW j \in 1 .. k, ~Armed(ctx[j]) PROVE ~Rules!Intercepts(s[j], c)
  <2>1. j \in 1 .. n /\ ctx[j] \in Region /\ WellFormed(ctx[j]) /\ s[j] = Decode(ctx[j])
    BY <1>1, <1>3 DEF Shape
  <2> QED BY <1>5, <2>1, InterceptsRaise DEF c
<1>6. h \in 0 .. k /\ \A j \in h + 1 .. k : ~Armed(ctx[j])
  BY <1>1 DEF HeadOf
<1>7. \A j \in h + 1 .. Len(s) : ~Rules!Intercepts(s[j], c)
  BY <1>1, <1>3, <1>5, <1>6
<1>8. Rules!Deliver(s, c) = Rules!Deliver(SubSeq(s, 1, h), c)
  BY <1>3, <1>4, <1>6, <1>7, DeliverBelow
<1>9. CASE h = 0
  <2>1. pc' = "abort" /\ ctx' = <<>>
    BY <1>9 DEF LongjmpTo
  <2>2. mappedStk' = <<>>
    BY <2>1 DEF mappedStk, Decoded, n
  <2>3. Rules!Deliver(s, c) = <<>>
    <3>1. DOMAIN s = 1 .. k
      BY <1>3, LenProperties
    <3>2. {j \in DOMAIN s : Rules!Intercepts(s[j], c)} = {}
      BY <1>3, <1>7, <1>9, <3>1
    <3> QED BY <1>4, <3>2 DEF Rules!Deliver
  <2> QED BY <2>1, <2>2, <2>3 DEF Flow!Become, mappedOutcome, c, s
<1>10. CASE h # 0
  <2>1. h \in 1 .. k /\ Armed(ctx[h]) /\ h \in 0 .. Len(ctx)
    BY <1>1, <1>6, <1>10 DEF HeadOf
  <2>2. pc' = "land" /\ ctx' = SubSeq(ctx, 1, h)
    BY <1>10, <2>1 DEF LongjmpTo, Keep
  <2>3. Seen(ctx') = SubSeq(s, 1, h)
    <3>1. Keep(k) \in Seq(Region) /\ h \in 0 .. Len(Keep(k)) /\ Len(ctx) \in Nat
      BY <1>1, <1>2, <2>1
    <3>2. SubSeq(Keep(k), 1, h) = SubSeq(ctx, 1, h)
      <4>1. /\ SubSeq(Keep(k), 1, h) \in Seq(Region) /\ Len(SubSeq(Keep(k), 1, h)) = h
            /\ Cut(Keep(k), SubSeq(Keep(k), 1, h), h)
        BY <3>1, KeepFacts
      <4>2. /\ SubSeq(ctx, 1, h) \in Seq(Region) /\ Len(SubSeq(ctx, 1, h)) = h
            /\ Cut(ctx, SubSeq(ctx, 1, h), h)
        BY <1>1, <2>1, KeepFacts
      <4>3. \A j \in 1 .. h : SubSeq(Keep(k), 1, h)[j] = SubSeq(ctx, 1, h)[j]
        BY <1>1, <1>2, <2>1, <4>1, <4>2 DEF Cut
      <4> QED BY <4>1, <4>2, <4>3, SeqEqual
    <3>3. Seen(SubSeq(Keep(k), 1, h)) = SubSeq(Seen(Keep(k)), 1, h)
      BY <3>1, SeenCut
    <3> QED BY <1>2, <2>2, <3>2, <3>3
  <2>4. mappedStk' = Rules!Deliver(Seen(ctx'), c)
    BY <2>2 DEF mappedStk, Decoded, Seen, n, c
  <2>5. mappedStk' = Rules!Deliver(s, c)
    BY <1>8, <2>3, <2>4
  <2> QED BY <2>2, <2>5 DEF Flow!Become, mappedOutcome, c, s
<1> QED BY <1>9, <1>10

LEMMA KeepOne ==
  ASSUME NEW s \in Seq(Region), NEW l \in 1 .. Len(s)
  PROVE  SubSeq(s, 1, l) = Append(SubSeq(s, 1, l - 1), s[l])
<1> DEFINE t == SubSeq(s, 1, l)
           u == Append(SubSeq(s, 1, l - 1), s[l])
<1>1. l \in 0 .. Len(s) /\ l - 1 \in 0 .. Len(s) /\ (l - 1) + 1 = l /\ s[l] \in Region /\ l \in Nat
  BY ElementOfSeq, LenProperties
<1>2. t \in Seq(Region) /\ Len(t) = l /\ Cut(s, t, l)
  BY <1>1, KeepFacts
<1>3. u \in Seq(Region) /\ Len(u) = l /\ u[l] = s[l] /\ Cut(s, u, l - 1)
  <2>1. /\ u \in Seq(Region) /\ Len(u) = (l - 1) + 1 /\ u[(l - 1) + 1] = s[l] /\ Cut(s, u, l - 1)
    BY <1>1, PutFacts
  <2> QED BY <1>1, <2>1
<1> HIDE DEF t, u
<1>4. \A i \in 1 .. l : t[i] = u[i]
  BY <1>1, <1>2, <1>3 DEF Cut
<1>5. t = u
  BY <1>2, <1>3, <1>4, SeqEqual
<1> QED BY <1>5 DEF t, u

\* ret does what Python does with a return that no finally of the function takes.
LEMMA RetView ==
  ASSUME IInv, pc = "run", NEW f \in 2 .. n, ctx[f].kind = "func", Ret(f), NEW x
  PROVE  Flow!Become(Rules!Resume(SubSeq(Seen(ctx), 1, f - 1)), x)
<1> DEFINE s == SubSeq(Seen(ctx), 1, f - 1)
<1>1. /\ ctx \in Seq(Region) /\ n \in Nat /\ n = Len(ctx) /\ Shape(ctx)
      /\ f - 1 \in 1 .. n /\ f - 1 \in 0 .. Len(Seen(ctx)) /\ (f - 1) - 1 = f - 2 /\ f - 2 \in 0 .. n
      /\ ctx[f - 1] \in Region /\ WellFormed(ctx[f - 1])
  BY Now, SeenFacts DEF Shape
<1>2. Seen(ctx) \in Seq(Constructs) /\ Seen(ctx)[f - 1] = Decode(ctx[f - 1]) /\ Len(Seen(ctx)) = n
  BY <1>1, SeenFacts
<1>3. s \in Seq(Constructs) /\ Len(s) = f - 1 /\ Cut(Seen(ctx), s, f - 1)
  BY <1>1, <1>2, KeepFacts
<1>4. s[f - 1] = Decode(ctx[f - 1]) /\ s # <<>> /\ f - 1 \in Nat
  BY <1>1, <1>2, <1>3 DEF Cut
<1> HIDE DEF s
<1>5. CASE Calling(ctx[f - 1])
  <2> DEFINE r == [ctx[f - 1] EXCEPT !.phase = "body"]
             t == SubSeq(Seen(ctx), 1, f - 2)
             u == Append(t, Decode(r))
  <2>1. /\ r \in Region /\ r.kind = "iter" /\ r.phase = "body" /\ r.pending = "fallthrough"
        /\ ctx[f - 1].kind = "iter" /\ ctx[f - 1].phase = "next"
    BY <1>1, <1>5 DEF Calling, Region, WellFormed
  <2>2. ctx' = Append(Keep(f - 2), r) /\ pc' = "run"
    BY <1>5 DEF Ret, Goto, Calling
  <2> HIDE DEF r
  <2>3. Decode(r) = Rules!Iter("body") /\ s[f - 1] = Rules!Iter("next")
    BY <1>1, <1>4, <2>1, DecodeFacts DEF WellFormed
  <2>4. /\ t \in Seq(Constructs) /\ Len(t) = f - 2 /\ Cut(Seen(ctx), t, f - 2)
        /\ Decode(r) \in Constructs
    BY <1>1, <1>2, <2>1, KeepFacts DEF Constructs
  <2>5. /\ u \in Seq(Constructs) /\ Len(u) = f - 1 /\ u[f - 1] = Decode(r)
        /\ \A i \in 1 .. f - 2 : u[i] = s[i]
    <3>1. /\ u \in Seq(Constructs) /\ Len(u) = Len(t) + 1 /\ u[Len(t) + 1] = Decode(r)
          /\ \A i \in 1 .. Len(t) : u[i] = t[i]
      BY <2>4, AppendProperties
    <3>2. \A i \in 1 .. f - 2 : t[i] = s[i]
      BY <1>1, <1>3, <2>4 DEF Cut
    <3> QED BY <1>1, <2>4, <3>1, <3>2
  <2>6. Flow!Become(u, x)
    BY <1>1, <2>1, <2>2, PutView
  <2> HIDE DEF u, t
  <2>7. Rules!Resume(s) = [s EXCEPT ![f - 1] = Decode(r)]
    BY <1>3, <1>4, <2>3 DEF Rules!Resume
  <2>8. Rules!Resume(s) = u
    <3> DEFINE v == [s EXCEPT ![f - 1] = Decode(r)]
    <3>1. v \in Seq(Constructs) /\ Len(v) = f - 1 /\ \A i \in 1 .. f - 1 : v[i] = u[i]
      BY <1>1, <1>3, <2>4, <2>5, ExceptSeq
    <3>2. v = u
      BY <2>5, <3>1, SeqEqual
    <3> QED BY <2>7, <3>2
  <2> QED BY <2>6, <2>8 DEF s
<1>6. CASE ~Calling(ctx[f - 1])
  <2>1. ctx' = Keep(f - 1) /\ pc' = "run"
    BY <1>6 DEF Ret, Goto, Calling
  <2>2. s[f - 1] # Rules!Iter("next")
    <3> DEFINE d == Decode(ctx[f - 1])
    <3>1. ctx[f - 1].kind \in {"func", "loop", "iter", "try"}
      BY <1>1 DEF Region
    <3>2. ctx[f - 1].kind = "func" => d.kind = "func"
      BY <1>1, DecodeFacts DEF Rules!Func
    <3>3. ctx[f - 1].kind = "loop" => d.kind = "loop"
      BY <1>1, DecodeFacts DEF Rules!Loop
    <3>4. ctx[f - 1].kind = "iter" => d.phase # "next"
      BY <1>1, <1>6, DecodeFacts DEF Rules!Iter, Calling
    <3>5. ctx[f - 1].kind = "try" => d.kind \in {"try", "finally"}
      <4>1. CASE ctx[f - 1].kind = "try" /\ ctx[f - 1].phase = "body"
        BY <1>1, <4>1, DecodeFacts DEF Rules!Try
      <4>2. CASE ctx[f - 1].kind = "try" /\ ctx[f - 1].phase = "handler"
        BY <1>1, <4>2, DecodeFacts
      <4>3. CASE ctx[f - 1].kind = "try" /\ ctx[f - 1].phase = "finally"
        BY <1>1, <4>3, DecodeFacts DEF Rules!Finally
      <4> QED BY <1>1, <4>1, <4>2, <4>3, DecodeFacts
    <3> HIDE DEF d
    <3> QED BY <1>4, <3>1, <3>2, <3>3, <3>4, <3>5 DEF Rules!Iter, d
  <2>3. Rules!Resume(s) = s
    BY <1>3, <2>2 DEF Rules!Resume
  <2> QED BY <1>1, <2>1, <2>3, CutView DEF s
<1> QED BY <1>5, <1>6

\* The construct a jump goes to, and what it leaves.
LEMMA ExitTo ==
  ASSUME IInv, pc = "run", NEW code \in {"return", "break", "continue"}, NEW i \in 1 .. n,
         \/ Open(ctx[i])
         \/ ctx[i].kind = "func" /\ code = "return"
         \/ ctx[i].kind = "loop" /\ code # "return"
         \/ ctx[i].kind = "iter" /\ ctx[i].phase = "body" /\ code # "return",
         \A j \in i + 1 .. n :
           /\ ~Open(ctx[j])
           /\ IF code = "return" THEN ctx[j].kind # "func" ELSE ctx[j].kind \notin {"loop", "iter"}
  PROVE  Rules!Deliver(Seen(ctx), [kind |-> code])
           = Rules!Settle(SubSeq(Seen(ctx), 1, i - 1), Decode(ctx[i]), [kind |-> code])
<1> DEFINE c == [kind |-> code]
<1>1. /\ ctx \in Seq(Region) /\ n \in Nat /\ n = Len(ctx) /\ Shape(ctx)
      /\ \A j \in 1 .. n : ctx[j] \in Region /\ WellFormed(ctx[j])
  BY Now DEF Shape
<1>2. DOMAIN Seen(ctx) = 1 .. n /\ \A j \in 1 .. n : Seen(ctx)[j] = Decode(ctx[j])
  BY <1>1, SeenFacts
<1>3. c # Rules!Normal
  BY DEF Rules!Normal
<1> HIDE DEF c
<1>4. Rules!Intercepts(Seen(ctx)[i], c)
  BY <1>1, <1>2, InterceptsExit DEF c
<1>5. ASSUME NEW j \in i + 1 .. n PROVE ~Rules!Intercepts(Seen(ctx)[j], c)
  <2>1. j \in 1 .. n
    BY <1>1
  <2> QED BY <1>1, <1>2, <1>5, <2>1, InterceptsExit DEF c
<1>6. Rules!Deliver(Seen(ctx), c) = Rules!Settle(SubSeq(Seen(ctx), 1, i - 1), Seen(ctx)[i], c)
  BY <1>1, <1>2, <1>3, <1>4, <1>5, DeliverTo
<1> QED BY <1>2, <1>6 DEF c

LEMMA RetDelivers ==
  ASSUME IInv, pc = "run", NEW f \in 2 .. n, Innermost(Funcs, f), ctx[f].kind = "func",
         \A j \in f + 1 .. n : ~Open(ctx[j]), Ret(f), NEW x
  PROVE  Flow!Become(Rules!Deliver(Seen(ctx), [kind |-> "return"]), x)
<1> DEFINE code == "return"
           s    == SubSeq(Seen(ctx), 1, f - 1)
<1>1. n \in Nat /\ ctx[f] \in Region /\ WellFormed(ctx[f])
  BY Now DEF Shape
<1>2. \A j \in f + 1 .. n : ctx[j].kind # "func"
  BY <1>1 DEF Innermost, Funcs
<1>3. Rules!Deliver(Seen(ctx), [kind |-> code]) = Rules!Settle(s, Decode(ctx[f]), [kind |-> code])
  BY <1>1, <1>2, ExitTo
<1>4. Decode(ctx[f]) = Rules!Func
  BY <1>1, DecodeFacts
<1>5. Flow!Become(Rules!Resume(s), x)
  BY RetView
<1> HIDE DEF s
<1>6. Rules!Settle(s, Rules!Func, [kind |-> code]) = Rules!Resume(s)
  BY DEF Rules!Settle, Rules!Func
<1> QED BY <1>3, <1>4, <1>5, <1>6

LEMMA LabelDelivers ==
  ASSUME IInv, pc = "run", NEW code \in {"break", "continue"}, NEW l \in 1 .. n,
         ctx[l].kind = "loop" \/ (ctx[l].kind = "iter" /\ ctx[l].phase = "body"),
         \A j \in l + 1 .. n : ~Open(ctx[j]) /\ ctx[j].kind \notin {"loop", "iter"},
         Label(code, l), NEW x
  PROVE  Flow!Become(Rules!Deliver(Seen(ctx), [kind |-> code]), x)
<1> DEFINE s == SubSeq(Seen(ctx), 1, l - 1)
           c == [kind |-> code]
<1>1. /\ ctx \in Seq(Region) /\ n \in Nat /\ n = Len(ctx) /\ ctx[l] \in Region /\ WellFormed(ctx[l])
      /\ l - 1 \in 1 .. n /\ l - 1 \in 0 .. n /\ (l - 1) + 1 = l /\ pc \in {"run", "land"}
  BY Now, AboveMain DEF Shape
<1>2. Rules!Deliver(Seen(ctx), c) = Rules!Settle(s, Decode(ctx[l]), c)
  BY ExitTo
<1>3. c.kind = code
  OBVIOUS
<1> HIDE DEF c
<1>4. CASE ctx[l].kind = "loop"
  <2>1. Decode(ctx[l]) = Rules!Loop
    BY <1>1, <1>4, DecodeFacts
  <2>2. Rules!Settle(s, Rules!Loop, c) = IF code = "break" THEN s ELSE Append(s, Rules!Loop)
    BY <1>3 DEF Rules!Settle, Rules!Loop
  <2>3. CASE code = "break"
    <3>1. ctx' = Keep(l - 1) /\ pc' = "run"
      BY <2>3 DEF Label, BreakLabel, Goto
    <3>2. Flow!Become(s, x)
      BY <1>1, <3>1, CutView
    <3> QED BY <1>2, <2>1, <2>2, <2>3, <3>2 DEF c
  <2>4. CASE code = "continue"
    <3>1. ctx' = Keep(l) /\ pc' = "run"
      BY <1>4, <2>4 DEF Label, ContinueLabel, Goto
    <3>2. Keep(l) = Append(Keep(l - 1), ctx[l])
      BY <1>1, KeepOne DEF Keep
    <3>3. Flow!Become(Append(s, Rules!Loop), x)
      BY <1>1, <2>1, <3>1, <3>2, PutView
    <3> QED BY <1>2, <2>1, <2>2, <2>4, <3>3 DEF c
  <2> QED BY <2>3, <2>4
<1>5. CASE ctx[l].kind = "iter" /\ ctx[l].phase = "body"
  <2>1. Decode(ctx[l]) = Rules!Iter("body")
    BY <1>1, <1>5, DecodeFacts
  <2>2. Rules!Settle(s, Rules!Iter("body"), c)
          = IF code = "continue" THEN Append(s, Rules!Iter("head")) ELSE s
    BY <1>3 DEF Rules!Settle, Rules!Iter
  <2>3. CASE code = "break"
    <3>1. ctx' = Keep(l - 1) /\ pc' = "run"
      BY <2>3 DEF Label, BreakLabel, Goto
    <3>2. Flow!Become(s, x)
      BY <1>1, <3>1, CutView
    <3> QED BY <1>2, <2>1, <2>2, <2>3, <3>2 DEF c
  <2>4. CASE code = "continue"
    <3> DEFINE r == [ctx[l] EXCEPT !.phase = "head"]
    <3>1. ctx' = Append(Keep(l - 1), r) /\ pc' = "run"
      BY <1>5, <2>4 DEF Label, ContinueLabel, Goto
    <3>2. r \in Region /\ r.kind = "iter" /\ r.phase = "head" /\ r.pending = "fallthrough"
      BY <1>1, <1>5 DEF Region, WellFormed
    <3> HIDE DEF r
    <3>3. Decode(r) = Rules!Iter("head")
      BY <3>2, DecodeFacts DEF WellFormed
    <3>4. Flow!Become(Append(s, Decode(r)), x)
      BY <1>1, <3>1, <3>2, PutView
    <3> QED BY <1>2, <2>1, <2>2, <2>4, <3>3, <3>4 DEF c
  <2> QED BY <2>3, <2>4
<1> QED BY <1>4, <1>5

LEMMA RouteDelivers ==
  ASSUME IInv, pc = "run", NEW code \in {"return", "break", "continue"}, NEW i \in 1 .. n,
         Open(ctx[i]),
         \A j \in i + 1 .. n :
           /\ ~Open(ctx[j])
           /\ IF code = "return" THEN ctx[j].kind # "func" ELSE ctx[j].kind \notin {"loop", "iter"},
         RouteExit(i, code), NEW x
  PROVE  Flow!Become(Rules!Deliver(Seen(ctx), [kind |-> code]), x)
<1> DEFINE s  == SubSeq(Seen(ctx), 1, i - 1)
           c  == [kind |-> code]
           r0 == [ctx[i] EXCEPT !.pending = code]
           r  == [r0 EXCEPT !.phase = "finally"]
<1>1. /\ n \in Nat /\ ctx[i] \in Region /\ WellFormed(ctx[i]) /\ i - 1 \in 0 .. n
      /\ pc \in {"run", "land"}
  BY Now DEF Shape
<1>2. Rules!Deliver(Seen(ctx), c) = Rules!Settle(s, Decode(ctx[i]), c)
  BY ExitTo
<1>3. c.kind = code /\ code # "raise"
  OBVIOUS
<1>4. r \in Region /\ r.kind = "try" /\ r.phase = "finally" /\ r.pending = code
  BY <1>1 DEF Region, Pending, Open
<1>5. ctx' = Append(Keep(i - 1), r) /\ pc' = "run"
  BY DEF RouteExit, GotoFinally, Goto
<1> HIDE DEF r
<1>6. Decode(r) = Rules!Finally(c)
  <2>1. Saved(r) = c
    BY <1>4 DEF Saved
  <2> QED BY <1>4, <2>1, DecodeFacts DEF WellFormed
<1> HIDE DEF c
<1>7. Flow!Become(Append(s, Decode(r)), x)
  BY <1>1, <1>4, <1>5, PutView
<1>8. Rules!Settle(s, Decode(ctx[i]), c) = Append(s, Rules!Finally(c))
  <2> DEFINE d == Decode(ctx[i])
  <2>1. d.kind = "try"
    <3>1. CASE ctx[i].phase = "body"
      BY <1>1, <3>1, DecodeFacts DEF Open, Rules!Try
    <3>2. CASE ctx[i].phase = "handler"
      BY <1>1, <3>2, DecodeFacts DEF Open
    <3> QED BY <3>1, <3>2 DEF Open
  <2> HIDE DEF d
  <2> QED BY <1>3, <2>1 DEF Rules!Settle, d
<1> QED BY <1>2, <1>6, <1>7, <1>8 DEF c

-----------------------------------------------------------------------------
\* Every step is a step of PyFlow, or one that PyFlow does not see.

LEMMA SameNames ==
  /\ Flow!Func = Rules!Func /\ Flow!Loop = Rules!Loop /\ Flow!Normal = Rules!Normal
  /\ \A p : Flow!Iter(p) = Rules!Iter(p)
  /\ \A p : Flow!Finally(p) = Rules!Finally(p)
  /\ \A p : Flow!Raising(p) = Rules!Raising(p)
  /\ \A F, C : Flow!Try(F, C) = Rules!Try(F, C)
BY DEF Flow!Func, Rules!Func, Flow!Loop, Rules!Loop, Flow!Normal, Rules!Normal, Flow!Iter,
       Rules!Iter, Flow!Finally, Rules!Finally, Flow!Raising, Rules!Raising, Flow!Try, Rules!Try

LEMMA SameResume == ASSUME NEW s PROVE Flow!Resume(s) = Rules!Resume(s)
BY DEF Flow!Resume, Rules!Resume, Flow!Iter, Rules!Iter

\* Functions, loops and finally blocks are seen as such.
LEMMA DecodeKind ==
  ASSUME NEW r \in Region, WellFormed(r)
  PROVE  /\ Decode(r).kind = "func" <=> r.kind = "func"
         /\ Decode(r).kind = "finally" <=> r.phase = "finally"
         /\ Decode(r).kind = "try" <=> r.kind = "try" /\ r.phase # "finally"
         /\ Decode(r).kind = "loop" <=> r.kind = "loop"
         /\ Decode(r).kind = "iter" <=> r.kind = "iter"
<1> DEFINE d == Decode(r)
<1>1. r.kind \in {"func", "loop", "iter", "try"}
  BY DEF Region
<1>2. r.kind # "try" => r.phase # "finally"
  BY DEF WellFormed
<1>3. r.kind = "func" => d.kind = "func"
  BY DecodeFacts DEF Rules!Func
<1>4. r.kind = "loop" => d.kind = "loop"
  BY DecodeFacts DEF Rules!Loop
<1>5. r.kind = "iter" => d.kind = "iter"
  BY DecodeFacts DEF Rules!Iter
<1>6. r.kind = "try" /\ r.phase = "body" => d.kind = "try"
  BY DecodeFacts DEF Rules!Try
<1>7. r.kind = "try" /\ r.phase = "handler" => d.kind = "try"
  BY DecodeFacts
<1>8. r.kind = "try" /\ r.phase = "finally" => d.kind = "finally"
  BY DecodeFacts DEF Rules!Finally
<1>9. r.kind = "try" => r.phase \in {"body", "handler", "finally"}
  BY DecodeFacts
<1> HIDE DEF d
<1>10. CASE r.kind = "try"
  BY <1>6, <1>7, <1>8, <1>9, <1>10 DEF d
<1>11. CASE r.kind # "try"
  BY <1>1, <1>2, <1>3, <1>4, <1>5, <1>11 DEF d
<1> QED BY <1>10, <1>11

\* The loop a break or continue is written in runs its body.
LEMMA LoopBody ==
  ASSUME IInv, QInv, pc = "run", here.phase # "head",
         NEW f \in Funcs, Innermost(Funcs, f), NEW l \in Loops(f), ctx[l].kind = "iter"
  PROVE  ctx[l].phase = "body"
<1>1. /\ n \in Nat \ {0} /\ n = Len(ctx) /\ here = ctx[n] /\ f \in 1 .. n /\ l \in f + 1 .. n
      /\ pc \in {"run", "land"} /\ Shape(ctx) /\ Quiet(ctx) /\ l \in 1 .. n
  BY Here, Now DEF Funcs, Loops, QInv
<1>2. ctx[l] \in Region /\ WellFormed(ctx[l])
  BY <1>1, Now DEF Shape
<1>3. CASE l = n
  BY <1>1, <1>2, <1>3 DEF IInv, LandsOnTop, Calling, WellFormed, Region
<1>4. CASE l < n
  <2>1. l + 1 \in 1 .. n /\ l \in 1 .. n - 1 /\ l # 0 /\ (l + 1) - 1 = l /\ l + 1 > f
    BY <1>1, <1>4
  <2>2. QuietAt(ctx, l, ctx[l + 1])
    BY <1>1, <2>1 DEF Quiet
  <2>3. ctx[l].phase # "head"
    BY <2>1, <2>2 DEF QuietAt
  <2>4. ctx[l + 1].kind # "func"
    BY <1>1, <2>1 DEF Innermost, Funcs
  <2>5. ~Calling(ctx[l])
    BY <1>1, <2>1, <2>4 DEF Shape
  <2> QED BY <1>2, <2>3, <2>5 DEF Calling, WellFormed, Region
<1> QED BY <1>1, <1>3, <1>4

LEMMA EnterImplements ==
  ASSUME IInv, Enter
  PROVE  Flow!Next
<1>1. pc = "run" /\ pc \in {"run", "land"}
  BY DEF Enter, EnterCall, EnterLoop, EnterIterLoop, CallNext, EnterTry, UserCode
<1>2. /\ n \in Nat \ {0} /\ n = Len(ctx) /\ ctx \in Seq(Region) /\ Shape(ctx)
      /\ n \in 1 .. n /\ n \in 0 .. n /\ here \in Region /\ here = ctx[n]
  BY <1>1, Now DEF here
<1>3. Keep(n) = ctx /\ SubSeq(Seen(ctx), 1, n) = Seen(ctx)
  BY <1>2, SubSeqFull, SeenFacts DEF Keep
<1>4. ASSUME NEW r \in Region, ctx' = Append(ctx, r), pc' = "run", Decode(r) \in Flow!Fresh
      PROVE  Flow!Next
  <2>1. Flow!Become(Append(Seen(ctx), Decode(r)), "done")
    BY <1>1, <1>2, <1>3, <1>4, PutView
  <2> QED BY <1>1, <1>4, <2>1, RunView DEF Flow!Next, Flow!Enter
<1>5. ASSUME NEW a \in {"func", "loop", "iter"}, NEW p \in {"body", "head"},
             a = "iter" <=> p = "head"
      PROVE  Plain(a, p) \in Region /\ Decode(Plain(a, p)) \in Flow!Fresh
  <2> DEFINE r == Plain(a, p)
  <2>1. /\ r \in Region /\ r.kind = a /\ r.phase = p /\ r.pending = "fallthrough"
    BY ExcAssumption DEF Plain, Region, Pending
  <2> HIDE DEF r
  <2>2. WellFormed(r)
    BY <1>5, <2>1 DEF WellFormed
  <2>3. Decode(r) \in {Rules!Func, Rules!Loop, Rules!Iter("head")}
    BY <1>5, <2>1, <2>2, DecodeFacts
  <2> QED BY <2>1, <2>3, SameNames DEF Flow!Fresh, r
<1>6. CASE EnterCall
  BY <1>4, <1>5, <1>6 DEF EnterCall, Goto
<1>7. CASE EnterLoop
  BY <1>4, <1>5, <1>7 DEF EnterLoop, Goto
<1>8. CASE EnterIterLoop
  BY <1>4, <1>5, <1>8 DEF EnterIterLoop, Goto
<1>9. ASSUME NEW F \in BOOLEAN, NEW C \in SUBSET Exc, EnterTry(F, C) PROVE Flow!Next
  <2> DEFINE r == Try(F, C)
  <2>1. /\ r \in Region /\ r.kind = "try" /\ r.phase = "body" /\ r.fin = F /\ r.catches = C
        /\ r.pending = "fallthrough"
    BY ExcAssumption DEF Try, Plain, Region, Pending
  <2>2. ctx' = Append(ctx, r) /\ pc' = "run"
    BY <1>9 DEF EnterTry, Goto
  <2> HIDE DEF r
  <2>3. WellFormed(r)
    BY <2>1 DEF WellFormed
  <2>4. Decode(r) = Flow!Try(F, C)
    BY <2>1, <2>3, DecodeFacts, SameNames
  <2> QED BY <1>4, <2>1, <2>2, <2>4 DEF Flow!Fresh
<1>10. CASE CallNext
  <2> DEFINE r == [here EXCEPT !.phase = "next"]
             g == Plain("func", "body")
             t == Append(Keep(n - 1), r)
             s == SubSeq(Seen(ctx), 1, n - 1)
  <2>1. here.phase = "head" /\ WellFormed(here) /\ ctx' = Append(t, g) /\ pc' = "run"
    BY <1>2, <1>10 DEF CallNext, Goto, Shape
  <2>2. /\ r \in Region /\ r.kind = "iter" /\ r.phase = "next" /\ r.pending = "fallthrough"
        /\ g \in Region /\ g.kind = "func" /\ g.phase = "body" /\ g.pending = "fallthrough"
        /\ here.kind = "iter"
    BY <1>2, <2>1, ExcAssumption DEF Region, WellFormed, Plain, Pending
  <2> HIDE DEF r, g
  <2>3. n - 1 \in 0 .. Len(ctx) /\ Keep(n - 1) \in Seq(Region)
    BY <1>2, KeepFacts DEF Keep
  <2>4. t \in Seq(Region) /\ Seen(t) = Append(s, Decode(r))
    BY <1>2, <2>2, <2>3, SeenCut, SeenPut, AppendProperties DEF Keep
  <2> HIDE DEF t, s
  <2>5. ctx' \in Seq(Region) /\ Len(ctx') # 0 /\ Seen(ctx') = Append(Append(s, Decode(r)), Decode(g))
    BY <2>1, <2>2, <2>4, SeenPut, AppendProperties, LenProperties
  <2>6. WellFormed(r) /\ WellFormed(g)
    BY <2>2 DEF WellFormed
  <2>7. /\ Decode(r) = Flow!Iter("next") /\ Decode(g) = Flow!Func
        /\ Decode(here) = Flow!Iter("head")
    BY <1>2, <2>1, <2>2, <2>6, DecodeFacts, SameNames
  <2>8. Flow!Become(Append(Append(Flow!rest, Flow!Iter("next")), Flow!Func), "done")
    BY <1>1, <2>1, <2>5, <2>7, RunNext, RunView DEF s
  <2> QED BY <1>1, <2>7, <2>8, RunView DEF Flow!Next, Flow!CallNext
<1> QED BY <1>6, <1>7, <1>8, <1>9, <1>10 DEF Enter

\* The finally on top does not take what it lets out.
LEMMA TopLetsOut ==
  ASSUME IInv, pc = "run", here.phase = "finally", NEW c,
         (\E code \in {"return", "break", "continue"} : c = [kind |-> code])
           \/ \E e : c = Rules!Raising(e)
  PROVE  Rules!Deliver(Seen(ctx), c) = Rules!Deliver(SubSeq(Seen(ctx), 1, n - 1), c)
<1>1. /\ n \in Nat \ {0} /\ n = Len(ctx) /\ here = ctx[n] /\ ctx \in Seq(Region)
      /\ here \in Region /\ WellFormed(here)
  BY Here, Now
<1>2. /\ Seen(ctx) \in Seq(Constructs) /\ Len(Seen(ctx)) = n /\ Seen(ctx)[n] = Decode(here)
      /\ n - 1 \in 0 .. Len(Seen(ctx))
  BY <1>1, SeenFacts
<1>3. here.kind = "try" /\ ~Open(here) /\ ~Armed(here)
  BY <1>1 DEF WellFormed, Open, Armed
<1>4. c # Rules!Normal /\ ~Rules!Intercepts(Decode(here), c)
  <2>1. CASE \E code \in {"return", "break", "continue"} : c = [kind |-> code]
    <3>1. PICK code \in {"return", "break", "continue"} : c = [kind |-> code]
      BY <2>1
    <3>2. c # Rules!Normal
      BY <3>1 DEF Rules!Normal
    <3>3. ~Rules!Intercepts(Decode(here), [kind |-> code])
      BY <1>1, <1>3, InterceptsExit
    <3> QED BY <3>1, <3>2, <3>3
  <2>2. CASE \E e : c = Rules!Raising(e)
    <3>1. PICK e : c = Rules!Raising(e)
      BY <2>2
    <3>2. c # Rules!Normal
      BY <3>1 DEF Rules!Normal, Rules!Raising
    <3> QED BY <1>1, <1>3, <3>1, <3>2, InterceptsRaise
  <2> QED BY <2>1, <2>2
<1>5. \A j \in (n - 1) + 1 .. Len(Seen(ctx)) : ~Rules!Intercepts(Seen(ctx)[j], c)
  BY <1>1, <1>2, <1>4
<1> QED BY <1>2, <1>4, <1>5, DeliverBelow

\* A jump that a finally has pending meets no other finally in its function.
LEMMA ResumesOpen ==
  ASSUME IInv, pc = "run", here.phase = "finally", here.pending \in {"return", "break", "continue"},
         NEW f \in Funcs, Innermost(Funcs, f), NEW j \in f + 1 .. n
  PROVE  ~Open(ctx[j])
<1>1. /\ n \in Nat \ {0} /\ n = Len(ctx) /\ here = ctx[n] /\ f \in 1 .. n /\ pc \in {"run", "land"}
      /\ here.kind = "try" /\ ExitClear(ctx, n - 1, here)
  BY Here DEF Funcs, WellFormed
<1>2. CASE j = n
  BY <1>1, <1>2 DEF Open
<1>3. CASE j < n
  <2>1. j \in 1 .. n - 1
    BY <1>1, <1>3
  <2>2. ~FuncBetween(ctx, j, n - 1)
    BY <1>1, <2>1 DEF FuncBetween, Innermost, Funcs
  <2>3. Owes(here, here.pending)
    BY <1>1 DEF Owes
  <2>4. CASE here.pending = "return"
    BY <1>1, <2>1, <2>2, <2>3, <2>4 DEF ExitClear, Open, Armed
  <2>5. CASE here.pending \in {"break", "continue"}
    BY <1>1, <2>1, <2>2, <2>3, <2>5 DEF ExitClear
  <2> QED BY <2>4, <2>5
<1> QED BY <1>1, <1>2, <1>3

LEMMA FinallyEndImplements ==
  ASSUME IInv, QInv, FinallyEnd
  PROVE  Flow!Next
<1>1. /\ pc = "run" /\ pc \in {"run", "land"} /\ here.phase = "finally"
      /\ spy_exc_inflight' = spy_exc_inflight
  BY DEF FinallyEnd, UserCode
<1>2. /\ n \in Nat \ {0} /\ n = Len(ctx) /\ here = ctx[n] /\ here.kind = "try" /\ n \in 1 .. n
      /\ n \in 0 .. n /\ here \in Region /\ WellFormed(here) /\ n - 1 \in 1 .. n
      /\ HeadOf(ctx, n, spy_exc_top) /\ ctx \in Seq(Region)
  BY <1>1, Here, Now DEF WellFormed
<1>3. Decode(here) = Rules!Finally(Saved(here))
  BY <1>1, <1>2, DecodeFacts
<1> DEFINE s == SubSeq(Seen(ctx), 1, n - 1)
<1>4. ASSUME Flow!Become(Rules!Deliver(s, Saved(here)), "uncaught") PROVE Flow!Next
  <2>1. Flow!top.kind = "finally" /\ Flow!top.saved = Saved(here) /\ Flow!rest = s /\ Flow!Running
    BY <1>1, <1>3, RunView DEF Rules!Finally
  <2>2. Flow!Deliver(s, Saved(here)) = Rules!Deliver(s, Saved(here))
    BY SameRules
  <2> HIDE DEF s
  <2>3. Flow!Become(Flow!Deliver(Flow!rest, Flow!top.saved), "uncaught")
    BY <1>4, <2>1, <2>2
  <2> QED BY <2>1, <2>3 DEF Flow!Next, Flow!EndBody
<1>5. CASE here.pending = "fallthrough" /\ Goto(Keep(n - 1)) /\ NoChain
  <2>1. Flow!Become(s, "uncaught")
    BY <1>1, <1>2, <1>5, CutView DEF Goto
  <2>2. Rules!Deliver(s, Saved(here)) = s
    BY <1>5 DEF Saved, Rules!Deliver
  <2> QED BY <1>4, <2>1, <2>2
<1>6. CASE here.pending = "rethrow" /\ LongjmpTo(n, spy_exc_top) /\ NoChain
  <2>1. spy_exc_inflight = here.owed
    BY <1>1, <1>2, <1>6 DEF QInv, OwedIn, OwesExc
  <2> DEFINE e == spy_exc_inflight
  <2>2. Saved(here) = Rules!Raising(e)
    BY <1>6, <2>1 DEF Saved
  <2>3. Flow!Become(Rules!Deliver(SubSeq(Seen(ctx), 1, n), Rules!Raising(e)), "uncaught")
    BY <1>1, <1>2, <1>6, JumpView
  <2>4. SubSeq(Seen(ctx), 1, n) = Seen(ctx)
    BY <1>2, SubSeqFull, SeenFacts
  <2>5. Rules!Deliver(Seen(ctx), Rules!Raising(e)) = Rules!Deliver(s, Rules!Raising(e))
    BY <1>1, TopLetsOut
  <2> HIDE DEF s
  <2> QED BY <1>4, <2>2, <2>3, <2>4, <2>5
<1>7. ASSUME here.pending \in {"return", "break", "continue"},
             Flow!Become(Rules!Deliver(Seen(ctx), [kind |-> here.pending]), "uncaught")
      PROVE  Flow!Next
  <2>1. Saved(here) = [kind |-> here.pending]
    BY <1>7 DEF Saved
  <2>2. Rules!Deliver(Seen(ctx), [kind |-> here.pending]) = Rules!Deliver(s, [kind |-> here.pending])
    BY <1>1, <1>7, TopLetsOut
  <2> HIDE DEF s
  <2> QED BY <1>4, <1>7, <2>1, <2>2
<1>8. CASE here.pending = "return" /\ \E f \in Funcs : Innermost(Funcs, f) /\ Ret(f)
  <2>1. PICK f \in Funcs : Innermost(Funcs, f) /\ Ret(f)
    BY <1>8
  <2>2. f \in 1 .. n /\ ctx[f].kind = "func" /\ Owes(here, "return")
    BY <1>1, <1>2, <1>8, <2>1 DEF Funcs, Owes
  <2>3. f \in 2 .. n
    <3>1. ExitClear(ctx, n - 1, here)
      BY <1>1, Here
    <3>2. PICK m \in 2 .. n - 1 : ctx[m].kind = "func"
      BY <2>2, <3>1 DEF ExitClear, FuncBetween
    <3> QED BY <1>2, <2>1, <2>2, <3>2 DEF Innermost, Funcs
  <2>4. \A j \in f + 1 .. n : ~Open(ctx[j])
    BY <1>1, <1>8, <2>1, ResumesOpen
  <2>5. Flow!Become(Rules!Deliver(Seen(ctx), [kind |-> "return"]), "uncaught")
    BY <1>1, <2>1, <2>2, <2>3, <2>4, RetDelivers
  <2> QED BY <1>7, <1>8, <2>5
<1>9. ASSUME here.pending \in {"break", "continue"}, NEW f \in Funcs, Innermost(Funcs, f),
             \/ \E i \in OpenFinallys(f) : Innermost(OpenFinallys(f), i) /\ GotoFinally(i, ctx[i])
             \/ \E l \in Loops(f) : Innermost(Loops(f), l) /\ Label(here.pending, l)
      PROVE  Flow!Next
  <2>1. \A j \in f + 1 .. n : ~Open(ctx[j])
    BY <1>1, <1>9, ResumesOpen
  <2>2. OpenFinallys(f) = {}
    BY <2>1 DEF OpenFinallys, Open
  <2>3. PICK l \in Loops(f) : Innermost(Loops(f), l) /\ Label(here.pending, l)
    BY <1>9, <2>2
  <2>4. /\ l \in 1 .. n /\ l > f /\ f \in 1 .. n /\ ctx[l].kind \in {"loop", "iter"}
    BY <1>2, <2>3 DEF Loops, Funcs
  <2>5. here.phase # "head"
    BY <1>1
  <2>6. ctx[l].kind = "loop" \/ (ctx[l].kind = "iter" /\ ctx[l].phase = "body")
    BY <1>1, <1>9, <2>4, <2>5, LoopBody
  <2>7. \A j \in l + 1 .. n : ~Open(ctx[j]) /\ ctx[j].kind \notin {"loop", "iter"}
    BY <1>2, <2>1, <2>3, <2>4 DEF Innermost, Loops
  <2>8. Flow!Become(Rules!Deliver(Seen(ctx), [kind |-> here.pending]), "uncaught")
    BY <1>1, <1>9, <2>3, <2>4, <2>6, <2>7, LabelDelivers
  <2> QED BY <1>7, <1>9, <2>8
<1> QED BY <1>5, <1>6, <1>8, <1>9 DEF FinallyEnd

LEMMA EndImplements ==
  ASSUME IInv, QInv, End
  PROVE  Flow!Next
<1>1. UserCode /\ pc = "run" /\ pc \in {"run", "land"}
  BY DEF End, FuncEnd, LoopEnd, IterBodyEnd, TryBodyEnd, HandlerEnd, FinallyEnd, UserCode
<1>2. /\ n \in Nat \ {0} /\ n \in 1 .. n /\ n = Len(ctx) /\ here = ctx[n] /\ here \in Region
      /\ WellFormed(here)
  BY <1>1, Here
<1>3. here.kind # "func" => n - 1 \in 1 .. n
  BY <1>1, Here
<1> DEFINE s == SubSeq(Seen(ctx), 1, n - 1)
<1>4. Flow!Running /\ Flow!top = Decode(here) /\ Flow!rest = s
  BY <1>1, RunView
<1>5. Flow!EndBody => Flow!Next
  BY DEF Flow!Next
<1>6. CASE FuncEnd
  <2>1. here.kind = "func" /\ Decode(here).kind = "func"
    BY <1>2, <1>6, DecodeKind DEF FuncEnd
  <2>2. Flow!Become(Flow!Resume(s), "done") => Flow!Next
    <3> HIDE DEF s
    <3> QED BY <1>4, <1>5, <2>1 DEF Flow!EndBody
  <2>3. CASE n > 1
    <3>1. Ret(n) /\ n \in 2 .. n
      BY <1>2, <1>6, <2>3 DEF FuncEnd
    <3>2. Flow!Become(Rules!Resume(s), "done")
      BY <1>1, <1>2, <2>1, <3>1, RetView
    <3> QED BY <2>2, <3>2, SameResume
  <2>4. CASE ~(n > 1)
    <3>1. ctx' = <<>> /\ pc' = "done" /\ n = 1
      BY <1>2, <1>6, <2>4 DEF FuncEnd
    <3>2. mappedStk' = <<>> /\ mappedOutcome' = "done"
      BY <3>1 DEF mappedStk, mappedOutcome, Decoded, n
    <3>3. s = <<>>
      BY <3>1
    <3>4. Flow!Resume(s) = s
      BY <3>3 DEF Flow!Resume
    <3> QED BY <2>2, <3>2, <3>3, <3>4 DEF Flow!Become
  <2> QED BY <2>3, <2>4
<1>7. CASE LoopEnd
  <2>1. here.kind = "loop" /\ Decode(here).kind = "loop" /\ ctx' = Keep(n - 1) /\ pc' = "run"
    BY <1>2, <1>7, DecodeKind DEF LoopEnd, BreakLabel, Goto
  <2>2. Flow!Become(s, "done")
    BY <1>1, <1>3, <2>1, CutView
  <2> HIDE DEF s
  <2> QED BY <1>4, <1>5, <2>1, <2>2 DEF Flow!EndBody
<1>8. CASE IterBodyEnd
  <2> DEFINE r == [here EXCEPT !.phase = "head"]
  <2>1. here.kind = "iter" /\ here.phase # "head" /\ ctx' = Append(Keep(n - 1), r) /\ pc' = "run"
    BY <1>2, <1>8 DEF IterBodyEnd, ContinueLabel, Goto, UserCode
  <2>2. here.phase = "body"
    BY <1>1, <1>2, <2>1 DEF IInv, LandsOnTop, Calling, WellFormed, Region
  <2>3. r \in Region /\ r.kind = "iter" /\ r.phase = "head" /\ r.pending = "fallthrough"
    BY <1>2, <2>1, <2>2 DEF Region, WellFormed
  <2> HIDE DEF r
  <2>4. Decode(r) = Flow!Iter("head") /\ Decode(here) = Flow!Iter("body")
    BY <1>2, <2>1, <2>2, <2>3, DecodeFacts, SameNames DEF WellFormed
  <2>5. n - 1 \in 0 .. n
    BY <1>2
  <2>6. Flow!Become(Append(s, Decode(r)), "done")
    BY <1>1, <2>1, <2>3, <2>5, PutView
  <2> HIDE DEF s
  <2> QED BY <1>4, <1>5, <2>4, <2>6 DEF Flow!EndBody
<1>9. ASSUME here.kind = "try", here.phase \in {"body", "handler"},
             IF here.fin THEN GotoFinally(n, here) ELSE Goto(Keep(n - 1))
      PROVE  Flow!Next
  <2>1. Decode(here).kind = "try" /\ Decode(here).fin = here.fin /\ here.fin \in BOOLEAN
    <3>1. here.fin \in BOOLEAN
      BY <1>2 DEF Region
    <3>2. CASE here.phase = "body"
      BY <1>2, <1>9, <3>1, <3>2, DecodeFacts DEF Rules!Try
    <3>3. CASE here.phase = "handler"
      BY <1>2, <1>9, <3>1, <3>3, DecodeFacts
    <3> QED BY <1>9, <3>2, <3>3
  <2>2. ASSUME Flow!Become(IF here.fin THEN Append(s, Flow!Finally(Flow!Normal)) ELSE s, "done")
        PROVE  Flow!Next
    <3> HIDE DEF s
    <3> QED BY <1>4, <1>5, <2>1, <2>2 DEF Flow!EndBody
  <2>3. CASE here.fin
    <3> DEFINE r == [here EXCEPT !.phase = "finally"]
    <3>1. ctx' = Append(Keep(n - 1), r) /\ pc' = "run"
      BY <1>9, <2>3 DEF GotoFinally, Goto
    <3>2. r \in Region /\ r.kind = "try" /\ r.phase = "finally" /\ r.pending = "fallthrough"
      BY <1>2, <1>9 DEF Region, WellFormed
    <3> HIDE DEF r
    <3>3. Decode(r) = Flow!Finally(Flow!Normal)
      <4>1. Decode(r) = Rules!Finally(Saved(r)) /\ Saved(r) = Rules!Normal
        BY <3>2, DecodeFacts DEF WellFormed, Saved
      <4> QED BY <4>1, SameNames
    <3>4. n - 1 \in 0 .. n
      BY <1>2
    <3>5. Flow!Become(Append(s, Decode(r)), "done")
      BY <1>1, <3>1, <3>2, <3>4, PutView
    <3> QED BY <2>2, <2>3, <3>3, <3>5
  <2>4. CASE ~here.fin
    <3>1. ctx' = Keep(n - 1) /\ pc' = "run"
      BY <1>9, <2>4 DEF Goto
    <3>2. Flow!Become(s, "done")
      BY <1>1, <1>3, <1>9, <3>1, CutView
    <3> QED BY <2>2, <2>4, <3>2
  <2> QED BY <2>3, <2>4
<1>10. CASE TryBodyEnd
  BY <1>9, <1>10 DEF TryBodyEnd
<1>11. CASE HandlerEnd
  BY <1>9, <1>11 DEF HandlerEnd
<1> QED BY <1>6, <1>7, <1>8, <1>10, <1>11, FinallyEndImplements DEF End

\* return, break and continue are delivered in one step, to the same place.
LEMMA ExitImplements ==
  ASSUME IInv, QInv, Exit
  PROVE  Flow!Next
<1>1. ASSUME NEW f \in Funcs, MayExit(f)
      PROVE  /\ pc = "run" /\ pc \in {"run", "land"} /\ here.phase # "head"
             /\ Innermost(Funcs, f) /\ f \in 1 .. n /\ n \in Nat /\ ctx[f].kind = "func"
             /\ \A j \in f + 1 .. n : ctx[j].kind # "func" /\ ctx[j].phase # "finally"
             /\ \A j \in 1 .. n : ctx[j] \in Region /\ WellFormed(ctx[j])
  BY <1>1, Now DEF MayExit, UserCode, Funcs, Innermost, Shape
\* A jump to the construct at k that is allowed in Python and does what Python does.
<1>2. ASSUME NEW f \in Funcs, MayExit(f), NEW code \in {"return", "break", "continue"},
             NEW k \in f .. n,
             IF code = "return" THEN k = f /\ f # 1 ELSE ctx[k].kind \in {"loop", "iter"} /\ k > f,
             Flow!Become(Rules!Deliver(Seen(ctx), [kind |-> code]), "lost")
      PROVE  Flow!Next
  <2> DEFINE c == [kind |-> code]
  <2>1. c \in Flow!Exits /\ c.kind = code
    BY DEF Flow!Exits
  <2>2. Flow!Running /\ mappedStk = Seen(ctx) /\ Len(mappedStk) = n /\ DOMAIN mappedStk = 1 .. n
        /\ \A j \in 1 .. n : mappedStk[j] = Decode(ctx[j])
    BY <1>1, <1>2, RunView
  <2>3. k \in 1 .. n
    BY <1>1, <1>2
  <2>4. ASSUME NEW j \in k + 1 .. n PROVE mappedStk[j].kind \notin {"func", "finally"}
    <3>1. j \in 1 .. n /\ j \in f + 1 .. n
      BY <1>1, <1>2
    <3> QED BY <1>1, <1>2, <2>2, <3>1, DecodeKind
  <2>5. IF c.kind = "return" THEN mappedStk[k].kind = "func" /\ k > 1
                             ELSE mappedStk[k].kind \in {"loop", "iter"}
    <3>1. mappedStk[k] = Decode(ctx[k]) /\ ctx[k] \in Region /\ WellFormed(ctx[k])
      BY <1>1, <1>2, <2>2, <2>3
    <3>2. CASE code = "return"
      BY <1>1, <1>2, <2>1, <3>1, <3>2, DecodeKind
    <3>3. CASE code # "return"
      <4>1. ctx[k].kind \in {"loop", "iter"}
        BY <1>2, <3>3
      <4> QED BY <2>1, <3>1, <3>3, <4>1, DecodeKind
    <3> QED BY <3>2, <3>3
  <2>6. Flow!Legal(c)
    BY <2>2, <2>3, <2>4, <2>5 DEF Flow!Legal
  <2>7. Flow!Become(Flow!Deliver(mappedStk, c), "lost")
    BY <1>2, <2>2, SameRules
  <2> HIDE DEF c
  <2> QED BY <2>1, <2>2, <2>6, <2>7 DEF Flow!Next, Flow!Exit
<1>3. CASE Return
  <2>1. PICK f \in Funcs \ {1} :
          /\ MayExit(f) /\ spy_exc_inflight' = spy_exc_inflight
          /\ \/ \E i \in OpenFinallys(f) : Innermost(OpenFinallys(f), i) /\ RouteExit(i, "return")
             \/ OpenFinallys(f) = {} /\ Ret(f)
    BY <1>3 DEF Return
  <2>2. f \in 2 .. n /\ f \in f .. n /\ f # 1 /\ pc = "run"
    BY <1>1, <2>1
  <2>3. Flow!Become(Rules!Deliver(Seen(ctx), [kind |-> "return"]), "lost")
    <3>1. CASE \E i \in OpenFinallys(f) : Innermost(OpenFinallys(f), i) /\ RouteExit(i, "return")
      <4>1. PICK i \in OpenFinallys(f) : Innermost(OpenFinallys(f), i) /\ RouteExit(i, "return")
        BY <3>1
      <4>2. i \in 1 .. n /\ i > f /\ Open(ctx[i])
        BY <1>1, <2>1 DEF OpenFinallys, Open
      <4>3. \A j \in i + 1 .. n : ~Open(ctx[j]) /\ ctx[j].kind # "func"
        BY <1>1, <2>1, <4>1, <4>2 DEF OpenFinallys, Innermost, Open
      <4> DEFINE code == "return"
      <4>4. /\ code \in {"return", "break", "continue"} /\ RouteExit(i, code)
            /\ \A j \in i + 1 .. n :
                 /\ ~Open(ctx[j])
                 /\ IF code = "return" THEN ctx[j].kind # "func"
                                       ELSE ctx[j].kind \notin {"loop", "iter"}
        BY <4>1, <4>3
      <4>5. Flow!Become(Rules!Deliver(Seen(ctx), [kind |-> code]), "lost")
        <5> HIDE DEF code
        <5> QED BY <2>2, <4>2, <4>4, RouteDelivers
      <4> QED BY <4>5
    <3>2. CASE OpenFinallys(f) = {} /\ Ret(f)
      <4>1. \A j \in f + 1 .. n : ~Open(ctx[j])
        BY <1>1, <2>1, <3>2 DEF OpenFinallys, Open
      <4> QED BY <1>1, <2>1, <2>2, <3>2, <4>1, RetDelivers
    <3> QED BY <2>1, <3>1, <3>2
  <2> QED BY <1>2, <2>1, <2>2, <2>3
<1>4. ASSUME NEW code \in {"break", "continue"}, BreakContinue(code) PROVE Flow!Next
  <2>a. PICK f \in Funcs : \E l \in Loops(f) :
          /\ MayExit(f) /\ Innermost(Loops(f), l)
          /\ \/ \E i \in OpenFinallys(f) :
                  Innermost(OpenFinallys(f), i) /\ l < i /\ RouteExit(i, code)
             \/ (\A i \in OpenFinallys(f) : i < l) /\ Label(code, l)
    BY <1>4 DEF BreakContinue
  <2>1. PICK l \in Loops(f) :
          /\ MayExit(f) /\ Innermost(Loops(f), l)
          /\ \/ \E i \in OpenFinallys(f) :
                  Innermost(OpenFinallys(f), i) /\ l < i /\ RouteExit(i, code)
             \/ (\A i \in OpenFinallys(f) : i < l) /\ Label(code, l)
    BY <2>a
  <2>2. /\ l \in 1 .. n /\ l \in f .. n /\ l > f /\ ctx[l].kind \in {"loop", "iter"} /\ pc = "run"
        /\ code \in {"return", "break", "continue"} /\ code # "return"
        /\ \A j \in l + 1 .. n : ctx[j].kind \notin {"loop", "iter"}
    BY <1>1, <2>1 DEF Loops, Innermost
  <2>3. Flow!Become(Rules!Deliver(Seen(ctx), [kind |-> code]), "lost")
    <3>1. ASSUME NEW i \in OpenFinallys(f), Innermost(OpenFinallys(f), i), l < i, RouteExit(i, code)
          PROVE  Flow!Become(Rules!Deliver(Seen(ctx), [kind |-> code]), "lost")
      <4>1. i \in 1 .. n /\ Open(ctx[i])
        BY <1>1, <2>1 DEF OpenFinallys, Open
      <4>2. ASSUME NEW j \in i + 1 .. n PROVE ~Open(ctx[j]) /\ ctx[j].kind \notin {"loop", "iter"}
        <5>1. j \in l + 1 .. n /\ j \in f + 1 .. n /\ j > i
          BY <1>1, <2>1, <2>2, <3>1, <4>1
        <5> QED BY <2>2, <3>1, <5>1, <4>1 DEF OpenFinallys, Innermost, Open
      <4> QED BY <2>2, <3>1, <4>1, <4>2, RouteDelivers
    <3>2. CASE (\A i \in OpenFinallys(f) : i < l) /\ Label(code, l)
      <4>1. ASSUME NEW j \in l + 1 .. n PROVE ~Open(ctx[j])
        <5>1. j \in f + 1 .. n /\ j \notin OpenFinallys(f)
          BY <1>1, <2>1, <2>2, <3>2
        <5> QED BY <1>1, <2>1, <5>1 DEF OpenFinallys, Open
      <4>2. ctx[l].kind = "loop" \/ (ctx[l].kind = "iter" /\ ctx[l].phase = "body")
        BY <1>1, <2>1, <2>2, LoopBody
      <4> QED BY <2>2, <3>2, <4>1, <4>2, LabelDelivers
    <3> QED BY <2>1, <3>1, <3>2
  <2> QED BY <1>2, <2>1, <2>2, <2>3
<1> QED BY <1>3, <1>4 DEF Exit

LEMMA RaiseImplements ==
  ASSUME IInv, Raise
  PROVE  Flow!Next
<1>1. PICK e \in Exc : Throw(e)
  BY DEF Raise
<1>2. pc = "run" /\ pc \in {"run", "land"}
  BY DEF Raise, UserCode
<1>3. spy_exc_inflight' = e /\ LongjmpTo(n, spy_exc_top) /\ n \in 0 .. n
      /\ HeadOf(ctx, n, spy_exc_top) /\ ctx \in Seq(Region) /\ n = Len(ctx)
  BY <1>1, <1>2, Here, Now DEF Throw
<1>4. Flow!Become(Rules!Deliver(SubSeq(Seen(ctx), 1, n), Rules!Raising(e)), "uncaught")
  BY <1>2, <1>3, JumpView
<1>5. SubSeq(Seen(ctx), 1, n) = Seen(ctx)
  BY <1>3, SubSeqFull, SeenFacts
<1>6. Flow!Running /\ mappedStk = Seen(ctx)
  BY <1>2, RunView
<1>7. Flow!Become(Flow!Deliver(mappedStk, Flow!Raising(e)), "uncaught")
  BY <1>4, <1>5, <1>6, SameRules, SameNames
<1> QED BY <1>6, <1>7 DEF Flow!Next, Flow!Raise

\* A landing takes the exception no further than where it was going.
LEMMA LandImplements ==
  ASSUME IInv, QInv, Land
  PROVE  UNCHANGED Flow!vars
<1>1. pc = "land" /\ pc \in {"run", "land"} /\ spy_exc_inflight # NoExc
  BY DEF Land, Catch, PassOn, OweAndFinally, LandIter, NullDispatch, QInv
<1>2. /\ ctx \in Seq(Region) /\ n \in Nat \ {0} /\ n = Len(ctx) /\ n \in 1 .. n
      /\ here = ctx[n] /\ here \in Region /\ WellFormed(here)
      /\ spy_exc_top = n /\ Armed(here)
  BY <1>1, Here, Now DEF IInv, LandsOnTop
<1>3. n \in 2 .. n /\ n - 1 \in 1 .. n /\ n - 1 \in 0 .. n
  BY <1>1, <1>2, AboveMain DEF Armed
<1>4. HeadOf(ctx, n - 1, Popped)
  BY <1>1, <1>2, PopsTheInnermost
<1> DEFINE e == spy_exc_inflight
           c == Rules!Raising(e)
           s == SubSeq(Seen(ctx), 1, n - 1)
<1>5. c # Rules!Normal /\ c.kind = "raise" /\ c.exc = e
  BY DEF Rules!Raising, Rules!Normal
<1>6. /\ Seen(ctx) \in Seq(Constructs) /\ Len(Seen(ctx)) = n /\ DOMAIN Seen(ctx) = 1 .. n
      /\ Seen(ctx)[n] = Decode(here) /\ n - 1 \in 0 .. Len(Seen(ctx))
  BY <1>2, <1>3, SeenFacts
<1>7. mappedStk = Rules!Deliver(Seen(ctx), c) /\ mappedOutcome = IF mappedStk # <<>> THEN "running"
                                                                                    ELSE "uncaught"
  BY <1>1 DEF mappedStk, mappedOutcome, Decoded, Seen, n
<1> HIDE DEF c, s
<1>8. ASSUME Flow!Become(Rules!Deliver(Seen(ctx), c), "uncaught") PROVE UNCHANGED Flow!vars
  BY <1>7, <1>8 DEF Flow!Become, Flow!vars
<1>9. Rules!Intercepts(Decode(here), c) => Rules!Deliver(Seen(ctx), c) = Rules!Settle(s, Decode(here), c)
  <2>1. \A j \in n + 1 .. n : ~Rules!Intercepts(Seen(ctx)[j], c)
    BY <1>2
  <2> QED BY <1>2, <1>5, <1>6, <2>1, DeliverTo DEF s
<1>10. ASSUME ~Rules!Intercepts(Decode(here), c), LongjmpTo(n - 1, Popped),
              spy_exc_inflight' = spy_exc_inflight
       PROVE  UNCHANGED Flow!vars
  <2>1. \A j \in (n - 1) + 1 .. Len(Seen(ctx)) : ~Rules!Intercepts(Seen(ctx)[j], c)
    BY <1>2, <1>6, <1>10
  <2>2. Rules!Deliver(Seen(ctx), c) = Rules!Deliver(s, c)
    BY <1>5, <1>6, <2>1, DeliverBelow DEF s
  <2>3. Flow!Become(Rules!Deliver(s, c), "uncaught")
    BY <1>1, <1>3, <1>4, <1>10, JumpView DEF s, c
  <2> QED BY <1>8, <2>2, <2>3
<1>11. CASE NullDispatch
  BY <1>1, <1>11 DEF NullDispatch
<1>12. CASE Catch
  <2> DEFINE r == [here EXCEPT !.phase = "handler"]
  <2>1. /\ here.kind = "try" /\ here.phase = "body" /\ e \in here.catches
        /\ ctx' = Append(Keep(n - 1), r) /\ pc' = "run"
    BY <1>1, <1>12 DEF Catch, Goto, Matches
  <2>2. /\ r \in Region /\ r.kind = "try" /\ r.phase = "handler" /\ r.fin = here.fin
        /\ r.pending = "fallthrough"
    BY <1>2, <2>1 DEF Region, WellFormed
  <2> HIDE DEF r
  <2>3. Decode(r) = [kind |-> "try", phase |-> "handler", fin |-> here.fin]
    BY <2>2, DecodeFacts DEF WellFormed
  <2>4. Decode(here) = Rules!Try(here.fin, here.catches)
    BY <1>2, <2>1, DecodeFacts
  <2>5. Rules!Intercepts(Decode(here), c)
    BY <1>2, <2>1, InterceptsRaise DEF c
  <2>6. Rules!Settle(s, Decode(here), c) = Append(s, Decode(r))
    <3> DEFINE d == Decode(here)
    <3>1. d.kind = "try" /\ d.phase = "body" /\ d.fin = here.fin /\ d.catches = here.catches
      BY <2>4 DEF Rules!Try
    <3> HIDE DEF d
    <3>2. Rules!Settle(s, d, c) = Append(s, Rules!Handler(d))
      BY <1>5, <2>1, <3>1 DEF Rules!Settle
    <3>3. Rules!Handler(d) = Decode(r)
      BY <2>3, <3>1 DEF Rules!Handler
    <3> QED BY <3>2, <3>3 DEF d
  <2>7. Flow!Become(Append(s, Decode(r)), "uncaught")
    BY <1>1, <1>3, <2>1, <2>2, PutView DEF s
  <2> QED BY <1>8, <1>9, <2>5, <2>6, <2>7
<1>13. CASE PassOn
  <2>1. here.kind = "try" /\ ~here.fin /\ e \notin here.catches /\ LongjmpTo(n - 1, Popped)
        /\ spy_exc_inflight' = spy_exc_inflight
    BY <1>1, <1>13, RethrowOutward DEF PassOn, Matches
  <2>2. ~Rules!Intercepts(Decode(here), c)
    BY <1>2, <2>1, InterceptsRaise DEF c
  <2> QED BY <1>10, <2>1, <2>2
<1>14. CASE OweAndFinally
  <2> DEFINE r0 == [here EXCEPT !.pending = "rethrow", !.owed = spy_exc_inflight]
             r  == [r0 EXCEPT !.phase = "finally"]
  <2>1. /\ here.kind = "try" /\ here.fin /\ ctx' = Append(Keep(n - 1), r) /\ pc' = "run"
        /\ here.phase = "body" => e \notin here.catches
    BY <1>14 DEF OweAndFinally, GotoFinally, Goto, Matches
  <2>2. spy_exc_inflight \in Exc \cup {NoExc}
    BY <1>1, Here
  <2>3. /\ r \in Region /\ r.kind = "try" /\ r.phase = "finally"
        /\ r.pending = "rethrow" /\ r.owed = spy_exc_inflight
    BY <1>2, <2>1, <2>2 DEF Region, Pending
  <2> HIDE DEF r
  <2>4. Decode(r) = Rules!Finally(c)
    <3>1. Decode(r) = Rules!Finally(Saved(r)) /\ Saved(r) = Rules!Raising(r.owed)
      BY <2>3, DecodeFacts DEF WellFormed, Saved
    <3> QED BY <2>3, <3>1 DEF c
  <2>5. Rules!Intercepts(Decode(here), c)
    BY <1>2, <2>1, InterceptsRaise DEF c
  <2>6. Rules!Settle(s, Decode(here), c) = Append(s, Rules!Finally(c))
    <3> DEFINE d == Decode(here)
    <3>1. d.kind = "try" /\ ~(d.phase = "body" /\ e \in d.catches)
      <4>1. CASE here.phase = "body"
        BY <1>2, <2>1, <4>1, DecodeFacts DEF Rules!Try
      <4>2. CASE here.phase = "handler"
        BY <1>2, <2>1, <4>2, DecodeFacts
      <4> QED BY <1>2, <2>1, <4>1, <4>2 DEF Armed
    <3> HIDE DEF d
    <3> QED BY <1>5, <3>1 DEF Rules!Settle, d
  <2>7. Flow!Become(Append(s, Decode(r)), "uncaught")
    BY <1>1, <1>3, <2>1, <2>3, PutView DEF s
  <2> QED BY <1>8, <1>9, <2>4, <2>5, <2>6, <2>7
<1>15. CASE LandIter
  <2>1. here.kind = "iter" /\ here.phase = "next"
    BY <1>2, <1>15 DEF LandIter, Armed
  <2>2. CASE spy_exc_inflight = Stop
    <3>1. ctx' = Keep(n - 1) /\ pc' = "run"
      BY <1>15, <2>2 DEF LandIter, Goto
    <3>2. Rules!Intercepts(Decode(here), c)
      BY <1>2, <2>1, <2>2, InterceptsRaise DEF c
    <3>3. Rules!Settle(s, Decode(here), c) = s
      <4>1. Decode(here).kind = "iter"
        BY <1>2, <2>1, DecodeKind
      <4> QED BY <1>5, <4>1 DEF Rules!Settle
    <3>4. Flow!Become(s, "uncaught")
      BY <1>1, <1>3, <3>1, CutView DEF s
    <3> QED BY <1>8, <1>9, <3>2, <3>3, <3>4
  <2>3. CASE spy_exc_inflight # Stop
    <3>1. LongjmpTo(n - 1, Popped) /\ spy_exc_inflight' = spy_exc_inflight
      BY <1>1, <1>15, <2>3, RethrowOutward DEF LandIter
    <3>2. ~Rules!Intercepts(Decode(here), c)
      BY <1>2, <2>1, <2>3, InterceptsRaise DEF c
    <3> QED BY <1>10, <3>1, <3>2
  <2> QED BY <2>2, <2>3
<1> QED BY <1>11, <1>12, <1>13, <1>14, <1>15 DEF Land

LEMMA NextImplements ==
  ASSUME IInv, QInv, [Next]_vars
  PROVE  [Flow!Next]_(Flow!vars)
<1>1. CASE UNCHANGED vars
  <2>1. ctx' = ctx /\ spy_exc_inflight' = spy_exc_inflight /\ pc' = pc
    BY <1>1 DEF vars
  <2>2. mappedStk' = mappedStk /\ mappedOutcome' = mappedOutcome
    BY <2>1 DEF mappedStk, mappedOutcome, Decoded, n
  <2> QED BY <2>2 DEF Flow!vars
<1> QED BY <1>1, EnterImplements, EndImplements, ExitImplements, RaiseImplements, LandImplements,
           NoRethrowElsewhere DEF Next, Ended

LEMMA InitImplements == Init => Flow!Init
<1> SUFFICES ASSUME Init PROVE Flow!Init
  OBVIOUS
<1> DEFINE r == Plain("func", "body")
<1>1. ctx = <<r>> /\ pc = "run"
  BY DEF Init
<1>2. r \in Region /\ r.kind = "func" /\ r.phase = "body" /\ r.pending = "fallthrough"
  BY ExcAssumption DEF Plain, Region, Pending
<1> HIDE DEF r
<1>3. mappedStk = <<Flow!Func>>
  <2>1. Decode(r) = Flow!Func
    BY <1>2, DecodeFacts, SameNames DEF WellFormed
  <2>2. Decoded = [i \in 1 .. 1 |-> Flow!Func]
    BY <1>1, <2>1 DEF Decoded, n
  <2> QED BY <1>1, <2>2 DEF mappedStk
<1> QED BY <1>3 DEF Flow!Init, mappedOutcome

\* The handler chain, the jump buffers, the pending slots and the one in-flight
\* pointer implement Python's rules: whatever control passes on its way, it ends
\* where the language says, for every nesting depth and every set of exceptions.
THEOREM LoweringImplementsPython ==
  ASSUME NoUnarmedExits, NoHandlingInRethrow PROVE Spec => ImplementsPython
<1>1. IInv /\ QInv /\ [Next]_vars => IInv' /\ QInv'
  BY NextPreserves, NextSound DEF Sound
<1>2. Init => IInv /\ QInv
  BY InitHolds, QInvHolds
<1>3. IInv /\ QInv /\ [Next]_vars => [Flow!Next]_(Flow!vars)
  BY NextImplements
<1> QED BY <1>1, <1>2, <1>3, InitImplements, PTL DEF Spec, ImplementsPython, Flow!Spec
=============================================================================
