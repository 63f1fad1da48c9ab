----------------------------- MODULE Generators -----------------------------
(***************************************************************************)
(* Generators as compiled: a call of a generator function makes an object    *)
(* with a state and a field for every parameter, local and loop iterator;    *)
(* __next__ is a function that jumps to where the state says, and returns    *)
(* at a yield.  Nothing but the object outlives the return.  A value comes   *)
(* back as a result; the end, and an exception, is thrown to the innermost   *)
(* frame, which every iterator loop pushes around its call of __next__.      *)
(*                                                                          *)
(* The module makes generator objects and calls next on them, in any order,  *)
(* in a try of its own.                                                     *)
(***************************************************************************)
EXTENDS PyGenerators

CONSTANTS Programs,    \* [outer, inner]: the bodies of two functions
          MaxMain,     \* objects the module makes
          MaxNext,     \* calls of next on each
          MaxObjects,  \* objects in all
          Fuel         \* how far Python runs a body, in statements

\* Arguments are numbers; only the outer function calls a generator.
ASSUME GeneratorAssumption ==
  /\ Wrap \in Nat \ {0} /\ Fuel \in Nat /\ MaxNext \in Nat /\ MaxMain \in 0..Wrap
  /\ \A pr \in Programs : /\ pr = [outer |-> pr.outer, inner |-> pr.inner]
                          /\ IsBody(pr.outer) /\ IsBody(pr.inner)
                          /\ \A i \in DOMAIN pr.inner : pr.inner[i].op \notin Loops

VARIABLES program,
          promised,    \* what Python yields, for each argument
          heap,        \* [gen, state, env, iters] of each object
          mains,       \* the objects of the module, in order
          got,         \* what next gave for each of them
          calls,       \* the activations of __next__: [obj, pc, head]
          result,      \* <<>>, or the value __next__ returned
          frames,      \* the exception frames: [depth, pc]
          thrown       \* 0, or the exception in flight

genVars == <<program, promised, heap, mains, got, calls, result, frames, thrown>>
control == <<calls, result, frames, thrown>>
fixed == <<program, promised>>

GenInit == /\ program \in Programs
        /\ promised = [p \in 0..(MaxMain - 1) |-> YieldsOf(program.outer, program.inner, p, Fuel)]
        /\ heap = <<>> /\ mains = <<>> /\ got = <<>>
        /\ calls = <<>> /\ result = <<>> /\ frames = <<>> /\ thrown = 0

Top  == Len(calls)
Me   == calls[Top].obj
Body(o) == program[heap[o].gen]
Here == Body(Me)[calls[Top].pc]
-----------------------------------------------------------------------------
\* collectGenLocals counts the sites of a body in the order of its text.
YieldSites(body) == {i \in DOMAIN body : body[i].op \in {"yield", "from"}}
IterSites(body)  == {i \in DOMAIN body : body[i].op \in Loops}
ForSites(body)   == {i \in DOMAIN body : body[i].op = "for"}
FromSites(body)  == IterSites(body) \ ForSites(body)
SitesBefore(sites, i) == Cardinality({j \in sites : j < i})

\* genLayout: the slots of yield from come first, those of the loops after them.
OneSlot(body, i) == 1
IterSlot(body, i) == IF i \in FromSites(body) THEN SitesBefore(FromSites(body), i) + 1
                     ELSE Cardinality(FromSites(body)) + SitesBefore(ForSites(body), i) + 1

\* The state that stands for a yield, and the label it resumes at: behind a
\* yield, at the head of the loop for a yield from.
ResumeState(body, i) == SitesBefore(YieldSites(body), i) + 1
ResumeAt(body, state) ==
  LET i == CHOOSE i \in YieldSites(body) : ResumeState(body, i) = state
  IN  IF body[i].op = "yield" THEN [pc |-> i + 1, head |-> FALSE] ELSE [pc |-> i, head |-> TRUE]

\* emitGeneratorFactory.
NewObject(gen, p) ==
  [gen |-> gen, state |-> 0, env |-> Locals(p),
   iters |-> [s \in 1..Cardinality(IterSites(program[gen])) |-> 0]]

\* emitGeneratorNext: the switch on the state.
Resume(body, state) ==
  CASE state = 0 -> [pc |-> 1, head |-> FALSE]
    [] state = -1 -> [pc |-> Len(body) + 1, head |-> FALSE]
    [] state > 0 -> ResumeAt(body, state)

Dispatch(o) == LET at == Resume(Body(o), heap[o].state)
               IN  [obj |-> o, pc |-> at.pc, head |-> at.head]

\* A frame, and a call of __next__ through the object's vtable.
CallNext(o, pc) == /\ frames' = Append(frames, [depth |-> Top, pc |-> pc])
                   /\ calls' = Append(calls, Dispatch(o))
                   /\ UNCHANGED <<result, thrown>>
-----------------------------------------------------------------------------
(* The module.                                                              *)
ModuleRuns == calls = <<>> /\ result = <<>> /\ thrown = 0

Make == /\ ModuleRuns /\ Len(mains) < MaxMain /\ Len(heap) < MaxObjects
        /\ heap' = Append(heap, NewObject("outer", Len(mains)))
        /\ mains' = Append(mains, Len(heap) + 1)
        /\ got' = Append(got, <<>>)
        /\ UNCHANGED <<fixed, control>>

\* The module does not call a generator again that has ended with an error.
NextOf(k) == /\ ModuleRuns /\ Len(got[k]) < MaxNext
             /\ got[k] # <<>> => Last(got[k]) # Error
             /\ CallNext(mains[k], k)
             /\ UNCHANGED <<fixed, heap, mains, got>>

Gets(k, what) == got' = [got EXCEPT ![k] = Append(@, what)]

TakeResult == /\ calls = <<>> /\ result # <<>>
              /\ Gets(Last(frames).pc, result[1])
              /\ frames' = Front(frames) /\ result' = <<>>
              /\ UNCHANGED <<fixed, heap, mains, calls, thrown>>
-----------------------------------------------------------------------------
(* A statement of the running __next__.                                     *)
Running == calls # <<>> /\ result = <<>> /\ thrown = 0
At(op)  == /\ Running
           /\ calls[Top].pc \in DOMAIN Body(Me)
           /\ Here.op = op /\ ~calls[Top].head

\* Go on at pc; or at the head of the loop there, when its iterator is in place.
GoTo(pc) == calls' = [calls EXCEPT ![Top].pc = pc,
                                   ![Top].head = pc \in ForSites(Body(Me)) /\ pc < calls[Top].pc]
GoOn == GoTo(calls[Top].pc + 1)
SetLocal(x, n) == heap' = [heap EXCEPT ![Me].env[x] = n]
Quiet == UNCHANGED <<fixed, mains, got, result, frames, thrown>>

Assign == /\ \/ At("zero") /\ SetLocal(Here.var, 0)
             \/ At("add") /\ SetLocal(Here.var, Add1(heap[Me].env[Here.var]))
          /\ GoOn /\ Quiet

LoopAround == LoopOf(Body(Me), calls[Top].pc)
After(i) == EndOf(Body(Me), i) + 1

Branch == /\ \/ At("while") /\ GoTo(IF heap[Me].env[Here.var] < 2 THEN calls[Top].pc + 1
                                    ELSE After(calls[Top].pc))
             \/ (At("end") \/ At("continue")) /\ GoTo(LoopAround)
             \/ At("break") /\ GoTo(After(LoopAround))
             \/ At("return") /\ GoTo(Len(Body(Me)) + 1)
          /\ Quiet /\ UNCHANGED heap

\* ret: the activation is gone with all it held.
Return(n, state) == /\ heap' = [heap EXCEPT ![Me].state = state]
                    /\ calls' = Front(calls)
                    /\ result' = <<n>>

\* emitYieldValueStmt.
Yield == /\ At("yield")
         /\ Return(heap[Me].env[Here.var], ResumeState(Body(Me), calls[Top].pc))
         /\ UNCHANGED <<fixed, mains, got, frames, thrown>>

\* emitForIterator and emitYieldFromStmt: inner(p) is called, and kept in the
\* slot of the site.
LoopSlot == IterSlot(Body(Me), calls[Top].pc)

StartLoop == /\ At("for") \/ At("from")
             /\ Len(heap) < MaxObjects
             /\ heap' = Append([heap EXCEPT ![Me].iters[LoopSlot] = Len(heap) + 1],
                               NewObject("inner", heap[Me].env.p))
             /\ calls' = [calls EXCEPT ![Top].head = TRUE]
             /\ Quiet

Pull == /\ Running /\ calls[Top].head
        /\ CallNext(heap[Me].iters[LoopSlot], calls[Top].pc)
        /\ UNCHANGED <<fixed, heap, mains, got>>

\* The frame is popped before the body runs, or before the value is passed on.
FramesKept  == frames
AfterReturn == Front(frames)

TakeValue ==
  /\ calls # <<>> /\ result # <<>>
  /\ frames' = AfterReturn
  /\ \/ /\ Here.op = "for"
        /\ SetLocal(Here.var, result[1])
        /\ GoOn /\ result' = <<>>
     \/ /\ Here.op = "from"
        /\ Return(result[1], ResumeState(Body(Me), calls[Top].pc))
  /\ UNCHANGED <<fixed, mains, got, thrown>>
-----------------------------------------------------------------------------
\* The end of the body: state -1, and a StopIteration is thrown.
Exhausted(o) == [heap EXCEPT ![o].state = -1]

Finish == /\ Running /\ calls[Top].pc > Len(Body(Me))
          /\ heap' = Exhausted(Me)
          /\ thrown' = Stop
          /\ UNCHANGED <<fixed, mains, got, calls, result, frames>>

Raise == /\ At("raise")
         /\ thrown' = Error
         /\ UNCHANGED <<fixed, heap, mains, got, calls, result, frames>>

\* longjmp to the innermost frame, which is popped there: a StopIteration ends
\* the loop, anything else is thrown on.
Land ==
  /\ thrown # 0
  /\ LET f == Last(frames) IN
       /\ frames' = Front(frames)
       /\ IF f.depth = 0
          THEN /\ Gets(f.pc, thrown) /\ calls' = <<>> /\ thrown' = 0
          ELSE LET o == calls[f.depth].obj
                   b == Body(o)
                   left == SubSeq(calls, 1, f.depth)
               IN  /\ IF thrown = Stop
                      THEN /\ calls' = [left EXCEPT ![f.depth].head = FALSE,
                                 ![f.depth].pc = IF b[f.pc].op = "for" THEN EndOf(b, f.pc) + 1
                                                 ELSE f.pc + 1]
                           /\ thrown' = 0
                      ELSE calls' = left /\ UNCHANGED thrown
                   /\ UNCHANGED got
  /\ UNCHANGED <<fixed, heap, mains, result>>

GenNext == \/ Make \/ TakeResult \/ \E k \in DOMAIN mains : NextOf(k)
        \/ Assign \/ Branch \/ Yield \/ StartLoop \/ Pull \/ TakeValue
        \/ Finish \/ Raise \/ Land

GenSpec == GenInit /\ [][GenNext]_genVars
-----------------------------------------------------------------------------
\* The calls of next on a generator give the values Python's would, one after
\* the other, whatever other generators are called between; then its error, or
\* StopIteration for ever (emitGeneratorNext, emitYieldStmt, emitForIterator).
DeliversAsPython ==
  \A k \in DOMAIN mains : \A n \in DOMAIN got[k] : got[k][n] = Answer(promised[k - 1], n)

\* There is a frame for each activation, its caller's, and one more where a
\* call has been pushed: no loop is left with a frame behind it, and none is
\* called without (emitForIterator, emitYieldFromStmt).
FramesMatchCalls ==
  /\ Len(frames) = Len(calls) + Len(result)
  /\ \A i \in DOMAIN frames : frames[i].depth = i - 1
=============================================================================
