---------------------------- MODULE LoaderProofs ----------------------------
(***************************************************************************)
(* The loader visits every import graph in dependency order and reports    *)
(* only real cycles, the order it leaves is just what the entry needs, a   *)
(* checker is bound to modules checked before, and no two classes have the *)
(* same id: for every source tree and search path.                         *)
(***************************************************************************)
EXTENDS Loader, SequenceTheorems, FiniteSetTheorems, WellFoundedInduction, TLAPS

-----------------------------------------------------------------------------
\* The strengthening.

\* The grey set is the set of the stack, on which no path stands twice.
GreyIsStack ==
  /\ grey = ToSet(stack)
  /\ \A i, j \in 1 .. Len(stack) : stack[i] = stack[j] => i = j

\* Each path on the stack is waiting for the next one.
Waiting ==
  \A i \in 1 .. Len(stack) - 1 :
    /\ at[stack[i]] \in 1 .. Len(program[stack[i]])
    /\ Target(stack[i], at[stack[i]]) = stack[i + 1]

\* What is in the cache and not on the stack is in the order.
Settled == /\ cache = grey \cup ToSet(Loaded)
           /\ grey \cap ToSet(Loaded) = {}

\* The imports a module has passed are in the order.
Passed ==
  /\ \A p \in Files \ cache : at[p] = 1
  /\ \A p \in cache : /\ at[p] \in Nat \ {0}
                      /\ \A i \in 1 .. Len(program[p]) :
                           i < at[p] => Target(p, i) \in ToSet(Loaded)

\* The order, with the synthetic module at its head once loading has ended.
OrderForm == /\ ~Started => order \in Seq(Files)
             /\ Started => status # "load" /\ Loaded \in Seq(Files) /\ order = <<Builtins>> \o Loaded
             /\ status \in {"check", "emit", "done"} => Started /\ k # 0

IInv == /\ TypeOK /\ GreyIsStack /\ Waiting /\ Settled /\ Passed /\ OrderForm
        /\ CycleIsReal

-----------------------------------------------------------------------------
\* A set of naturals that is not empty has a least element.
LEMMA LeastNat ==
  ASSUME NEW T \in SUBSET Nat, T # {}
  PROVE  \E x \in T : \A y \in T : x <= y
<1> DEFINE R == OpToRel(<, Nat)
<1>1. IsWellFoundedOn(R, Nat)
  BY NatLessThanWellFounded
<1>2. \A x, y \in Nat : x < y => <<x, y>> \in R
  BY DEF OpToRel
<1> HIDE DEF R
<1>3. PICK x \in T : \A y \in T : ~(<<y, x>> \in R)
  BY <1>1, WFMin
<1>4. \A y \in T : x <= y
  <2> TAKE y \in T
  <2>1. x \in Nat /\ y \in Nat
    OBVIOUS
  <2>2. ~(y < x)
    BY <1>2, <1>3, <2>1
  <2> QED BY <2>1, <2>2
<1> QED BY <1>4

\* An import resolves to an existing file of that base name, or to none.
LEMMA ResolveFacts ==
  ASSUME NEW d \in Dir, NEW nm \in Name
  PROVE  /\ Resolve(d, nm) \in Files \cup {NoFile}
         /\ Resolve(d, nm) # NoFile => Resolve(d, nm).name = nm
<1> DEFINE dirs == <<d>> \o Search
           hits == {i \in DOMAIN dirs : [dir |-> dirs[i], name |-> nm] \in Files}
<1>1. dirs \in Seq(Dir)
  BY ConcatProperties, LoaderAssumption
<1>2. hits \in SUBSET Nat
  BY <1>1, LenProperties
<1>3. CASE hits = {}
  BY <1>3 DEF Resolve
<1>4. CASE hits # {}
  <2> DEFINE m == CHOOSE i \in hits : \A j \in hits : i <= j
  <2>1. \E i \in hits : \A j \in hits : i <= j
    <3> HIDE DEF hits
    <3> QED BY <1>2, <1>4, LeastNat
  <2>2. m \in hits
    <3> HIDE DEF hits
    <3> QED BY <2>1
  <2>3. Resolve(d, nm) = [dir |-> dirs[m], name |-> nm]
    BY <1>4 DEF Resolve
  <2>4. [dir |-> dirs[m], name |-> nm] \in Files
    BY <2>2
  <2> HIDE DEF m, hits, dirs
  <2>5. Resolve(d, nm).name = nm
    BY <2>3
  <2> QED BY <2>3, <2>4, <2>5
<1> QED BY <1>3, <1>4

LEMMA TargetFacts ==
  ASSUME TypeOK, NEW p \in Files, NEW i \in 1 .. Len(program[p])
  PROVE  /\ Target(p, i) \in Files \cup {NoFile}
         /\ Target(p, i) # NoFile => Target(p, i).name \in Name
         /\ Target(p, i) \in Imports(p)
<1>1. program[p] \in Seq(Name) /\ p \in Path
  BY LoaderAssumption DEF TypeOK
<1>2. program[p][i] \in Name /\ p.dir \in Dir /\ i \in DOMAIN program[p]
  BY <1>1, ElementOfSeq, LenProperties DEF Path
<1> QED BY <1>2, ResolveFacts DEF Target, Imports

-----------------------------------------------------------------------------
\* Lemmas on the stack and the order as sequences.

LEMMA ElementIn ==
  ASSUME NEW S, NEW s \in Seq(S)
  PROVE  /\ Len(s) \in Nat /\ DOMAIN s = 1 .. Len(s)
         /\ \A i \in 1 .. Len(s) : s[i] \in S /\ s[i] \in ToSet(s)
         /\ \A e \in ToSet(s) : e \in S /\ \E i \in 1 .. Len(s) : s[i] = e
<1>1. Len(s) \in Nat /\ DOMAIN s = 1 .. Len(s)
  BY LenProperties
<1>2. \A i \in 1 .. Len(s) : s[i] \in S
  BY ElementOfSeq
<1> QED BY <1>1, <1>2 DEF ToSet

LEMMA LenOfFunction ==
  ASSUME NEW S, NEW n \in Nat, NEW f \in [1 .. n -> S]
  PROVE  f \in Seq(S) /\ Len(f) = n
<1>1. f \in Seq(S)
  BY IsASeq
<1>2. Len(f) \in Nat /\ 1 .. Len(f) = 1 .. n
  BY <1>1, LenProperties
<1>3. \A i \in Nat : i \in 1 .. Len(f) <=> i \in 1 .. n
  BY <1>2
<1>4. ~(Len(f) < n) /\ ~(n < Len(f))
  <2>1. n \in Nat \ {0} => n \in 1 .. n
    OBVIOUS
  <2>2. Len(f) \in Nat \ {0} => Len(f) \in 1 .. Len(f)
    BY <1>2
  <2> QED BY <1>2, <1>3, <2>1, <2>2
<1> QED BY <1>1, <1>2, <1>4

LEMMA AppendFacts ==
  ASSUME NEW S, NEW s \in Seq(S), NEW e \in S
  PROVE  /\ Append(s, e) \in Seq(S)
         /\ Len(Append(s, e)) = Len(s) + 1
         /\ \A i \in 1 .. Len(s) : Append(s, e)[i] = s[i]
         /\ Append(s, e)[Len(s) + 1] = e
         /\ Append(s, e) # <<>>
         /\ ToSet(Append(s, e)) = ToSet(s) \cup {e}
<1>1. /\ Append(s, e) \in Seq(S)
      /\ Len(Append(s, e)) = Len(s) + 1
      /\ \A i \in 1 .. Len(s) : Append(s, e)[i] = s[i]
      /\ Append(s, e)[Len(s) + 1] = e
      /\ Append(s, e) # <<>>
  BY AppendProperties
<1>2. /\ DOMAIN s = 1 .. Len(s) /\ Len(s) \in Nat
      /\ DOMAIN Append(s, e) = 1 .. Len(s) + 1
  BY <1>1, LenProperties
<1>3. ToSet(Append(s, e)) \subseteq ToSet(s) \cup {e}
  BY <1>1, <1>2 DEF ToSet
<1>4. ToSet(s) \cup {e} \subseteq ToSet(Append(s, e))
  BY <1>1, <1>2 DEF ToSet
<1> QED BY <1>1, <1>3, <1>4

LEMMA FrontFacts ==
  ASSUME NEW S, NEW s \in Seq(S), s # <<>>
  PROVE  /\ Front(s) \in Seq(S)
         /\ Len(s) >= 1
         /\ Len(Front(s)) = Len(s) - 1
         /\ \A i \in 1 .. Len(s) - 1 : Front(s)[i] = s[i]
         /\ \A e \in ToSet(s) : e \in ToSet(Front(s)) \/ e = s[Len(s)]
         /\ ToSet(Front(s)) \subseteq ToSet(s)
<1>1. Len(s) \in Nat /\ Len(s) >= 1 /\ DOMAIN s = 1 .. Len(s)
  BY EmptySeq, LenProperties
<1>2. /\ Front(s) \in Seq(S)
      /\ Len(Front(s)) = Len(s) - 1
      /\ \A i \in 1 .. Len(s) - 1 : Front(s)[i] = s[i]
  BY <1>1, SubSeqProperties DEF Front
<1>3. DOMAIN Front(s) = 1 .. Len(s) - 1
  BY <1>2, LenProperties
<1> QED BY <1>1, <1>2, <1>3 DEF ToSet

\* The order and the order without the synthetic module.
LEMMA LoadingOrder ==
  ASSUME IInv, status = "load"
  PROVE  ~Started /\ Loaded = order /\ order \in Seq(Files)
BY DEF IInv, OrderForm, Loaded

LEMMA CurrentFacts ==
  ASSUME IInv, stack # <<>>
  PROVE  /\ stack \in Seq(Files) /\ Len(stack) \in Nat /\ Len(stack) >= 1
         /\ current \in Files /\ current \in grey /\ current \in cache
         /\ current = stack[Len(stack)]
         /\ at[current] \in Nat \ {0} /\ Len(program[current]) \in Nat
<1>1. stack \in Seq(Files) /\ program \in [Files -> Seq(Name)]
  BY DEF IInv, TypeOK
<1>2. Len(stack) \in Nat /\ Len(stack) >= 1
  BY <1>1, EmptySeq, LenProperties
<1>3. current \in Files /\ current \in grey
  BY <1>1, <1>2, ElementIn DEF current, IInv, GreyIsStack
<1>4. current \in cache
  BY <1>3 DEF IInv, TypeOK
<1> QED BY <1>1, <1>2, <1>3, <1>4, LenProperties DEF current, IInv, Passed

-----------------------------------------------------------------------------
LEMMA InitHolds == Init => IInv /\ Order!Init
<1> SUFFICES ASSUME Init PROVE IInv /\ Order!Init
  OBVIOUS
<1> USE LoaderAssumption DEF Init
<1>1. TypeOK
  BY EmptySeq DEF TypeOK
<1>2. ~Started /\ Loaded = <<>> /\ ToSet(<<>>) = {}
  BY DEF Started, Loaded, ToSet
<1>3. GreyIsStack /\ Waiting /\ Settled /\ Passed /\ OrderForm /\ CycleIsReal
  BY <1>2, EmptySeq DEF GreyIsStack, Waiting, Settled, Passed, OrderForm, CycleIsReal
<1>4. Order!Init
  BY <1>2 DEF Order!Init, Graph
<1> QED BY <1>1, <1>3, <1>4 DEF IInv

\* A failure keeps everything but the status.
LEMMA FailPreserves ==
  ASSUME IInv, NEW s \in Failures, Fail(s),
         s = "cycle" => Imports(current) \cap ToSet(stack) # {}
  PROVE  IInv' /\ UNCHANGED Order!vars
<1>1. /\ cache' = cache /\ program' = program /\ grey' = grey /\ stack' = stack
      /\ at' = at /\ deps' = deps /\ order' = order /\ status' = s
      /\ k' = k /\ ctr' = ctr
  BY DEF Fail, dfs, nums
<1>2. s \notin {"load", "check", "emit", "done"}
  BY DEF Failures
<1>3. Started' = Started /\ Loaded' = Loaded /\ current' = current
  BY <1>1 DEF Started, Loaded, current
<1>4. /\ \A p, i : Target(p, i)' = Target(p, i)
      /\ \A p : Imports(p)' = Imports(p)
  BY <1>1 DEF Target, Imports
<1>5. TypeOK'
  BY <1>1 DEF IInv, TypeOK
<1>6. GreyIsStack' /\ Waiting' /\ Settled' /\ Passed'
  BY <1>1, <1>3, <1>4 DEF IInv, GreyIsStack, Waiting, Settled, Passed
<1>7. OrderForm'
  BY <1>1, <1>2, <1>3 DEF IInv, OrderForm
<1>8. CycleIsReal'
  <2> SUFFICES ASSUME s = "cycle" PROVE CycleIsReal'
    BY <1>1 DEF CycleIsReal
  <2>1. \A i \in 1 .. Len(stack) - 1 : stack[i + 1] \in Imports(stack[i])
    <3> TAKE i \in 1 .. Len(stack) - 1
    <3>1. stack \in Seq(Files) /\ Len(stack) \in Nat /\ i \in 1 .. Len(stack)
      BY ElementIn DEF IInv, TypeOK
    <3>2. stack[i] \in Files
      BY <3>1, ElementIn
    <3>3. /\ at[stack[i]] \in 1 .. Len(program[stack[i]])
          /\ Target(stack[i], at[stack[i]]) = stack[i + 1]
      BY DEF IInv, Waiting
    <3> QED BY <3>2, <3>3, TargetFacts DEF IInv
  <2> QED BY <1>1, <1>3, <1>4, <2>1 DEF CycleIsReal
<1>9. Graph' = Graph
  BY <1>1, <1>4 DEF Graph
<1> QED BY <1>3, <1>5, <1>6, <1>7, <1>8, <1>9 DEF IInv, Order!vars

\* Reading a file puts it on the stack; nobody has asked for it before.
LEMMA OpenPreserves ==
  ASSUME IInv, status = "load", NEW p \in Files, p \notin cache, Open(p),
         stack # <<>> => /\ at[current] \in 1 .. Len(program[current])
                         /\ Target(current, at[current]) = p
  PROVE  IInv' /\ (Order!Next \/ UNCHANGED Order!vars)
<1>1. CASE Fail("invalid")
  BY <1>1, FailPreserves DEF Failures
<1>2. ASSUME NEW prog \in SeqOf(Name, MaxImports),
             program' = [program EXCEPT ![p] = prog],
             cache' = cache \cup {p}, grey' = grey \cup {p}, stack' = Append(stack, p),
             UNCHANGED <<at, deps, order, status, nums>>
      PROVE  IInv' /\ Order!Next
  <2>1. TypeOK /\ GreyIsStack /\ Waiting /\ Settled /\ Passed
    BY DEF IInv
  <2>2. ~Started /\ Loaded = order /\ order \in Seq(Files)
    BY LoadingOrder
  <2>3. ~Started' /\ Loaded' = Loaded /\ order' = order
    BY <1>2, <2>2 DEF Started, Loaded
  <2>4. prog \in Seq(Name)
    BY SMTT(30), SeqDef, LoaderAssumption DEF SeqOf
  <2>5. p \notin grey /\ p \notin ToSet(Loaded)
    BY <2>1 DEF TypeOK, Settled
  <2>6. /\ stack \in Seq(Files) /\ stack' \in Seq(Files)
        /\ Len(stack') = Len(stack) + 1 /\ Len(stack) \in Nat
        /\ \A i \in 1 .. Len(stack) : stack'[i] = stack[i] /\ stack[i] \in grey
        /\ stack'[Len(stack) + 1] = p
        /\ ToSet(stack') = ToSet(stack) \cup {p}
    BY SMTT(30), <1>2, <2>1, AppendFacts, ElementIn DEF TypeOK, GreyIsStack
  <2>7. /\ \A q \in Files \ {p} : program'[q] = program[q]
        /\ \A q \in cache : program'[q] = program[q]
        /\ program' \in [Files -> Seq(Name)]
    BY <1>2, <2>1, <2>4 DEF TypeOK
  <2>8. /\ \A q \in cache : \A i : Target(q, i)' = Target(q, i)
        /\ \A q \in cache : Imports(q)' = Imports(q)
    BY <2>7 DEF Target, Imports
  <2>9. TypeOK'
    BY <1>2, <2>1, <2>6, <2>7, <2>3 DEF TypeOK, nums
  <2>10. GreyIsStack'
    BY <1>2, <2>1, <2>5, <2>6 DEF GreyIsStack
  <2>11. Waiting'
    <3> SUFFICES ASSUME NEW i \in 1 .. Len(stack), NEW q, q = stack[i], NEW j, j = at[q]
                 PROVE  j \in 1 .. Len(program'[q]) /\ Target(q, j)' = stack'[i + 1]
      BY <1>2, <2>6 DEF Waiting
    <3>1. q \in cache /\ program'[q] = program[q] /\ Target(q, j)' = Target(q, j)
      BY <2>1, <2>6, <2>7, <2>8 DEF TypeOK
    <3>2. CASE i = Len(stack)
      <4>1. stack # <<>> /\ current = q
        BY <3>2, EmptySeq DEF current
      <4> QED BY <2>6, <3>1, <3>2, <4>1
    <3>3. CASE i # Len(stack)
      <4>1. i \in 1 .. Len(stack) - 1 /\ i + 1 \in 1 .. Len(stack)
        BY <2>6, <3>3
      <4>2. j \in 1 .. Len(program[q]) /\ Target(q, j) = stack[i + 1]
        BY <2>1, <4>1 DEF Waiting
      <4> QED BY <2>6, <3>1, <4>1, <4>2
    <3> QED BY <3>2, <3>3
  <2>12. Settled'
    BY <1>2, <2>1, <2>3, <2>5 DEF Settled
  <2>13. Passed'
    <3>1. \A q \in Files \ cache' : at'[q] = 1
      BY <1>2, <2>1 DEF Passed
    <3>2. ASSUME NEW q \in cache', NEW i \in 1 .. Len(program'[q]), i < at'[q]
          PROVE  Target(q, i)' \in ToSet(Loaded)'
      <4>1. q # p
        BY <1>2, <2>1, <3>2 DEF Passed
      <4>2. q \in cache
        BY <1>2, <4>1
      <4> QED BY <1>2, <2>1, <2>3, <2>7, <2>8, <3>2, <4>2 DEF Passed
    <3>3. \A q \in cache' : at'[q] \in Nat \ {0}
      BY <1>2, <2>1 DEF Passed
    <3> QED BY <3>1, <3>2, <3>3 DEF Passed
  <2>14. OrderForm' /\ CycleIsReal'
    BY <1>2, <2>2, <2>3 DEF OrderForm, CycleIsReal
  <2>15. Order!Read(p)
    <3>1. Graph[p] = NoFile
      BY DEF Graph
    <3>2. Graph'[p] = Imports(p)' \cap Files
      BY <1>2 DEF Graph
    <3>3. Graph' = [Graph EXCEPT ![p] = Graph'[p]]
      <4>1. \A q \in Files \ {p} : Graph'[q] = Graph[q]
        BY <1>2, <2>8 DEF Graph
      <4> QED BY <4>1 DEF Graph
    <3> QED BY <2>3, <3>1, <3>2, <3>3, LoaderAssumption DEF Order!Read
  <2> QED BY <2>9, <2>10, <2>11, <2>12, <2>13, <2>14, <2>15 DEF IInv, Order!Next
<1> QED BY <1>1, <1>2 DEF Open

\* The end of a turn of the loop over imports: the import that the module was at
\* is in the order now.
LEMMA NotePreserves ==
  ASSUME TypeOK, Passed, NEW p \in cache, NEW id \in Name,
         at[p] \in 1 .. Len(program[p]),
         NoteDep(p, id), UNCHANGED <<cache, program>>,
         ToSet(Loaded) \subseteq ToSet(Loaded)',
         Target(p, at[p]) \in ToSet(Loaded)'
  PROVE  /\ Passed'
         /\ deps' \in [Files -> Seq(Name)] /\ at' \in [Files -> Nat]
         /\ \A q : q # p => at'[q] = at[q]
<1>1. p \in Files /\ at \in [Files -> Nat] /\ deps \in [Files -> Seq(Name)]
  BY DEF TypeOK
<1>2. at' = [at EXCEPT ![p] = at[p] + 1]
  BY DEF NoteDep
<1>3. at'[p] = at[p] + 1 /\ \A q : q # p => at'[q] = at[q]
  BY <1>1, <1>2
<1>4. deps' \in [Files -> Seq(Name)]
  <2>1. deps[p] \in Seq(Name) /\ Append(deps[p], id) \in Seq(Name)
    BY <1>1, AppendProperties
  <2> QED BY <1>1, <2>1 DEF NoteDep
<1>5. \A q, i : Target(q, i)' = Target(q, i)
  BY DEF Target
<1>6. \A q \in Files \ cache' : at'[q] = 1
  BY <1>3 DEF Passed
<1>7. ASSUME NEW q \in cache', NEW i \in 1 .. Len(program'[q]), i < at'[q]
      PROVE  Target(q, i)' \in ToSet(Loaded)'
  <2>1. CASE q = p /\ i = at[p]
    BY <1>5, <2>1
  <2>2. CASE ~(q = p /\ i = at[p])
    <3>1. i < at[q] /\ i \in 1 .. Len(program[q]) /\ q \in cache
      <4>1. at[p] \in Nat /\ i \in Int
        BY <1>1
      <4> QED BY <1>3, <1>7, <2>2, <4>1
    <3> QED BY <1>5, <3>1 DEF Passed
  <2> QED BY <2>1, <2>2
<1>8. \A q \in cache' : at'[q] \in Nat \ {0}
  BY <1>1, <1>3 DEF Passed
<1>9. at' \in [Files -> Nat]
  BY <1>1, <1>2
<1> QED BY <1>3, <1>4, <1>6, <1>7, <1>8, <1>9 DEF Passed

LEMMA ImportPreserves ==
  ASSUME IInv, Import
  PROVE  IInv' /\ (Order!Next \/ UNCHANGED Order!vars)
<1> DEFINE q == Target(current, at[current])
<1>1. /\ status = "load" /\ stack # <<>>
      /\ at[current] \in 1 .. Len(program[current]) /\ at[current] \in Nat \ {0}
      /\ current \in Files /\ current \in cache
      /\ stack \in Seq(Files) /\ Len(stack) \in Nat /\ Len(stack) >= 1
      /\ current = stack[Len(stack)]
  BY CurrentFacts DEF Import
<1>2. /\ q \in Files \cup {NoFile} /\ (q # NoFile => q.name \in Name)
      /\ q \in Imports(current)
  BY <1>1, TargetFacts DEF IInv
<1>3. CASE q = NoFile /\ Fail("missing")
  BY <1>3, FailPreserves DEF Failures
<1>4. CASE q \in grey /\ Fail("cycle")
  <2>1. Imports(current) \cap ToSet(stack) # {}
    BY <1>2, <1>4 DEF IInv, GreyIsStack
  <2> QED BY <1>4, <2>1, FailPreserves DEF Failures
<1>5. CASE /\ q \in cache \ grey
           /\ NoteDep(current, q.name)
           /\ UNCHANGED <<cache, program, grey, stack, order, status, nums>>
  <2>1. TypeOK /\ GreyIsStack /\ Waiting /\ Settled /\ Passed /\ OrderForm
    BY DEF IInv
  <2>2. Loaded' = Loaded /\ Started' = Started /\ Graph' = Graph
    BY <1>5 DEF Loaded, Started, Graph, Imports, Target
  <2>3. q \in ToSet(Loaded) /\ q \in Files /\ q # NoFile
    BY <1>5, <2>1, LoaderAssumption DEF Settled, TypeOK
  <2>4. /\ Passed'
        /\ deps' \in [Files -> Seq(Name)] /\ at' \in [Files -> Nat]
        /\ \A p : p # current => at'[p] = at[p]
    <3> HIDE DEF q
    <3>1. q.name \in Name
      BY <1>2, <2>3
    <3>2. q = Target(current, at[current])
      BY DEF q
    <3> QED BY <1>1, <1>5, <2>1, <2>2, <2>3, <3>1, <3>2, NotePreserves
  <2>5. TypeOK'
    BY <1>5, <2>1, <2>4 DEF TypeOK, nums
  <2>6. Waiting'
    <3> SUFFICES ASSUME NEW i \in 1 .. Len(stack) - 1, NEW p, p = stack[i], NEW j, j = at'[p]
                 PROVE  j \in 1 .. Len(program[p]) /\ Target(p, j)' = stack[i + 1]
      BY <1>5 DEF Waiting
    <3>1. p # current
      BY <1>1, <2>1 DEF GreyIsStack
    <3>2. j = at[p]
      BY <2>4, <3>1
    <3>3. Target(p, j)' = Target(p, j)
      BY <1>5 DEF Target
    <3> QED BY <2>1, <3>2, <3>3 DEF Waiting
  <2>7. GreyIsStack' /\ Settled' /\ OrderForm' /\ CycleIsReal'
    BY <1>1, <1>5, <2>1, <2>2 DEF GreyIsStack, Settled, OrderForm, CycleIsReal
  <2> QED BY <2>2, <2>4, <2>5, <2>6, <2>7, <1>5 DEF IInv, Order!vars
<1>6. CASE q # NoFile /\ q \notin cache /\ Open(q)
  <2> HIDE DEF q
  <2>1. q \in Files /\ q = Target(current, at[current])
    BY <1>2, <1>6 DEF q
  <2> QED BY <1>1, <1>6, <2>1, OpenPreserves
<1> QED BY <1>3, <1>4, <1>5, <1>6 DEF Import

\* loadPath returns: all imports of the module are in the order, so it may enter.
LEMMA ReturnPreserves ==
  ASSUME IInv, Return
  PROVE  IInv' /\ Order!Next
<1>1. /\ status = "load" /\ stack # <<>>
      /\ at[current] > Len(program[current])
      /\ current \in Files /\ current \in cache /\ current \in grey
      /\ stack \in Seq(Files) /\ Len(stack) \in Nat /\ Len(stack) >= 1
      /\ current = stack[Len(stack)]
  BY CurrentFacts DEF Return
<1>2. TypeOK /\ GreyIsStack /\ Waiting /\ Settled /\ Passed /\ OrderForm
  BY DEF IInv
<1>3. ~Started /\ Loaded = order /\ order \in Seq(Files)
  BY <1>1, LoadingOrder
<1>4. /\ stack' = Front(stack) /\ grey' = grey \ {current} /\ order' = Append(order, current)
      /\ cache' = cache /\ program' = program /\ status' = status /\ k' = k /\ ctr' = ctr
  BY DEF Return, nums
<1>5. /\ order' \in Seq(Files) /\ ToSet(order') = ToSet(order) \cup {current}
      /\ \A i \in 1 .. Len(order) : order'[i] = order[i]
      /\ order' # <<>> /\ Len(order') = Len(order) + 1
  BY <1>1, <1>3, <1>4, AppendFacts
<1>6. ~Started' /\ Loaded' = order'
  <2>1. order' # <<>> => order'[1] \in Files
    BY <1>5, EmptySeq, ElementIn, LenProperties
  <2> QED BY <2>1, LoaderAssumption DEF Started, Loaded
<1>7. /\ stack' \in Seq(Files) /\ Len(stack') = Len(stack) - 1
      /\ \A i \in 1 .. Len(stack) - 1 : stack'[i] = stack[i] /\ stack[i] # current
      /\ ToSet(stack') \subseteq ToSet(stack)
      /\ \A e \in ToSet(stack) : e \in ToSet(stack') \/ e = current
  BY <1>1, <1>2, <1>4, FrontFacts DEF GreyIsStack
<1>8. current \notin ToSet(stack')
  <2> SUFFICES ASSUME current \in ToSet(stack') PROVE FALSE
    OBVIOUS
  <2>1. PICK i \in 1 .. Len(stack') : stack'[i] = current
    BY <1>7, ElementIn
  <2> QED BY <1>1, <1>7, <2>1
<1>9. GreyIsStack'
  <2>1. grey' = ToSet(stack')
    BY <1>2, <1>4, <1>7, <1>8 DEF GreyIsStack
  <2> QED BY <1>1, <1>2, <1>7, <2>1 DEF GreyIsStack
<1>10. Settled'
  BY <1>1, <1>2, <1>3, <1>4, <1>5, <1>6 DEF Settled, TypeOK
<1>11. \A p, i : Target(p, i)' = Target(p, i)
  BY <1>4 DEF Target
<1>12. /\ Passed'
       /\ deps' \in [Files -> Seq(Name)] /\ at' \in [Files -> Nat]
       /\ \A i \in 1 .. Len(stack) - 2 : at'[stack[i]] = at[stack[i]]
  <2>1. CASE Len(stack) > 1
    <3> DEFINE p == stack[Len(stack) - 1]
    <3>1. /\ Len(stack) - 1 \in 1 .. Len(stack) - 1 /\ Len(stack) - 1 \in 1 .. Len(stack)
          /\ (Len(stack) - 1) + 1 = Len(stack)
      BY <1>1, <2>1
    <3>2. p \in Files /\ p \in grey /\ p \in cache
      <4>1. p \in Files /\ p \in ToSet(stack)
        <5>1. \A i \in 1 .. Len(stack) : stack[i] \in Files /\ stack[i] \in ToSet(stack)
          BY <1>1, ElementIn
        <5> QED BY <3>1, <5>1
      <4> QED BY <1>2, <4>1 DEF GreyIsStack, TypeOK
    <3>3. at[p] \in 1 .. Len(program[p]) /\ Target(p, at[p]) = current
      BY <1>1, <1>2, <3>1 DEF Waiting
    <3>4. NoteDep(p, current.name)
      BY <2>1 DEF Return
    <3>5. current.name \in Name
      BY <1>1, LoaderAssumption DEF Path
    <3>6. \A i \in 1 .. Len(stack) - 2 : stack[i] # p
      BY <1>1, <1>2, <3>1 DEF GreyIsStack
    <3> HIDE DEF p
    <3>7. /\ Passed'
          /\ deps' \in [Files -> Seq(Name)] /\ at' \in [Files -> Nat]
          /\ \A q : q # p => at'[q] = at[q]
      BY <1>2, <1>3, <1>4, <1>5, <1>6, <3>2, <3>3, <3>4, <3>5, NotePreserves
    <3> QED BY <3>6, <3>7
  <2>2. CASE ~(Len(stack) > 1)
    <3>1. at' = at /\ deps' = deps
      BY <2>2 DEF Return
    <3> QED BY <1>2, <1>3, <1>4, <1>5, <1>6, <1>11, <3>1 DEF Passed, TypeOK
  <2> QED BY <2>1, <2>2
<1>13. TypeOK'
  <2>1. order' \in Seq(Files \cup {Builtins})
    BY <1>5, SeqMonotonic
  <2> QED BY <1>2, <1>4, <1>7, <1>12, <2>1 DEF TypeOK
<1>14. Waiting'
  <2> SUFFICES ASSUME NEW i \in 1 .. Len(stack') - 1, NEW p, p = stack'[i], NEW j, j = at'[p]
               PROVE  j \in 1 .. Len(program'[p]) /\ Target(p, j)' = stack'[i + 1]
    BY DEF Waiting
  <2>1. i \in 1 .. Len(stack) - 2 /\ i \in 1 .. Len(stack) - 1 /\ i + 1 \in 1 .. Len(stack) - 1
    BY <1>1, <1>7
  <2>2. p = stack[i] /\ j = at[p] /\ stack'[i + 1] = stack[i + 1]
    BY <1>7, <1>12, <2>1
  <2> QED BY <1>2, <1>4, <1>11, <2>1, <2>2 DEF Waiting
<1>15. OrderForm' /\ CycleIsReal'
  BY <1>1, <1>4, <1>5, <1>6 DEF OrderForm, CycleIsReal
<1>16. Order!Emit(current)
  <2>1. current \notin Order!Range(Loaded) /\ Order!Range(Loaded) = ToSet(Loaded)
    BY <1>1, <1>2 DEF Settled, Order!Range, ToSet
  <2>2. Graph[current] = Imports(current) \cap Files
    BY <1>1 DEF Graph
  <2>3. Graph[current] # NoFile
    BY <2>2, LoaderAssumption
  <2>4. Imports(current) \subseteq ToSet(Loaded)
    <3> SUFFICES ASSUME NEW i \in DOMAIN program[current]
                 PROVE  Target(current, i) \in ToSet(Loaded)
      BY DEF Imports
    <3>1. i \in 1 .. Len(program[current]) /\ Len(program[current]) \in Nat
      BY <1>1, <1>2, LenProperties DEF TypeOK
    <3>2. i < at[current]
      BY <1>1, <1>2, <3>1 DEF TypeOK
    <3> QED BY <1>1, <1>2, <3>1, <3>2 DEF Passed
  <2>5. Loaded' = Append(Loaded, current)
    BY <1>3, <1>4, <1>6
  <2>6. Graph' = Graph
    BY <1>4, <1>11 DEF Graph, Imports
  <2> QED BY <2>1, <2>2, <2>3, <2>4, <2>5, <2>6 DEF Order!Emit
<1> QED BY <1>1, <1>9, <1>10, <1>12, <1>13, <1>14, <1>15, <1>16 DEF IInv, Order!Next

\* After loading: the synthetic module in front, and numbers that the load does
\* not depend on.
LEMMA AddBuiltinsPreserves ==
  ASSUME IInv, AddBuiltins
  PROVE  IInv' /\ UNCHANGED Order!vars
<1>1. /\ status = "load" /\ stack = <<>> /\ order' = <<Builtins>> \o order
      /\ ctr' = Classes[Builtins] /\ status' = "check" /\ k' = 2
      /\ UNCHANGED dfs
  BY DEF AddBuiltins
<1>2. TypeOK /\ GreyIsStack /\ Waiting /\ Settled /\ Passed /\ OrderForm
  BY DEF IInv
<1>3. ~Started /\ Loaded = order /\ order \in Seq(Files)
  BY <1>1, LoadingOrder
<1>4. order \in Seq(Files \cup {Builtins}) /\ <<Builtins>> \in Seq(Files \cup {Builtins})
  BY <1>3, SeqMonotonic
<1>5. /\ order' \in Seq(Files \cup {Builtins})
      /\ Len(order') = 1 + Len(order) /\ Len(order) \in Nat
      /\ order'[1] = Builtins
  BY <1>1, <1>4, ConcatProperties, LenProperties
<1>6. order' # <<>>
  BY <1>5, EmptySeq
<1>7. Started' /\ Tail(order') = order
  <2>1. Started'
    BY <1>5, <1>6 DEF Started
  <2>2. Tail(<<Builtins>> \o order) = order
    <3> DEFINE b == <<Builtins>>
    <3>1. b \in Seq(Files \cup {Builtins}) /\ Len(b) = 1
      BY <1>4
    <3> HIDE DEF b
    <3>2. /\ b \o order \in Seq(Files \cup {Builtins})
          /\ Len(b \o order) = Len(order) + 1 /\ b \o order # <<>>
          /\ \A i \in 1 .. Len(order) : (b \o order)[i + 1] = order[i]
      BY <1>1, <1>4, <1>5, <1>6, <3>1, ConcatProperties DEF b
    <3>3. /\ Tail(b \o order) \in Seq(Files \cup {Builtins})
          /\ Len(Tail(b \o order)) = Len(order)
          /\ \A i \in 1 .. Len(Tail(b \o order)) : Tail(b \o order)[i] = (b \o order)[i + 1]
      BY <1>5, <3>2, HeadTailProperties
    <3> QED BY <1>4, <3>2, <3>3, SeqEqual DEF b
  <2> QED BY <1>1, <2>1, <2>2
<1>8. Loaded' = Loaded
  BY <1>3, <1>7 DEF Loaded
<1>9. Graph' = Graph /\ \A p, i : Target(p, i)' = Target(p, i)
  BY <1>1 DEF Graph, Imports, Target, dfs
<1>10. TypeOK'
  <2>1. ctr' \in Nat /\ k' \in Nat
    BY <1>1, LoaderAssumption
  <2> QED BY <1>1, <1>2, <1>5, <2>1 DEF TypeOK, dfs
<1>11. GreyIsStack' /\ Waiting' /\ Settled' /\ Passed' /\ CycleIsReal'
  BY <1>1, <1>2, <1>8, <1>9 DEF GreyIsStack, Waiting, Settled, Passed, CycleIsReal, dfs
<1>12. OrderForm'
  BY <1>1, <1>3, <1>7, <1>8 DEF OrderForm
<1> QED BY <1>8, <1>9, <1>10, <1>11, <1>12 DEF IInv, Order!vars

LEMMA NumberingPreserves ==
  ASSUME IInv, Started, status \in {"check", "emit"}, UNCHANGED <<dfs, order>>,
         status' \in {"check", "emit", "done"}, k' \in Nat \ {0}, ctr' \in Nat
  PROVE  IInv' /\ UNCHANGED Order!vars
<1>1. TypeOK /\ GreyIsStack /\ Waiting /\ Settled /\ Passed /\ OrderForm
  BY DEF IInv
<1>2. Started' = Started /\ Loaded' = Loaded
  BY DEF Started, Loaded
<1>3. Graph' = Graph /\ \A p, i : Target(p, i)' = Target(p, i)
  BY DEF Graph, Imports, Target, dfs
<1>4. TypeOK' /\ GreyIsStack' /\ Waiting' /\ Settled' /\ Passed'
  BY <1>1, <1>2, <1>3 DEF TypeOK, GreyIsStack, Waiting, Settled, Passed, dfs
<1>5. OrderForm' /\ CycleIsReal'
  BY <1>1, <1>2 DEF OrderForm, CycleIsReal
<1> QED BY <1>2, <1>3, <1>4, <1>5 DEF IInv, Order!vars

LEMMA NextPreserves ==
  ASSUME IInv, [Next]_vars
  PROVE  IInv' /\ (Order!Next \/ UNCHANGED Order!vars)
<1>1. CASE UNCHANGED vars
  <2>1. UNCHANGED <<cache, program, grey, stack, at, deps, order, status, k, ctr>>
    BY <1>1 DEF vars, dfs, nums
  <2>2. Started' = Started /\ Loaded' = Loaded /\ current' = current
    BY <2>1 DEF Started, Loaded, current
  <2>3. /\ Graph' = Graph /\ \A p, i : Target(p, i)' = Target(p, i)
        /\ \A p : Imports(p)' = Imports(p)
    BY <2>1 DEF Graph, Imports, Target
  <2> QED BY <2>1, <2>2, <2>3
       DEF IInv, TypeOK, GreyIsStack, Waiting, Settled, Passed, OrderForm, CycleIsReal, Order!vars
<1>2. CASE LoadEntry
  <2>1. status = "load" /\ cache = {} /\ Open(Entry) /\ Entry \in Files
    BY <1>2, LoaderAssumption DEF LoadEntry
  <2>2. stack = <<>>
    <3> SUFFICES ASSUME stack # <<>> PROVE FALSE
      OBVIOUS
    <3> QED BY <2>1, CurrentFacts
  <2> QED BY <2>1, <2>2, OpenPreserves
<1>3. CASE Import
  BY <1>3, ImportPreserves
<1>4. CASE Return
  BY <1>4, ReturnPreserves
<1>5. CASE AddBuiltins
  BY <1>5, AddBuiltinsPreserves
<1>6. CASE Check \/ BeginEmit \/ RegisterGenerators \/ EndEmit
  <2>1. status \in {"check", "emit"} /\ Started
    BY <1>6 DEF Check, BeginEmit, RegisterGenerators, EndEmit, IInv, OrderForm
  <2>2. CASE Fail("invalid")
    BY <2>2, FailPreserves DEF Failures
  <2>3. CASE ~Fail("invalid")
    <3>1. k \in Nat \ {0} /\ ctr \in Nat /\ order \in Seq(Files \cup {Builtins})
      BY <2>1 DEF IInv, TypeOK, OrderForm
    <3>2. k <= Len(order) => ctr + Classes[order[k]] \in Nat
      <4>1. k <= Len(order) => order[k] \in Files \cup {Builtins}
        BY <3>1, ElementOfSeq, LenProperties
      <4> QED BY <3>1, <4>1, LoaderAssumption
    <3>3. CASE Check
      BY <2>1, <2>3, <3>1, <3>2, <3>3, NumberingPreserves DEF Check
    <3>4. CASE BeginEmit
      BY <2>1, <2>3, <3>1, <3>4, NumberingPreserves DEF BeginEmit
    <3>5. CASE RegisterGenerators
      BY <2>1, <2>3, <3>1, <3>5, NumberingPreserves DEF RegisterGenerators
    <3>6. CASE EndEmit
      BY <2>1, <2>3, <3>1, <3>6, NumberingPreserves DEF EndEmit, nums
    <3> QED BY <1>6, <3>3, <3>4, <3>5, <3>6
  <2> QED BY <2>2, <2>3
<1> QED BY <1>1, <1>2, <1>3, <1>4, <1>5, <1>6 DEF Next, Step, Ended

-----------------------------------------------------------------------------
\* The invariant holds in every state of the compiler, whatever the source
\* tree; the results rest on it.
LEMMA Invariance == Spec => []IInv
<1>1. Init => IInv
  BY InitHolds
<1>2. IInv /\ [Next]_vars => IInv'
  BY NextPreserves
<1> QED BY <1>1, <1>2, PTL DEF Spec

\* loader.go keeps its maps and lists well formed: the grey set stays inside the
\* cache, and every path it holds is an existing file.
THEOREM LoaderTypeCorrect == Spec => []TypeOK
<1>1. IInv => TypeOK
  BY DEF IInv
<1> QED BY <1>1, Invariance, PTL

\* resolveImport and loadPath: whenever an import cycle is reported, the chain
\* on the stack is a chain of imports that closes, whatever the source tree.
THEOREM CyclesAreReal == Spec => []CycleIsReal
<1>1. IInv => CycleIsReal
  BY DEF IInv
<1> QED BY <1>1, Invariance, PTL

\* loadPath implements the abstract order for every source tree and search path:
\* each file is read once, and appended once, after all it imports.
THEOREM LoaderImplementsOrder == Spec => LoadsInOrder
<1>1. Init => Order!Init
  BY InitHolds
<1>2. IInv /\ [Next]_vars => [Order!Next]_(Order!vars)
  BY NextPreserves
<1> QED BY <1>1, <1>2, Invariance, PTL DEF Spec, LoadsInOrder, Order!Spec

-----------------------------------------------------------------------------
\* The second strengthening: who is needed, and what is bound.

\* The walk starts at the entry, which is the last to be complete.
Rooted ==
  /\ stack # <<>> => stack[1] = Entry
  /\ stack = <<>> /\ cache # {} => Loaded # <<>> /\ Loaded[Len(Loaded)] = Entry
  /\ Started => stack = <<>> /\ cache # {}

\* Nothing is read that no module imports.
Needed == \A p \in cache \ {Entry} : \E q \in cache : p \in Imports(q)

\* No module is in the order twice.
Once == /\ IsFiniteSet(ToSet(Loaded)) /\ Cardinality(ToSet(Loaded)) = Len(Loaded)
        /\ \A i, j \in 1 .. Len(Loaded) : Loaded[i] = Loaded[j] => i = j

\* The names a module has noted are those of the imports it has passed.
NamesPassed(p) == {program[p][i] : i \in {n \in 1 .. Len(program[p]) : n < at[p]}}

Noted == /\ \A p \in cache : ToSet(deps[p]) = NamesPassed(p)
         /\ \A p \in Files \ cache : deps[p] = <<>>

\* A module in the order has passed all its imports, and they stand before it.
Before ==
  \A j \in 1 .. Len(Loaded) :
    /\ at[Loaded[j]] > Len(program[Loaded[j]])
    /\ \A i \in 1 .. Len(program[Loaded[j]]) :
         \E n \in 1 .. j - 1 : Loaded[n] = Target(Loaded[j], i)

\* Only modules of a complete order are bound, each to what has the names it noted.
BoundByName ==
  /\ DOMAIN bound = Files
  /\ status = "check" => k >= 2
  /\ \A p \in Files : bound[p] # <<>> =>
       /\ Started /\ p \in ToSet(Loaded)
       /\ bound[p] = [i \in DOMAIN deps[p] |-> FindByID(deps[p][i])]

JInv == Rooted /\ Needed /\ Once /\ Noted /\ Before /\ BoundByName

\* The ids given so far, and the counter that is above them while modules are
\* checked.
IdsBelow(b) == AllIds \subseteq 1 .. b

IdInv ==
  /\ ids \in [Files \cup {Builtins} -> SUBSET Nat]
  /\ genIds \in [Files \cup {Builtins} -> SUBSET Nat]
  /\ IdsUnique
  /\ \E b \in Nat : IdsBelow(b)
  /\ status = "load" => IdsBelow(0)
  /\ status = "check" => IdsBelow(ctr)

-----------------------------------------------------------------------------
LEMMA InitReady == Init => JInv
<1> SUFFICES ASSUME Init PROVE JInv
  OBVIOUS
<1> USE LoaderAssumption DEF Init
<1>1. ~Started /\ Loaded = <<>> /\ ToSet(<<>>) = {} /\ Len(<<>>) = 0
  BY EmptySeq DEF Started, Loaded, ToSet
<1>2. IsFiniteSet({}) /\ Cardinality({}) = 0
  BY FS_EmptySet
<1>3. Rooted /\ Needed /\ Noted
  BY <1>1 DEF Rooted, Needed, Noted
<1>4. Once /\ Before
  <2>1. ToSet(Loaded) = {} /\ Len(Loaded) = 0 /\ 1 .. Len(Loaded) = {}
    BY ONLY <1>1
  <2>2. Once
    BY ONLY <1>2, <2>1 DEF Once
  <2>3. Before
    BY ONLY <2>1 DEF Before
  <2> QED BY <2>2, <2>3
<1>5. BoundByName
  BY <1>1 DEF BoundByName
<1> QED BY <1>3, <1>4, <1>5 DEF JInv

\* Steps that leave the walk, the order and what is bound alone.
LEMMA QuietIsReady ==
  ASSUME JInv, UNCHANGED <<dfs, order, bound>>, status' = "check" => k' >= 2
  PROVE  JInv'
<1>1. /\ Started' = Started /\ Loaded' = Loaded
      /\ \A id : FindByID(id)' = FindByID(id)
  BY DEF Started, Loaded, FindByID
<1>2. /\ \A p, i : Target(p, i)' = Target(p, i)
      /\ \A p : Imports(p)' = Imports(p) /\ NamesPassed(p)' = NamesPassed(p)
  BY DEF Target, Imports, NamesPassed, dfs
<1>3. Rooted' /\ Needed' /\ Once' /\ Noted' /\ Before'
  BY <1>1, <1>2 DEF JInv, Rooted, Needed, Once, Noted, Before, dfs
<1>4. BoundByName'
  BY <1>1 DEF JInv, BoundByName, dfs
<1> QED BY <1>3, <1>4 DEF JInv

\* What the order says of the position of the modules in it.
LEMMA OrderIndex ==
  ASSUME IInv, Started
  PROVE  /\ Loaded \in Seq(Files) /\ Len(Loaded) \in Nat /\ Len(order) = Len(Loaded) + 1
         /\ order[1] = Builtins /\ DOMAIN order = 1 .. Len(order)
         /\ \A i \in 1 .. Len(Loaded) : order[i + 1] = Loaded[i]
<1>1. Loaded \in Seq(Files) /\ order = <<Builtins>> \o Loaded
  BY DEF IInv, OrderForm
<1> DEFINE S == Files \cup {Builtins}
           b == <<Builtins>>
<1>2. Loaded \in Seq(S) /\ b \in Seq(S) /\ Len(b) = 1 /\ b[1] = Builtins
  BY <1>1, SeqMonotonic
<1> HIDE DEF b
<1>3. /\ Len(b \o Loaded) = Len(Loaded) + 1 /\ Len(Loaded) \in Nat
      /\ (b \o Loaded)[1] = Builtins
      /\ \A i \in 1 .. Len(Loaded) : (b \o Loaded)[i + 1] = Loaded[i]
      /\ b \o Loaded \in Seq(S)
  <2>1. /\ b \o Loaded \in Seq(S) /\ Len(b \o Loaded) = Len(b) + Len(Loaded)
        /\ \A i \in 1 .. Len(b) + Len(Loaded) :
             (b \o Loaded)[i] = IF i <= Len(b) THEN b[i] ELSE Loaded[i - Len(b)]
    BY <1>2, ConcatProperties
  <2>2. Len(Loaded) \in Nat
    BY <1>1, LenProperties
  <2> QED BY <1>2, <2>1, <2>2
<1> QED BY <1>1, <1>3, LenProperties DEF b

LEMMA OpenIsReady ==
  ASSUME IInv, IInv', JInv, status = "load", NEW p \in Files, p \notin cache, Open(p),
         stack = <<>> => p = Entry,
         stack # <<>> => p \in Imports(current)
  PROVE  JInv'
<1>1. CASE Fail("invalid")
  BY <1>1, QuietIsReady DEF Fail, nums
<1>2. ASSUME NEW prog \in SeqOf(Name, MaxImports),
             program' = [program EXCEPT ![p] = prog],
             cache' = cache \cup {p}, grey' = grey \cup {p}, stack' = Append(stack, p),
             UNCHANGED <<at, deps, order, status, nums>>
      PROVE  JInv'
  <2>1. TypeOK /\ Settled /\ Passed /\ Rooted /\ Needed /\ Once /\ Noted /\ Before /\ BoundByName
    BY DEF IInv, JInv
  <2>2. ~Started /\ Loaded = order /\ order \in Seq(Files)
    BY LoadingOrder
  <2>3. ~Started' /\ Loaded' = Loaded /\ status' = "load"
    BY <1>2, <2>2 DEF Started, Loaded
  <2>4. \A q \in cache : /\ program'[q] = program[q] /\ Imports(q)' = Imports(q)
                         /\ NamesPassed(q)' = NamesPassed(q)
                         /\ \A i : Target(q, i)' = Target(q, i)
    <3>1. \A q \in cache : program'[q] = program[q]
      BY <1>2, <2>1 DEF TypeOK
    <3> QED BY <1>2, <3>1 DEF Target, Imports, NamesPassed
  <2>5. /\ stack \in Seq(Files) /\ Len(stack) \in Nat /\ stack' # <<>>
        /\ stack'[1] = IF stack = <<>> THEN p ELSE stack[1]
    <3>1. stack \in Seq(Files) /\ Len(stack) \in Nat
      BY <2>1, LenProperties DEF TypeOK
    <3>2. /\ Len(stack') = Len(stack) + 1 /\ stack' # <<>> /\ stack'[Len(stack) + 1] = p
          /\ \A i \in 1 .. Len(stack) : stack'[i] = stack[i]
      BY <1>2, <3>1, AppendFacts
    <3>3. stack # <<>> => 1 \in 1 .. Len(stack)
      BY <3>1, EmptySeq
    <3>4. stack = <<>> => Len(stack) = 0
      BY EmptySeq
    <3> QED BY <3>1, <3>2, <3>3, <3>4
  <2>6. Rooted'
    BY <1>2, <2>1, <2>3, <2>5 DEF Rooted
  <2>7. Needed'
    <3> SUFFICES ASSUME NEW r \in cache', r # Entry PROVE \E q \in cache' : r \in Imports(q)'
      BY DEF Needed
    <3>1. CASE r = p
      <4>1. stack # <<>> /\ r \in Imports(current)
        BY <3>1
      <4>2. current \in cache
        BY <4>1, CurrentFacts
      <4> QED BY <1>2, <2>4, <4>1, <4>2
    <3>2. CASE r # p
      BY <1>2, <2>1, <2>4, <3>2 DEF Needed
    <3> QED BY <3>1, <3>2
  <2>8. Noted'
    <3>1. ToSet(deps'[p]) = NamesPassed(p)'
      <4>1. deps'[p] = <<>> /\ at'[p] = 1
        BY <1>2, <2>1 DEF Noted, Passed
      <4> QED BY <4>1 DEF ToSet, NamesPassed
    <3> QED BY <1>2, <2>1, <2>4, <3>1 DEF Noted
  <2>9. Before'
    <3>1. \A j \in 1 .. Len(Loaded) : Loaded[j] \in cache
      BY <2>1, <2>2, ElementIn DEF Settled
    <3> SUFFICES ASSUME NEW j \in 1 .. Len(Loaded'), NEW q, q = Loaded'[j]
                 PROVE  /\ at'[q] > Len(program'[q])
                        /\ \A i \in 1 .. Len(program'[q]) :
                             \E n \in 1 .. j - 1 : Loaded'[n] = Target(q, i)'
      BY DEF Before
    <3>2. j \in 1 .. Len(Loaded) /\ q = Loaded[j] /\ q \in cache /\ at'[q] = at[q]
      BY <1>2, <2>3, <3>1
    <3>3. /\ at[q] > Len(program[q])
          /\ \A i \in 1 .. Len(program[q]) : \E n \in 1 .. j - 1 : Loaded[n] = Target(q, i)
      BY <2>1, <3>2 DEF Before
    <3> QED BY <2>3, <2>4, <3>2, <3>3
  <2>10. Once' /\ BoundByName'
    BY <1>2, <2>1, <2>2, <2>3 DEF Once, BoundByName, nums
  <2> QED BY <2>6, <2>7, <2>8, <2>9, <2>10 DEF JInv
<1> QED BY <1>1, <1>2 DEF Open

\* The end of a turn notes the name of the import the module was at.
LEMMA NoteIsNoted ==
  ASSUME TypeOK, TypeOK', Noted, NEW p \in cache, at[p] \in 1 .. Len(program[p]),
         NoteDep(p, program[p][at[p]]), UNCHANGED <<cache, program>>
  PROVE  /\ Noted'
         /\ \A q \in Files : at[q] \in Nat /\ at'[q] \in Nat /\ at'[q] >= at[q]
<1> DEFINE id == program[p][at[p]]
<1>1. /\ p \in Files /\ at \in [Files -> Nat] /\ deps \in [Files -> Seq(Name)]
      /\ program[p] \in Seq(Name) /\ Len(program[p]) \in Nat /\ deps[p] \in Seq(Name)
      /\ id \in Name
  <2>1. p \in Files /\ program[p] \in Seq(Name)
    BY DEF TypeOK
  <2> QED BY <2>1, ElementOfSeq, LenProperties DEF TypeOK
<1>2. /\ at'[p] = at[p] + 1
      /\ \A q \in Files \ {p} : at'[q] = at[q] /\ deps'[q] = deps[q]
      /\ deps'[p] = IF id \in ToSet(deps[p]) THEN deps[p] ELSE Append(deps[p], id)
  BY <1>1 DEF NoteDep
<1>3. ToSet(deps'[p]) = ToSet(deps[p]) \cup {id}
  BY <1>1, <1>2, AppendFacts
<1>4. NamesPassed(p)' = NamesPassed(p) \cup {id}
  <2> DEFINE below == {n \in 1 .. Len(program[p]) : n < at[p]}
             below1 == {n \in 1 .. Len(program[p]) : n < at[p] + 1}
  <2>1. below1 = below \cup {at[p]}
    BY <1>1
  <2>2. NamesPassed(p) = {program[p][i] : i \in below}
    BY DEF NamesPassed
  <2>3. NamesPassed(p)' = {program[p][i] : i \in below1}
    BY <1>2 DEF NamesPassed
  <2> HIDE DEF below, below1
  <2> QED BY <2>1, <2>2, <2>3
<1>5. \A q \in cache \ {p} : NamesPassed(q)' = NamesPassed(q) /\ deps'[q] = deps[q]
  BY <1>2 DEF NamesPassed, TypeOK
<1>6. Noted'
  BY <1>2, <1>3, <1>4, <1>5 DEF Noted
<1>7. ASSUME NEW q \in Files
      PROVE  at[q] \in Nat /\ at'[q] \in Nat /\ at'[q] >= at[q]
  <2>1. (at[q] \in Nat /\ at'[q] = at[q]) \/ q = p
    BY <1>1, <1>2
  <2>2. at[p] \in Nat /\ at'[p] = at[p] + 1
    BY <1>1, <1>2
  <2> QED BY <2>1, <2>2, <1>1
<1> QED BY <1>6, <1>7

\* The name of an import is the name of what it resolves to.
LEMMA TargetName ==
  ASSUME TypeOK, NEW p \in Files, NEW i \in 1 .. Len(program[p]), Target(p, i) # NoFile
  PROVE  Target(p, i).name = program[p][i]
<1>1. program[p] \in Seq(Name) /\ p \in Path
  BY LoaderAssumption DEF TypeOK
<1>2. program[p][i] \in Name /\ p.dir \in Dir
  BY <1>1, ElementOfSeq DEF Path
<1> QED BY <1>2, ResolveFacts DEF Target

LEMMA ImportIsReady ==
  ASSUME IInv, IInv', JInv, Import
  PROVE  JInv'
<1> DEFINE q == Target(current, at[current])
<1>1. /\ status = "load" /\ stack # <<>>
      /\ at[current] \in 1 .. Len(program[current])
      /\ current \in Files /\ current \in cache
  BY CurrentFacts DEF Import
<1>2. /\ TypeOK /\ TypeOK' /\ Settled
      /\ Rooted /\ Needed /\ Once /\ Noted /\ Before /\ BoundByName
  BY DEF IInv, JInv
<1>3. q \in Files \cup {NoFile} /\ q \in Imports(current)
  BY <1>1, <1>2, TargetFacts
<1>4. CASE Fail("missing") \/ Fail("cycle")
  BY <1>4, QuietIsReady DEF Fail, nums
<1>5. CASE /\ q \in cache \ grey
           /\ NoteDep(current, q.name)
           /\ UNCHANGED <<cache, program, grey, stack, order, status, nums>>
  <2>1. q # NoFile
    BY <1>2, <1>5, LoaderAssumption DEF TypeOK
  <2>2. q.name = program[current][at[current]]
    BY <1>1, <1>2, <2>1, TargetName
  <2>3. /\ Noted'
        /\ \A p \in Files : at[p] \in Nat /\ at'[p] \in Nat /\ at'[p] >= at[p]
    BY <1>1, <1>2, <1>5, <2>2, NoteIsNoted
  <2>4. Loaded' = Loaded /\ Started' = Started
    BY <1>5 DEF Loaded, Started
  <2>5. /\ \A p, i : Target(p, i)' = Target(p, i)
        /\ \A p : Imports(p)' = Imports(p)
    BY <1>5 DEF Target, Imports
  <2>6. Before'
    <3> SUFFICES ASSUME NEW j \in 1 .. Len(Loaded'), NEW p, p = Loaded'[j]
                 PROVE  /\ at'[p] > Len(program'[p])
                        /\ \A i \in 1 .. Len(program'[p]) :
                             \E n \in 1 .. j - 1 : Loaded'[n] = Target(p, i)'
      BY DEF Before
    <3>0. j \in 1 .. Len(Loaded) /\ p = Loaded[j]
      BY <2>4
    <3>1. p \in Files
      BY <1>1, <3>0, LoadingOrder, ElementIn
    <3>2. /\ at[p] > Len(program[p])
          /\ \A i \in 1 .. Len(program[p]) : \E n \in 1 .. j - 1 : Loaded[n] = Target(p, i)
      BY <1>2, <3>0 DEF Before
    <3>3. Len(program[p]) \in Nat
      BY <1>2, <3>1, LenProperties DEF TypeOK
    <3>4. at'[p] > Len(program[p])
      BY <2>3, <3>1, <3>2, <3>3
    <3> QED BY <1>5, <2>4, <2>5, <3>2, <3>4
  <2>7. ~Started
    BY <1>1, LoadingOrder
  <2>8. BoundByName'
    BY <1>1, <1>2, <1>5, <2>4, <2>7 DEF BoundByName, nums
  <2>9. Rooted' /\ Needed' /\ Once'
    BY <1>2, <1>5, <2>4, <2>5 DEF Rooted, Needed, Once
  <2> QED BY <2>3, <2>6, <2>8, <2>9 DEF JInv
<1>6. CASE q # NoFile /\ q \notin cache /\ Open(q)
  <2> HIDE DEF q
  <2> QED BY <1>1, <1>3, <1>6, OpenIsReady
<1> QED BY <1>4, <1>5, <1>6 DEF Import

LEMMA ReturnIsReady ==
  ASSUME IInv, IInv', JInv, Return
  PROVE  JInv'
<1>1. /\ status = "load" /\ stack # <<>>
      /\ at[current] > Len(program[current])
      /\ current \in Files /\ current \in cache /\ current \in grey
      /\ stack \in Seq(Files) /\ Len(stack) \in Nat /\ Len(stack) >= 1
      /\ current = stack[Len(stack)]
  BY CurrentFacts DEF Return
<1>2. /\ TypeOK /\ TypeOK' /\ GreyIsStack /\ Waiting /\ Settled /\ Passed
      /\ Rooted /\ Needed /\ Once /\ Noted /\ Before /\ BoundByName
  BY DEF IInv, JInv
<1>3. /\ stack' = Front(stack) /\ order' = Append(order, current)
      /\ cache' = cache /\ program' = program /\ status' = "load" /\ bound' = bound
  BY <1>1 DEF Return, nums
<1>4. ~Started /\ Loaded = order /\ order \in Seq(Files)
  BY <1>1, LoadingOrder
<1>5. ~Started' /\ Loaded' = order'
  BY <1>3, LoadingOrder DEF IInv, OrderForm, Loaded
<1>6. /\ Loaded' \in Seq(Files) /\ Len(Loaded') = Len(Loaded) + 1 /\ Len(Loaded) \in Nat
      /\ \A i \in 1 .. Len(Loaded) : Loaded'[i] = Loaded[i] /\ Loaded[i] \in ToSet(Loaded)
      /\ Loaded'[Len(Loaded) + 1] = current /\ Loaded' # <<>>
      /\ ToSet(Loaded') = ToSet(Loaded) \cup {current}
  BY <1>1, <1>3, <1>4, <1>5, AppendFacts, ElementIn
<1>7. current \notin ToSet(Loaded)
  BY <1>1, <1>2 DEF Settled
<1>8. /\ \A p, i : Target(p, i)' = Target(p, i)
      /\ \A p : Imports(p)' = Imports(p)
  BY <1>3 DEF Target, Imports
<1>9. /\ Noted'
      /\ \A p \in Files : at[p] \in Nat /\ at'[p] \in Nat /\ at'[p] >= at[p]
  <2>1. CASE Len(stack) > 1
    <3> DEFINE p == stack[Len(stack) - 1]
    <3>1. /\ Len(stack) - 1 \in 1 .. Len(stack) - 1 /\ Len(stack) - 1 \in 1 .. Len(stack)
          /\ (Len(stack) - 1) + 1 = Len(stack)
      BY <1>1, <2>1
    <3>2. p \in Files /\ p \in cache
      <4>1. p \in Files /\ p \in ToSet(stack)
        <5>1. \A i \in 1 .. Len(stack) : stack[i] \in Files /\ stack[i] \in ToSet(stack)
          BY <1>1, ElementIn
        <5> QED BY <3>1, <5>1
      <4> QED BY <1>2, <4>1 DEF GreyIsStack, TypeOK
    <3>3. at[p] \in 1 .. Len(program[p]) /\ Target(p, at[p]) = current
      BY <1>1, <1>2, <3>1 DEF Waiting
    <3>4. NoteDep(p, current.name)
      BY <2>1 DEF Return
    <3>5. current # NoFile
      BY <1>1, LoaderAssumption
    <3> HIDE DEF p
    <3>6. current.name = program[p][at[p]]
      BY <1>2, <3>2, <3>3, <3>5, TargetName
    <3> QED BY <1>2, <1>3, <3>2, <3>3, <3>4, <3>6, NoteIsNoted
  <2>2. CASE ~(Len(stack) > 1)
    <3>1. at' = at /\ deps' = deps
      BY <2>2 DEF Return
    <3>2. \A p : NamesPassed(p)' = NamesPassed(p)
      BY <1>3, <3>1 DEF NamesPassed
    <3> QED BY <1>2, <1>3, <3>1, <3>2 DEF Noted, TypeOK
  <2> QED BY <2>1, <2>2
<1>10. Rooted'
  <2>1. /\ Len(stack') = Len(stack) - 1
        /\ \A i \in 1 .. Len(stack) - 1 : stack'[i] = stack[i]
    BY <1>1, <1>3, FrontFacts
  <2>2. CASE Len(stack) > 1
    <3>1. 1 \in 1 .. Len(stack) - 1
      BY <1>1, <2>2
    <3>2. stack' # <<>> /\ stack'[1] = Entry
      BY <1>1, <1>2, <2>1, <2>2, <3>1, EmptySeq DEF Rooted
    <3> QED BY <1>5, <3>2 DEF Rooted
  <2>3. CASE ~(Len(stack) > 1)
    <3>1. Len(stack) = 1 /\ Len(stack') = 0 /\ stack' \in Seq(Files)
      BY <1>1, <1>2, <2>1, <2>3 DEF TypeOK
    <3>2. stack' = <<>> /\ current = Entry
      BY <1>1, <1>2, <3>1, EmptySeq DEF Rooted
    <3>3. Loaded'[Len(Loaded')] = Entry
      BY <1>6, <3>2
    <3> QED BY <1>5, <1>6, <3>2, <3>3 DEF Rooted
  <2> QED BY <2>2, <2>3
<1>11. Once'
  <2>1. IsFiniteSet(ToSet(Loaded')) /\ Cardinality(ToSet(Loaded')) = Len(Loaded')
    <3>1. IsFiniteSet(ToSet(Loaded)) /\ Cardinality(ToSet(Loaded)) = Len(Loaded)
      BY <1>2 DEF Once
    <3>2. /\ IsFiniteSet(ToSet(Loaded) \cup {current})
          /\ Cardinality(ToSet(Loaded) \cup {current}) = Cardinality(ToSet(Loaded)) + 1
      BY <1>7, <3>1, FS_AddElement
    <3> QED BY <1>6, <3>1, <3>2
  <2>2. ASSUME NEW i \in 1 .. Len(Loaded'), NEW j \in 1 .. Len(Loaded'), Loaded'[i] = Loaded'[j]
        PROVE  i = j
    <3>1. (i \in 1 .. Len(Loaded) \/ i = Len(Loaded) + 1) /\ (j \in 1 .. Len(Loaded) \/ j = Len(Loaded) + 1)
      BY <1>6
    <3> QED BY <1>2, <1>6, <1>7, <2>2, <3>1 DEF Once
  <2> QED BY <2>1, <2>2 DEF Once
<1>12. Before'
  <2> SUFFICES ASSUME NEW j \in 1 .. Len(Loaded'), NEW p, p = Loaded'[j]
               PROVE  /\ at'[p] > Len(program[p])
                      /\ \A i \in 1 .. Len(program[p]) :
                           \E n \in 1 .. j - 1 : Loaded'[n] = Target(p, i)
    BY <1>3, <1>8 DEF Before
  <2>1. p \in Files
    BY <1>6, ElementIn
  <2>2. Len(program[p]) \in Nat /\ at[p] \in Nat /\ at'[p] \in Nat /\ at'[p] >= at[p]
    BY <1>2, <1>9, <2>1, LenProperties DEF TypeOK
  <2>3. CASE j \in 1 .. Len(Loaded)
    <3>1. /\ at[p] > Len(program[p])
          /\ \A i \in 1 .. Len(program[p]) : \E n \in 1 .. j - 1 : Loaded[n] = Target(p, i)
      BY <1>2, <1>6, <2>3 DEF Before
    <3>2. \A n \in 1 .. j - 1 : n \in 1 .. Len(Loaded)
      BY <1>6, <2>3
    <3>3. at'[p] > Len(program[p])
      BY <2>2, <3>1
    <3>4. \A n \in 1 .. j - 1 : Loaded'[n] = Loaded[n]
      BY <1>6, <3>2
    <3> QED BY <3>1, <3>3, <3>4
  <2>4. CASE j = Len(Loaded) + 1
    <3>1. p = current /\ 1 .. j - 1 = 1 .. Len(Loaded)
      BY <1>6, <2>4
    <3>2. ASSUME NEW i \in 1 .. Len(program[p])
          PROVE  \E n \in 1 .. j - 1 : Loaded'[n] = Target(p, i)
      <4>1. i < at[p]
        BY <1>1, <2>2, <3>1
      <4>2. Target(p, i) \in ToSet(Loaded)
        BY <1>1, <1>2, <3>1, <4>1 DEF Passed
      <4>3. PICK n \in 1 .. Len(Loaded) : Loaded[n] = Target(p, i)
        BY <1>4, <4>2, ElementIn
      <4> QED BY <1>6, <3>1, <4>3
    <3> QED BY <1>1, <2>2, <3>1, <3>2
  <2> QED BY <1>6, <2>3, <2>4
<1>13. Needed' /\ BoundByName'
  BY <1>2, <1>3, <1>4, <1>5, <1>8 DEF Needed, BoundByName
<1> QED BY <1>9, <1>10, <1>11, <1>12, <1>13 DEF JInv

LEMMA AddBuiltinsIsReady ==
  ASSUME IInv, IInv', JInv, AddBuiltins
  PROVE  JInv'
<1>1. /\ status = "load" /\ stack = <<>> /\ cache # {} /\ status' = "check" /\ k' = 2
      /\ UNCHANGED dfs /\ bound' = bound
  BY DEF AddBuiltins
<1>2. Rooted /\ Needed /\ Once /\ Noted /\ Before /\ BoundByName
  BY DEF JInv
<1>3. ~Started
  BY <1>1, LoadingOrder
<1>4. Loaded' = Loaded
  BY AddBuiltinsPreserves DEF Order!vars
<1>5. /\ \A p, i : Target(p, i)' = Target(p, i)
      /\ \A p : Imports(p)' = Imports(p) /\ NamesPassed(p)' = NamesPassed(p)
  BY <1>1 DEF Target, Imports, NamesPassed, dfs
<1>6. Rooted' /\ Needed' /\ Once' /\ Noted' /\ Before'
  BY <1>1, <1>2, <1>4, <1>5 DEF Rooted, Needed, Once, Noted, Before, dfs
<1>7. BoundByName'
  BY <1>1, <1>2, <1>3 DEF BoundByName
<1> QED BY <1>6, <1>7 DEF JInv

LEMMA CheckIsReady ==
  ASSUME IInv, IInv', JInv, Check
  PROVE  JInv'
<1>1. CASE Fail("invalid")
  BY <1>1, QuietIsReady DEF Fail, nums
<1>2. CASE ~Fail("invalid")
  <2> DEFINE m == order[k]
  <2>1. /\ status = "check" /\ k <= Len(order) /\ k' = k + 1
        /\ bound' = [bound EXCEPT ![m] = [i \in DOMAIN deps[m] |-> FindByID(deps[m][i])]]
        /\ UNCHANGED <<dfs, order, status>>
    BY <1>2 DEF Check
  <2>2. /\ Rooted /\ Needed /\ Once /\ Noted /\ Before /\ BoundByName
        /\ Started /\ k \in Nat /\ k >= 2
    BY <2>1 DEF IInv, JInv, TypeOK, OrderForm, BoundByName
  <2>3. /\ Started' = Started /\ Loaded' = Loaded
        /\ \A id : FindByID(id)' = FindByID(id)
    BY <2>1 DEF Started, Loaded, FindByID
  <2>4. /\ \A p, i : Target(p, i)' = Target(p, i)
        /\ \A p : Imports(p)' = Imports(p) /\ NamesPassed(p)' = NamesPassed(p)
    BY <2>1 DEF Target, Imports, NamesPassed, dfs
  <2>5. Rooted' /\ Needed' /\ Once' /\ Noted' /\ Before'
    BY <2>1, <2>2, <2>3, <2>4 DEF Rooted, Needed, Once, Noted, Before, dfs
  <2>6. m \in ToSet(Loaded)
    <3>1. k - 1 \in 1 .. Len(Loaded) /\ (k - 1) + 1 = k
      BY <2>1, <2>2, OrderIndex
    <3>2. Loaded \in Seq(Files) /\ order[(k - 1) + 1] = Loaded[k - 1]
      BY <2>2, <3>1, OrderIndex
    <3>3. Loaded[k - 1] \in ToSet(Loaded)
      BY <3>1, <3>2, ElementIn
    <3> QED BY <3>1, <3>2, <3>3
  <2>7. BoundByName'
    <3>1. DOMAIN bound' = Files /\ deps' = deps
      BY <2>1, <2>2 DEF BoundByName, dfs
    <3>2. ASSUME NEW p \in Files, bound'[p] # <<>>
          PROVE  p \in ToSet(Loaded) /\ bound'[p] = [i \in DOMAIN deps[p] |-> FindByID(deps[p][i])]
      <4>1. CASE p = m
        BY <2>1, <2>2, <2>6, <4>1 DEF BoundByName
      <4>2. CASE p # m
        <5>1. bound'[p] = bound[p]
          BY <2>1, <2>2, <4>2 DEF BoundByName
        <5> QED BY <2>2, <3>2, <5>1 DEF BoundByName
      <4> QED BY <4>1, <4>2
    <3> HIDE DEF m
    <3> QED BY <2>1, <2>2, <2>3, <3>1, <3>2 DEF BoundByName
  <2> QED BY <2>5, <2>7 DEF JInv
<1> QED BY <1>1, <1>2

LEMMA NextIsReady ==
  ASSUME IInv, IInv', JInv, [Next]_vars
  PROVE  JInv'
<1>1. CASE UNCHANGED vars
  BY <1>1, QuietIsReady DEF vars, nums, JInv, BoundByName
<1>2. CASE LoadEntry
  <2>1. status = "load" /\ cache = {} /\ Open(Entry) /\ Entry \in Files
    BY <1>2, LoaderAssumption DEF LoadEntry
  <2>2. stack = <<>>
    <3> SUFFICES ASSUME stack # <<>> PROVE FALSE
      OBVIOUS
    <3> QED BY <2>1, CurrentFacts
  <2> QED BY <2>1, <2>2, OpenIsReady
<1>3. CASE Import
  BY <1>3, ImportIsReady
<1>4. CASE Return
  BY <1>4, ReturnIsReady
<1>5. CASE AddBuiltins
  BY <1>5, AddBuiltinsIsReady
<1>6. CASE Check
  BY <1>6, CheckIsReady
<1>7. CASE BeginEmit \/ RegisterGenerators \/ EndEmit
  BY <1>7, QuietIsReady DEF BeginEmit, RegisterGenerators, EndEmit, Fail, nums
<1> QED BY <1>1, <1>2, <1>3, <1>4, <1>5, <1>6, <1>7 DEF Next, Step, Ended

LEMMA Readiness == Spec => []JInv
<1>1. Init => JInv
  BY InitReady
<1>2. IInv /\ IInv' /\ JInv /\ [Next]_vars => JInv'
  BY NextIsReady
<1> QED BY <1>1, <1>2, Invariance, PTL DEF Spec

-----------------------------------------------------------------------------
\* findByID returns the first module of the name, no later than any other.
LEMMA FindFacts ==
  ASSUME IInv, Started, NEW j \in 1 .. Len(order), NEW id, order[j].name = id
  PROVE  \E n \in 1 .. j : order[n].name = id /\ FindByID(id) = order[n]
<1> DEFINE T == {i \in 1 .. Len(order) : order[i].name = id}
           First(i) == /\ order[i].name = id
                       /\ \A n \in DOMAIN order : order[n].name = id => i <= n
<1>1. DOMAIN order = 1 .. Len(order) /\ Len(order) \in Nat
  BY OrderIndex
<1>2. T \in SUBSET Nat /\ T # {}
  BY <1>1
<1>3. PICK x \in T : \A y \in T : x <= y
  <2> HIDE DEF T
  <2> QED BY <1>2, LeastNat
<1>4. x \in DOMAIN order /\ First(x)
  BY <1>1, <1>3
<1> DEFINE f == CHOOSE i \in DOMAIN order : First(i)
<1>5. f \in DOMAIN order /\ First(f)
  <2> HIDE DEF First
  <2> QED BY <1>4
<1>6. FindByID(id) = order[f]
  BY DEF FindByID
<1> HIDE DEF f
<1>7. f <= j
  BY <1>1, <1>5
<1> QED BY <1>1, <1>5, <1>6, <1>7

\* What module p, at j, was given for its d-th dependency: a module of that
\* name, where the file that its import resolves to has that name too, and both
\* stand before it.
FoundFor(p, j, d) ==
  /\ \E n \in 1 .. j : order[n] = bound[p][d] /\ order[n].name = deps[p][d]
  /\ \E i \in 1 .. Len(program[p]) :
       /\ program[p][i] = deps[p][d]
       /\ \E n \in 1 .. j : order[n] = Target(p, i) /\ order[n].name = deps[p][d]

LEMMA BoundFacts ==
  ASSUME IInv, JInv, NEW j \in 1 .. Len(Loaded), NEW p, p = Loaded[j], Started, bound[p] # <<>>,
         NEW d \in 1 .. Len(deps[p])
  PROVE  FoundFor(p, j, d)
<1>1. TypeOK /\ Settled /\ Noted /\ Before /\ BoundByName
  BY DEF IInv, JInv
<1>2. Loaded \in Seq(Files) /\ Len(Loaded) \in Nat
  BY OrderIndex
<1>3. p \in Files /\ p \in cache /\ deps[p] \in Seq(Name)
  BY <1>1, <1>2, ElementIn DEF Settled, TypeOK
<1>4. d \in DOMAIN deps[p] /\ deps[p][d] \in ToSet(deps[p])
  BY <1>3, ElementIn
<1>5. deps[p][d] \in NamesPassed(p)
  BY <1>1, <1>3, <1>4 DEF Noted
<1>6. PICK i \in 1 .. Len(program[p]) : program[p][i] = deps[p][d]
  BY <1>5 DEF NamesPassed
<1>7. PICK n \in 1 .. j - 1 : Loaded[n] = Target(p, i)
  BY <1>1 DEF Before
<1>8. /\ n \in 1 .. Len(Loaded) /\ n + 1 \in 1 .. j /\ n + 1 \in 1 .. Len(order)
      /\ order[n + 1] = Target(p, i)
  <2>1. n \in 1 .. Len(Loaded) /\ n + 1 \in 1 .. j /\ n + 1 \in 1 .. Len(Loaded) + 1
    BY <1>2
  <2> QED BY <1>7, <2>1, OrderIndex
<1>9. Target(p, i).name = deps[p][d]
  <2>1. Target(p, i) \in Files
    BY <1>2, <1>7, <1>8, ElementIn
  <2>2. Target(p, i) # NoFile
    BY <2>1, LoaderAssumption
  <2> QED BY <1>1, <1>3, <1>6, <2>2, TargetName
<1>10. PICK n1 \in 1 .. n + 1 : /\ order[n1].name = deps[p][d]
                                /\ FindByID(deps[p][d]) = order[n1]
  <2> DEFINE spot == n + 1
             id   == deps[p][d]
  <2>1. spot \in 1 .. Len(order) /\ order[spot].name = id
    BY <1>8, <1>9
  <2> HIDE DEF spot, id
  <2>2. \E m \in 1 .. spot : order[m].name = id /\ FindByID(id) = order[m]
    BY ONLY IInv, Started, <2>1, FindFacts
  <2> QED BY <2>2 DEF spot, id
<1>11. bound[p][d] = FindByID(deps[p][d])
  BY <1>1, <1>3, <1>4 DEF BoundByName
<1>12. n1 \in 1 .. j
  BY <1>8, <1>10
<1> QED BY <1>6, <1>8, <1>9, <1>10, <1>11, <1>12 DEF FoundFor

\* loadPath and Load: when loading succeeds the order holds the entry, last, and
\* just the files that are needed for it, each once; and every module a checker
\* is given the exports of stands before the module that is checked, so that it
\* has been checked.
THEOREM OrderIsReady == Spec => []ModulesAreReady
<1>1. ASSUME IInv, JInv PROVE ModulesAreReady
  <2>1. ASSUME Started
        PROVE  /\ Loaded[Len(Loaded)] = Entry
               /\ Cardinality(ToSet(Loaded)) = Len(Loaded)
               /\ ToSet(Loaded) = cache
               /\ \A p \in cache \ {Entry} : \E q \in cache : p \in Imports(q)
    <3>1. stack = <<>> /\ cache # {} /\ Loaded[Len(Loaded)] = Entry
      BY <1>1, <2>1 DEF JInv, Rooted
    <3>2. grey = {}
      BY <1>1, <3>1 DEF IInv, GreyIsStack, ToSet
    <3> QED BY <1>1, <3>1, <3>2 DEF IInv, JInv, Settled, Once, Needed
  <2>2. ASSUME NEW i \in 2 .. Len(order), order[i] \in Files, NEW m \in ToSet(bound[order[i]])
        PROVE  m \in ToSet(SubSeq(order, 1, i - 1))
    <3> DEFINE p == order[i]
    <3>1. bound[p] # <<>>
      BY <2>2 DEF ToSet
    <3>2. /\ Started
          /\ bound[p] = [d \in DOMAIN deps[p] |-> FindByID(deps[p][d])]
      BY <1>1, <2>2, <3>1 DEF JInv, BoundByName
    <3>3. Len(Loaded) \in Nat /\ Len(order) = Len(Loaded) + 1 /\ DOMAIN order = 1 .. Len(order)
      BY <1>1, <3>2, OrderIndex
    <3>4. i - 1 \in 1 .. Len(Loaded) /\ (i - 1) + 1 = i
      BY <3>3
    <3>5. p = Loaded[i - 1]
      BY <1>1, <3>2, <3>4, OrderIndex
    <3>6. DOMAIN bound[p] = DOMAIN deps[p] /\ DOMAIN deps[p] = 1 .. Len(deps[p])
      <4>1. deps[p] \in Seq(Name)
        BY <1>1, <2>2 DEF IInv, TypeOK
      <4> QED BY <3>2, <4>1, LenProperties
    <3>7. PICK d \in 1 .. Len(deps[p]) : m = bound[p][d]
      BY <2>2, <3>6 DEF ToSet
    <3> HIDE DEF p
    <3>8. FoundFor(p, i - 1, d)
      BY <1>1, <3>1, <3>2, <3>4, <3>5, <3>7, BoundFacts
    <3>9. PICK n \in 1 .. i - 1 : order[n] = m
      BY <3>7, <3>8 DEF FoundFor
    <3>10. order \in Seq(Files \cup {Builtins})
      BY <1>1 DEF IInv, TypeOK
    <3>11. 1 \in 1 .. Len(order) + 1 /\ i - 1 \in 0 .. Len(order) /\ 1 <= i - 1
      BY <3>3
    <3>12. /\ SubSeq(order, 1, i - 1) = [x \in 1 .. i - 1 |-> order[x]]
      BY <3>10, <3>11, <3>3
    <3> QED BY <3>9, <3>12 DEF ToSet
  <2> QED BY <2>1, <2>2 DEF ModulesAreReady
<1> QED BY <1>1, Invariance, Readiness, PTL

\* The checker's imports, found by base name (findByID): in every program whose
\* modules have different base names, a checked module was bound to just the
\* files its import statements resolve to.
THEOREM NamesBindFiles == Spec => []BindsByName
<1>1. ASSUME IInv, JInv PROVE BindsByName
  <2> SUFFICES ASSUME UniqueNames, NEW p \in Files, bound[p] # <<>>
               PROVE  /\ Len(bound[p]) = Len(deps[p])
                      /\ \A i \in DOMAIN deps[p] : bound[p][i] = Resolve(p.dir, deps[p][i])
                      /\ ToSet(bound[p]) = Imports(p)
    BY DEF BindsByName, BindsWhatItImports
  <2>1. /\ Started /\ p \in ToSet(Loaded)
        /\ bound[p] = [d \in DOMAIN deps[p] |-> FindByID(deps[p][d])]
    BY <1>1 DEF JInv, BoundByName
  <2>2. TypeOK /\ Settled /\ Noted /\ Before
    BY <1>1 DEF IInv, JInv
  <2>3. /\ Loaded \in Seq(Files) /\ Len(Loaded) \in Nat
        /\ Len(order) = Len(Loaded) + 1 /\ DOMAIN order = 1 .. Len(order)
    BY <1>1, <2>1, OrderIndex
  <2>4. PICK j \in 1 .. Len(Loaded) : p = Loaded[j]
    BY <2>1, <2>3, ElementIn
  <2>5. /\ DOMAIN bound[p] = 1 .. Len(deps[p]) /\ DOMAIN deps[p] = 1 .. Len(deps[p])
        /\ Len(deps[p]) \in Nat /\ DOMAIN program[p] = 1 .. Len(program[p])
        /\ p \in cache
    <3>1. deps[p] \in Seq(Name) /\ program[p] \in Seq(Name) /\ p \in cache
      BY <2>1, <2>2 DEF TypeOK, Settled
    <3> QED BY <2>1, <3>1, LenProperties
  <2>6. Len(bound[p]) = Len(deps[p])
    <3> DEFINE n == Len(deps[p])
               G(d) == FindByID(deps[p][d])
               S == {G(d) : d \in 1 .. n}
    <3>1. n \in Nat /\ bound[p] = [d \in 1 .. n |-> G(d)]
      BY <2>1, <2>5
    <3> HIDE DEF n, G
    <3>2. \A d \in 1 .. n : G(d) \in S
      OBVIOUS
    <3> HIDE DEF S
    <3>3. bound[p] \in [1 .. n -> S]
      BY <3>1, <3>2
    <3>4. Len(bound[p]) = n
      BY <3>1, <3>3, LenOfFunction
    <3> QED BY <3>4 DEF n
  <2>7. Started
    BY <2>1
  <2>8. ASSUME NEW d \in 1 .. Len(deps[p]) PROVE FoundFor(p, j, d)
    BY <1>1, <2>7, <2>4, BoundFacts
  <2>9. ASSUME NEW d \in 1 .. Len(deps[p]), NEW i \in 1 .. Len(program[p]),
               program[p][i] = deps[p][d]
        PROVE  bound[p][d] = Target(p, i)
    <3>1. PICK n \in 1 .. j : order[n] = bound[p][d] /\ order[n].name = deps[p][d]
      BY <2>8 DEF FoundFor
    <3>2. PICK i2 \in 1 .. Len(program[p]) :
               /\ program[p][i2] = deps[p][d]
               /\ \E m \in 1 .. j : order[m] = Target(p, i2) /\ order[m].name = deps[p][d]
      BY <2>8 DEF FoundFor
    <3>3. PICK m \in 1 .. j : order[m] = Target(p, i2) /\ order[m].name = deps[p][d]
      BY <3>2
    <3>4. n \in DOMAIN order /\ m \in DOMAIN order
      BY <2>3
    <3>5. n = m
      BY <3>1, <3>3, <3>4 DEF UniqueNames
    <3>6. Target(p, i2) = Target(p, i)
      BY <2>9, <3>2 DEF Target
    <3> QED BY <3>1, <3>3, <3>5, <3>6
  <2>10. ASSUME NEW d \in 1 .. Len(deps[p])
        PROVE  \E i \in 1 .. Len(program[p]) : program[p][i] = deps[p][d]
    BY <2>8 DEF FoundFor
  <2>11. ASSUME NEW d \in 1 .. Len(deps[p])
        PROVE  bound[p][d] = Resolve(p.dir, deps[p][d])
    BY <2>9, <2>10 DEF Target
  <2>12. ASSUME NEW i \in 1 .. Len(program[p])
         PROVE  \E d \in 1 .. Len(deps[p]) : program[p][i] = deps[p][d]
    <3>1. at[p] > Len(program[p]) /\ at[p] \in Nat /\ Len(program[p]) \in Nat
      BY <2>2, <2>4, <2>5, LenProperties DEF Before, TypeOK
    <3>2. program[p][i] \in NamesPassed(p)
      BY <3>1 DEF NamesPassed
    <3>3. program[p][i] \in ToSet(deps[p])
      BY <2>2, <2>5, <3>2 DEF Noted
    <3> QED BY <2>5, <3>3 DEF ToSet
  <2>13. ToSet(bound[p]) = {bound[p][d] : d \in 1 .. Len(deps[p])}
    BY <2>5 DEF ToSet
  <2>14. Imports(p) = {Target(p, i) : i \in 1 .. Len(program[p])}
    BY <2>5 DEF Imports
  <2>15. ToSet(bound[p]) = Imports(p)
    <3>1. ASSUME NEW d \in 1 .. Len(deps[p]) PROVE bound[p][d] \in Imports(p)
      BY <2>9, <2>10, <2>14
    <3>2. ASSUME NEW i \in 1 .. Len(program[p]) PROVE Target(p, i) \in ToSet(bound[p])
      <4>1. PICK d \in 1 .. Len(deps[p]) : program[p][i] = deps[p][d]
        BY <2>12
      <4>2. bound[p][d] = Target(p, i)
        BY <2>9, <4>1
      <4> QED BY <2>13, <4>2
    <3>3. ToSet(bound[p]) \subseteq Imports(p)
      BY <2>13, <3>1
    <3>4. Imports(p) \subseteq ToSet(bound[p])
      BY <2>14, <3>2
    <3> QED BY <3>3, <3>4
  <2> QED BY <2>5, <2>6, <2>11, <2>15
<1> QED BY <1>1, Invariance, Readiness, PTL

-----------------------------------------------------------------------------
\* Giving a module the c ids that follow b, when all given so far are below,
\* whether they are for its classes or for its generators.
LEMMA FreshIds ==
  ASSUME ids \in [Files \cup {Builtins} -> SUBSET Nat],
         genIds \in [Files \cup {Builtins} -> SUBSET Nat],
         IdsUnique, NEW b \in Nat, IdsBelow(b),
         NEW m \in Files \cup {Builtins}, NEW c \in Nat, NEW fresh, fresh = b + 1 .. b + c,
         \/ ids' = [ids EXCEPT ![m] = fresh] /\ genIds' = genIds
         \/ genIds' = [genIds EXCEPT ![m] = fresh] /\ ids' = ids
  PROVE  /\ ids' \in [Files \cup {Builtins} -> SUBSET Nat]
         /\ genIds' \in [Files \cup {Builtins} -> SUBSET Nat]
         /\ IdsUnique'
         /\ b + c \in Nat /\ IdsBelow(b + c)'
<1> DEFINE M == Files \cup {Builtins}
<1> HIDE DEF M
<1>1. /\ ids \in [M -> SUBSET Nat] /\ genIds \in [M -> SUBSET Nat] /\ m \in M
      /\ \/ ids' = [ids EXCEPT ![m] = fresh] /\ genIds' = genIds
         \/ genIds' = [genIds EXCEPT ![m] = fresh] /\ ids' = ids
  BY DEF M
<1>2. fresh \in SUBSET Nat /\ fresh \subseteq 1 .. b + c /\ fresh \cap (1 .. b) = {}
  OBVIOUS
<1>3. ids' \in [M -> SUBSET Nat] /\ genIds' \in [M -> SUBSET Nat]
  BY <1>1, <1>2
<1>4. \A q \in M : ids[q] \subseteq 1 .. b /\ genIds[q] \subseteq 1 .. b
  BY DEF IdsBelow, AllIds, M
<1>5. \A q \in M \ {m} : ids'[q] = ids[q] /\ genIds'[q] = genIds[q]
  BY <1>1
<1>6. \/ ids'[m] = fresh /\ genIds'[m] = genIds[m]
      \/ genIds'[m] = fresh /\ ids'[m] = ids[m]
  BY <1>1
<1>7. ids'[m] \cap genIds'[m] = {}
  BY <1>1, <1>2, <1>4, <1>6
<1>8. \A q \in M : /\ ids[q] \cap genIds[q] = {}
                   /\ \A r \in M \ {q} : (ids[q] \cup genIds[q]) \cap (ids[r] \cup genIds[r]) = {}
  BY DEF IdsUnique, M
<1>9. ASSUME NEW q \in M \ {m}
      PROVE  (ids'[m] \cup genIds'[m]) \cap (ids'[q] \cup genIds'[q]) = {}
  <2>1. (ids[m] \cup genIds[m]) \cap (ids[q] \cup genIds[q]) = {}
    BY <1>1, <1>8
  <2>2. fresh \cap (ids[q] \cup genIds[q]) = {}
    BY <1>2, <1>4
  <2> QED BY <1>5, <1>6, <2>1, <2>2
<1>10. IdsUnique'
  <2>1. ASSUME NEW q \in M PROVE ids'[q] \cap genIds'[q] = {}
    BY <1>5, <1>7, <1>8
  <2>2. ASSUME NEW q \in M, NEW r \in M, r # q
        PROVE  (ids'[q] \cup genIds'[q]) \cap (ids'[r] \cup genIds'[r]) = {}
    <3>1. CASE q = m
      BY <1>9, <2>2, <3>1
    <3>2. CASE r = m
      <4>1. (ids'[r] \cup genIds'[r]) \cap (ids'[q] \cup genIds'[q]) = {}
        BY <1>9, <2>2, <3>2
      <4> QED BY <4>1
    <3>3. CASE q # m /\ r # m
      BY <1>5, <1>8, <2>2, <3>3
    <3> QED BY <3>1, <3>2, <3>3
  <2> QED BY <2>1, <2>2 DEF IdsUnique, M
<1>11. IdsBelow(b + c)'
  <2>1. 1 .. b \subseteq 1 .. b + c
    OBVIOUS
  <2>2. ASSUME NEW q \in M PROVE ids'[q] \subseteq 1 .. b + c /\ genIds'[q] \subseteq 1 .. b + c
    BY <1>2, <1>4, <1>5, <1>6, <2>1
  <2> QED BY <2>2 DEF IdsBelow, AllIds, M
<1> QED BY <1>3, <1>10, <1>11 DEF M

\* registerGenerator starts from an id that no class has.
LEMMA MaxIdFacts ==
  ASSUME NEW b \in Nat, IdsBelow(b)
  PROVE  MaxId \in Nat /\ IdsBelow(MaxId)
<1> DEFINE U == {u \in Nat : \A j \in AllIds : j <= u}
<1>1. AllIds \subseteq 1 .. b
  BY DEF IdsBelow
<1>2. b \in U
  BY <1>1
<1>3. PICK u \in U : \A v \in U : u <= v
  <2> HIDE DEF U
  <2>1. U \in SUBSET Nat
    BY DEF U
  <2> QED BY <1>2, <2>1, LeastNat
<1>4. u \in AllIds \cup {0}
  <2>1. CASE u = 0
    BY <2>1
  <2>2. CASE u # 0
    <3>1. u - 1 \in Nat /\ ~(u - 1 \in U)
      BY <1>3, <2>2
    <3>2. PICK j \in AllIds : ~(j <= u - 1)
      BY <3>1
    <3>3. j = u
      BY <1>1, <1>3, <3>2
    <3> QED BY <3>3
  <2> QED BY <2>1, <2>2
<1>5. \A j \in AllIds : j <= u
  BY <1>3
<1>6. MaxId \in AllIds \cup {0} /\ \A j \in AllIds : j <= MaxId
  BY <1>4, <1>5 DEF MaxId
<1> HIDE DEF U
<1>7. MaxId \in Nat
  BY <1>1, <1>6
<1> QED BY <1>1, <1>6, <1>7 DEF IdsBelow

LEMMA IdsStay ==
  ASSUME IdInv, UNCHANGED <<ctr, ids, genIds>>,
         status' = "load" => status = "load", status' = "check" => status = "check"
  PROVE  IdInv'
<1>1. IdsUnique' /\ \A b : IdsBelow(b)' = IdsBelow(b)
  BY DEF IdInv, IdsUnique, IdsBelow, AllIds
<1> QED BY <1>1 DEF IdInv

LEMMA NextNumbers ==
  ASSUME IInv, IdInv, [Next]_vars
  PROVE  IdInv'
<1> DEFINE M == Files \cup {Builtins}
<1>1. /\ order \in Seq(M) /\ k \in Nat /\ ctr \in Nat
      /\ status \in {"check", "emit"} => k # 0
  BY DEF IInv, TypeOK, OrderForm
<1>2. CASE AddBuiltins
  <2>1. IdsBelow(0) /\ Classes[Builtins] \in Nat
    BY <1>2, LoaderAssumption DEF IdInv, AddBuiltins
  <2> DEFINE fresh == 1 .. Classes[Builtins]
  <2>2. /\ ids' = [ids EXCEPT ![Builtins] = fresh] /\ genIds' = genIds
        /\ fresh = 0 + 1 .. 0 + Classes[Builtins]
    BY <1>2, <2>1 DEF AddBuiltins
  <2> HIDE DEF fresh
  <2>3. status' = "check" /\ ctr' = Classes[Builtins] /\ 0 + Classes[Builtins] = Classes[Builtins]
    BY <1>2, <2>1 DEF AddBuiltins
  <2>4. /\ ids' \in [M -> SUBSET Nat] /\ genIds' \in [M -> SUBSET Nat]
        /\ IdsUnique' /\ IdsBelow(0 + Classes[Builtins])'
    BY <2>1, <2>2, <2>3, FreshIds DEF IdInv
  <2>5. AllIds' \subseteq 1 .. ctr' /\ ctr' \in Nat
    BY <2>1, <2>3, <2>4 DEF IdsBelow
  <2>6. IdsBelow(ctr)' /\ \E b \in Nat : IdsBelow(b)'
    BY <2>5 DEF IdsBelow
  <2> QED BY <2>3, <2>4, <2>6 DEF IdInv
<1>3. CASE Check
  <2>1. CASE Fail("invalid")
    BY <2>1, IdsStay DEF Fail, nums
  <2>2. CASE ~Fail("invalid")
    <3> DEFINE m == order[k]
    <3>1. m \in M /\ Classes[m] \in Nat
      <4>1. k \in 1 .. Len(order)
        BY <1>1, <1>3, LenProperties DEF Check
      <4>2. m \in M
        BY <1>1, <4>1, ElementOfSeq
      <4> QED BY <4>2, LoaderAssumption
    <3>2. PICK b \in Nat : b = ctr
      BY <1>1
    <3>3. PICK c \in Nat : c = Classes[m]
      BY <3>1
    <3> DEFINE fresh == b + 1 .. b + c
    <3>4. /\ ids' = [ids EXCEPT ![m] = fresh] /\ genIds' = genIds
          /\ ctr' = b + c /\ status' = "check" /\ status = "check" /\ fresh = b + 1 .. b + c
      BY <1>3, <2>2, <3>2, <3>3 DEF Check
    <3>5. PICK n \in M : n = m
      BY <3>1
    <3> HIDE DEF m, fresh
    <3>6. IdsBelow(b)
      BY <3>2, <3>4 DEF IdInv, IdsBelow
    <3>7. /\ ids' \in [M -> SUBSET Nat] /\ genIds' \in [M -> SUBSET Nat]
          /\ IdsUnique' /\ b + c \in Nat /\ IdsBelow(b + c)'
      BY <3>4, <3>5, <3>6, FreshIds DEF IdInv
    <3>8. IdsBelow(ctr)' /\ \E d \in Nat : IdsBelow(d)'
      BY <3>4, <3>7 DEF IdsBelow
    <3> QED BY <3>4, <3>7, <3>8 DEF IdInv
  <2> QED BY <2>1, <2>2
<1>4. CASE RegisterGenerators
  <2>1. CASE Fail("invalid")
    BY <2>1, IdsStay DEF Fail, nums
  <2>2. CASE ~Fail("invalid")
    <3> DEFINE m == order[k]
    <3>1. m \in M /\ Generators[m] \in Nat
      <4>1. k \in 1 .. Len(order)
        BY <1>1, <1>4, LenProperties DEF RegisterGenerators
      <4>2. m \in M
        BY <1>1, <4>1, ElementOfSeq
      <4> QED BY <4>2, LoaderAssumption
    <3>2. MaxId \in Nat /\ IdsBelow(MaxId)
      BY MaxIdFacts DEF IdInv
    <3>3. PICK b \in Nat : b = MaxId
      BY <3>2
    <3>4. PICK c \in Nat : c = Generators[m]
      BY <3>1
    <3>5. PICK n \in M : n = m
      BY <3>1
    <3> DEFINE fresh == b + 1 .. b + c
    <3>6. /\ genIds' = [genIds EXCEPT ![n] = fresh] /\ ids' = ids
          /\ status' = "emit" /\ fresh = b + 1 .. b + c
      BY <1>4, <2>2, <3>3, <3>4, <3>5 DEF RegisterGenerators
    <3> HIDE DEF m, fresh
    <3>7. IdsBelow(b)
      BY <3>2, <3>3 DEF IdsBelow
    <3>8. /\ ids' \in [M -> SUBSET Nat] /\ genIds' \in [M -> SUBSET Nat]
          /\ IdsUnique' /\ b + c \in Nat /\ IdsBelow(b + c)'
      BY <3>6, <3>7, FreshIds DEF IdInv
    <3> QED BY <3>6, <3>8 DEF IdInv
  <2> QED BY <2>1, <2>2
<1>5. CASE LoadEntry \/ Import
  BY <1>5, IdsStay DEF LoadEntry, Import, Open, Fail, nums, Failures
<1>6. CASE Return
  BY <1>6, IdsStay DEF Return, nums
<1>7. CASE BeginEmit \/ EndEmit
  BY <1>7, IdsStay DEF BeginEmit, EndEmit, Fail, nums
<1>8. CASE UNCHANGED vars
  BY <1>8, IdsStay DEF vars, nums
<1> QED BY <1>2, <1>3, <1>4, <1>5, <1>6, <1>7, <1>8 DEF Next, Step, Ended

\* SetClassIDSource and registerGenerator: no two classes of a program, written
\* in any of its modules or made for any generator, are given the same id.
THEOREM ClassIdsUnique == Spec => []IdsUnique
<1>1. Init => IdInv
  <2> SUFFICES ASSUME Init PROVE IdInv
    OBVIOUS
  <2>1. AllIds = {} /\ 0 \in Nat /\ 1 .. 0 = {}
    BY DEF Init, AllIds
  <2>2. IdsBelow(0)
    BY <2>1 DEF IdsBelow
  <2> QED BY <2>1, <2>2 DEF Init, IdInv, IdsUnique
<1>2. IInv /\ IdInv /\ [Next]_vars => IdInv'
  BY NextNumbers
<1>3. IdInv => IdsUnique
  BY DEF IdInv
<1> QED BY <1>1, <1>2, <1>3, Invariance, PTL DEF Spec

=============================================================================
