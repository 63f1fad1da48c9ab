---------------------------- MODULE ClassesProofs ----------------------------
(***************************************************************************)
(* For every number of classes and every way to write them: the passes     *)
(* build well-formed layouts, an object is of the classes it goes by, the  *)
(* programs refused are those Python-like rules refuse, and offsets, slots  *)
(* and class ids do what lookups by name do.                               *)
(*                                                                         *)
(* What the recursions compute is proved by naming it: a set of ancestors  *)
(* is the intersection of what is closed under bases, and the method a     *)
(* lookup finds is the last class of that set to define it.  Inductions    *)
(* along bases and loops go by a least counterexample.                     *)
(***************************************************************************)
EXTENDS Classes, FiniteSetTheorems, SequenceTheorems, WellFoundedInduction, TLAPS

-----------------------------------------------------------------------------
\* Induction.

\* A set of naturals that is not empty has a least element.
LEMMA LeastNat ==
  ASSUME NEW T \in SUBSET Nat, T # {}
  PROVE  \E x \in T : \A y \in T : x <= y
<1> DEFINE R == OpToRel(<, Nat)
<1>1. IsWellFoundedOn(R, Nat)
  BY NatLessThanWellFounded
<1>2. \A x, y \in Nat : x < y => <<x, y>> \in R
  BY DEF OpToRel
<1> HIDE DEF R
<1>3. PICK x \in T : \A y \in T : ~(<<y, x>> \in R)
  BY <1>1, WFMin
<1>4. \A y \in T : x <= y
  <2> TAKE y \in T
  <2>1. x \in Nat /\ y \in Nat
    OBVIOUS
  <2>2. ~(y < x)
    BY <1>2, <1>3, <2>1
  <2> QED BY <2>1, <2>2
<1> QED BY <1>4

\* Counting up.
LEMMA LoopInduction ==
  ASSUME NEW n \in Nat, NEW T, 0 \in T, \A k \in 0..n - 1 : k \in T => k + 1 \in T
  PROVE  0..n \subseteq T
<1> DEFINE Bad == {k \in 0..n : k \notin T}
<1>1. SUFFICES ASSUME Bad # {} PROVE FALSE
  OBVIOUS
<1>2. PICK k \in Bad : \A j \in Bad : k <= j
  <2>1. Bad \in SUBSET Nat
    OBVIOUS
  <2> HIDE DEF Bad
  <2> QED BY <1>1, <2>1, LeastNat
<1>3. k \in 0..n /\ k \notin T /\ k # 0
  OBVIOUS
<1>4. k - 1 \in 0..n - 1 /\ k - 1 + 1 = k
  BY <1>3
<1>5. k - 1 \notin T
  BY <1>3, <1>4
<1>6. k - 1 \in Bad
  BY <1>4, <1>5
<1> QED BY <1>2, <1>3, <1>4, <1>6

\* Going from bases to the classes derived from them.
Rising(base) == /\ base \in [Class -> 0..Count]
                /\ \A c \in Class : base[c] < c

LEMMA BaseInduction ==
  ASSUME NEW base, Rising(base), NEW T,
         \A c \in Class : (base[c] # None => base[c] \in T) => c \in T
  PROVE  Class \subseteq T
<1> USE ProgramAssumption DEF Class, None
<1> DEFINE Bad == {c \in Class : c \notin T}
<1>1. SUFFICES ASSUME Bad # {} PROVE FALSE
  OBVIOUS
<1>2. PICK c \in Bad : \A d \in Bad : c <= d
  <2>1. Bad \in SUBSET Nat
    OBVIOUS
  <2> HIDE DEF Bad
  <2> QED BY <1>1, <2>1, LeastNat
<1>3. c \in Class /\ base[c] # None /\ base[c] \notin T
  OBVIOUS
<1>4. base[c] \in Class /\ base[c] < c
  BY <1>3 DEF Rising
<1>5. base[c] \in Bad
  BY <1>3, <1>4
<1> QED BY <1>2, <1>4, <1>5

-----------------------------------------------------------------------------
\* Ancestors.

\* Recursion along bases: what satisfies the equation is what was meant.
LEMMA AncestorsEquation ==
  ASSUME NEW base \in [Class -> 0..Count]
  PROVE  /\ AncestorsIn(base) = [c \in Class |-> {c} \cup IF base[c] = None THEN {}
                                                       ELSE AncestorsIn(base)[base[c]]]
<1> USE ProgramAssumption DEF Class, None
<1> DEFINE Closed(c) == {T \in SUBSET Class : c \in T /\ \A e \in T : base[e] # None => base[e] \in T}
           up == [c \in Class |-> {d \in Class : \A T \in Closed(c) : d \in T}]
<1>1. ASSUME NEW c \in Class
      PROVE  up[c] = {c} \cup IF base[c] = None THEN {} ELSE up[base[c]]
  <2>1. c \in up[c]
    OBVIOUS
  <2>2. CASE base[c] = None
    <3>1. {c} \in Closed(c)
      BY <2>2
    <3>2. up[c] \subseteq {c}
      BY <3>1
    <3> HIDE DEF up
    <3> QED BY <2>1, <2>2, <3>2
  <2>3. CASE base[c] # None
    <3>1. base[c] \in Class
      BY <2>3
    <3>2. Closed(c) \subseteq Closed(base[c])
      BY <2>3, <3>1
    <3>3. up[base[c]] \subseteq up[c]
      BY <3>1, <3>2
    <3>4. \A T \in Closed(base[c]) : T \cup {c} \in Closed(c)
      BY <2>3, <3>1
    <3>5. up[c] \subseteq {c} \cup up[base[c]]
      BY <3>1, <3>4
    <3> HIDE DEF up
    <3> QED BY <2>1, <2>3, <3>3, <3>5
  <2> QED BY <2>2, <2>3
<1> HIDE DEF up
<1> DEFINE F(f) == [c \in Class |-> {c} \cup IF base[c] = None THEN {} ELSE f[base[c]]]
<1>2. up = F(up)
  <2>1. DOMAIN up = Class
    BY DEF up
  <2> QED BY <1>1, <2>1 DEF up
<1>3. AncestorsIn(base) = CHOOSE f : f = F(f)
  BY DEF AncestorsIn
<1>4. (CHOOSE f : f = F(f)) = F(CHOOSE f : f = F(f))
  BY <1>2
<1> HIDE DEF F
<1>5. AncestorsIn(base) = F(AncestorsIn(base))
  BY <1>3, <1>4
<1> QED BY <1>5 DEF F

\* The ancestors of a class are the class and the ancestors of its base; none has
\* a greater number, and theirs are among them.
LEMMA AncestorFacts ==
  ASSUME NEW base, Rising(base), NEW A, A = AncestorsIn(base)
  PROVE  \A c \in Class :
           /\ c \in A[c] /\ A[c] \subseteq Class /\ \A d \in A[c] : d <= c
           /\ base[c] = None => A[c] = {c}
           /\ base[c] # None => base[c] \in Class /\ A[c] = {c} \cup A[base[c]]
           /\ \A d \in A[c] : A[d] \subseteq A[c]
<1> USE ProgramAssumption DEF None
<1>1. ASSUME NEW c \in Class
      PROVE  /\ c \in A[c]
             /\ base[c] = None => A[c] = {c}
             /\ base[c] # None => base[c] \in Class /\ base[c] < c /\ A[c] = {c} \cup A[base[c]]
  <2>1. base \in [Class -> 0..Count] /\ base[c] < c
    BY DEF Rising
  <2>2. A[c] = {c} \cup IF base[c] = None THEN {} ELSE A[base[c]]
    BY <2>1, AncestorsEquation
  <2>3. base[c] # None => base[c] \in Class
    BY <2>1 DEF Class
  <2> QED BY <2>1, <2>2, <2>3
<1> DEFINE T == {c \in Class : /\ A[c] \subseteq Class /\ \A d \in A[c] : d <= c
                               /\ \A d \in A[c] : A[d] \subseteq A[c]}
<1>2. ASSUME NEW c \in Class, base[c] # None => base[c] \in T PROVE c \in T
  <2>1. CASE base[c] = None
    BY <1>1, <2>1 DEF Class
  <2>2. CASE base[c] # None
    <3>1. base[c] \in Class /\ base[c] < c /\ A[c] = {c} \cup A[base[c]]
      BY <1>1, <2>2
    <3>2. A[base[c]] \subseteq Class /\ \A d \in A[base[c]] : d <= base[c] /\ A[d] \subseteq A[base[c]]
      BY <1>2, <2>2
    <3>3. \A d \in A[c] : d \in Class /\ d <= c
      BY <3>1, <3>2 DEF Class
    <3> QED BY <3>1, <3>2, <3>3
  <2> QED BY <2>1, <2>2
<1> HIDE DEF T
<1>3. Class \subseteq T
  BY <1>2, BaseInduction
<1> QED BY <1>1, <1>3 DEF T

-----------------------------------------------------------------------------
\* Layouts: sequences of entries with different names.

Unique(seq) == \A i, j \in DOMAIN seq : seq[i].name = seq[j].name => i = j

\* The longer layout starts with the names of the shorter one.
Starts(s, t) == /\ Len(s) <= Len(t)
                /\ \A i \in DOMAIN s : t[i] = s[i]

LEMMA AddFacts ==
  ASSUME NEW S, NEW s \in Seq(S), NEW e \in S, NEW skip, NEW t, t = Add(s, e, skip)
  PROVE  /\ t \in Seq(S)
         /\ Names(t) = Names(s) \cup ({e.name} \ skip)
         /\ Starts(s, t)
         /\ Unique(s) => Unique(t)
         /\ \A i \in DOMAIN t : i \in DOMAIN s \/ t[i] = e
<1>1. CASE e.name \in Names(s) \cup skip
  <2>1. t = s
    BY <1>1 DEF Add
  <2> QED BY <1>1, <2>1 DEF Names, Starts
<1>2. CASE e.name \notin Names(s) \cup skip
  <2>1. t = Append(s, e)
    BY <1>2 DEF Add
  <2>2. /\ t \in Seq(S) /\ Len(t) = Len(s) + 1 /\ t[Len(s) + 1] = e
        /\ \A i \in 1..Len(s) : t[i] = s[i]
    BY <2>1, AppendProperties
  <2>3. DOMAIN t = 1..Len(s) + 1 /\ DOMAIN s = 1..Len(s) /\ Len(s) \in Nat
    BY <2>2, LenProperties
  <2>4. DOMAIN t = DOMAIN s \cup {Len(s) + 1} /\ Len(s) + 1 \notin DOMAIN s
    BY <2>3
  <2>5. Names(t) = Names(s) \cup {e.name}
    BY <2>2, <2>3, <2>4 DEF Names
  <2>6. Unique(s) => Unique(t)
    <3> SUFFICES ASSUME Unique(s), NEW i \in DOMAIN t, NEW j \in DOMAIN t, t[i].name = t[j].name
                 PROVE  i = j
      BY DEF Unique
    <3>1. \A k \in DOMAIN s : s[k].name # e.name /\ t[k] = s[k]
      BY <1>2, <2>2, <2>3 DEF Names
    <3> QED BY <2>2, <2>4, <3>1 DEF Unique
  <2>7. \A i \in DOMAIN t : i \in DOMAIN s \/ t[i] = e
    BY <2>2, <2>4
  <2>8. Starts(s, t)
    BY <2>2, <2>3 DEF Starts
  <2>9. {e.name} \ skip = {e.name}
    BY <1>2
  <2> HIDE <2>1
  <2> QED BY <2>2, <2>5, <2>6, <2>7, <2>8, <2>9
<1> QED BY <1>1, <1>2

LEMMA AddAllIsLoop ==
  ASSUME NEW S, NEW seq \in Seq(S), NEW new \in Seq(S), NEW skip
  PROVE  \E after \in [0..Len(new) -> Seq(S)] :
           /\ after[0] = seq
           /\ \A n \in 1..Len(new) : after[n] = Add(after[n - 1], new[n], skip)
           /\ AddAll(seq, new, skip) = after[Len(new)]
<1> DEFINE N == Len(new)
           Run(n, g) == /\ g \in [0..n -> Seq(S)] /\ g[0] = seq
                        /\ \A k \in 1..n : g[k] = Add(g[k - 1], new[k], skip)
           T == {n \in 0..N : \E g : Run(n, g)}
<1>1. N \in Nat /\ \A k \in 1..N : new[k] \in S
  BY LenProperties, ElementOfSeq
<1>2. 0 \in T
  <2>1. Run(0, [k \in 0..0 |-> seq])
    OBVIOUS
  <2> HIDE DEF Run
  <2>2. 0 \in 0..N
    BY <1>1
  <2> QED BY <2>1, <2>2
<1>3. ASSUME NEW n \in 0..N - 1, n \in T PROVE n + 1 \in T
  <2>1. PICK g : Run(n, g)
    BY <1>3
  <2> DEFINE h == [k \in 0..n + 1 |-> IF k = n + 1 THEN Add(g[n], new[n + 1], skip) ELSE g[k]]
  <2>2. n \in Nat /\ n + 1 \in 1..N /\ n \in 0..n
    BY <1>1
  <2>3. Add(g[n], new[n + 1], skip) \in Seq(S)
    BY <1>1, <2>1, <2>2, AddFacts
  <2>4. h \in [0..n + 1 -> Seq(S)] /\ h[0] = seq
    BY <2>1, <2>2, <2>3
  <2>5. ASSUME NEW k \in 1..n + 1 PROVE h[k] = Add(h[k - 1], new[k], skip)
    <3>1. CASE k = n + 1
      BY <2>2, <3>1
    <3>2. CASE k # n + 1
      <4>1. k \in 1..n /\ k \in 0..n + 1 /\ k - 1 \in 0..n + 1 /\ k - 1 # n + 1
        BY <2>2, <3>2
      <4> QED BY <2>1, <3>2, <4>1
    <3> QED BY <3>1, <3>2
  <2> HIDE DEF h
  <2>6. Run(n + 1, h)
    BY <2>4, <2>5
  <2>7. n + 1 \in 0..N
    BY <1>1, <2>2
  <2> QED BY <2>6, <2>7
<1> HIDE DEF T
<1>4. N \in T
  <2>1. 0..N \subseteq T
    BY <1>1, <1>2, <1>3, LoopInduction
  <2> QED BY <1>1, <2>1
<1>5. PICK g : Run(N, g)
  BY <1>4 DEF T
<1> DEFINE F(f) == [n \in 0..N |-> IF n = 0 THEN seq ELSE Add(f[n - 1], new[n], skip)]
<1>6. g = F(g)
  <2>1. \A n \in 0..N : g[n] = F(g)[n]
    BY <1>1, <1>5
  <2> QED BY <1>5, <2>1
<1> DEFINE a == CHOOSE f : f = F(f)
<1>7. AddAll(seq, new, skip) = a[N]
  BY DEF AddAll
<1>8. a = F(a)
  BY <1>6
<1> HIDE DEF a
<1>9. a[0] = seq /\ \A n \in 1..N : a[n] = Add(a[n - 1], new[n], skip)
  BY <1>1, <1>8
<1>10. DOMAIN a = 0..N
  BY <1>8
<1> DEFINE Q == {n \in 0..N : a[n] \in Seq(S)}
<1>11. 0 \in Q
  BY <1>1, <1>9
<1>12. ASSUME NEW n \in 0..N - 1, n \in Q PROVE n + 1 \in Q
  <2>1. n + 1 \in 1..N /\ n + 1 - 1 = n /\ n + 1 \in 0..N
    BY <1>1
  <2>2. a[n + 1] = Add(a[n], new[n + 1], skip)
    BY <1>9, <2>1
  <2>3. a[n + 1] \in Seq(S)
    BY <1>1, <1>12, <2>1, <2>2, AddFacts
  <2> QED BY <2>1, <2>3
<1> HIDE DEF Q, F
<1>13. 0..N \subseteq Q
  BY <1>1, <1>11, <1>12, LoopInduction
<1>14. a \in [0..N -> Seq(S)]
  <2>1. \A n \in 0..N : a[n] \in Seq(S)
    BY <1>13 DEF Q
  <2>2. a = [n \in 0..N |-> a[n]]
    BY <1>8, <1>10 DEF F
  <2> QED BY <2>1, <2>2
<1> QED BY <1>7, <1>9, <1>14

\* What is appended: the names that are not there yet, each once.
LEMMA AddAllFacts ==
  ASSUME NEW S, NEW seq \in Seq(S), NEW new \in Seq(S), NEW skip,
         NEW t, t = AddAll(seq, new, skip)
  PROVE  /\ t \in Seq(S)
         /\ Starts(seq, t)
         /\ Unique(seq) => Unique(t)
         /\ Names(t) = Names(seq) \cup (Names(new) \ skip)
         /\ \A i \in DOMAIN t : i \in DOMAIN seq \/ \E j \in DOMAIN new : t[i] = new[j] /\ new[j].name \notin Names(seq) \cup skip
<1> DEFINE N == Len(new)
           Below(n) == {new[j].name : j \in 1..n}
           Good(n, s) == /\ s \in Seq(S)
                         /\ Starts(seq, s)
                         /\ Unique(seq) => Unique(s)
                         /\ Names(s) = Names(seq) \cup (Below(n) \ skip)
                         /\ \A i \in DOMAIN s : i \in DOMAIN seq \/ \E j \in DOMAIN new : s[i] = new[j] /\ new[j].name \notin Names(seq) \cup skip
<1>1. N \in Nat /\ DOMAIN new = 1..N /\ \A k \in 1..N : new[k] \in S
  BY LenProperties, ElementOfSeq
<1>2. PICK after \in [0..N -> Seq(S)] :
           /\ after[0] = seq
           /\ \A n \in 1..N : after[n] = Add(after[n - 1], new[n], skip)
           /\ AddAll(seq, new, skip) = after[N]
  BY AddAllIsLoop
<1> DEFINE Q == {n \in 0..N : Good(n, after[n])}
<1>3. 0 \in Q
  <2>1. Below(0) = {}
    OBVIOUS
  <2>2. Starts(seq, seq)
    BY LenProperties DEF Starts
  <2>3. Good(0, after[0])
    <3> HIDE DEF Below
    <3> QED BY <1>2, <2>1, <2>2
  <2> HIDE DEF Good
  <2>4. 0 \in 0..N
    BY <1>1
  <2> QED BY <2>3, <2>4
<1>4. ASSUME NEW n \in 0..N - 1, n \in Q PROVE n + 1 \in Q
  <2> DEFINE s == after[n]
             e == new[n + 1]
             u == after[n + 1]
  <2>1. n + 1 \in 1..N /\ n + 1 - 1 = n /\ n + 1 \in 0..N
    BY <1>1
  <2>2. u = Add(s, e, skip) /\ e \in S /\ s \in Seq(S) /\ n + 1 \in DOMAIN new
    <3>1. n \in 0..N
      BY <1>1
    <3>2. after[n + 1] = Add(after[n + 1 - 1], new[n + 1], skip)
      BY <1>2, <2>1
    <3> QED BY <1>1, <1>2, <2>1, <3>1, <3>2
  <2>3. Good(n, s)
    BY <1>4
  <2>4. Below(n + 1) = Below(n) \cup {e.name}
    BY <1>1, <2>1
  <2> HIDE DEF s, e, u, Below
  <2>5. /\ u \in Seq(S) /\ Names(u) = Names(s) \cup ({e.name} \ skip)
        /\ Starts(s, u) /\ (Unique(s) => Unique(u))
        /\ \A i \in DOMAIN u : i \in DOMAIN s \/ u[i] = e
    BY <2>2, AddFacts
  <2>6. Starts(seq, u)
    <3>1. DOMAIN seq = 1..Len(seq) /\ DOMAIN s = 1..Len(s) /\ Len(seq) \in Nat /\ Len(s) \in Nat /\ Len(u) \in Nat
      BY <2>2, <2>5, LenProperties
    <3> QED BY <2>3, <2>5, <3>1 DEF Starts
  <2>7. ASSUME NEW i \in DOMAIN u
        PROVE  i \in DOMAIN seq \/ \E j \in DOMAIN new : u[i] = new[j] /\ new[j].name \notin Names(seq) \cup skip
    <3>1. CASE i \in DOMAIN s
      <4>1. u[i] = s[i]
        BY <2>5, <3>1 DEF Starts
      <4> QED BY <2>3, <3>1, <4>1
    <3>2. CASE i \notin DOMAIN s
      <4>1. u[i] = e
        BY <2>5, <3>2
      <4>2. e.name \notin Names(s) \cup skip
        <5>1. u # s
          BY <3>2
        <5> QED BY <2>2, <5>1 DEF Add
      <4> QED BY <2>2, <2>3, <4>1, <4>2 DEF e
    <3> QED BY <3>1, <3>2
  <2>8. Names(u) = Names(seq) \cup (Below(n + 1) \ skip)
    BY <2>3, <2>4, <2>5
  <2>9. Good(n + 1, u)
    BY <2>3, <2>5, <2>6, <2>7, <2>8
  <2> QED BY <2>1, <2>9 DEF u
<1> HIDE DEF Q
<1>5. N \in Q
  <2>1. 0..N \subseteq Q
    BY <1>1, <1>3, <1>4, LoopInduction
  <2> QED BY <1>1, <2>1
<1>6. Good(N, t)
  BY <1>2, <1>5 DEF Q
<1>7. Below(N) = Names(new)
  BY <1>1 DEF Names
<1> QED BY <1>6, <1>7

\* The index a name is looked up to.
LEMMA IndexFacts ==
  ASSUME NEW seq, NEW n \in Names(seq)
  PROVE  /\ IndexOf(seq, n) \in DOMAIN seq /\ seq[IndexOf(seq, n)].name = n
         /\ Unique(seq) => \A i \in DOMAIN seq : seq[i].name = n => i = IndexOf(seq, n)
BY DEF IndexOf, Names, Unique

\* A layout without double names has as many names as entries.
LEMMA UniqueCount ==
  ASSUME NEW S, NEW seq \in Seq(S), Unique(seq)
  PROVE  Cardinality(Names(seq)) = Len(seq)
<1> DEFINE f == [i \in 1..Len(seq) |-> seq[i].name]
<1>1. Len(seq) \in Nat /\ DOMAIN seq = 1..Len(seq)
  BY LenProperties
<1>2. IsFiniteSet(1..Len(seq)) /\ Cardinality(1..Len(seq)) = Len(seq)
  <2>1. Cardinality(1..Len(seq)) = IF 1 > Len(seq) THEN 0 ELSE Len(seq) - 1 + 1
    BY <1>1, FS_Interval
  <2>2. IsFiniteSet(1..Len(seq))
    BY <1>1, FS_Interval
  <2> QED BY <1>1, <2>1, <2>2
<1>3. f \in Bijection(1..Len(seq), Names(seq))
  <2>1. f \in [1..Len(seq) -> Names(seq)]
    BY <1>1 DEF Names
  <2>2. \A i, j \in 1..Len(seq) : f[i] = f[j] => i = j
    BY <1>1 DEF Unique
  <2>3. \A n \in Names(seq) : \E i \in 1..Len(seq) : f[i] = n
    BY <1>1 DEF Names
  <2> HIDE DEF f
  <2> QED BY <2>1, <2>2, <2>3 DEF Bijection, Injection, Surjection, IsInjective
<1> HIDE DEF f
<1>4. ExistsBijection(1..Len(seq), Names(seq))
  BY <1>3 DEF ExistsBijection
<1> QED BY <1>2, <1>4, FS_Bijection, FS_SameCardinalityBij

-----------------------------------------------------------------------------
\* What the passes have computed.

Field  == [name : Attr, type : FieldTypes]
SlotOf == [class : Class, name : STRING \cup {"__str__", "__repr__"}]
Sigs   == UNION {[D -> STRING] : D \in SUBSET STRING}
ClassType == [base : 0..Count, fields : Seq(Field), methods : Sigs, id : 0..Count]

\* A class that has been through a pass has what the pass computes of it.
TypeDone(c)    == types[c].base = decl[c].base /\ types[c].id = c /\ decl[c].base < c
MethodsDone(c) == /\ ~Mismatched(c)
                  /\ types[c].methods = [m \in DOMAIN Inherited(c) \cup OwnMethods(c) |->
                       IF m \in OwnMethods(c) THEN OwnSig(c, m) ELSE Inherited(c)[m]]
FieldsDone(c)  == /\ types[c].fields = AddAll(BaseFields(c), decl[c].sets, {})
                  /\ ~Conflict(types[c].fields, decl[c].sets)
SlotsDone(c)   == tables[c] = AddAll(OverBase(c), OwnSlots(c), {"__init__"})

\* In the k-th pass, at class n, class c has been through the j-th pass.
Through(j, k, n, c) == j < k \/ (j = k /\ c < n)

Standing(k, n) ==
  /\ decl \in Programs /\ n \in 1..Count + 1
  /\ types \in [Class -> ClassType] /\ tables \in [Class -> Seq(SlotOf)]
  /\ \A c \in Class :
       /\ IF Through(1, k, n, c) THEN TypeDone(c) ELSE types[c].base = None /\ types[c].id = 0
       /\ IF Through(2, k, n, c) THEN MethodsDone(c) ELSE types[c].methods = <<>>
       /\ IF Through(3, k, n, c) THEN FieldsDone(c) ELSE types[c].fields = <<>>
       /\ IF Through(4, k, n, c) THEN SlotsDone(c) ELSE tables[c] = <<>>

PassAt(k, p) == \/ k = 1 /\ p = "types"
                \/ k = 2 /\ p = "methods"
                \/ k = 3 /\ p = "fields"
                \/ k = 4 /\ p = "slots"
                \/ k = 5 /\ p = "run"

\* A refused program stands where it was refused, for a reason.
CInv == \E k \in 1..5 : /\ Standing(k, next)
                        /\ PassAt(k, pass) \/ (pass = "refused" /\ ~Compatible)

\* A step that leaves alone what a pass reads leaves alone what it computed.
LEMMA DoneStays ==
  ASSUME NEW c \in Class, decl' = decl, types'[c].base = types[c].base
  PROVE  /\ types'[c].id = types[c].id => (TypeDone(c)' <=> TypeDone(c))
         /\ /\ types'[c].methods = types[c].methods
            /\ types[c].base # None => types'[types[c].base].methods = types[types[c].base].methods
            => (MethodsDone(c)' <=> MethodsDone(c))
         /\ /\ types'[c].fields = types[c].fields
            /\ types[c].base # None => types'[types[c].base].fields = types[types[c].base].fields
            => (FieldsDone(c)' <=> FieldsDone(c))
         /\ /\ tables'[c] = tables[c]
            /\ types[c].base # None => tables'[types[c].base] = tables[types[c].base]
            => (SlotsDone(c)' <=> SlotsDone(c))
<1>1. types'[c].id = types[c].id => (TypeDone(c)' <=> TypeDone(c))
  BY DEF TypeDone
<1>2. ASSUME types'[c].methods = types[c].methods,
             types[c].base # None => types'[types[c].base].methods = types[types[c].base].methods
      PROVE  MethodsDone(c)' <=> MethodsDone(c)
  <2>1. Inherited(c)' = Inherited(c)
    BY <1>2 DEF Inherited
  <2>2. OwnMethods(c)' = OwnMethods(c) /\ \A m : OwnSig(c, m)' = OwnSig(c, m)
    BY DEF OwnMethods, OwnSig
  <2> QED BY <1>2, <2>1, <2>2 DEF MethodsDone, Mismatched
<1>3. ASSUME types'[c].fields = types[c].fields,
             types[c].base # None => types'[types[c].base].fields = types[types[c].base].fields
      PROVE  FieldsDone(c)' <=> FieldsDone(c)
  <2>1. BaseFields(c)' = BaseFields(c)
    BY <1>3 DEF BaseFields
  <2> QED BY <1>3, <2>1 DEF FieldsDone
<1>4. ASSUME tables'[c] = tables[c],
             types[c].base # None => tables'[types[c].base] = tables[types[c].base]
      PROVE  SlotsDone(c)' <=> SlotsDone(c)
  <2>1. OverBase(c)' = OverBase(c)
    BY <1>4 DEF OverBase, OwnMethods
  <2>2. OwnSlots(c)' = OwnSlots(c)
    BY DEF OwnSlots
  <2> QED BY <1>4, <2>1, <2>2 DEF SlotsDone
<1> QED BY <1>1, <1>2, <1>3, <1>4

\* What the definition of a class says.
LEMMA DeclFacts ==
  ASSUME decl \in Programs, NEW c \in Class
  PROVE  /\ decl[c].base \in 0..Count
         /\ decl[c].methods \in Seq([name : STRING, sig : STRING])
         /\ decl[c].sets \in Seq(Field)
         /\ OwnMethods(c) \subseteq STRING
         /\ \A m \in OwnMethods(c) : OwnSig(c, m) \in STRING
         /\ Unique(decl[c].methods)
<1>1. decl \in [Class -> Definition] /\ Unique(decl[c].methods)
  BY ProgramAssumption DEF Unique
<1>2. decl[c] \in Definition
  BY <1>1
<1>3. /\ decl[c].base \in 0..Count
      /\ decl[c].methods \in Seq([name : STRING, sig : STRING])
      /\ decl[c].sets \in Seq(Field)
  BY <1>2 DEF Definition, Field
<1>4. \A i \in DOMAIN decl[c].methods : decl[c].methods[i] \in [name : STRING, sig : STRING]
  BY <1>3, LenProperties, ElementOfSeq
<1>5. OwnMethods(c) \subseteq STRING
  BY <1>4 DEF OwnMethods, Names
<1>6. ASSUME NEW m \in OwnMethods(c) PROVE OwnSig(c, m) \in STRING
  <2>1. IndexOf(decl[c].methods, m) \in DOMAIN decl[c].methods
    BY IndexFacts DEF OwnMethods
  <2> QED BY <1>4, <2>1 DEF OwnSig
<1> QED BY <1>1, <1>3, <1>5, <1>6

\* Before the first pass.
LEMMA InitStands == TablesInit => CInv
<1> SUFFICES ASSUME TablesInit PROVE CInv
  OBVIOUS
<1>1. /\ decl \in Programs /\ pass = "types" /\ next = 1
      /\ types = [c \in Class |-> Unregistered] /\ tables = [c \in Class |-> <<>>]
  BY DEF TablesInit
<1>2. <<>> \in Sigs
  <2>1. <<>> \in [{} -> STRING]
    OBVIOUS
  <2> QED BY <2>1 DEF Sigs
<1>3. Unregistered \in ClassType
  <2>1. <<>> \in Seq(Field) /\ 0 \in 0..Count
    BY EmptySeq, ProgramAssumption
  <2> QED BY <1>2, <2>1 DEF Unregistered, ClassType, None
<1>4. \A c \in Class : ~(c < 1)
  BY ProgramAssumption DEF Class
<1>5. \A c \in Class : types[c] = Unregistered /\ tables[c] = <<>>
  BY <1>1
<1>6. types \in [Class -> ClassType] /\ tables \in [Class -> Seq(SlotOf)]
  BY <1>1, <1>3, EmptySeq
<1>7. Standing(1, next)
  BY <1>1, <1>4, <1>5, <1>6, ProgramAssumption DEF Standing, Through, Unregistered, None
<1>8. PassAt(1, pass) /\ 1 \in 1..5
  <2>1. PassAt(1, "types")
    BY DEF PassAt
  <2> QED BY <1>1, <2>1
<1> QED BY <1>7, <1>8 DEF CInv

\* A pass at a class computes one part of it, which nothing computed before reads.
LEMMA StepStands ==
  ASSUME NEW k \in 1..4, NEW d \in Class, d = next, Standing(k, next), decl' = decl, next' = next + 1,
         types' \in [Class -> ClassType], tables' \in [Class -> Seq(SlotOf)],
         \A c \in Class : c # d => types'[c] = types[c] /\ tables'[c] = tables[c],
         k # 1 => types'[d].base = types[d].base /\ types'[d].id = types[d].id,
         k # 2 => types'[d].methods = types[d].methods,
         k # 3 => types'[d].fields = types[d].fields,
         k # 4 => tables'[d] = tables[d],
         k = 1 => TypeDone(d)',
         k = 2 => MethodsDone(d)',
         k = 3 => FieldsDone(d)',
         k = 4 => SlotsDone(d)'
  PROVE  Standing(k, next)'
<1> USE ProgramAssumption DEF None
<1>1. /\ decl \in Programs /\ d = next /\ next \in Nat /\ next' \in 1..Count + 1
      /\ types \in [Class -> ClassType]
  BY DEF Standing, Class
<1>2. ASSUME NEW c \in Class
      PROVE  /\ IF Through(1, k, next', c) THEN TypeDone(c)' ELSE types'[c].base = None /\ types'[c].id = 0
             /\ IF Through(2, k, next', c) THEN MethodsDone(c)' ELSE types'[c].methods = <<>>
             /\ IF Through(3, k, next', c) THEN FieldsDone(c)' ELSE types'[c].fields = <<>>
             /\ IF Through(4, k, next', c) THEN SlotsDone(c)' ELSE tables'[c] = <<>>
  <2> DEFINE b == types[c].base
  <2>1. /\ IF Through(1, k, next, c) THEN TypeDone(c) ELSE types[c].base = None /\ types[c].id = 0
        /\ IF Through(2, k, next, c) THEN MethodsDone(c) ELSE types[c].methods = <<>>
        /\ IF Through(3, k, next, c) THEN FieldsDone(c) ELSE types[c].fields = <<>>
        /\ IF Through(4, k, next, c) THEN SlotsDone(c) ELSE tables[c] = <<>>
    BY DEF Standing
  <2>2. c \in Nat /\ types[c] \in ClassType
    BY <1>1 DEF Class
  <2>3. b \in 0..Count /\ (b # None => b \in Class)
    BY <2>2 DEF ClassType, Class
  <2>4. Through(1, k, next, c) => b = None \/ b < c
    BY <2>1, <2>2, <2>3 DEF TypeDone
  <2> HIDE DEF b
  <2>5. CASE c # d
    <3>1. types'[c] = types[c] /\ tables'[c] = tables[c]
      BY <2>5
    <3>2. \A j \in 1..4 : Through(j, k, next', c) <=> Through(j, k, next, c)
      BY <1>1, <2>2, <2>5 DEF Through
    <3>3. TypeDone(c)' <=> TypeDone(c)
      BY <3>1, DoneStays
    <3>4. Through(2, k, next, c) => (MethodsDone(c)' <=> MethodsDone(c))
      <4>1. Through(2, k, next, c) /\ b # None => b \in Class /\ (b = d => k # 2)
        BY <1>1, <2>2, <2>3, <2>4 DEF Through
      <4>2. Through(2, k, next, c) /\ b # None => types'[b].methods = types[b].methods
        BY <4>1
      <4> QED BY <3>1, <4>2, DoneStays DEF b
    <3>5. Through(3, k, next, c) => (FieldsDone(c)' <=> FieldsDone(c))
      <4>1. Through(3, k, next, c) /\ b # None => b \in Class /\ (b = d => k # 3)
        BY <1>1, <2>2, <2>3, <2>4 DEF Through
      <4>2. Through(3, k, next, c) /\ b # None => types'[b].fields = types[b].fields
        BY <4>1
      <4> QED BY <3>1, <4>2, DoneStays DEF b
    <3>6. Through(4, k, next, c) => (SlotsDone(c)' <=> SlotsDone(c))
      <4>1. Through(4, k, next, c) /\ b # None => b \in Class /\ (b = d => k # 4)
        BY <1>1, <2>2, <2>3, <2>4 DEF Through
      <4>2. Through(4, k, next, c) /\ b # None => tables'[b] = tables[b]
        BY <4>1
      <4> QED BY <3>1, <4>2, DoneStays DEF b
    <3> QED BY <2>1, <3>1, <3>2, <3>3, <3>4, <3>5, <3>6
  <2>6. CASE c = d
    <3>1. \A j \in 1..4 : /\ Through(j, k, next', c) <=> j <= k
                          /\ Through(j, k, next, c) <=> j < k
      BY <1>1, <2>6 DEF Through
    <3>2. k # 1 => (b # None => b \in Class /\ b # d)
      BY <1>1, <2>2, <2>3, <2>4, <2>6, <3>1
    <3>3. k # 1 => types'[c].base = types[c].base /\ types'[c].id = types[c].id
      BY <2>6
    <3>4. k # 1 => (b # None => types'[b] = types[b] /\ tables'[b] = tables[b])
      BY <3>2
    <3>5. IF Through(1, k, next', c) THEN TypeDone(c)' ELSE types'[c].base = None /\ types'[c].id = 0
      <4>1. CASE k = 1
        BY <2>6, <3>1, <4>1
      <4>2. CASE k # 1
        <5>1. TypeDone(c)' <=> TypeDone(c)
          BY <3>3, <4>2, DoneStays
        <5> QED BY <2>1, <3>1, <4>2, <5>1
      <4> QED BY <4>1, <4>2
    <3>6. IF Through(2, k, next', c) THEN MethodsDone(c)' ELSE types'[c].methods = <<>>
      <4>1. CASE k = 2
        BY <2>6, <3>1, <4>1
      <4>2. CASE k = 1
        BY <2>1, <2>6, <3>1, <4>2
      <4>3. CASE k > 2
        <5>1. MethodsDone(c)' <=> MethodsDone(c)
          BY <2>6, <3>3, <3>4, <4>3, DoneStays DEF b
        <5> QED BY <2>1, <3>1, <4>3, <5>1
      <4> QED BY <4>1, <4>2, <4>3
    <3>7. IF Through(3, k, next', c) THEN FieldsDone(c)' ELSE types'[c].fields = <<>>
      <4>1. CASE k = 3
        BY <2>6, <3>1, <4>1
      <4>2. CASE k < 3
        BY <2>1, <2>6, <3>1, <4>2
      <4>3. CASE k = 4
        <5>1. FieldsDone(c)' <=> FieldsDone(c)
          BY <2>6, <3>3, <3>4, <4>3, DoneStays DEF b
        <5> QED BY <2>1, <3>1, <4>3, <5>1
      <4> QED BY <4>1, <4>2, <4>3
    <3>8. IF Through(4, k, next', c) THEN SlotsDone(c)' ELSE tables'[c] = <<>>
      BY <2>1, <2>6, <3>1
    <3> QED BY <3>5, <3>6, <3>7, <3>8
  <2> QED BY <2>5, <2>6
<1> QED BY <1>1, <1>2 DEF Standing

\* The next pass begins with what the last one finished.
LEMMA NextPassStands ==
  ASSUME NEW k \in 1..5, Standing(k, next), PassAt(k, pass), NextPass
  PROVE  k + 1 \in 1..5 /\ Standing(k + 1, next)' /\ PassAt(k + 1, pass')
<1> USE ProgramAssumption
<1>1. next = Count + 1 /\ next' = 1 /\ decl' = decl /\ types' = types /\ tables' = tables
  BY DEF NextPass
<1>2. k \in 1..4 /\ PassAt(k + 1, pass')
  <2> DEFINE from == <<"types", "methods", "fields", "slots">>
             to   == <<"methods", "fields", "slots", "run">>
  <2>1. PICK j \in 1..4 : pass = from[j] /\ pass' = to[j]
    BY DEF NextPass
  <2>2. /\ from[1] = "types" /\ from[2] = "methods" /\ from[3] = "fields" /\ from[4] = "slots"
        /\ to[1] = "methods" /\ to[2] = "fields" /\ to[3] = "slots" /\ to[4] = "run"
    OBVIOUS
  <2> HIDE DEF from, to
  <2>3. j = 1 \/ j = 2 \/ j = 3 \/ j = 4
    OBVIOUS
  <2>4. CASE pass = "types" /\ pass' = "methods"
    BY <2>4 DEF PassAt
  <2>5. CASE pass = "methods" /\ pass' = "fields"
    BY <2>5 DEF PassAt
  <2>6. CASE pass = "fields" /\ pass' = "slots"
    BY <2>6 DEF PassAt
  <2>7. CASE pass = "slots" /\ pass' = "run"
    BY <2>7 DEF PassAt
  <2> QED BY <2>1, <2>2, <2>3, <2>4, <2>5, <2>6, <2>7
<1>3. \A c \in Class, j \in 1..4 : Through(j, k + 1, 1, c) <=> Through(j, k, Count + 1, c)
  BY DEF Through, Class
<1>4. \A c \in Class : /\ TypeDone(c)' <=> TypeDone(c)
                       /\ MethodsDone(c)' <=> MethodsDone(c)
                       /\ FieldsDone(c)' <=> FieldsDone(c)
                       /\ SlotsDone(c)' <=> SlotsDone(c)
  BY <1>1, DoneStays
<1>5. Standing(k + 1, next)'
  BY <1>1, <1>3, <1>4 DEF Standing
<1> QED BY <1>2, <1>5

-----------------------------------------------------------------------------
\* What the results of the passes are like, for a set of classes that has been
\* through one, the bases of its members included.

BaseOf == [c \in Class |-> types[c].base]

Grounded(D) == /\ decl \in Programs /\ types \in [Class -> ClassType]
               /\ Rising(BaseOf)
               /\ D \subseteq Class
               /\ \A c \in D : types[c].base # None => types[c].base \in D

\* What can be shown of a class from its base holds for the whole set.
LEMMA GroundedInduction ==
  ASSUME NEW D, Grounded(D), NEW T,
         \A c \in D : (types[c].base # None => types[c].base \in T) => c \in T
  PROVE  D \subseteq T
<1> DEFINE U == {c \in Class : c \in D => c \in T}
<1>1. ASSUME NEW c \in Class, BaseOf[c] # None => BaseOf[c] \in U PROVE c \in U
  BY <1>1 DEF BaseOf, Grounded
<1> HIDE DEF U
<1>2. Class \subseteq U
  BY <1>1, BaseInduction DEF Grounded
<1> QED BY <1>2 DEF U, Grounded

LEMMA BaseFacts ==
  ASSUME NEW D, Grounded(D), NEW c \in D
  PROVE  /\ c \in Class /\ types[c] \in ClassType
         /\ c \in Ancestors[c] /\ Ancestors[c] \subseteq Class
         /\ types[c].base = None => Ancestors[c] = {c}
         /\ types[c].base # None => /\ types[c].base \in Class /\ types[c].base \in D
                                    /\ Ancestors[c] = {c} \cup Ancestors[types[c].base]
                                    /\ types[types[c].base] \in ClassType
<1>1. Ancestors = AncestorsIn(BaseOf) /\ Rising(BaseOf) /\ c \in Class
  BY DEF Ancestors, BaseOf, Grounded
<1>2. BaseOf[c] = types[c].base
  BY <1>1 DEF BaseOf
<1> QED BY <1>1, <1>2, AncestorFacts DEF Grounded

\* The fields of a class: those its own __init__ and its bases' assign to, each
\* once and of one type, at the same offset in every class that inherits it.
FieldsRight(c) ==
  /\ Unique(types[c].fields)
  /\ \A i \in DOMAIN types[c].fields :
       \E d \in Ancestors[c] : \E j \in DOMAIN decl[d].sets : types[c].fields[i] = decl[d].sets[j]
  /\ \A d \in Ancestors[c] :
       /\ Starts(types[d].fields, types[c].fields)
       /\ \A j \in DOMAIN decl[d].sets :
            \E i \in DOMAIN types[c].fields : types[c].fields[i] = decl[d].sets[j]

LEMMA FieldFacts ==
  ASSUME NEW D, Grounded(D), \A c \in D : FieldsDone(c)
  PROVE  \A c \in D : FieldsRight(c)
<1> DEFINE T == {c \in D : FieldsRight(c)}
<1>1. ASSUME NEW c \in D, types[c].base # None => types[c].base \in T PROVE c \in T
  <2> DEFINE b == types[c].base
             f == types[c].fields
             s == decl[c].sets
             g == BaseFields(c)
  <2>1. /\ c \in Class /\ s \in Seq(Field) /\ f \in Seq(Field)
        /\ f = AddAll(g, s, {}) /\ ~Conflict(f, s)
    BY <1>1, BaseFacts, DeclFacts DEF Grounded, FieldsDone, ClassType
  <2>2. g \in Seq(Field) /\ Unique(g)
    <3>1. CASE b = None
      BY <3>1, EmptySeq DEF BaseFields, Unique
    <3>2. CASE b # None
      BY <1>1, <3>2, BaseFacts DEF BaseFields, ClassType, FieldsRight
    <3> QED BY <3>1, <3>2
  <2>3. b # None => g = types[b].fields /\ b \in Class /\ Ancestors[c] = {c} \cup Ancestors[b] /\ FieldsRight(b)
    BY <1>1, BaseFacts DEF BaseFields
  <2>4. b = None => g = <<>> /\ Ancestors[c] = {c}
    BY BaseFacts DEF BaseFields
  <2> HIDE DEF g, s, f, b
  <2>5. /\ Starts(g, f) /\ Unique(f)
        /\ Names(f) = Names(g) \cup Names(s)
        /\ \A i \in DOMAIN f : i \in DOMAIN g \/ \E j \in DOMAIN s : f[i] = s[j] /\ s[j].name \notin Names(g) \cup {}
    <3>1. Names(s) \ {} = Names(s)
      OBVIOUS
    <3> QED BY <2>1, <2>2, <3>1, AddAllFacts
  <2>6. /\ DOMAIN f = 1..Len(f) /\ DOMAIN g = 1..Len(g) /\ Len(f) \in Nat /\ Len(g) \in Nat
        /\ \A i \in DOMAIN f : f[i] \in Field
        /\ \A i \in DOMAIN s : s[i] \in Field
    BY <2>1, <2>2, LenProperties, ElementOfSeq
  <2>7. \A i \in DOMAIN f : \E d \in Ancestors[c] : \E j \in DOMAIN decl[d].sets : f[i] = decl[d].sets[j]
    <3> TAKE i \in DOMAIN f
    <3>1. CASE i \in DOMAIN g
      <4>1. b # None
        BY <2>4, <3>1
      <4>2. f[i] = types[b].fields[i] /\ i \in DOMAIN types[b].fields
        BY <2>3, <2>5, <3>1, <4>1 DEF Starts
      <4> QED BY <2>3, <4>1, <4>2 DEF FieldsRight
    <3>2. CASE i \notin DOMAIN g
      BY <2>5, <3>2, BaseFacts DEF s
    <3> QED BY <3>1, <3>2
  <2>8. ASSUME NEW j \in DOMAIN s PROVE \E i \in DOMAIN f : f[i] = s[j]
    <3>1. s[j].name \in Names(f)
      BY <2>5 DEF Names
    <3> DEFINE i == IndexOf(f, s[j].name)
    <3>2. i \in DOMAIN f /\ f[i].name = s[j].name
      BY <3>1, IndexFacts
    <3>3. f[i].type = s[j].type
      BY <2>1 DEF Conflict
    <3> HIDE DEF i
    <3>4. f[i] \in Field /\ s[j] \in Field
      BY <2>6, <3>2
    <3>5. f[i] = s[j]
      BY <3>2, <3>3, <3>4 DEF Field
    <3> QED BY <3>2, <3>5
  <2>9. ASSUME NEW d \in Ancestors[c]
        PROVE  /\ Starts(types[d].fields, f)
               /\ \A j \in DOMAIN decl[d].sets : \E i \in DOMAIN f : f[i] = decl[d].sets[j]
    <3>1. CASE d = c
      BY <2>6, <2>8, <3>1 DEF Starts, f, s
    <3>2. CASE d # c
      <4>1. b # None /\ d \in Ancestors[b]
        BY <2>3, <2>4, <3>2
      <4>2. /\ Starts(types[d].fields, g)
            /\ \A j \in DOMAIN decl[d].sets : \E i \in DOMAIN g : g[i] = decl[d].sets[j]
        BY <2>3, <4>1 DEF FieldsRight
      <4>3. d \in Class /\ types[d].fields \in Seq(Field)
        BY <1>1, BaseFacts DEF Grounded, ClassType
      <4>4. DOMAIN types[d].fields = 1..Len(types[d].fields) /\ Len(types[d].fields) \in Nat
        BY <4>3, LenProperties
      <4>5. \A i \in DOMAIN g : i \in DOMAIN f /\ f[i] = g[i]
        BY <2>5, <2>6 DEF Starts
      <4>6. Starts(types[d].fields, f)
        BY <2>5, <2>6, <4>2, <4>4 DEF Starts
      <4> QED BY <4>2, <4>5, <4>6
    <3> QED BY <3>1, <3>2
  <2>10. FieldsRight(c)
    BY <2>5, <2>7, <2>9 DEF FieldsRight, f
  <2> QED BY <2>10
<1> HIDE DEF T
<1>2. D \subseteq T
  BY <1>1, GroundedInduction
<1> QED BY <1>2 DEF T

\* The methods of a class: its own and those of its bases, which but for __init__
\* have one signature in all of them.
MethodsRight(c) ==
  /\ DOMAIN types[c].methods = UNION {OwnMethods(d) : d \in Ancestors[c]}
  /\ \A d \in Ancestors[c] : \A m \in OwnMethods(d) \ {"__init__"} :
       types[c].methods[m] = OwnSig(d, m)
  /\ \A m \in DOMAIN types[c].methods : \E d \in Ancestors[c] :
       m \in OwnMethods(d) /\ types[c].methods[m] = OwnSig(d, m)

LEMMA MethodFacts ==
  ASSUME NEW D, Grounded(D), \A c \in D : MethodsDone(c)
  PROVE  \A c \in D : MethodsRight(c)
<1> DEFINE T == {c \in D : MethodsRight(c)}
<1>1. ASSUME NEW c \in D, types[c].base # None => types[c].base \in T PROVE c \in T
  <2> DEFINE b == types[c].base
             f == types[c].methods
             g == Inherited(c)
  <2>1. /\ ~Mismatched(c)
        /\ f = [m \in DOMAIN g \cup OwnMethods(c) |-> IF m \in OwnMethods(c) THEN OwnSig(c, m) ELSE g[m]]
    BY DEF MethodsDone
  <2>2. b # None => g = types[b].methods /\ Ancestors[c] = {c} \cup Ancestors[b] /\ MethodsRight(b)
    BY <1>1, BaseFacts DEF Inherited
  <2>3. b = None => DOMAIN g = {} /\ Ancestors[c] = {c}
    BY BaseFacts DEF Inherited
  <2>4. c \in Ancestors[c]
    BY BaseFacts
  <2> HIDE DEF b, f, g
  <2>5. DOMAIN f = DOMAIN g \cup OwnMethods(c)
    BY <2>1
  <2>6. DOMAIN f = UNION {OwnMethods(d) : d \in Ancestors[c]}
    <3>1. CASE b = None
      BY <2>3, <2>5, <3>1
    <3>2. CASE b # None
      BY <2>2, <2>5, <3>2 DEF MethodsRight
    <3> QED BY <3>1, <3>2
  <2>7. ASSUME NEW d \in Ancestors[c], NEW m \in OwnMethods(d), m # "__init__"
        PROVE  f[m] = OwnSig(d, m)
    <3>1. CASE d = c
      BY <2>1, <2>5, <3>1
    <3>2. CASE d # c
      <4>1. b # None /\ d \in Ancestors[b]
        BY <2>2, <2>3, <3>2
      <4>2. m \in DOMAIN g /\ g[m] = OwnSig(d, m)
        BY <2>2, <2>7, <4>1 DEF MethodsRight
      <4>3. m \in OwnMethods(c) => g[m] = OwnSig(c, m)
        BY <2>1, <2>7, <4>2 DEF Mismatched, g
      <4> QED BY <2>1, <2>5, <4>2, <4>3
    <3> QED BY <3>1, <3>2
  <2>8. ASSUME NEW m \in DOMAIN f
        PROVE  \E d \in Ancestors[c] : m \in OwnMethods(d) /\ f[m] = OwnSig(d, m)
    <3>1. CASE m \in OwnMethods(c)
      BY <2>1, <2>4, <3>1
    <3>2. CASE m \notin OwnMethods(c)
      <4>1. m \in DOMAIN g /\ f[m] = g[m] /\ b # None
        BY <2>1, <2>3, <2>5, <3>2
      <4> QED BY <2>2, <4>1 DEF MethodsRight
    <3> QED BY <3>1, <3>2
  <2>9. MethodsRight(c)
    BY <2>6, <2>7, <2>8 DEF MethodsRight, f
  <2> QED BY <2>9
<1> HIDE DEF T
<1>2. D \subseteq T
  BY <1>1, GroundedInduction
<1> QED BY <1>2 DEF T

-----------------------------------------------------------------------------
\* The passes keep the invariant.

LEMMA StandingIsGrounded ==
  ASSUME NEW k \in 1..5, NEW n, Standing(k, n)
  PROVE  /\ decl \in Programs /\ types \in [Class -> ClassType] /\ tables \in [Class -> Seq(SlotOf)]
         /\ n \in 1..Count + 1
         /\ Rising(BaseOf) /\ Grounded(Class) /\ Grounded({c \in Class : c < n})
<1> USE ProgramAssumption DEF None
<1>1. /\ decl \in Programs /\ types \in [Class -> ClassType] /\ tables \in [Class -> Seq(SlotOf)]
      /\ n \in 1..Count + 1
  BY DEF Standing
<1>2. ASSUME NEW c \in Class
      PROVE  /\ BaseOf[c] = types[c].base /\ types[c].base \in 0..Count /\ types[c].base < c
             /\ types[c].base # None => types[c].base \in Class
  <2>1. BaseOf[c] = types[c].base /\ types[c].base \in 0..Count
    BY <1>1 DEF BaseOf, ClassType
  <2>2. (types[c].base = decl[c].base /\ decl[c].base < c) \/ types[c].base = None
    BY DEF Standing, TypeDone
  <2> QED BY <2>1, <2>2 DEF Class
<1>3. Rising(BaseOf)
  BY <1>2 DEF Rising, BaseOf
<1>4. Grounded(Class)
  BY <1>1, <1>2, <1>3 DEF Grounded
<1>5. Grounded({c \in Class : c < n})
  <2>1. \A c \in Class : c < n /\ types[c].base # None => types[c].base < n
    BY <1>1, <1>2 DEF Class
  <2> QED BY <1>1, <1>2, <1>3, <2>1 DEF Grounded
<1> QED BY <1>1, <1>3, <1>4, <1>5

\* Once the bases are resolved, the ancestors are those the program says.
LEMMA SameAncestors ==
  ASSUME NEW k \in 2..5, NEW n, Standing(k, n)
  PROVE  /\ \A c \in Class : TypeDone(c)
         /\ AncestorsIn([c \in Class |-> decl[c].base]) = Ancestors
<1>1. \A c \in Class : TypeDone(c)
  BY DEF Standing, Through
<1>2. [c \in Class |-> decl[c].base] = [c \in Class |-> types[c].base]
  BY <1>1 DEF TypeDone
<1> QED BY <1>1, <1>2 DEF Ancestors

\* A program that is refused for a reason stays as it was.
LEMMA RefuseStands ==
  ASSUME NEW k \in 1..4, Standing(k, next), Refuse, ~Compatible
  PROVE  CInv'
<1>1. pass' = "refused" /\ decl' = decl /\ next' = next /\ types' = types /\ tables' = tables
  BY DEF Refuse
<1>2. Compatible' <=> Compatible
  BY <1>1 DEF Compatible, OwnMethods, OwnSig
<1>3. \A c \in Class : /\ TypeDone(c)' <=> TypeDone(c)
                       /\ MethodsDone(c)' <=> MethodsDone(c)
                       /\ FieldsDone(c)' <=> FieldsDone(c)
                       /\ SlotsDone(c)' <=> SlotsDone(c)
  BY <1>1, DoneStays
<1>4. Standing(k, next)'
  BY <1>1, <1>3 DEF Standing
<1>5. (PassAt(k, pass) \/ (pass = "refused" /\ ~Compatible))'
  BY <1>1, <1>2
<1> QED BY <1>4, <1>5 DEF CInv

LEMMA RegisterTypeStands ==
  ASSUME Standing(1, next), PassAt(1, pass), RegisterType
  PROVE  CInv'
<1> USE ProgramAssumption DEF None
<1> DEFINE base == decl[next].base
<1>1. PICK d \in Class : d = next
  BY DEF RegisterType, Pass
<1>2. /\ decl \in Programs /\ types \in [Class -> ClassType] /\ tables \in [Class -> Seq(SlotOf)]
      /\ d \in Nat /\ d > 0 /\ types[d] \in ClassType /\ base \in 0..Count
  BY <1>1, DeclFacts DEF Standing, Class
<1>3. types[d].base = None /\ types[d].id = 0 /\ types[d].methods = <<>> /\ types[d].fields = <<>>
  BY <1>1, <1>2 DEF Standing, Through
<1>4. CASE base # None /\ types[base] = Unregistered
  <2>1. Refuse
    BY <1>4 DEF RegisterType
  <2>2. base \in Class
    BY <1>2, <1>4 DEF Class
  <2>3. ~(base < d)
    <3>1. ASSUME base < d PROVE types[base].id = base
      BY <1>1, <2>2, <3>1 DEF Standing, Through, TypeDone
    <3>2. types[base].id = 0
      BY <1>4 DEF Unregistered
    <3> QED BY <1>4, <3>1, <3>2
  <2>4. ~Compatible
    BY <1>1, <2>3 DEF Compatible
  <2>5. 1 \in 1..4
    OBVIOUS
  <2> QED BY <2>1, <2>4, <2>5, RefuseStands
<1>5. CASE ~(base # None /\ types[base] = Unregistered)
  <2>1. /\ types' = [types EXCEPT ![next].base = base, ![next].id = next]
        /\ decl' = decl /\ next' = next + 1 /\ pass' = pass /\ tables' = tables
    BY <1>5 DEF RegisterType, Advance
  <2> DEFINE t == [base |-> base, fields |-> types[d].fields, methods |-> types[d].methods, id |-> d]
  <2>2. types' = [types EXCEPT ![d] = t]
    <3> DEFINE u == [types EXCEPT ![d].base = base]
               v == [u EXCEPT ![d].id = d]
               r == [types[d] EXCEPT !.base = base]
    <3>1. types' = v
      BY <1>1, <2>1
    <3>2. types[d] = [base |-> types[d].base, fields |-> types[d].fields, methods |-> types[d].methods, id |-> types[d].id]
      BY <1>2 DEF ClassType
    <3>3. r = [base |-> base, fields |-> types[d].fields, methods |-> types[d].methods, id |-> types[d].id]
      BY <3>2
    <3>4. u = [types EXCEPT ![d] = r]
      BY <1>2
    <3> HIDE DEF r, u
    <3>5. u[d] = r /\ DOMAIN u = Class
      BY <1>2, <3>4
    <3>6. v = [u EXCEPT ![d] = [r EXCEPT !.id = d]]
      BY <3>5
    <3>7. [r EXCEPT !.id = d] = t
      BY <3>3
    <3> HIDE DEF v, t
    <3> QED BY <1>2, <3>1, <3>4, <3>6, <3>7
  <2>3. t \in ClassType
    <3>1. d \in 0..Count
      BY <1>1 DEF Class
    <3> QED BY <1>2, <3>1 DEF ClassType
  <2>4. types' \in [Class -> ClassType] /\ types'[d] = t /\ \A c \in Class : c # d => types'[c] = types[c]
    BY <1>2, <2>2, <2>3
  <2>5. t.base = base /\ t.id = d /\ t.fields = types[d].fields /\ t.methods = types[d].methods
    OBVIOUS
  <2> HIDE DEF t
  <2>6. base < d
    <3>1. CASE base = None
      BY <1>2, <3>1
    <3>2. CASE base # None
      <4>1. base \in Class /\ types[base] # Unregistered /\ types[base] \in ClassType
        BY <1>2, <1>5, <3>2 DEF Class
      <4>2. CASE Through(1, 1, next, base)
        BY <1>1, <4>1, <4>2 DEF Through
      <4>3. CASE ~Through(1, 1, next, base)
        <5>1. /\ types[base].base = None /\ types[base].id = 0
              /\ types[base].methods = <<>> /\ types[base].fields = <<>>
          BY <4>1, <4>3 DEF Standing, Through
        <5>2. types[base] = [base |-> None, fields |-> <<>>, methods |-> <<>>, id |-> 0]
          BY <4>1, <5>1 DEF ClassType
        <5> QED BY <4>1, <5>2 DEF Unregistered
      <4> QED BY <4>2, <4>3
    <3> QED BY <3>1, <3>2
  <2>7. TypeDone(d)'
    BY <1>1, <2>1, <2>4, <2>5, <2>6 DEF TypeDone
  <2>8. Standing(1, next)'
    <3>1. 1 \in 1..4
      OBVIOUS
    <3> QED BY <1>1, <1>2, <2>1, <2>4, <2>5, <2>7, <3>1, StepStands
  <2>9. 1 \in 1..5 /\ PassAt(1, pass)'
    BY <2>1 DEF PassAt
  <2> QED BY <2>8, <2>9 DEF CInv
<1> QED BY <1>4, <1>5

LEMMA RegisterMethodsStands ==
  ASSUME Standing(2, next), PassAt(2, pass), RegisterMethods
  PROVE  CInv'
<1> USE ProgramAssumption DEF None
<1>1. PICK d \in Class : d = next
  BY DEF RegisterMethods, Pass
<1>2. /\ decl \in Programs /\ types \in [Class -> ClassType] /\ tables \in [Class -> Seq(SlotOf)]
      /\ d \in Nat /\ types[d] \in ClassType /\ 2 \in 2..5 /\ 2 \in 1..5 /\ 2 \in 1..4
      /\ Grounded(Class) /\ Grounded({c \in Class : c < d})
  <2>1. 2 \in 2..5 /\ 2 \in 1..5 /\ 2 \in 1..4 /\ d \in Nat
    BY <1>1 DEF Class
  <2>2. Standing(2, d)
    BY <1>1
  <2> QED BY <1>1, <2>1, <2>2, StandingIsGrounded
<1>3. types[d].base # None => types[d].base \in {c \in Class : c < d}
  <2>1. types[d].base \in 0..Count /\ types[d].base < d
    BY <1>1, <1>2 DEF Grounded, Rising, BaseOf, ClassType
  <2> QED BY <2>1 DEF Class
<1>4. \A c \in {c \in Class : c < d} : MethodsRight(c)
  <2>1. \A c \in {c \in Class : c < d} : MethodsDone(c)
    BY <1>1 DEF Standing, Through
  <2> QED BY <1>2, <2>1, MethodFacts
<1>5. types[d].base # None => /\ types[types[d].base] \in ClassType /\ MethodsRight(types[d].base)
                              /\ Ancestors[d] = {d} \cup Ancestors[types[d].base]
  BY <1>2, <1>3, <1>4, BaseFacts
<1>6. CASE Mismatched(next)
  <2>1. PICK m \in OwnMethods(d) \cap DOMAIN Inherited(d) :
               m # "__init__" /\ Inherited(d)[m] # OwnSig(d, m)
    BY <1>1, <1>6 DEF Mismatched
  <2>2. types[d].base # None /\ Inherited(d) = types[types[d].base].methods
    BY <2>1 DEF Inherited
  <2>3. PICK e \in Ancestors[types[d].base] : m \in OwnMethods(e) /\ Inherited(d)[m] = OwnSig(e, m)
    BY <1>5, <2>1, <2>2 DEF MethodsRight
  <2>4. e \in Ancestors[d]
    BY <1>5, <2>2, <2>3
  <2>5. m \in (OwnMethods(d) \cap OwnMethods(e)) \ {"__init__"} /\ OwnSig(d, m) # OwnSig(e, m)
    BY <2>1, <2>3
  <2>6. AncestorsIn([c \in Class |-> decl[c].base]) = Ancestors
    BY <1>2, SameAncestors
  <2>7. ~Compatible
    BY <2>4, <2>5, <2>6 DEF Compatible
  <2>8. Refuse
    BY <1>6 DEF RegisterMethods
  <2> QED BY <1>2, <2>7, <2>8, RefuseStands
<1>7. CASE ~Mismatched(next)
  <2> DEFINE g == [m \in DOMAIN Inherited(d) \cup OwnMethods(d) |->
                     IF m \in OwnMethods(d) THEN OwnSig(d, m) ELSE Inherited(d)[m]]
             t == [types[d] EXCEPT !.methods = g]
  <2>1. /\ types' = [types EXCEPT ![d] = t]
        /\ decl' = decl /\ next' = next + 1 /\ pass' = pass /\ tables' = tables
    BY <1>1, <1>2, <1>7 DEF RegisterMethods, Advance
  <2>2. g \in Sigs
    <3>1. Inherited(d) \in Sigs
      <4>1. <<>> \in [{} -> STRING]
        OBVIOUS
      <4>2. <<>> \in Sigs
        BY <4>1 DEF Sigs
      <4> QED BY <1>5, <4>2 DEF Inherited, ClassType
    <3>2. PICK D \in SUBSET STRING : Inherited(d) \in [D -> STRING]
      BY <3>1 DEF Sigs
    <3>3. OwnMethods(d) \subseteq STRING /\ \A m \in OwnMethods(d) : OwnSig(d, m) \in STRING
      BY <1>2, DeclFacts
    <3>4. g \in [D \cup OwnMethods(d) -> STRING]
      BY <3>2, <3>3
    <3>5. D \cup OwnMethods(d) \in SUBSET STRING
      BY <3>2, <3>3
    <3> HIDE DEF g
    <3> QED BY <3>4, <3>5 DEF Sigs
  <2> HIDE DEF g
  <2>3. /\ t \in ClassType /\ t.base = types[d].base /\ t.id = types[d].id
        /\ t.fields = types[d].fields /\ t.methods = g
    BY <1>2, <2>2 DEF ClassType
  <2> HIDE DEF t
  <2>4. types' \in [Class -> ClassType] /\ types'[d] = t /\ \A c \in Class : c # d => types'[c] = types[c]
    BY <1>2, <2>1, <2>3
  <2>5. MethodsDone(d)'
    <3>1. Inherited(d)' = Inherited(d)
      <4>1. types'[d].base = types[d].base
        BY <2>3, <2>4
      <4>2. types[d].base # None => types'[types[d].base] = types[types[d].base]
        BY <1>2, <1>3, <2>4
      <4> QED BY <4>1, <4>2 DEF Inherited
    <3>2. OwnMethods(d)' = OwnMethods(d) /\ \A m : OwnSig(d, m)' = OwnSig(d, m)
      BY <2>1 DEF OwnMethods, OwnSig
    <3>3. ~Mismatched(d)'
      BY <1>1, <1>7, <3>1, <3>2 DEF Mismatched
    <3>4. types'[d].methods = g
      BY <2>3, <2>4
    <3> QED BY <3>1, <3>2, <3>3, <3>4 DEF MethodsDone, g
  <2>6. Standing(2, next)'
    <3>1. tables' \in [Class -> Seq(SlotOf)] /\ \A c \in Class : tables'[c] = tables[c]
      BY <1>2, <2>1
    <3>2. /\ types'[d].base = types[d].base /\ types'[d].id = types[d].id
          /\ types'[d].fields = types[d].fields
      BY <2>3, <2>4
    <3>3. \A c \in Class : c # d => types'[c] = types[c] /\ tables'[c] = tables[c]
      BY <2>4, <3>1
    <3>4. /\ decl' = decl /\ next' = next + 1 /\ types' \in [Class -> ClassType]
          /\ MethodsDone(d)' /\ 2 \in 1..4 /\ d = next
      BY <1>1, <1>2, <2>1, <2>4, <2>5
    <3> QED BY <3>1, <3>2, <3>3, <3>4, StepStands
  <2>7. PassAt(2, pass)'
    BY <2>1 DEF PassAt
  <2> QED BY <1>2, <2>6, <2>7 DEF CInv
<1> QED BY <1>6, <1>7

LEMMA InferFieldsStands ==
  ASSUME Standing(3, next), PassAt(3, pass), InferFields
  PROVE  CInv'
<1> USE ProgramAssumption DEF None
<1>1. PICK d \in Class : d = next
  BY DEF InferFields, Pass
<1>2. /\ decl \in Programs /\ types \in [Class -> ClassType] /\ tables \in [Class -> Seq(SlotOf)]
      /\ d \in Nat /\ types[d] \in ClassType /\ 3 \in 2..5 /\ 3 \in 1..5 /\ 3 \in 1..4
      /\ Grounded(Class) /\ Grounded({c \in Class : c < d})
  <2>1. 3 \in 2..5 /\ 3 \in 1..5 /\ 3 \in 1..4 /\ d \in Nat
    BY <1>1 DEF Class
  <2>2. Standing(3, d)
    BY <1>1
  <2> QED BY <1>1, <2>1, <2>2, StandingIsGrounded
<1>3. types[d].base # None => types[d].base \in {c \in Class : c < d}
  <2>1. types[d].base \in 0..Count /\ types[d].base < d
    BY <1>1, <1>2 DEF Grounded, Rising, BaseOf, ClassType
  <2> QED BY <2>1 DEF Class
<1>4. \A c \in {c \in Class : c < d} : FieldsRight(c)
  <2>1. \A c \in {c \in Class : c < d} : FieldsDone(c)
    BY <1>1 DEF Standing, Through
  <2> QED BY <1>2, <2>1, FieldFacts
<1>5. types[d].base # None => /\ types[types[d].base] \in ClassType /\ FieldsRight(types[d].base)
                              /\ Ancestors[d] = {d} \cup Ancestors[types[d].base]
  BY <1>2, <1>3, <1>4, BaseFacts
<1> DEFINE s == decl[d].sets
           b == BaseFields(d)
           f == AddAll(b, s, {})
<1>6. s \in Seq(Field) /\ b \in Seq(Field)
  BY <1>2, <1>5, DeclFacts, EmptySeq DEF BaseFields, ClassType
<1>7. /\ f \in Seq(Field) /\ Starts(b, f) /\ Names(f) = Names(b) \cup Names(s)
      /\ \A i \in DOMAIN f : i \in DOMAIN b \/ \E j \in DOMAIN s : f[i] = s[j] /\ s[j].name \notin Names(b) \cup {}
  <2>1. Names(s) \ {} = Names(s)
    OBVIOUS
  <2> HIDE DEF f, b, s
  <2> QED BY <1>6, <2>1, AddAllFacts DEF f
<1>8. CASE Conflict(f, s)
  <2>1. PICK i \in DOMAIN s : f[IndexOf(f, s[i].name)].type # s[i].type
    BY <1>8 DEF Conflict
  <2> DEFINE x == IndexOf(f, s[i].name)
  <2>2. x \in DOMAIN f /\ f[x].name = s[i].name /\ f[x].type # s[i].type
    BY <1>7, <2>1, IndexFacts DEF Names
  <2> HIDE DEF x, f
  <2>3. PICK e \in Ancestors[d] : \E j \in DOMAIN decl[e].sets : f[x] = decl[e].sets[j]
    <3>1. CASE x \in DOMAIN b
      <4>1. types[d].base # None /\ b = types[types[d].base].fields
        BY <3>1 DEF BaseFields
      <4>2. f[x] = b[x]
        BY <1>7, <3>1 DEF Starts
      <4> QED BY <1>5, <3>1, <4>1, <4>2 DEF FieldsRight
    <3>2. CASE x \notin DOMAIN b
      <4>1. d \in Ancestors[d]
        BY <1>2, BaseFacts
      <4> QED BY <1>7, <2>2, <3>2, <4>1
    <3> QED BY <3>1, <3>2
  <2>4. PICK j \in DOMAIN decl[e].sets : f[x] = decl[e].sets[j]
    BY <2>3
  <2>5. decl[d].sets[i].name = decl[e].sets[j].name /\ decl[d].sets[i].type # decl[e].sets[j].type
    BY <2>2, <2>4
  <2>6. AncestorsIn([c \in Class |-> decl[c].base]) = Ancestors
    BY <1>2, SameAncestors
  <2>7. ~Compatible
    BY <2>3, <2>5, <2>6 DEF Compatible
  <2>8. Refuse
    BY <1>1, <1>8 DEF InferFields, f
  <2> QED BY <1>2, <2>7, <2>8, RefuseStands
<1>9. CASE ~Conflict(f, s)
  <2> DEFINE t == [types[d] EXCEPT !.fields = f]
  <2>1. /\ types' = [types EXCEPT ![d] = t]
        /\ decl' = decl /\ next' = next + 1 /\ pass' = pass /\ tables' = tables
    BY <1>1, <1>2, <1>9 DEF InferFields, Advance
  <2> HIDE DEF f
  <2>2. /\ t \in ClassType /\ t.base = types[d].base /\ t.id = types[d].id
        /\ t.methods = types[d].methods /\ t.fields = f
    BY <1>2, <1>7 DEF ClassType
  <2> HIDE DEF t
  <2>3. types' \in [Class -> ClassType] /\ types'[d] = t /\ \A c \in Class : c # d => types'[c] = types[c]
    BY <1>2, <2>1, <2>2
  <2>4. FieldsDone(d)'
    <3>1. BaseFields(d)' = BaseFields(d)
      <4>1. types'[d].base = types[d].base
        BY <2>2, <2>3
      <4>2. types[d].base # None => types[d].base \in Class /\ types[d].base # d
        BY <1>2, <1>3
      <4>3. types[d].base # None => types'[types[d].base] = types[types[d].base]
        BY <2>3, <4>2
      <4> HIDE DEF b
      <4> QED BY <4>1, <4>3 DEF BaseFields
    <3>2. types'[d].fields = f
      BY <2>2, <2>3
    <3> QED BY <1>9, <2>1, <3>1, <3>2 DEF FieldsDone, f
  <2>5. Standing(3, next)'
    <3>1. tables' \in [Class -> Seq(SlotOf)] /\ \A c \in Class : tables'[c] = tables[c]
      BY <1>2, <2>1
    <3>2. /\ types'[d].base = types[d].base /\ types'[d].id = types[d].id
          /\ types'[d].methods = types[d].methods
      BY <2>2, <2>3
    <3>3. \A c \in Class : c # d => types'[c] = types[c] /\ tables'[c] = tables[c]
      BY <2>3, <3>1
    <3>4. /\ decl' = decl /\ next' = next + 1 /\ types' \in [Class -> ClassType]
          /\ FieldsDone(d)' /\ 3 \in 1..4 /\ d = next
      BY <1>1, <1>2, <2>1, <2>3, <2>4
    <3> QED BY <3>1, <3>2, <3>3, <3>4, StepStands
  <2>6. PassAt(3, pass)'
    BY <2>1 DEF PassAt
  <2> QED BY <1>2, <2>5, <2>6 DEF CInv
<1> QED BY <1>8, <1>9

LEMMA SeqOfFunction ==
  ASSUME NEW S, NEW n \in Nat, NEW f \in [1..n -> S]
  PROVE  f \in Seq(S) /\ Len(f) = n /\ DOMAIN f = 1..n
<1>1. f \in Seq(S) /\ DOMAIN f = 1..n
  BY SeqDef
<1>2. DOMAIN f = 1..Len(f) /\ Len(f) \in Nat
  BY <1>1, LenProperties
<1>3. Len(f) = n
  <2>1. n \in 1..n \/ n = 0
    OBVIOUS
  <2>2. Len(f) \in 1..Len(f) \/ Len(f) = 0
    BY <1>2
  <2> QED BY <1>1, <1>2, <2>1, <2>2
<1> QED BY <1>1, <1>3

\* What a class makes of the slots of its base, and those it brings.
LEMMA SlotParts ==
  ASSUME decl \in Programs, types \in [Class -> ClassType], tables \in [Class -> Seq(SlotOf)],
         NEW c \in Class
  PROVE  /\ OverBase(c) \in Seq(SlotOf) /\ OwnSlots(c) \in Seq(SlotOf)
         /\ types[c].base = None => OverBase(c) = <<>>
         /\ types[c].base # None =>
              /\ Len(OverBase(c)) = Len(tables[types[c].base])
              /\ DOMAIN OverBase(c) = DOMAIN tables[types[c].base]
              /\ \A i \in DOMAIN tables[types[c].base] :
                   OverBase(c)[i] = [class |-> IF tables[types[c].base][i].name \in OwnMethods(c)
                                               THEN c ELSE tables[types[c].base][i].class,
                                     name  |-> tables[types[c].base][i].name]
         /\ Names(OwnSlots(c)) = OwnMethods(c) \cup {"__str__", "__repr__"}
         /\ \A i \in DOMAIN OwnSlots(c) : OwnSlots(c)[i].class = c
<1> USE ProgramAssumption DEF None
<1> DEFINE b == types[c].base
           base == IF b = None THEN <<>> ELSE tables[b]
           over(i) == IF base[i].name \in OwnMethods(c) THEN [base[i] EXCEPT !.class = c] ELSE base[i]
<1>1. OverBase(c) = [i \in DOMAIN base |-> over(i)]
  BY DEF OverBase
<1>2. b \in 0..Count /\ (b # None => b \in Class /\ base \in Seq(SlotOf) /\ base = tables[b])
  BY DEF ClassType, Class
<1>3. base \in Seq(SlotOf)
  BY <1>2, EmptySeq
<1>4. b = None => base = <<>>
  OBVIOUS
<1> HIDE DEF b, base
<1>5. DOMAIN base = 1..Len(base) /\ Len(base) \in Nat /\ \A i \in DOMAIN base : base[i] \in SlotOf
  BY <1>3, LenProperties, ElementOfSeq
<1>6. ASSUME NEW i \in DOMAIN base
      PROVE  /\ over(i) = [class |-> IF base[i].name \in OwnMethods(c) THEN c ELSE base[i].class,
                           name  |-> base[i].name]
             /\ over(i) \in SlotOf
  <2>1. base[i] \in SlotOf
    BY <1>5
  <2>2. over(i) = [class |-> IF base[i].name \in OwnMethods(c) THEN c ELSE base[i].class,
                   name  |-> base[i].name]
    BY <2>1 DEF SlotOf
  <2> QED BY <2>1, <2>2 DEF SlotOf
<1> HIDE DEF over
<1>7. OverBase(c) \in [1..Len(base) -> SlotOf]
  BY <1>1, <1>5, <1>6
<1>8. /\ OverBase(c) \in Seq(SlotOf) /\ Len(OverBase(c)) = Len(base) /\ DOMAIN OverBase(c) = DOMAIN base
      /\ \A i \in DOMAIN base : OverBase(c)[i] = over(i)
  BY <1>1, <1>5, <1>7, SeqOfFunction
<1>9. b = None => OverBase(c) = <<>>
  <2> SUFFICES ASSUME b = None PROVE OverBase(c) = <<>>
    OBVIOUS
  <2>1. Len(OverBase(c)) = 0
    BY <1>4, <1>8, EmptySeq
  <2> QED BY <1>8, <2>1, EmptySeq
<1>10. b # None => base = tables[b]
  BY <1>2
<1>11. /\ types[c].base = None => OverBase(c) = <<>>
       /\ types[c].base # None =>
              /\ Len(OverBase(c)) = Len(tables[types[c].base])
              /\ DOMAIN OverBase(c) = DOMAIN tables[types[c].base]
              /\ \A i \in DOMAIN tables[types[c].base] :
                   OverBase(c)[i] = [class |-> IF tables[types[c].base][i].name \in OwnMethods(c)
                                               THEN c ELSE tables[types[c].base][i].class,
                                     name  |-> tables[types[c].base][i].name]
  <2>1. types[c].base = b
    BY DEF b
  <2> QED BY <1>6, <1>8, <1>9, <1>10, <2>1
<1> DEFINE n == Len(decl[c].methods)
           own(i) == [class |-> c, name |-> CASE i <= n     -> decl[c].methods[i].name
                                              [] i = n + 1 -> "__str__"
                                              [] i = n + 2 -> "__repr__"]
<1>12. OwnSlots(c) = [i \in 1..n + 2 |-> own(i)]
  BY DEF OwnSlots
<1>13. /\ n \in Nat /\ DOMAIN decl[c].methods = 1..n
       /\ \A i \in 1..n : decl[c].methods[i].name \in STRING
  <2>1. decl[c].methods \in Seq([name : STRING, sig : STRING])
    BY DeclFacts
  <2>2. \A i \in DOMAIN decl[c].methods : decl[c].methods[i] \in [name : STRING, sig : STRING]
    <3> DEFINE M == [name : STRING, sig : STRING]
    <3>1. decl[c].methods \in Seq(M)
      BY <2>1
    <3> HIDE DEF M
    <3>2. \A i \in DOMAIN decl[c].methods : decl[c].methods[i] \in M
      BY <3>1, LenProperties, ElementOfSeq
    <3> QED BY <3>2 DEF M
  <2>3. n \in Nat /\ DOMAIN decl[c].methods = 1..n
    BY <2>1, LenProperties
  <2> HIDE DEF n
  <2> QED BY <2>2, <2>3
<1> HIDE DEF n
<1>14. /\ \A i \in 1..n : own(i) = [class |-> c, name |-> decl[c].methods[i].name]
       /\ own(n + 1) = [class |-> c, name |-> "__str__"]
       /\ own(n + 2) = [class |-> c, name |-> "__repr__"]
  <2>1. \A i \in 1..n : own(i) = [class |-> c, name |-> decl[c].methods[i].name]
    BY <1>13
  <2>2. own(n + 1) = [class |-> c, name |-> "__str__"]
    <3>1. ~(n + 1 <= n)
      BY <1>13
    <3>2. n + 1 # n + 2
      BY <1>13
    <3> QED BY <3>1, <3>2
  <2>3. own(n + 2) = [class |-> c, name |-> "__repr__"]
    <3>1. ~(n + 2 <= n)
      BY <1>13
    <3>2. n + 2 # n + 1
      BY <1>13
    <3> QED BY <3>1, <3>2
  <2> QED BY <2>1, <2>2, <2>3
<1> HIDE DEF own
<1>15. \A i \in 1..n + 2 : i \in 1..n \/ i = n + 1 \/ i = n + 2
  BY <1>13
<1>16. \A i \in 1..n + 2 : own(i) \in SlotOf /\ own(i).class = c
  <2> TAKE i \in 1..n + 2
  <2>1. CASE i \in 1..n
    <3>1. decl[c].methods[i].name \in STRING
      BY <1>13, <2>1
    <3>2. own(i) = [class |-> c, name |-> decl[c].methods[i].name]
      BY <1>14, <2>1
    <3> QED BY <3>1, <3>2 DEF SlotOf
  <2>2. CASE i = n + 1
    <3>1. [class |-> c, name |-> "__str__"] \in SlotOf
      BY DEF SlotOf
    <3>2. own(i) = [class |-> c, name |-> "__str__"]
      BY <1>14, <2>2
    <3> QED BY <3>1, <3>2
  <2>3. CASE i = n + 2
    <3>1. [class |-> c, name |-> "__repr__"] \in SlotOf
      BY DEF SlotOf
    <3>2. own(i) = [class |-> c, name |-> "__repr__"]
      BY <1>14, <2>3
    <3> QED BY <3>1, <3>2
  <2> QED BY <1>15, <2>1, <2>2, <2>3
<1>17. OwnSlots(c) \in Seq(SlotOf) /\ DOMAIN OwnSlots(c) = 1..n + 2
  <2>1. n + 2 \in Nat
    BY <1>13
  <2>2. OwnSlots(c) \in [1..n + 2 -> SlotOf]
    BY <1>12, <1>16
  <2> QED BY <2>1, <2>2, SeqOfFunction
<1>18. \A i \in 1..n + 2 : OwnSlots(c)[i] = own(i)
  BY <1>12
<1>19. Names(OwnSlots(c)) = OwnMethods(c) \cup {"__str__", "__repr__"}
  <2>1. Names(OwnSlots(c)) = {own(i).name : i \in 1..n + 2}
    <3>1. Names(OwnSlots(c)) = {OwnSlots(c)[i].name : i \in 1..n + 2}
      BY <1>17 DEF Names
    <3> QED BY <1>18, <3>1
  <2>2. OwnMethods(c) = {decl[c].methods[i].name : i \in 1..n}
    BY <1>13 DEF OwnMethods, Names
  <2>3. 1..n + 2 = 1..n \cup {n + 1, n + 2}
    BY <1>13
  <2>4. \A i \in 1..n : own(i).name = decl[c].methods[i].name
    BY <1>14
  <2>5. own(n + 1).name = "__str__" /\ own(n + 2).name = "__repr__"
    BY <1>14
  <2>6. {own(i).name : i \in 1..n + 2} = {own(i).name : i \in 1..n} \cup {own(n + 1).name, own(n + 2).name}
    <3> HIDE <2>1
    <3> QED BY <2>3
  <2>7. {own(i).name : i \in 1..n} = OwnMethods(c)
    BY <2>2, <2>4
  <2> QED BY <2>1, <2>5, <2>6, <2>7
<1> QED BY <1>8, <1>11, <1>16, <1>17, <1>18, <1>19

LEMMA ComputeSlotsStands ==
  ASSUME Standing(4, next), PassAt(4, pass), ComputeSlots
  PROVE  CInv'
<1> USE ProgramAssumption DEF None
<1>1. PICK d \in Class : d = next
  BY DEF ComputeSlots, Pass
<1>2. /\ decl \in Programs /\ types \in [Class -> ClassType] /\ tables \in [Class -> Seq(SlotOf)]
      /\ d \in Nat /\ types[d] \in ClassType
      /\ 4 \in 1..5 /\ 4 \in 1..4 /\ Grounded(Class)
  <2>1. 4 \in 1..5 /\ 4 \in 1..4 /\ d \in Nat
    BY <1>1 DEF Class
  <2>2. Standing(4, d)
    BY <1>1
  <2> QED BY <1>1, <2>1, <2>2, StandingIsGrounded
<1> DEFINE s == AddAll(OverBase(d), OwnSlots(d), {"__init__"})
<1>3. s \in Seq(SlotOf)
  <2>1. OverBase(d) \in Seq(SlotOf) /\ OwnSlots(d) \in Seq(SlotOf)
    BY <1>2, SlotParts
  <2> QED BY <2>1, AddAllFacts
<1>4. /\ tables' = [tables EXCEPT ![d] = s]
      /\ decl' = decl /\ next' = next + 1 /\ pass' = pass /\ types' = types
  BY <1>1 DEF ComputeSlots, Advance
<1> HIDE DEF s
<1>5. tables' \in [Class -> Seq(SlotOf)] /\ tables'[d] = s /\ \A c \in Class : c # d => tables'[c] = tables[c]
  BY <1>2, <1>3, <1>4
<1>6. SlotsDone(d)'
  <2>1. types[d].base # None => types[d].base \in Class /\ types[d].base # d
    BY <1>2 DEF Grounded, Rising, BaseOf
  <2>2. types[d].base # None => tables'[types[d].base] = tables[types[d].base]
    BY <1>5, <2>1
  <2>3. OverBase(d)' = OverBase(d)
    BY <1>4, <2>2 DEF OverBase, OwnMethods
  <2>4. OwnSlots(d)' = OwnSlots(d)
    BY <1>4 DEF OwnSlots
  <2> QED BY <1>5, <2>3, <2>4 DEF SlotsDone, s
<1>7. Standing(4, next)'
  <2>1. /\ decl' = decl /\ next' = next + 1 /\ types' \in [Class -> ClassType]
        /\ SlotsDone(d)' /\ 4 \in 1..4 /\ d = next
    BY <1>1, <1>2, <1>4, <1>6
  <2>2. /\ types'[d].base = types[d].base /\ types'[d].id = types[d].id
        /\ types'[d].methods = types[d].methods /\ types'[d].fields = types[d].fields
    BY <1>4
  <2>3. \A c \in Class : c # d => types'[c] = types[c] /\ tables'[c] = tables[c]
    BY <1>4, <1>5
  <2> QED BY <1>5, <2>1, <2>2, <2>3, StepStands
<1>8. PassAt(4, pass)'
  BY <1>4 DEF PassAt
<1> QED BY <1>2, <1>7, <1>8 DEF CInv

LEMMA CompilePass ==
  ASSUME Compile
  PROVE  pass = "types" \/ pass = "methods" \/ pass = "fields" \/ pass = "slots"
<1>1. RegisterType => pass = "types"
  BY DEF RegisterType, Pass
<1>2. RegisterMethods => pass = "methods"
  BY DEF RegisterMethods, Pass
<1>3. InferFields => pass = "fields"
  BY DEF InferFields, Pass
<1>4. ComputeSlots => pass = "slots"
  BY DEF ComputeSlots, Pass
<1>5. ASSUME NextPass
      PROVE  pass = "types" \/ pass = "methods" \/ pass = "fields" \/ pass = "slots"
  <2> DEFINE from == <<"types", "methods", "fields", "slots">>
  <2>1. PICK j \in 1..4 : pass = from[j]
    BY <1>5 DEF NextPass
  <2>2. from[1] = "types" /\ from[2] = "methods" /\ from[3] = "fields" /\ from[4] = "slots"
    OBVIOUS
  <2> HIDE DEF from
  <2>3. j = 1 \/ j = 2 \/ j = 3 \/ j = 4
    OBVIOUS
  <2> QED BY <2>1, <2>2, <2>3
<1> QED BY <1>1, <1>2, <1>3, <1>4, <1>5 DEF Compile

\* Every step of the compiler keeps what it has computed right.
LEMMA CompileStands ==
  ASSUME CInv, Compile
  PROVE  CInv'
<1>1. PICK k \in 1..5 : Standing(k, next) /\ (PassAt(k, pass) \/ (pass = "refused" /\ ~Compatible))
  BY DEF CInv
<1>2. PassAt(k, pass)
  <2>1. pass # "refused"
    BY CompilePass
  <2> QED BY <1>1, <2>1
<1>3. CASE RegisterType
  <2>1. pass = "types"
    BY <1>3 DEF RegisterType, Pass
  <2>2. k = 1
    BY <1>2, <2>1 DEF PassAt
  <2> QED BY <1>1, <1>2, <1>3, <2>2, RegisterTypeStands
<1>4. CASE RegisterMethods
  <2>1. pass = "methods"
    BY <1>4 DEF RegisterMethods, Pass
  <2>2. k = 2
    BY <1>2, <2>1 DEF PassAt
  <2> QED BY <1>1, <1>2, <1>4, <2>2, RegisterMethodsStands
<1>5. CASE InferFields
  <2>1. pass = "fields"
    BY <1>5 DEF InferFields, Pass
  <2>2. k = 3
    BY <1>2, <2>1 DEF PassAt
  <2> QED BY <1>1, <1>2, <1>5, <2>2, InferFieldsStands
<1>6. CASE ComputeSlots
  <2>1. pass = "slots"
    BY <1>6 DEF ComputeSlots, Pass
  <2>2. k = 4
    BY <1>2, <2>1 DEF PassAt
  <2> QED BY <1>1, <1>2, <1>6, <2>2, ComputeSlotsStands
<1>7. CASE NextPass
  <2>1. k + 1 \in 1..5 /\ Standing(k + 1, next)' /\ PassAt(k + 1, pass')
    BY <1>1, <1>2, <1>7, NextPassStands
  <2> QED BY <2>1 DEF CInv
<1> QED BY <1>3, <1>4, <1>5, <1>6, <1>7 DEF Compile

-----------------------------------------------------------------------------
\* What the tables are like once they are built.

\* The nearest definition of a method: the class's own, or its base's.
LEMMA OwnerFacts ==
  ASSUME NEW D, Grounded(D), NEW m
  PROVE  \A c \in D :
           /\ m \in OwnMethods(c) => FindMethodOwner(c, m) = c
           /\ m \notin OwnMethods(c) =>
                FindMethodOwner(c, m) = IF types[c].base = None THEN None
                                        ELSE FindMethodOwner(types[c].base, m)
           /\ FindMethodOwner(c, m) # None =>
                FindMethodOwner(c, m) \in Ancestors[c] /\ m \in OwnMethods(FindMethodOwner(c, m))
           /\ FindMethodOwner(c, m) = None => \A d \in Ancestors[c] : m \notin OwnMethods(d)
<1> USE ProgramAssumption DEF None
<1>1. ASSUME NEW c \in D
      PROVE  /\ c \in Class /\ c # 0 /\ c \in Ancestors[c] /\ \A d \in Ancestors[c] : d \in Class /\ d <= c
             /\ types[c].base = None => Ancestors[c] = {c}
             /\ types[c].base # None => types[c].base \in D /\ Ancestors[c] = {c} \cup Ancestors[types[c].base]
  <2>1. Ancestors = AncestorsIn(BaseOf) /\ Rising(BaseOf) /\ c \in Class /\ c # 0
    BY DEF Ancestors, BaseOf, Grounded, Class
  <2>2. \A d \in Ancestors[c] : d <= c
    BY <2>1, AncestorFacts
  <2> QED BY <2>1, <2>2, BaseFacts
<1>2. ASSUME NEW c \in D, m \in OwnMethods(c)
      PROVE  FindMethodOwner(c, m) = c
  <2>1. c \in Definers(c, m) /\ \A e \in Definers(c, m) : e <= c /\ e \in Class
    BY <1>1, <1>2 DEF Definers
  <2>2. \A d \in Definers(c, m) : (\A e \in Definers(c, m) : e <= d) => d = c
    BY <2>1 DEF Class
  <2> QED BY <2>1, <2>2 DEF FindMethodOwner
<1>3. ASSUME NEW c \in D, m \notin OwnMethods(c)
      PROVE  FindMethodOwner(c, m) = IF types[c].base = None THEN None
                                     ELSE FindMethodOwner(types[c].base, m)
  <2>1. CASE types[c].base = None
    <3>1. Definers(c, m) = {}
      BY <1>1, <1>3, <2>1 DEF Definers
    <3> QED BY <2>1, <3>1 DEF FindMethodOwner
  <2>2. CASE types[c].base # None
    <3>1. Definers(c, m) = Definers(types[c].base, m)
      BY <1>1, <1>3, <2>2 DEF Definers
    <3> QED BY <2>2, <3>1 DEF FindMethodOwner
  <2> QED BY <2>1, <2>2
<1> DEFINE T == {c \in D : /\ FindMethodOwner(c, m) # None =>
                                FindMethodOwner(c, m) \in Ancestors[c] /\ m \in OwnMethods(FindMethodOwner(c, m))
                           /\ FindMethodOwner(c, m) = None => \A d \in Ancestors[c] : m \notin OwnMethods(d)}
<1>4. ASSUME NEW c \in D, types[c].base # None => types[c].base \in T PROVE c \in T
  <2>1. CASE m \in OwnMethods(c)
    <3>1. FindMethodOwner(c, m) = c
      BY <1>2, <2>1
    <3> QED BY <1>1, <2>1, <3>1
  <2>2. CASE m \notin OwnMethods(c) /\ types[c].base = None
    <3>1. FindMethodOwner(c, m) = None
      BY <1>3, <2>2
    <3> QED BY <1>1, <2>2, <3>1
  <2>3. CASE m \notin OwnMethods(c) /\ types[c].base # None
    <3>1. FindMethodOwner(c, m) = FindMethodOwner(types[c].base, m)
      BY <1>3, <2>3
    <3> QED BY <1>1, <1>4, <2>3, <3>1
  <2> QED BY <2>1, <2>2, <2>3
<1> HIDE DEF T
<1>5. D \subseteq T
  BY <1>4, GroundedInduction
<1> QED BY <1>2, <1>3, <1>5 DEF T

\* The slots of a class: one for each method of its own and of its bases', of
\* which __init__ is none, at the same index in every class that inherits it;
\* in it the nearest definition, if there is one.
SlotsRight(c) ==
  /\ Unique(tables[c])
  /\ {"__str__", "__repr__"} \subseteq Names(tables[c]) /\ "__init__" \notin Names(tables[c])
  /\ \A d \in Ancestors[c] :
       /\ OwnMethods(d) \ {"__init__"} \subseteq Names(tables[c])
       /\ Len(tables[d]) <= Len(tables[c])
       /\ \A i \in DOMAIN tables[d] : tables[c][i].name = tables[d][i].name
  /\ \A i \in DOMAIN tables[c] :
       LET owner == FindMethodOwner(c, tables[c][i].name)
       IN  /\ owner # None => tables[c][i].class = owner
           /\ owner = None /\ types[c].base = None => tables[c][i].class = c

LEMMA SlotFacts ==
  ASSUME NEW D, Grounded(D), tables \in [Class -> Seq(SlotOf)], \A c \in D : SlotsDone(c)
  PROVE  \A c \in D : SlotsRight(c)
<1> DEFINE T == {c \in D : SlotsRight(c)}
<1>1. ASSUME NEW c \in D, types[c].base # None => types[c].base \in T PROVE c \in T
  <2> DEFINE b == types[c].base
             over == OverBase(c)
             own == OwnSlots(c)
             skip == {"__init__"}
             t == tables[c]
  <2>1. /\ c \in Class /\ c \in Ancestors[c] /\ t = AddAll(over, own, skip)
        /\ b = None => Ancestors[c] = {c}
        /\ b # None => /\ b \in Class /\ Ancestors[c] = {c} \cup Ancestors[b] /\ SlotsRight(b)
                       /\ tables[b] \in Seq(SlotOf)
    BY <1>1, BaseFacts DEF SlotsDone
  <2>2. decl \in Programs /\ types \in [Class -> ClassType]
    BY DEF Grounded
  <2>3. /\ over \in Seq(SlotOf) /\ own \in Seq(SlotOf) /\ t \in Seq(SlotOf)
        /\ b = None => over = <<>>
        /\ b # None => /\ Len(over) = Len(tables[b]) /\ DOMAIN over = DOMAIN tables[b]
                       /\ \A i \in DOMAIN tables[b] :
                            over[i] = [class |-> IF tables[b][i].name \in OwnMethods(c) THEN c ELSE tables[b][i].class,
                                       name  |-> tables[b][i].name]
        /\ Names(own) = OwnMethods(c) \cup {"__str__", "__repr__"}
        /\ \A i \in DOMAIN own : own[i].class = c
    BY <2>1, <2>2, SlotParts
  <2>4. /\ \A m : m \in OwnMethods(c) => FindMethodOwner(c, m) = c
        /\ \A m : m \notin OwnMethods(c) =>
                    FindMethodOwner(c, m) = IF b = None THEN None ELSE FindMethodOwner(b, m)
    BY OwnerFacts
  <2> HIDE DEF b, over, own, t
  <2>5. /\ b # None => \A i \in DOMAIN over : over[i].name = tables[b][i].name
        /\ b # None => Names(over) = Names(tables[b])
        /\ b = None => Names(over) = {}
    <3>1. ASSUME b # None, NEW i \in DOMAIN over PROVE over[i].name = tables[b][i].name
      <4>1. over[i] = [class |-> IF tables[b][i].name \in OwnMethods(c) THEN c ELSE tables[b][i].class,
                       name  |-> tables[b][i].name]
        BY <2>3, <3>1
      <4> QED BY <4>1
    <3>2. b # None => DOMAIN over = DOMAIN tables[b]
      BY <2>3
    <3>3. b = None => DOMAIN over = {}
      BY <2>3
    <3>4. b # None => Names(over) = Names(tables[b])
      BY <3>1, <3>2 DEF Names
    <3>5. b = None => Names(over) = {}
      BY <3>3 DEF Names
    <3> QED BY <3>1, <3>4, <3>5
  <2>6. Unique(over)
    <3>1. b = None => Unique(over)
      BY <2>3 DEF Unique
    <3>2. b # None => Unique(over)
      BY <2>1, <2>3, <2>5 DEF Unique, SlotsRight
    <3> QED BY <3>1, <3>2
  <2>7. /\ Starts(over, t) /\ Unique(t)
        /\ Names(t) = Names(over) \cup (Names(own) \ skip)
        /\ \A i \in DOMAIN t : i \in DOMAIN over \/ \E j \in DOMAIN own : t[i] = own[j] /\ own[j].name \notin Names(over) \cup skip
    <3>1. over \in Seq(SlotOf) /\ own \in Seq(SlotOf) /\ t = AddAll(over, own, skip)
      BY <2>1, <2>3
    <3> HIDE DEF skip
    <3> QED BY <2>6, <3>1, AddAllFacts
  <2>8. {"__str__", "__repr__"} \subseteq Names(t) /\ "__init__" \notin Names(t)
    <3>1. "__str__" # "__init__" /\ "__repr__" # "__init__"
      OBVIOUS
    <3>2. "__init__" \notin Names(over)
      BY <2>1, <2>5 DEF SlotsRight
    <3> QED BY <2>3, <2>7, <3>1, <3>2
  <2>9. DOMAIN t = 1..Len(t) /\ DOMAIN over = 1..Len(over) /\ Len(t) \in Nat /\ Len(over) \in Nat
    BY <2>3, LenProperties
  <2>10. ASSUME NEW d \in Ancestors[c]
         PROVE  /\ OwnMethods(d) \ {"__init__"} \subseteq Names(t)
                /\ Len(tables[d]) <= Len(t)
                /\ \A i \in DOMAIN tables[d] : t[i].name = tables[d][i].name
    <3>1. CASE d = c
      BY <2>3, <2>7, <2>9, <3>1 DEF t
    <3>2. CASE d # c
      <4>1. b # None /\ d \in Ancestors[b] /\ d \in Class
        BY <2>1, <3>2, BaseFacts
      <4>2. /\ OwnMethods(d) \ {"__init__"} \subseteq Names(tables[b])
            /\ Len(tables[d]) <= Len(tables[b])
            /\ \A i \in DOMAIN tables[d] : tables[b][i].name = tables[d][i].name
        BY <2>1, <4>1 DEF SlotsRight
      <4>3. Names(tables[b]) \subseteq Names(t)
        BY <2>5, <2>7, <4>1
      <4>4. tables[d] \in Seq(SlotOf)
        BY <4>1
      <4>5. DOMAIN tables[d] = 1..Len(tables[d]) /\ Len(tables[d]) \in Nat
        BY <4>4, LenProperties
      <4>6. Len(over) = Len(tables[b]) /\ Len(over) <= Len(t) /\ \A i \in DOMAIN over : t[i] = over[i]
        BY <2>3, <2>7, <4>1 DEF Starts
      <4>7. Len(tables[d]) <= Len(t) /\ DOMAIN tables[d] \subseteq DOMAIN over
        BY <2>9, <4>2, <4>5, <4>6
      <4> QED BY <2>5, <4>1, <4>2, <4>3, <4>6, <4>7
    <3> QED BY <3>1, <3>2
  <2>11. ASSUME NEW i \in DOMAIN t
         PROVE  /\ FindMethodOwner(c, t[i].name) # None => t[i].class = FindMethodOwner(c, t[i].name)
                /\ FindMethodOwner(c, t[i].name) = None /\ b = None => t[i].class = c
    <3> DEFINE m == t[i].name
    <3>1. CASE i \in DOMAIN over
      <4>1. b # None /\ i \in DOMAIN tables[b] /\ t[i] = over[i]
        <5>1. b # None
          BY <2>3, <3>1
        <5> QED BY <2>3, <2>7, <3>1, <5>1 DEF Starts
      <4>2. m = tables[b][i].name /\ t[i].class = IF m \in OwnMethods(c) THEN c ELSE tables[b][i].class
        <5>1. over[i] = [class |-> IF tables[b][i].name \in OwnMethods(c) THEN c ELSE tables[b][i].class,
                         name  |-> tables[b][i].name]
          BY <2>3, <4>1
        <5> QED BY <4>1, <5>1
      <4>3. FindMethodOwner(b, m) # None => tables[b][i].class = FindMethodOwner(b, m)
        BY <2>1, <4>1, <4>2 DEF SlotsRight
      <4> HIDE DEF m
      <4>4. FindMethodOwner(c, m) = IF m \in OwnMethods(c) THEN c ELSE FindMethodOwner(b, m)
        BY <2>4, <4>1
      <4> QED BY <4>1, <4>2, <4>3, <4>4 DEF m
    <3>2. CASE i \notin DOMAIN over
      <4>1. PICK j \in DOMAIN own : t[i] = own[j] /\ own[j].name \notin Names(over) \cup skip
        BY <2>7, <3>2
      <4>2. t[i].class = c /\ m \in OwnMethods(c) \cup {"__str__", "__repr__"} /\ m \notin Names(over)
        BY <2>3, <4>1 DEF Names
      <4>3. m \in OwnMethods(c) \/ b = None
        BY <2>1, <2>5, <4>2 DEF SlotsRight
      <4> HIDE DEF m
      <4>4. FindMethodOwner(c, m) = c \/ (FindMethodOwner(c, m) = None /\ b = None)
        BY <2>4, <4>3
      <4> QED BY <4>2, <4>4 DEF m
    <3> QED BY <3>1, <3>2
  <2>12. SlotsRight(c)
    BY <2>7, <2>8, <2>10, <2>11 DEF SlotsRight, t, b
  <2> QED BY <2>12
<1> HIDE DEF T
<1>2. D \subseteq T
  BY <1>1, GroundedInduction
<1> QED BY <1>2 DEF T

\* The tables a program runs with.
LEMMA TablesBuilt ==
  ASSUME NEW n, Standing(5, n)
  PROVE  /\ Grounded(Class) /\ types \in [Class -> ClassType] /\ tables \in [Class -> Seq(SlotOf)]
         /\ decl \in Programs
         /\ \A c \in Class : TypeDone(c) /\ FieldsRight(c) /\ MethodsRight(c) /\ SlotsRight(c)
<1>1. 5 \in 1..5
  OBVIOUS
<1>2. /\ Grounded(Class) /\ types \in [Class -> ClassType] /\ tables \in [Class -> Seq(SlotOf)]
      /\ decl \in Programs
  BY <1>1, StandingIsGrounded
<1>3. \A c \in Class : TypeDone(c) /\ MethodsDone(c) /\ FieldsDone(c) /\ SlotsDone(c)
  BY DEF Standing, Through
<1> QED BY <1>2, <1>3, FieldFacts, MethodFacts, SlotFacts

\* At any time no class has a field or a slot twice.
LEMMA LayoutsUnique ==
  ASSUME NEW k \in 1..5, NEW n, Standing(k, n), NEW c \in Class
  PROVE  Unique(types[c].fields) /\ Unique(tables[c])
<1>1. /\ Grounded(Class) /\ Grounded({e \in Class : e < n}) /\ tables \in [Class -> Seq(SlotOf)]
  BY StandingIsGrounded
<1>2. /\ IF Through(3, k, n, c) THEN FieldsDone(c) ELSE types[c].fields = <<>>
      /\ IF Through(4, k, n, c) THEN SlotsDone(c) ELSE tables[c] = <<>>
  BY DEF Standing
<1>3. Unique(<<>>)
  BY DEF Unique
<1>4. Unique(types[c].fields)
  <2>1. CASE k > 3
    <3>1. \A e \in Class : FieldsDone(e)
      BY <2>1 DEF Standing, Through
    <3> QED BY <1>1, <3>1, FieldFacts DEF FieldsRight
  <2>2. CASE k = 3 /\ c < n
    <3>1. \A e \in {e \in Class : e < n} : FieldsDone(e)
      BY <2>2 DEF Standing, Through
    <3>2. \A e \in {e \in Class : e < n} : FieldsRight(e)
      BY <1>1, <3>1, FieldFacts
    <3> QED BY <2>2, <3>2 DEF FieldsRight
  <2>3. CASE ~(k > 3) /\ ~(k = 3 /\ c < n)
    <3>1. ~Through(3, k, n, c)
      BY <2>3 DEF Through
    <3> QED BY <1>2, <1>3, <3>1
  <2> QED BY <2>1, <2>2, <2>3
<1>5. Unique(tables[c])
  <2>1. CASE k > 4
    <3>1. \A e \in Class : SlotsDone(e)
      BY <2>1 DEF Standing, Through
    <3> QED BY <1>1, <3>1, SlotFacts DEF SlotsRight
  <2>2. CASE k = 4 /\ c < n
    <3>1. \A e \in {e \in Class : e < n} : SlotsDone(e)
      BY <2>2 DEF Standing, Through
    <3>2. \A e \in {e \in Class : e < n} : SlotsRight(e)
      BY <1>1, <3>1, SlotFacts
    <3> QED BY <2>2, <3>2 DEF SlotsRight
  <2>3. CASE ~(k > 4) /\ ~(k = 4 /\ c < n)
    <3>1. ~Through(4, k, n, c)
      BY <2>3 DEF Through
    <3> QED BY <1>2, <1>3, <3>1
  <2> QED BY <2>1, <2>2, <2>3
<1> QED BY <1>4, <1>5

\* A program whose tables are built has overrides of one signature and fields of
\* one type.
LEMMA BuiltIsCompatible ==
  ASSUME NEW n, Standing(5, n)
  PROVE  Compatible
<1> DEFINE above == AncestorsIn([c \in Class |-> decl[c].base])
<1>1. \A c \in Class : TypeDone(c) /\ FieldsRight(c) /\ MethodsRight(c)
  BY TablesBuilt
<1>2. above = Ancestors
  <2>1. 5 \in 2..5
    OBVIOUS
  <2> QED BY <2>1, SameAncestors
<1> HIDE DEF above
<1>3. \A c \in Class : c \in Ancestors[c]
  BY TablesBuilt, BaseFacts
<1>4. ASSUME NEW c \in Class, NEW d \in Ancestors[c],
             NEW i \in DOMAIN decl[c].sets, NEW j \in DOMAIN decl[d].sets,
             decl[c].sets[i].name = decl[d].sets[j].name
      PROVE  decl[c].sets[i].type = decl[d].sets[j].type
  <2>1. PICK x \in DOMAIN types[c].fields : types[c].fields[x] = decl[c].sets[i]
    BY <1>1, <1>3 DEF FieldsRight
  <2>2. PICK y \in DOMAIN types[c].fields : types[c].fields[y] = decl[d].sets[j]
    BY <1>1 DEF FieldsRight
  <2>3. x = y
    BY <1>1, <1>4, <2>1, <2>2 DEF FieldsRight, Unique
  <2> QED BY <2>1, <2>2, <2>3
<1>5. ASSUME NEW c \in Class, NEW d \in Ancestors[c],
             NEW m \in (OwnMethods(c) \cap OwnMethods(d)) \ {"__init__"}
      PROVE  OwnSig(c, m) = OwnSig(d, m)
  BY <1>1, <1>3 DEF MethodsRight
<1>6. \A c \in Class : decl[c].base < c
  BY <1>1 DEF TypeDone
<1> QED BY <1>2, <1>4, <1>5, <1>6 DEF Compatible, above

LEMMA CInvAccepts == CInv => AcceptsCompatible
<1> SUFFICES ASSUME CInv PROVE AcceptsCompatible
  OBVIOUS
<1>1. PICK k \in 1..5 : Standing(k, next) /\ (PassAt(k, pass) \/ (pass = "refused" /\ ~Compatible))
  BY DEF CInv
<1>2. CASE PassAt(k, pass)
  <2>1. pass = "run" => k = 5
    BY <1>2 DEF PassAt
  <2>2. pass # "refused"
    BY <1>2 DEF PassAt
  <2> QED BY <1>1, <2>1, <2>2, BuiltIsCompatible DEF AcceptsCompatible
<1>3. CASE pass = "refused" /\ ~Compatible
  <2>1. pass # "run"
    BY <1>3
  <2> QED BY <1>3, <2>1 DEF AcceptsCompatible
<1> QED BY <1>1, <1>2, <1>3

LEMMA TablesStand ==
  ASSUME CInv, UNCHANGED tableVars
  PROVE  CInv'
<1>1. decl' = decl /\ pass' = pass /\ next' = next /\ types' = types /\ tables' = tables
  BY DEF tableVars
<1>2. \A c \in Class : /\ TypeDone(c)' <=> TypeDone(c)
                       /\ MethodsDone(c)' <=> MethodsDone(c)
                       /\ FieldsDone(c)' <=> FieldsDone(c)
                       /\ SlotsDone(c)' <=> SlotsDone(c)
  BY <1>1, DoneStays
<1>3. PICK k \in 1..5 : Standing(k, next) /\ (PassAt(k, pass) \/ (pass = "refused" /\ ~Compatible))
  BY DEF CInv
<1>4. Standing(k, next)'
  BY <1>1, <1>2, <1>3 DEF Standing
<1>5. Compatible' <=> Compatible
  BY <1>1 DEF Compatible, OwnMethods, OwnSig
<1>6. (PassAt(k, pass) \/ (pass = "refused" /\ ~Compatible))'
  BY <1>1, <1>3, <1>5
<1> QED BY <1>4, <1>6 DEF CInv

LEMMA CInvInductive ==
  /\ Init => CInv
  /\ CInv /\ [Next]_vars => CInv'
<1>1. Init => CInv
  BY InitStands DEF Init
<1>2. ASSUME CInv, [Next]_vars PROVE CInv'
  <2>1. Compile \/ UNCHANGED tableVars
    BY <1>2 DEF Next, Execute, vars
  <2> QED BY <1>2, <2>1, CompileStands, TablesStand
<1> QED BY <1>1, <1>2

\* The compiler refuses a program exactly when a base is not defined before the
\* class, an override has another signature or a field two types, somewhere along
\* the bases: comparing each class with its base alone is enough.
THEOREM RefusesIncompatible == Spec => []AcceptsCompatible
<1>1. Spec => []CInv
  BY CInvInductive, PTL DEF Spec
<1> QED BY <1>1, CInvAccepts, PTL

-----------------------------------------------------------------------------
\* The object and what it goes by.

Instance == [class : Class, cells : UNION {[D -> FieldTypes \cup {Zero}] : D \in SUBSET Nat}]

\* The object is of its variable's class and of the class whose method runs; it
\* has a cell for each field of its own class, of that field's type.
RInv ==
  /\ pass # "run" => object = NoObject
  /\ object = NoObject => running = TopLevel /\ static = None /\ seen = Nothing
  /\ object # NoObject =>
       /\ object \in Instance /\ static \in Ancestors[object.class]
       /\ running # TopLevel => running.class \in Ancestors[object.class]
       /\ DOMAIN object.cells = DOMAIN types[object.class].fields
       /\ \A i \in DOMAIN object.cells :
            object.cells[i] \in {Zero, types[object.class].fields[i].type}

\* Numbers up to a bound have a greatest.
LEMMA GreatestNat ==
  ASSUME NEW n \in Nat, NEW T \in SUBSET (1..n), T # {}
  PROVE  \E x \in T : \A y \in T : y <= x
<1> DEFINE U == {n - x : x \in T}
<1>1. PICK u \in U : \A v \in U : u <= v
  <2>1. \A x \in T : x \in 1..n
    OBVIOUS
  <2>2. \A x \in 1..n : n - x \in Nat
    OBVIOUS
  <2>3. U \in SUBSET Nat /\ U # {}
    BY <2>1, <2>2
  <2> HIDE DEF U
  <2> QED BY <2>3, LeastNat
<1>2. PICK x \in T : u = n - x
  OBVIOUS
<1>3. ASSUME NEW y \in T PROVE y <= x
  <2>1. n - x <= n - y
    BY <1>1, <1>2
  <2>2. x \in 1..n /\ y \in 1..n
    OBVIOUS
  <2> QED BY <2>1, <2>2
<1> QED BY <1>3

LEMMA AncestorsOfAncestors ==
  ASSUME Grounded(Class), NEW c \in Class, NEW d \in Ancestors[c]
  PROVE  d \in Class /\ d # None /\ Ancestors[d] \subseteq Ancestors[c] /\ d \in Ancestors[d]
<1>1. Ancestors = AncestorsIn(BaseOf) /\ Rising(BaseOf)
  BY DEF Ancestors, BaseOf, Grounded
<1>2. d \in Class /\ Ancestors[d] \subseteq Ancestors[c]
  BY <1>1, AncestorFacts
<1>3. d # None
  BY <1>2 DEF Class, None
<1>4. d \in Ancestors[d]
  BY <1>2, BaseFacts
<1> QED BY <1>2, <1>3, <1>4

\* What the object goes by where the code at hand was compiled.
LEMMA SelfFacts ==
  ASSUME Grounded(Class), RInv, Holding
  PROVE  /\ object \in Instance /\ object.class \in Class
         /\ Self \in Ancestors[object.class] /\ Self \in Class
<1>1. object \in Instance /\ object.class \in Class /\ Self \in Ancestors[object.class]
  BY DEF RInv, Holding, Self, Instance
<1> QED BY <1>1, AncestorsOfAncestors

\* A field of the static class is at the same offset in the object, of one type.
LEMMA FieldAt ==
  ASSUME NEW n, Standing(5, n), RInv, Holding, NEW f, HasField(Self, f)
  PROVE  /\ FieldIdx(Self, f) \in DOMAIN object.cells
         /\ HasField(object.class, f) /\ FieldIdx(object.class, f) = FieldIdx(Self, f)
         /\ types[object.class].fields[FieldIdx(Self, f)].name = f
         /\ types[object.class].fields[FieldIdx(Self, f)].type = FieldType(Self, f)
         /\ FieldType(Self, f) \in FieldTypes
<1> DEFINE i == FieldIdx(Self, f)
           s == types[Self].fields
           t == types[object.class].fields
<1>1. Self \in Class /\ object.class \in Class /\ Self \in Ancestors[object.class]
  BY TablesBuilt, SelfFacts
<1>2. Starts(s, t) /\ Unique(t) /\ s \in Seq(Field) /\ t \in Seq(Field)
  BY <1>1, TablesBuilt DEF FieldsRight, ClassType
<1>3. i \in DOMAIN s /\ s[i].name = f /\ FieldType(Self, f) = s[i].type
  BY IndexFacts DEF HasField, FieldIdx, FieldType
<1>4. DOMAIN object.cells = DOMAIN t
  BY DEF RInv, Holding
<1>5. IndexOf(t, f) = FieldIdx(object.class, f) /\ (HasField(object.class, f) <=> f \in Names(t))
  BY DEF FieldIdx, HasField
<1> HIDE DEF i, s, t
<1>6. i \in DOMAIN t /\ t[i] = s[i]
  <2>1. DOMAIN s = 1..Len(s) /\ DOMAIN t = 1..Len(t) /\ Len(s) \in Nat /\ Len(t) \in Nat
    BY <1>2, LenProperties
  <2> QED BY <1>2, <1>3, <2>1 DEF Starts
<1>7. f \in Names(t)
  BY <1>3, <1>6 DEF Names
<1>8. i = IndexOf(t, f)
  BY <1>2, <1>3, <1>6, <1>7, IndexFacts
<1>9. s[i] \in Field
  BY <1>2, <1>3, LenProperties, ElementOfSeq
<1>10. s[i].type \in FieldTypes
  BY <1>9 DEF Field
<1> QED BY <1>3, <1>4, <1>5, <1>6, <1>7, <1>8, <1>10 DEF i, t

\* The slot of the static class has, in the object's own table, the function the
\* object's class has for the method.
LEMMA TargetOf ==
  ASSUME NEW n, Standing(5, n), RInv, Holding, NEW m \in Names(tables[Self]),
         NEW owner, owner = FindMethodOwner(object.class, m),
         owner # None \/ types[object.class].base = None
  PROVE  /\ VirtualTarget(m).name = m
         /\ VirtualTarget(m).class = IF owner = None THEN object.class ELSE owner
         /\ VirtualTarget(m).class \in Ancestors[object.class]
<1> DEFINE i == Slot(Self, m)
           t == tables[object.class]
<1>1. Self \in Class /\ object.class \in Class /\ Self \in Ancestors[object.class] /\ Grounded(Class)
  BY TablesBuilt, SelfFacts
<1>2. SlotsRight(object.class) /\ tables[Self] \in Seq(SlotOf) /\ t \in Seq(SlotOf)
  BY <1>1, TablesBuilt
<1>3. i \in DOMAIN tables[Self] /\ tables[Self][i].name = m
  BY IndexFacts DEF Slot
<1> HIDE DEF i
<1>4. i \in DOMAIN t /\ t[i].name = m
  <2>1. DOMAIN t = 1..Len(t) /\ DOMAIN tables[Self] = 1..Len(tables[Self]) /\ Len(t) \in Nat /\ Len(tables[Self]) \in Nat
    BY <1>2, LenProperties
  <2>2. Len(tables[Self]) <= Len(t) /\ t[i].name = tables[Self][i].name
    BY <1>1, <1>2, <1>3 DEF SlotsRight
  <2> QED BY <1>3, <2>1, <2>2
<1>5. t[i].class = IF owner = None THEN object.class ELSE owner
  BY <1>2, <1>4 DEF SlotsRight
<1>6. owner # None => owner \in Ancestors[object.class]
  BY <1>1, OwnerFacts
<1>7. object.class \in Ancestors[object.class]
  BY <1>1, BaseFacts
<1>8. VirtualTarget(m) = t[i]
  BY DEF VirtualTarget, VTable, i
<1> QED BY <1>4, <1>5, <1>6, <1>7, <1>8

\* A method the static class has is one the object's class has a slot for.
LEMMA CallFacts ==
  ASSUME NEW n, Standing(5, n), RInv, Holding,
         NEW m, m \in DOMAIN types[Self].methods, m # "__init__"
  PROVE  m \in Names(tables[Self]) /\ FindMethodOwner(object.class, m) # None
<1>1. Self \in Class /\ object.class \in Class /\ Self \in Ancestors[object.class] /\ Grounded(Class)
  BY TablesBuilt, SelfFacts
<1>2. MethodsRight(Self) /\ SlotsRight(Self)
  BY <1>1, TablesBuilt
<1>3. PICK d \in Ancestors[Self] : m \in OwnMethods(d)
  BY <1>2 DEF MethodsRight
<1>4. m \in Names(tables[Self])
  BY <1>2, <1>3 DEF SlotsRight
<1>5. d \in Ancestors[object.class]
  BY <1>1, <1>3, AncestorsOfAncestors
<1>6. FindMethodOwner(object.class, m) # None
  BY <1>1, <1>3, <1>5, OwnerFacts
<1> QED BY <1>4, <1>6

\* A step that calls a method of one of the object's classes, or returns.
LEMMA InvokeStands ==
  ASSUME RInv, UNCHANGED tableVars, Holding, NEW target, target.class \in Ancestors[object.class], Invoke(target)
  PROVE  RInv'
<1>1. /\ types' = types /\ pass' = pass /\ object' = object /\ static' = static
      /\ running'.class = target.class
  BY DEF tableVars, Invoke
<1>2. Ancestors' = Ancestors
  BY <1>1 DEF Ancestors
<1> QED BY <1>1, <1>2 DEF RInv, Holding, Can

LEMMA ConstructStands ==
  ASSUME NEW n, Standing(5, n), UNCHANGED tableVars, NEW c \in Class, Construct(c)
  PROVE  RInv'
<1> DEFINE cells == [i \in DOMAIN types[c].fields |-> Zero]
<1>1. /\ pass = "run" /\ types' = types /\ pass' = pass
      /\ object' = [class |-> c, cells |-> cells] /\ static' = c
      /\ running' = TopLevel \/ (FindInitOwner(c) # None /\ running'.class = FindInitOwner(c))
  BY DEF tableVars, Construct, Can
<1>2. Ancestors' = Ancestors
  BY <1>1 DEF Ancestors
<1>3. Grounded(Class) /\ types[c].fields \in Seq(Field)
  BY TablesBuilt DEF ClassType
<1>4. cells \in UNION {[D -> FieldTypes \cup {Zero}] : D \in SUBSET Nat}
  <2>1. DOMAIN types[c].fields = 1..Len(types[c].fields) /\ Len(types[c].fields) \in Nat
    BY <1>3, LenProperties
  <2>2. DOMAIN types[c].fields \in SUBSET Nat
    BY <2>1
  <2>3. cells \in [DOMAIN types[c].fields -> FieldTypes \cup {Zero}]
    OBVIOUS
  <2> HIDE DEF cells
  <2> QED BY <2>2, <2>3
<1>5. DOMAIN cells = DOMAIN types[c].fields /\ \A i \in DOMAIN cells : cells[i] = Zero
  OBVIOUS
<1> HIDE DEF cells
<1>6. object' \in Instance
  BY <1>1, <1>4 DEF Instance
<1>7. object'.class = c /\ object'.cells = cells
  BY <1>1
<1>8. c # None
  BY DEF Class, None
<1>9. object' # NoObject
  BY <1>7, <1>8 DEF NoObject
<1>10. c \in Ancestors[c] /\ (FindInitOwner(c) # None => FindInitOwner(c) \in Ancestors[c])
  BY <1>3, BaseFacts, OwnerFacts DEF FindInitOwner
<1>11. (object # NoObject)' /\ (pass = "run")'
  BY <1>1, <1>9 DEF NoObject
<1>12. (static \in Ancestors[object.class])' /\ (running # TopLevel => running.class \in Ancestors[object.class])'
  BY <1>1, <1>2, <1>7, <1>10 DEF TopLevel
<1>13. /\ (DOMAIN object.cells = DOMAIN types[object.class].fields)'
       /\ (\A i \in DOMAIN object.cells : object.cells[i] \in {Zero, types[object.class].fields[i].type})'
  BY <1>1, <1>5, <1>7
<1> QED BY <1>6, <1>11, <1>12, <1>13 DEF RInv, Instance

LEMMA WriteFieldStands ==
  ASSUME NEW n, Standing(5, n), RInv, UNCHANGED tableVars, NEW f, WriteField(f)
  PROVE  RInv'
<1> DEFINE i == FieldIdx(Self, f)
           v == FieldType(Self, f)
           cells == [object.cells EXCEPT ![i] = v]
<1>1. Holding /\ HasField(Self, f) /\ Store(i, v)
  BY DEF WriteField
<1>2. /\ i \in DOMAIN object.cells /\ v = types[object.class].fields[i].type /\ v \in FieldTypes
  BY <1>1, FieldAt
<1>3. /\ object \in Instance /\ object # NoObject /\ pass = "run"
      /\ static \in Ancestors[object.class]
      /\ running # TopLevel => running.class \in Ancestors[object.class]
      /\ DOMAIN object.cells = DOMAIN types[object.class].fields
      /\ \A j \in DOMAIN object.cells : object.cells[j] \in {Zero, types[object.class].fields[j].type}
  BY <1>1 DEF RInv, Holding, Can
<1>4. /\ types' = types /\ pass' = pass /\ static' = static /\ running' = running
      /\ object' = [object EXCEPT !.cells[i] = v]
  BY <1>1 DEF tableVars, WriteField, Store
<1> HIDE DEF i, v
<1>5. PICK D \in SUBSET Nat : object.cells \in [D -> FieldTypes \cup {Zero}]
  BY <1>3 DEF Instance
<1>6. cells \in [D -> FieldTypes \cup {Zero}]
  BY <1>2, <1>5
<1>7. DOMAIN cells = DOMAIN object.cells /\ \A j \in DOMAIN cells : cells[j] = IF j = i THEN v ELSE object.cells[j]
  BY <1>5
<1>8. object' = [object EXCEPT !.cells = cells]
  BY <1>4
<1> HIDE DEF cells
<1>9. object'.class = object.class /\ object'.cells = cells /\ object' \in Instance
  BY <1>3, <1>6, <1>8 DEF Instance
<1>10. object.class # None
  BY <1>3 DEF Instance, Class, None
<1>11. (object # NoObject)' /\ (pass = "run")'
  BY <1>3, <1>4, <1>9, <1>10 DEF NoObject
<1>12. Ancestors' = Ancestors
  BY <1>4 DEF Ancestors
<1>13. /\ (static \in Ancestors[object.class])'
       /\ (running # TopLevel => running.class \in Ancestors[object.class])'
  BY <1>3, <1>4, <1>9, <1>12 DEF TopLevel
<1>14. (DOMAIN object.cells = DOMAIN types[object.class].fields)'
  BY <1>3, <1>4, <1>7, <1>9
<1>15. (\A j \in DOMAIN object.cells : object.cells[j] \in {Zero, types[object.class].fields[j].type})'
  BY <1>2, <1>3, <1>4, <1>7, <1>9
<1> QED BY <1>9, <1>11, <1>13, <1>14, <1>15 DEF RInv, Instance

\* Whatever a program does next, it has a class of the object's to do it by.
LEMMA ExecuteStands ==
  ASSUME NEW n, Standing(5, n), RInv, Execute
  PROVE  RInv'
<1> USE ProgramAssumption
<1>1. UNCHANGED tableVars
  BY DEF Execute
<1>2. types' = types /\ pass' = pass /\ Ancestors' = Ancestors
  BY <1>1 DEF tableVars, Ancestors
<1>3. Grounded(Class) /\ \A c \in Class : MethodsRight(c) /\ SlotsRight(c)
  BY TablesBuilt
<1>4. ASSUME NEW c \in Class, Construct(c) PROVE RInv'
  BY <1>1, <1>4, ConstructStands
<1>5. ASSUME Holding, object' = object, running' = running, static' \in Ancestors[object.class]
      PROVE  RInv'
  BY <1>2, <1>5 DEF RInv, Holding, Can
<1>6. ASSUME NEW c \in Class, Widen(c) PROVE RInv'
  <2>1. Holding /\ object' = object /\ running' = running /\ static' = c /\ c \in Ancestors[static]
    BY <1>6 DEF Widen, IsSubclassOf
  <2>2. object.class \in Class /\ static \in Ancestors[object.class]
    BY <2>1 DEF RInv, Holding, Instance
  <2>3. c \in Ancestors[object.class]
    BY <1>3, <2>1, <2>2, AncestorsOfAncestors
  <2> QED BY <1>5, <2>1, <2>3
<1>7. ASSUME NEW c \in Class, ThroughList(c) PROVE RInv'
  <2> DEFINE T == Common(static, c)
  <2>1. /\ Holding /\ object' = object /\ running' = running
        /\ static' = CHOOSE x \in T : \A y \in T : y <= x
        /\ T # {}
    BY <1>7 DEF ThroughList, MergeInstanceTypes
  <2>2. object.class \in Class /\ static \in Ancestors[object.class]
    BY <2>1 DEF RInv, Holding, Instance
  <2>3. static \in Class
    BY <1>3, <2>2, AncestorsOfAncestors
  <2>4. T \subseteq Ancestors[static] /\ Ancestors[static] \subseteq Class
    BY <1>3, <2>3, BaseFacts DEF Common
  <2>5. Ancestors[static] \subseteq Ancestors[object.class]
    BY <1>3, <2>2, AncestorsOfAncestors
  <2> HIDE DEF T
  <2>6. \E x \in T : \A y \in T : y <= x
    <3>1. T \in SUBSET (1..Count)
      BY <2>4 DEF Class
    <3> QED BY <2>1, <3>1, GreatestNat
  <2>7. static' \in T
    BY <2>1, <2>6
  <2> QED BY <1>5, <2>1, <2>4, <2>5, <2>7
<1>8. ASSUME Holding, UNCHANGED <<object, static, running>> PROVE RInv'
  <2>1. static \in Ancestors[object.class]
    BY <1>8 DEF RInv, Holding
  <2> QED BY <1>5, <1>8, <2>1
<1>9. ASSUME NEW c \in Class, IsInstance(c) PROVE RInv'
  BY <1>8, <1>9 DEF IsInstance
<1>10. ASSUME NEW f \in Attr, ReadField(f) PROVE RInv'
  BY <1>8, <1>10 DEF ReadField
<1>11. ASSUME NEW f \in Attr, WriteField(f) PROVE RInv'
  BY <1>1, <1>11, WriteFieldStands
<1>12. ASSUME NEW m \in MethodNames, CallMethod(m) PROVE RInv'
  <2>1. Holding /\ m \in DOMAIN types[Self].methods /\ m # "__init__" /\ Invoke(VirtualTarget(m))
    BY <1>12 DEF CallMethod
  <2>2. m \in Names(tables[Self]) /\ FindMethodOwner(object.class, m) # None
    BY <2>1, CallFacts
  <2>3. VirtualTarget(m).class \in Ancestors[object.class]
    BY <2>1, <2>2, TargetOf
  <2> QED BY <1>1, <2>1, <2>3, InvokeStands
<1>13. ASSUME NEW m \in MethodNames, CallSuper(m) PROVE RInv'
  <2> DEFINE b == types[running.class].base
             owner == FindMethodOwner(b, m)
  <2>1. /\ Holding /\ running # TopLevel /\ b # None /\ owner # None
        /\ Invoke([class |-> owner, name |-> m])
    BY <1>13 DEF CallSuper
  <2>2. object.class \in Class /\ running.class \in Ancestors[object.class]
    BY <2>1 DEF RInv, Holding, Instance
  <2>3. running.class \in Class /\ Ancestors[running.class] \subseteq Ancestors[object.class]
    BY <1>3, <2>2, AncestorsOfAncestors
  <2>4. b \in Class /\ Ancestors[running.class] = {running.class} \cup Ancestors[b]
    BY <1>3, <2>1, <2>3, BaseFacts
  <2>5. owner \in Ancestors[b]
    BY <1>3, <2>1, <2>4, OwnerFacts
  <2> HIDE DEF owner
  <2>6. [class |-> owner, name |-> m].class \in Ancestors[object.class]
    BY <2>3, <2>4, <2>5
  <2> QED BY <1>1, <2>1, <2>6, InvokeStands
<1>14. ASSUME PrintObject PROVE RInv'
  <2>1. /\ Holding /\ Invoke(VirtualTarget("__str__"))
        /\ types[object.class].base = None \/ FindMethodOwner(object.class, "__str__") # None
    BY <1>14 DEF PrintObject, InheritsDefault
  <2>2. Self \in Class
    BY <1>3, <2>1, SelfFacts
  <2>3. "__str__" \in Names(tables[Self])
    BY <1>3, <2>2 DEF SlotsRight
  <2>4. VirtualTarget("__str__").class \in Ancestors[object.class]
    BY <2>1, <2>3, TargetOf
  <2> QED BY <1>1, <2>1, <2>4, InvokeStands
<1>15. ASSUME Return PROVE RInv'
  <2>1. /\ pass = "run" /\ running # TopLevel /\ running' = TopLevel /\ object' = object /\ static' = static
    BY <1>15 DEF Return, Can
  <2>2. object # NoObject
    BY <2>1 DEF RInv
  <2> QED BY <1>2, <2>1, <2>2 DEF RInv
<1> QED BY <1>4, <1>6, <1>7, <1>9, <1>10, <1>11, <1>12, <1>13, <1>14, <1>15 DEF Execute

LEMMA RInvInductive ==
  /\ Init => RInv
  /\ CInv /\ RInv /\ [Next]_vars => RInv'
<1>1. Init => RInv
  BY DEF Init, RInv
<1>2. ASSUME CInv, RInv, [Next]_vars PROVE RInv'
  <2>1. CASE Compile /\ UNCHANGED <<static, object, running, seen>>
    <3>1. pass # "run"
      BY <2>1, CompilePass
    <3>2. object = NoObject /\ running = TopLevel /\ static = None /\ seen = Nothing
      BY <1>2, <3>1 DEF RInv
    <3>3. object' = NoObject /\ running' = TopLevel /\ static' = None /\ seen' = Nothing
      BY <2>1, <3>2
    <3> QED BY <3>3 DEF RInv, NoObject, TopLevel, None, Nothing
  <2>2. CASE Execute
    <3>1. pass = "run"
      BY <2>2 DEF Execute, Construct, Widen, ThroughList, IsInstance, ReadField, WriteField,
                  CallMethod, CallSuper, PrintObject, Return, Holding, Can
    <3>2. PICK k \in 1..5 : Standing(k, next) /\ (PassAt(k, pass) \/ pass = "refused")
      BY <1>2 DEF CInv
    <3>3. k = 5
      BY <3>1, <3>2 DEF PassAt
    <3> QED BY <1>2, <2>2, <3>2, <3>3, ExecuteStands
  <2>3. CASE UNCHANGED vars
    <3>1. /\ types' = types /\ pass' = pass /\ object' = object /\ static' = static
          /\ running' = running /\ seen' = seen
      BY <2>3 DEF vars, tableVars
    <3>2. Ancestors' = Ancestors
      BY <3>1 DEF Ancestors
    <3> QED BY <1>2, <3>1, <3>2 DEF RInv
  <2> QED BY <1>2, <2>1, <2>2, <2>3 DEF Next
<1> QED BY <1>1, <1>2

LEMMA InvariantsHold == Spec => [](CInv /\ RInv)
<1>1. Init => CInv /\ RInv
  BY CInvInductive, RInvInductive
<1>2. CInv /\ RInv /\ [Next]_vars => (CInv /\ RInv)'
  BY CInvInductive, RInvInductive
<1> QED BY <1>1, <1>2, PTL DEF Spec

\* An object is of its variable's class and of the class whose method runs on it,
\* and its fields hold what its own class declares: what the checker infers is
\* so at run time, where nothing is checked.
THEOREM StaticTypesHold == Spec => []WellTyped
<1>1. RInv => WellTyped
  BY DEF RInv, WellTyped, IsSubclassOf
<1> QED BY <1>1, InvariantsHold, PTL

\* Every class has each of its fields and slots once, whatever its bases and in
\* whatever pass, and an object has a cell for each field of its class.
THEOREM TablesAreTyped == Spec => []TypeOK
<1> USE ProgramAssumption DEF None
<1>1. ASSUME CInv, RInv PROVE TypeOK
  <2>1. PICK k \in 1..5 : Standing(k, next) /\ (PassAt(k, pass) \/ pass = "refused")
    BY <1>1 DEF CInv
  <2>2. pass \in {"types", "methods", "fields", "slots", "run", "refused"}
    BY <2>1 DEF PassAt
  <2>3. /\ next \in 1..(Count + 1) /\ types \in [Class -> ClassType] /\ tables \in [Class -> Seq(SlotOf)]
        /\ Grounded(Class)
    BY <2>1, StandingIsGrounded
  <2>4. ASSUME NEW c \in Class
        PROVE  /\ types[c].base \in 0..Count /\ types[c].id \in 0..Count
               /\ \A i \in DOMAIN types[c].fields :
                    types[c].fields[i].name \in Attr /\ types[c].fields[i].type \in FieldTypes
               /\ Cardinality(Names(types[c].fields)) = Len(types[c].fields)
               /\ Cardinality(Names(tables[c])) = Len(tables[c])
    <3>1. /\ types[c].base \in 0..Count /\ types[c].id \in 0..Count
          /\ types[c].fields \in Seq(Field) /\ tables[c] \in Seq(SlotOf)
      BY <2>3 DEF ClassType
    <3>2. \A i \in DOMAIN types[c].fields : types[c].fields[i] \in Field
      BY <3>1, LenProperties, ElementOfSeq
    <3>3. Unique(types[c].fields) /\ Unique(tables[c])
      BY <2>1, LayoutsUnique
    <3>4. /\ Cardinality(Names(types[c].fields)) = Len(types[c].fields)
          /\ Cardinality(Names(tables[c])) = Len(tables[c])
      BY <3>1, <3>3, UniqueCount
    <3> QED BY <3>1, <3>2, <3>4 DEF Field
  <2>5. CASE object = NoObject
    <3>1. static \in 0..Count /\ running.class \in 0..Count
      BY <1>1, <2>5 DEF RInv, TopLevel
    <3> QED BY <2>2, <2>3, <2>4, <2>5, <3>1 DEF TypeOK
  <2>6. CASE object # NoObject
    <3>1. /\ object \in Instance /\ static \in Ancestors[object.class]
          /\ running # TopLevel => running.class \in Ancestors[object.class]
          /\ DOMAIN object.cells = DOMAIN types[object.class].fields
      BY <1>1, <2>6 DEF RInv
    <3>2. object.class \in Class
      BY <3>1 DEF Instance
    <3>3. static \in 0..Count /\ running.class \in 0..Count
      <4>1. static \in Class /\ (running # TopLevel => running.class \in Class)
        BY <2>3, <3>1, <3>2, AncestorsOfAncestors
      <4>2. running = TopLevel => running.class = 0
        BY DEF TopLevel
      <4> QED BY <4>1, <4>2 DEF Class
    <3>4. Len(object.cells) = Len(types[object.class].fields)
      <4> DEFINE s == types[object.class].fields
      <4>1. s \in Seq(Field)
        BY <2>3, <3>2 DEF ClassType
      <4>2. DOMAIN s = 1..Len(s) /\ Len(s) \in Nat
        BY <4>1, LenProperties
      <4>3. PICK D \in SUBSET Nat : object.cells \in [D -> FieldTypes \cup {Zero}]
        BY <3>1 DEF Instance
      <4>4. object.cells \in [1..Len(s) -> FieldTypes \cup {Zero}]
        BY <3>1, <4>2, <4>3
      <4> HIDE DEF s
      <4>5. Len(object.cells) = Len(s)
        BY <4>2, <4>4, SeqOfFunction
      <4> QED BY <4>5 DEF s
    <3> QED BY <2>2, <2>3, <2>4, <3>3, <3>4 DEF TypeOK
  <2> QED BY <2>5, <2>6
<1> QED BY <1>1, InvariantsHold, PTL

-----------------------------------------------------------------------------
\* The program runs as Python would run it.

\* Python's lookup along the bases finds the nearest definition.
LEMMA LookupIsOwner ==
  ASSUME Grounded(Class), \A c \in Class : types[c].base = decl[c].base, NEW m
  PROVE  /\ Py!Lookup(0, m) = 0
         /\ \A c \in Class : Py!Lookup(c, m) = FindMethodOwner(c, m)
<1> USE ProgramAssumption DEF None
<1> DEFINE base == [c \in Class |-> decl[c].base]
           own == [c \in Class |-> OwnMethods(c)]
           F(f) == [d \in 0..Count |-> IF d = 0 \/ m \in own[d] THEN d ELSE f[base[d]]]
           a == CHOOSE f : f = F(f)
           g == [d \in 0..Count |-> IF d = 0 THEN 0 ELSE FindMethodOwner(d, m)]
<1>1. \A d : Py!Lookup(d, m) = a[d]
  BY DEF Py!Lookup
<1>2. ASSUME NEW d \in 0..Count, d # 0
      PROVE  /\ d \in Class /\ own[d] = OwnMethods(d) /\ base[d] = types[d].base /\ base[d] \in 0..Count
             /\ m \in OwnMethods(d) => FindMethodOwner(d, m) = d
             /\ m \notin OwnMethods(d) =>
                  FindMethodOwner(d, m) = IF types[d].base = None THEN None ELSE FindMethodOwner(types[d].base, m)
  <2>1. d \in Class
    BY <1>2 DEF Class
  <2>2. base[d] = types[d].base /\ types[d].base \in 0..Count
    BY <2>1 DEF Grounded, ClassType
  <2> QED BY <2>1, <2>2, OwnerFacts
<1> HIDE DEF base, own
<1>3. g = F(g)
  <2>1. ASSUME NEW d \in 0..Count PROVE g[d] = F(g)[d]
    <3>1. CASE d = 0
      BY <3>1
    <3>2. CASE d # 0
      BY <1>2, <3>2
    <3> QED BY <3>1, <3>2
  <2> QED BY <2>1
<1>4. a = F(a)
  <2> HIDE DEF F, g
  <2> QED BY <1>3
<1> HIDE DEF a
<1>5. a[0] = 0
  <2>1. 0 \in 0..Count
    OBVIOUS
  <2> QED BY <1>4, <2>1
<1> DEFINE T == {c \in Class : a[c] = FindMethodOwner(c, m)}
<1>6. ASSUME NEW c \in Class, types[c].base # None => types[c].base \in T PROVE c \in T
  <2>1. c \in 0..Count /\ c # 0
    BY DEF Class
  <2>2. a[c] = IF m \in own[c] THEN c ELSE a[base[c]]
    BY <1>4, <2>1
  <2>3. types[c].base = None => a[types[c].base] = 0
    BY <1>5
  <2>4. types[c].base # None => a[types[c].base] = FindMethodOwner(types[c].base, m)
    BY <1>6
  <2> QED BY <1>2, <2>1, <2>2, <2>3, <2>4
<1> HIDE DEF T
<1>7. Class \subseteq T
  BY <1>6, GroundedInduction
<1> QED BY <1>1, <1>5, <1>7 DEF T

\* A walk along the bases to a class finds it where it is an ancestor.
LEMMA WalkIsAncestry ==
  ASSUME Grounded(Class), NEW c \in Class, NEW a,
         a = CHOOSE f : f = [v \in Class |-> v = c \/ (types[v].base # None /\ f[types[v].base])]
  PROVE  \A v \in Class : a[v] <=> c \in Ancestors[v]
<1> USE ProgramAssumption DEF None
<1> DEFINE F(f) == [v \in Class |-> v = c \/ (types[v].base # None /\ f[types[v].base])]
           g == [v \in Class |-> IF c \in Ancestors[v] THEN TRUE ELSE FALSE]
<1>1. ASSUME NEW v \in Class
      PROVE  /\ types[v].base # None => types[v].base \in Class
             /\ c \in Ancestors[v] <=> (v = c \/ (types[v].base # None /\ c \in Ancestors[types[v].base]))
  BY BaseFacts
<1>2. g = F(g)
  <2>1. ASSUME NEW v \in Class PROVE g[v] = F(g)[v]
    <3>1. g[v] = IF c \in Ancestors[v] THEN TRUE ELSE FALSE
      OBVIOUS
    <3>2. types[v].base # None =>
            g[types[v].base] = IF c \in Ancestors[types[v].base] THEN TRUE ELSE FALSE
      BY <1>1
    <3>3. F(g)[v] = (v = c \/ (types[v].base # None /\ g[types[v].base]))
      OBVIOUS
    <3> HIDE DEF F, g
    <3>4. CASE c \in Ancestors[v]
      <4>1. g[v] = TRUE
        BY <3>1, <3>4
      <4>2. F(g)[v] = TRUE
        BY <1>1, <3>2, <3>3, <3>4
      <4> QED BY <4>1, <4>2
    <3>5. CASE c \notin Ancestors[v]
      <4>1. g[v] = FALSE
        BY <3>1, <3>5
      <4>2. F(g)[v] = FALSE
        BY <1>1, <3>2, <3>3, <3>5
      <4> QED BY <4>1, <4>2
    <3> QED BY <3>4, <3>5
  <2> QED BY <2>1
<1>3. a = F(a)
  <2>1. a = CHOOSE f : f = F(f)
    OBVIOUS
  <2> HIDE DEF F, g
  <2> QED BY <1>2, <2>1
<1> DEFINE T == {v \in Class : a[v] <=> c \in Ancestors[v]}
<1>4. ASSUME NEW v \in Class, types[v].base # None => types[v].base \in T PROVE v \in T
  <2>1. a[v] = (v = c \/ (types[v].base # None /\ a[types[v].base]))
    BY <1>3
  <2>2. types[v].base # None => (a[types[v].base] <=> c \in Ancestors[types[v].base])
    BY <1>4
  <2> HIDE DEF F
  <2>3. a[v] <=> c \in Ancestors[v]
    BY <1>1, <2>1, <2>2
  <2> QED BY <2>3
<1> HIDE DEF T
<1>5. Class \subseteq T
  BY <1>4, GroundedInduction
<1> QED BY <1>5 DEF T

LEMMA InstanceWalks ==
  ASSUME Grounded(Class), \A v \in Class : TypeDone(v), NEW c \in Class, NEW v \in Class
  PROVE  /\ VtabWalk(v, types[c].id) <=> c \in Ancestors[v]
         /\ Py!Subclass(c)[v] <=> c \in Ancestors[v]
<1> USE DEF None
<1> DEFINE F(f) == [u \in Class |-> u = c \/ (types[u].base # None /\ f[types[u].base])]
           a == CHOOSE f : f = F(f)
<1>1. a[v] <=> c \in Ancestors[v]
  BY WalkIsAncestry
<1>2. \A u \in Class : types[u].id = u /\ types[u].base = decl[u].base
  BY DEF TypeDone
<1>3. VtabWalk(v, types[c].id) <=> a[v]
  <2> DEFINE G(f) == [u \in Class |-> types[u].id = types[c].id \/ (types[u].base # None /\ f[types[u].base])]
  <2>1. \A f : G(f) = F(f)
    BY <1>2
  <2>2. (CHOOSE f : f = G(f)) = a
    BY <2>1
  <2>3. VtabWalk(v, types[c].id) = (CHOOSE f : f = G(f))[v]
    BY DEF VtabWalk
  <2> QED BY <2>2, <2>3
<1>4. Py!Subclass(c)[v] <=> a[v]
  <2> DEFINE base == [u \in Class |-> decl[u].base]
             G(f) == [u \in Class |-> u = c \/ (base[u] # 0 /\ f[base[u]])]
  <2>1. \A f : G(f) = F(f)
    <3>1. \A u \in Class : base[u] = types[u].base
      BY <1>2
    <3> HIDE DEF base
    <3> QED BY <3>1
  <2>2. (CHOOSE f : f = G(f)) = a
    <3> HIDE DEF F, G
    <3> QED BY <2>1
  <2>3. Py!Subclass(c) = CHOOSE f : f = G(f)
    BY DEF Py!Subclass, Py!Class, Class
  <2> QED BY <2>2, <2>3
<1> QED BY <1>1, <1>3, <1>4

\* The object as Python sees it.
PyObject == [class |-> object.class, dict |-> PyDict]

LEMMA PyObjectFacts ==
  ASSUME Grounded(Class), RInv
  PROVE  /\ object = NoObject => PyObject = Py!NoObject
         /\ object # NoObject => PyObject # Py!NoObject
         /\ \A f \in Attr : PyDict[f] = IF object # NoObject /\ HasField(object.class, f)
                                        THEN object.cells[FieldIdx(object.class, f)] ELSE Zero
<1>1. object = NoObject => PyObject = Py!NoObject
  BY DEF PyObject, PyDict, NoObject, Py!NoObject, None
<1>2. object # NoObject => PyObject # Py!NoObject
  <2>1. object # NoObject => object.class # 0
    BY DEF RInv, Instance, Class
  <2>2. PyObject.class = object.class /\ Py!NoObject.class = 0
    BY DEF PyObject, Py!NoObject
  <2> QED BY <2>1, <2>2
<1> QED BY <1>1, <1>2 DEF PyDict

LEMMA PyStutters ==
  ASSUME decl' = decl, object' = object, running' = running, seen' = seen,
         types' = types \/ object = NoObject
  PROVE  UNCHANGED Py!vars
<1>1. PyDict' = PyDict
  <2>1. CASE types' = types
    BY <2>1 DEF PyDict, HasField, FieldIdx
  <2>2. CASE object = NoObject
    BY <2>2 DEF PyDict, NoObject
  <2> QED BY <2>1, <2>2
<1> QED BY <1>1 DEF Py!vars, OwnMethods

LEMMA MakeRefines ==
  ASSUME NEW n, Standing(5, n), UNCHANGED tableVars, NEW c \in Class, Construct(c)
  PROVE  Py!Make(c)
<1> USE DEF None
<1>1. Py!Lookup(c, "__init__") = FindInitOwner(c)
  BY TablesBuilt, LookupIsOwner DEF FindInitOwner, TypeDone
<1>2. /\ types' = types
      /\ object' = [class |-> c, cells |-> [i \in DOMAIN types[c].fields |-> Zero]]
      /\ running' = IF FindInitOwner(c) = 0 THEN TopLevel ELSE [class |-> FindInitOwner(c), name |-> "__init__"]
      /\ seen' = Nothing
  BY DEF tableVars, Construct
<1>3. PyDict' = Py!NoObject.dict
  <2>1. ASSUME NEW f \in Attr
        PROVE  (IF object' # NoObject /\ f \in Names(types[c].fields)
                THEN object'.cells[IndexOf(types[c].fields, f)] ELSE Zero) = Zero
    <3>1. f \in Names(types[c].fields) => IndexOf(types[c].fields, f) \in DOMAIN types[c].fields
      BY IndexFacts
    <3> QED BY <1>2, <3>1
  <2>2. object'.class = c
    BY <1>2
  <2>3. PyDict' = [f \in Attr |-> IF object' # NoObject /\ f \in Names(types[c].fields)
                                  THEN object'.cells[IndexOf(types[c].fields, f)] ELSE Zero]
    BY <1>2, <2>2 DEF PyDict, HasField, FieldIdx, NoObject
  <2> QED BY <2>1, <2>3 DEF Py!NoObject
<1>4. object'.class = c
  BY <1>2
<1> QED BY <1>1, <1>2, <1>3, <1>4 DEF Py!Make, Py!Run, Py!Nothing, Py!TopLevel, Nothing, TopLevel

LEMMA SetRefines ==
  ASSUME NEW n, Standing(5, n), RInv, UNCHANGED tableVars, NEW f \in Attr, WriteField(f)
  PROVE  \E v \in FieldTypes : Py!Set(f, v)
<1> DEFINE i == FieldIdx(Self, f)
           v == FieldType(Self, f)
           s == types[object.class].fields
<1>1. Holding /\ HasField(Self, f) /\ Store(i, v)
  BY DEF WriteField
<1>2. /\ i \in DOMAIN object.cells /\ v \in FieldTypes
      /\ HasField(object.class, f) /\ FieldIdx(object.class, f) = i
  BY <1>1, FieldAt
<1>3. /\ types' = types /\ running' = running /\ seen' = Nothing
      /\ object' = [object EXCEPT !.cells[i] = v]
  BY <1>1 DEF tableVars, WriteField, Store
<1>4. object \in Instance /\ object # NoObject
  BY <1>1 DEF RInv, Holding
<1> HIDE DEF i, v
<1> DEFINE cells == [object.cells EXCEPT ![i] = v]
<1>5. object' = [object EXCEPT !.cells = cells]
  BY <1>3
<1>6. \A j \in DOMAIN object.cells : cells[j] = IF j = i THEN v ELSE object.cells[j]
  OBVIOUS
<1> HIDE DEF cells
<1>7. object'.class = object.class /\ object'.cells = cells
  BY <1>4, <1>5 DEF Instance
<1>8. object' # NoObject
  BY <1>4, <1>7 DEF Instance, NoObject, Class, None
<1>9. DOMAIN object.cells = DOMAIN s
  BY <1>4 DEF RInv
<1>10. ASSUME NEW a \in Attr
       PROVE  PyDict'[a] = IF a = f THEN v ELSE PyDict[a]
  <2>1. PyDict'[a] = IF a \in Names(s) THEN cells[IndexOf(s, a)] ELSE Zero
    <3>1. PyDict' = [e \in Attr |-> IF object' # NoObject /\ e \in Names(types'[object'.class].fields)
                                    THEN object'.cells[IndexOf(types'[object'.class].fields, e)] ELSE Zero]
      BY DEF PyDict, HasField, FieldIdx, NoObject
    <3>2. types'[object'.class].fields = s
      BY <1>3, <1>7
    <3> HIDE DEF s
    <3> QED BY <1>7, <1>8, <3>1, <3>2
  <2>2. PyDict[a] = IF a \in Names(s) THEN object.cells[IndexOf(s, a)] ELSE Zero
    BY <1>4 DEF PyDict, HasField, FieldIdx
  <2>3. f \in Names(s) /\ IndexOf(s, f) = i
    BY <1>2 DEF HasField, FieldIdx
  <2> HIDE DEF s
  <2>4. CASE a = f
    BY <1>2, <1>6, <2>1, <2>3, <2>4
  <2>5. CASE a # f /\ a \in Names(s)
    <3>1. IndexOf(s, a) \in DOMAIN s /\ s[IndexOf(s, a)].name = a /\ s[IndexOf(s, f)].name = f
      BY <2>3, <2>5, IndexFacts
    <3>2. IndexOf(s, a) # i
      BY <2>3, <2>5, <3>1
    <3> QED BY <1>6, <1>9, <2>1, <2>2, <2>5, <3>1, <3>2
  <2>6. CASE a # f /\ a \notin Names(s)
    BY <2>1, <2>2, <2>6
  <2> QED BY <2>4, <2>5, <2>6
<1>11. PyObject' = [PyObject EXCEPT !.dict[f] = v]
  <2>1. PyDict' = [a \in Attr |-> PyDict'[a]] /\ DOMAIN PyDict = Attr
    BY DEF PyDict
  <2>2. PyDict' = [PyDict EXCEPT ![f] = v]
    BY <1>10, <2>1 DEF PyDict
  <2>3. PyObject' = [class |-> object.class, dict |-> PyDict']
    BY <1>7 DEF PyObject
  <2>4. PyObject.dict = PyDict
    BY DEF PyObject
  <2> QED BY <2>2, <2>3, <2>4 DEF PyObject
<1>12. PyObject # Py!NoObject
  BY <1>4, TablesBuilt, PyObjectFacts
<1>13. Py!Set(f, v)
  BY <1>3, <1>11, <1>12 DEF Py!Set, PyObject, Py!Nothing, Nothing
<1> QED BY <1>2, <1>13

LEMMA GetRefines ==
  ASSUME NEW n, Standing(5, n), RInv, UNCHANGED tableVars, NEW f \in Attr, ReadField(f)
  PROVE  Py!Get(f)
<1>1. /\ Holding /\ HasField(Self, f) /\ object.cells[FieldIdx(Self, f)] # Zero
      /\ seen' = object.cells[FieldIdx(Self, f)] /\ object' = object /\ running' = running
      /\ types' = types
  BY DEF tableVars, ReadField
<1>2. HasField(object.class, f) /\ FieldIdx(object.class, f) = FieldIdx(Self, f)
  BY <1>1, FieldAt
<1>3. object # NoObject
  BY <1>1 DEF Holding
<1>4. PyDict[f] = object.cells[FieldIdx(Self, f)] /\ PyObject # Py!NoObject
  BY <1>2, <1>3, TablesBuilt, PyObjectFacts
<1>5. PyDict' = PyDict
  BY <1>1 DEF PyDict, HasField, FieldIdx
<1>6. PyObject.dict = PyDict
  BY DEF PyObject
<1> QED BY <1>1, <1>4, <1>5, <1>6 DEF Py!Get, PyObject

\* Whatever runs, Python runs it too.
LEMMA RunRefines ==
  ASSUME RInv, Grounded(Class), UNCHANGED tableVars, NEW target, Invoke(target)
  PROVE  PyDict' = PyDict /\ Py!Run(target.class, target.name)
<1>1. types' = types /\ object' = object
  BY DEF tableVars, Invoke
<1> QED BY <1>1 DEF PyDict, HasField, FieldIdx, Invoke, Py!Run

LEMMA CallRefines ==
  ASSUME NEW n, Standing(5, n), RInv, UNCHANGED tableVars, Holding,
         NEW m \in Names(tables[Self]), Invoke(VirtualTarget(m)),
         \/ FindMethodOwner(object.class, m) # None
         \/ m = "__str__" /\ types[object.class].base = None
  PROVE  Py!Call(m)
<1> USE DEF None
<1> DEFINE owner == FindMethodOwner(object.class, m)
           target == VirtualTarget(m)
<1>1. /\ Grounded(Class) /\ object.class \in Class /\ object # NoObject
      /\ \A c \in Class : types[c].base = decl[c].base
  BY TablesBuilt, SelfFacts DEF TypeDone, Holding
<1>2. Py!Lookup(object.class, m) = owner
  BY <1>1, LookupIsOwner
<1>3. target.name = m /\ target.class = IF owner = 0 THEN object.class ELSE owner
  BY TargetOf
<1>4. PyObject # Py!NoObject
  BY <1>1, PyObjectFacts
<1>5. PyDict' = PyDict /\ Py!Run(target.class, target.name) /\ object' = object /\ seen' = Nothing
  BY <1>1, RunRefines DEF Invoke
<1> HIDE DEF owner, target
<1>6. Py!Run(IF owner = 0 THEN object.class ELSE owner, m)
  BY <1>3, <1>5
<1>7. owner # 0 \/ m = "__str__"
  BY DEF owner
<1> QED BY <1>2, <1>4, <1>5, <1>6, <1>7 DEF Py!Call, PyObject, Py!Nothing, Nothing

LEMMA SuperRefines ==
  ASSUME NEW n, Standing(5, n), RInv, UNCHANGED tableVars, NEW m, CallSuper(m)
  PROVE  Py!Super(m)
<1> USE DEF None
<1> DEFINE b == types[running.class].base
           owner == FindMethodOwner(b, m)
           target == [class |-> owner, name |-> m]
<1>1. Holding /\ running # TopLevel /\ b # 0 /\ owner # 0 /\ Invoke(target)
  BY DEF CallSuper
<1>2. Grounded(Class) /\ \A c \in Class : types[c].base = decl[c].base
  BY TablesBuilt DEF TypeDone
<1>3. running.class \in Class
  BY <1>1, <1>2, AncestorsOfAncestors DEF RInv, Holding, Instance
<1>4. b \in Class /\ b = decl[running.class].base
  BY <1>1, <1>2, <1>3, BaseFacts
<1>5. Py!Lookup(b, m) = owner
  BY <1>2, <1>4, LookupIsOwner
<1>6. PyDict' = PyDict /\ Py!Run(target.class, target.name) /\ object' = object /\ seen' = Nothing
  BY <1>1, <1>2, RunRefines DEF Invoke
<1>7. target.class = owner /\ target.name = m
  OBVIOUS
<1>8. [c \in Class |-> decl[c].base][running.class] = b
  BY <1>3, <1>4
<1> HIDE DEF b, owner, target
<1> QED BY <1>1, <1>5, <1>6, <1>7, <1>8 DEF Py!Super, Py!TopLevel, TopLevel, Py!Nothing, Nothing

LEMMA AskRefines ==
  ASSUME NEW n, Standing(5, n), RInv, UNCHANGED tableVars, NEW c \in Class, IsInstance(c)
  PROVE  Py!Ask(c)
<1>1. /\ Holding /\ seen' = IF VtabWalk(object.class, types[c].id) THEN "True" ELSE "False"
      /\ object' = object /\ running' = running /\ types' = types
  BY DEF IsInstance, Result, tableVars
<1>2. Grounded(Class) /\ object.class \in Class /\ object # NoObject /\ \A v \in Class : TypeDone(v)
  BY <1>1, TablesBuilt, SelfFacts DEF Holding
<1>3. VtabWalk(object.class, types[c].id) <=> Py!Subclass(c)[object.class]
  BY <1>2, InstanceWalks
<1>4. PyObject # Py!NoObject
  BY <1>2, PyObjectFacts
<1>5. PyDict' = PyDict
  BY <1>1 DEF PyDict, HasField, FieldIdx
<1>6. seen' = IF Py!Subclass(c)[object.class] THEN "True" ELSE "False"
  BY <1>1, <1>3
<1>7. PyObject.class = object.class
  BY DEF PyObject
<1> QED BY <1>1, <1>4, <1>5, <1>6, <1>7 DEF Py!Ask, PyObject

LEMMA StepRefines ==
  ASSUME CInv, RInv, [Next]_vars
  PROVE  [Py!Next]_Py!vars
<1>1. CASE Compile /\ UNCHANGED <<static, object, running, seen>>
  <2>1. object = NoObject
    BY <1>1, CompilePass DEF RInv
  <2>2. decl' = decl
    BY <1>1 DEF Compile, RegisterType, RegisterMethods, InferFields, ComputeSlots, NextPass, Refuse, Advance
  <2> QED BY <1>1, <2>1, <2>2, PyStutters
<1>2. CASE UNCHANGED vars
  BY <1>2, PyStutters DEF vars, tableVars
<1>3. CASE Execute
  <2>1. UNCHANGED tableVars /\ decl' = decl /\ types' = types
    BY <1>3 DEF Execute, tableVars
  <2>2. pass = "run"
    BY <1>3 DEF Execute, Construct, Widen, ThroughList, IsInstance, ReadField, WriteField,
                CallMethod, CallSuper, PrintObject, Return, Holding, Can
  <2>3. Standing(5, next)
    <3>1. PICK k \in 1..5 : Standing(k, next) /\ (PassAt(k, pass) \/ pass = "refused")
      BY DEF CInv
    <3>2. k = 5
      BY <2>2, <3>1 DEF PassAt
    <3> QED BY <3>1, <3>2
  <2>4. /\ [c \in Class |-> decl'[c].base] = [c \in Class |-> decl[c].base]
        /\ [c \in Class |-> OwnMethods(c)]' = [c \in Class |-> OwnMethods(c)]
    BY <2>1 DEF OwnMethods
  <2>5. UNION {[c \in Class |-> OwnMethods(c)][k] : k \in Class} = MethodNames
    BY DEF MethodNames
  <2>6. Py!Class = Class
    BY DEF Py!Class, Class
  <2>7. ASSUME NEW c \in Class, Construct(c) \/ Widen(c) \/ ThroughList(c) \/ IsInstance(c)
        PROVE  [Py!Next]_Py!vars
    <3>1. CASE Construct(c)
      <4>1. Py!Make(c)
        BY <2>1, <2>3, <3>1, MakeRefines
      <4> QED BY <2>4, <2>6, <4>1 DEF Py!Next
    <3>2. CASE IsInstance(c)
      <4>1. Py!Ask(c)
        BY <2>1, <2>3, <3>2, AskRefines
      <4> QED BY <2>4, <2>6, <4>1 DEF Py!Next
    <3>3. CASE Widen(c) \/ ThroughList(c)
      <4>1. object' = object /\ running' = running /\ seen' = seen
        BY <3>3 DEF Widen, ThroughList
      <4> QED BY <2>1, <4>1, PyStutters
    <3> QED BY <2>7, <3>1, <3>2, <3>3
  <2>8. ASSUME NEW f \in Attr, ReadField(f) \/ WriteField(f)
        PROVE  [Py!Next]_Py!vars
    <3>1. CASE ReadField(f)
      <4>1. Py!Get(f)
        BY <2>1, <2>3, <3>1, GetRefines
      <4> QED BY <2>4, <4>1 DEF Py!Next
    <3>2. CASE WriteField(f)
      <4>1. \E v \in FieldTypes : Py!Set(f, v)
        BY <2>1, <2>3, <3>2, SetRefines
      <4> QED BY <2>4, <4>1 DEF Py!Next
    <3> QED BY <2>8, <3>1, <3>2
  <2>9. ASSUME NEW m \in MethodNames, CallMethod(m) \/ CallSuper(m)
        PROVE  [Py!Next]_Py!vars
    <3>1. m \in {"__str__"} \cup UNION {[c \in Class |-> OwnMethods(c)][k] : k \in Class}
      BY <2>5
    <3>2. CASE CallMethod(m)
      <4>1. /\ Holding /\ m \in DOMAIN types[Self].methods /\ m # "__init__"
            /\ Invoke(VirtualTarget(m))
        BY <3>2 DEF CallMethod
      <4>2. m \in Names(tables[Self]) /\ FindMethodOwner(object.class, m) # None
        BY <2>3, <4>1, CallFacts
      <4>3. Py!Call(m)
        BY <2>1, <2>3, <4>1, <4>2, CallRefines
      <4> QED BY <2>4, <2>6, <3>1, <4>3 DEF Py!Next
    <3>3. CASE CallSuper(m)
      <4>1. Py!Super(m)
        BY <2>1, <2>3, <3>3, SuperRefines
      <4> QED BY <2>4, <2>6, <3>1, <4>1 DEF Py!Next
    <3> QED BY <2>9, <3>2, <3>3
  <2>10. ASSUME PrintObject PROVE [Py!Next]_Py!vars
    <3>1. /\ Holding /\ Invoke(VirtualTarget("__str__"))
          /\ types[object.class].base = None \/ FindMethodOwner(object.class, "__str__") # None
      BY <2>10 DEF PrintObject, InheritsDefault
    <3>2. Self \in Class /\ SlotsRight(Self)
      BY <2>3, <3>1, TablesBuilt, SelfFacts
    <3>3. "__str__" \in Names(tables[Self])
      BY <3>2 DEF SlotsRight
    <3>4. Py!Call("__str__")
      BY <2>1, <2>3, <3>1, <3>3, CallRefines
    <3> QED BY <2>4, <3>4 DEF Py!Next
  <2>11. ASSUME Return PROVE [Py!Next]_Py!vars
    <3>1. PyDict' = PyDict
      BY <2>1, <2>11 DEF Return, PyDict, HasField, FieldIdx
    <3>2. Py!Return
      BY <2>11, <3>1 DEF Return, Py!Return, Py!TopLevel, TopLevel, Py!Nothing, Nothing, None
    <3> QED BY <2>4, <3>2 DEF Py!Next
  <2> QED BY <1>3, <2>7, <2>8, <2>9, <2>10, <2>11 DEF Execute
<1> QED BY <1>1, <1>2, <1>3 DEF Next

\* Offsets, slots, class ids and static types, however wide the type the object
\* goes by, come to what Python does with dicts and lookups by name.
THEOREM ClassesRunAsPython == Spec => RunsAsPython
<1>1. Init => Py!Init
  <2> SUFFICES ASSUME Init PROVE Py!Init
    OBVIOUS
  <2>1. object = NoObject /\ running = TopLevel /\ seen = Nothing
    BY DEF Init
  <2>2. PyObject = Py!NoObject
    BY <2>1 DEF PyObject, PyDict, NoObject, Py!NoObject, None
  <2> QED BY <2>1, <2>2 DEF Py!Init, PyObject, Py!TopLevel, TopLevel, Py!Nothing, Nothing, None
<1>2. CInv /\ RInv /\ [Next]_vars => [Py!Next]_Py!vars
  BY StepRefines
<1> QED BY <1>1, <1>2, InvariantsHold, PTL DEF Spec, RunsAsPython, Py!Spec
=============================================================================
