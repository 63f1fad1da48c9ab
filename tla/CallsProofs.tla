----------------------------- MODULE CallsProofs -----------------------------
(***************************************************************************)
(* The code generator finds a value in the call for each parameter the       *)
(* checker found filled, and a call the checker rejects is an error in       *)
(* Python, for any definition and any call.                                 *)
(***************************************************************************)
EXTENDS Calls, TLAPS, SequenceTheorems, FiniteSets, FiniteSetTheorems, WellFoundedInduction

\* Sequences, of whatever elements.
IsSeq(s) == \E S : s \in Seq(S)

LEMMA SeqShape ==
  ASSUME NEW s, IsSeq(s)
  PROVE  Len(s) \in Nat /\ DOMAIN s = 1..Len(s) /\ (s = <<>> <=> Len(s) = 0)
<1>1. PICK S : s \in Seq(S)
  BY DEF IsSeq
<1> QED
  BY <1>1

LEMMA SeqAppend ==
  ASSUME NEW s, IsSeq(s), NEW e
  PROVE  /\ IsSeq(Append(s, e)) /\ Len(Append(s, e)) = Len(s) + 1
         /\ \A j \in 1..Len(s) : Append(s, e)[j] = s[j]
         /\ Append(s, e)[Len(s) + 1] = e
<1>1. PICK S : s \in Seq(S)
  BY DEF IsSeq
<1> DEFINE T == S \cup {e}
<1>2. s \in Seq(T) /\ e \in T
  BY <1>1, SeqMonotonic
<1> HIDE DEF T
<1> QED
  BY <1>2, AppendProperties DEF IsSeq

\* Counting up.
LEMMA LeastNat ==
  ASSUME NEW T \in SUBSET Nat, T # {}
  PROVE  \E x \in T : \A y \in T : x <= y
<1> DEFINE R == OpToRel(<, Nat)
<1>1. IsWellFoundedOn(R, Nat)
  BY NatLessThanWellFounded
<1>2. \A x, y \in Nat : x < y => <<x, y>> \in R
  BY DEF OpToRel
<1> HIDE DEF R
<1>3. PICK x \in T : \A y \in T : ~(<<y, x>> \in R)
  BY <1>1, WFMin
<1>4. \A y \in T : x <= y
  <2> TAKE y \in T
  <2>1. x \in Nat /\ y \in Nat
    OBVIOUS
  <2>2. ~(y < x)
    BY <1>2, <1>3, <2>1
  <2> QED BY <2>1, <2>2
<1> QED BY <1>4

LEMMA LoopInduction ==
  ASSUME NEW n \in Nat, NEW T, 0 \in T, \A k \in 0..n - 1 : k \in T => k + 1 \in T
  PROVE  0..n \subseteq T
<1> DEFINE Bad == {k \in 0..n : k \notin T}
<1>1. SUFFICES ASSUME Bad # {} PROVE FALSE
  OBVIOUS
<1>2. PICK k \in Bad : \A j \in Bad : k <= j
  <2>1. Bad \in SUBSET Nat
    OBVIOUS
  <2> HIDE DEF Bad
  <2> QED BY <1>1, <2>1, LeastNat
<1>3. k \in 0..n /\ k \notin T /\ k # 0
  OBVIOUS
<1>4. k - 1 \in 0..n - 1 /\ k - 1 + 1 = k
  BY <1>3
<1>5. k - 1 \notin T
  BY <1>3, <1>4
<1>6. k - 1 \in Bad
  BY <1>4, <1>5
<1> QED BY <1>2, <1>3, <1>4, <1>6

LEMMA SeqConcat ==
  ASSUME NEW s, IsSeq(s), NEW t, IsSeq(t)
  PROVE  /\ IsSeq(s \o t) /\ Len(s \o t) = Len(s) + Len(t)
         /\ \A j \in 1..Len(s) : (s \o t)[j] = s[j]
<1>1. PICK S : s \in Seq(S)
  BY DEF IsSeq
<1>2. PICK T : t \in Seq(T)
  BY DEF IsSeq
<1> DEFINE U == S \cup T
<1>3. s \in Seq(U) /\ t \in Seq(U)
  BY <1>1, <1>2, SeqMonotonic
<1>4. Len(s) \in Nat /\ Len(t) \in Nat
  BY SeqShape
<1> HIDE DEF U
<1>5. /\ s \o t \in Seq(U) /\ Len(s \o t) = Len(s) + Len(t)
      /\ \A j \in 1..Len(s) + Len(t) : (s \o t)[j] = IF j <= Len(s) THEN s[j] ELSE t[j - Len(s)]
  BY <1>3, ConcatProperties
<1> QED
  BY <1>4, <1>5 DEF IsSeq

LEMMA SeqConcatRight ==
  ASSUME NEW s, IsSeq(s), NEW t, IsSeq(t), NEW j \in 1..Len(t)
  PROVE  (s \o t)[Len(s) + j] = t[j]
<1>1. PICK S : s \in Seq(S)
  BY DEF IsSeq
<1>2. PICK T : t \in Seq(T)
  BY DEF IsSeq
<1> DEFINE U == S \cup T
           n == Len(s) + j
<1>3. s \in Seq(U) /\ t \in Seq(U)
  BY <1>1, <1>2, SeqMonotonic
<1>4. Len(s) \in Nat /\ Len(t) \in Nat
  BY SeqShape
<1> HIDE DEF U
<1>5. \A h \in 1..Len(s) + Len(t) : (s \o t)[h] = IF h <= Len(s) THEN s[h] ELSE t[h - Len(s)]
  BY <1>3, ConcatProperties
<1>6. n \in 1..Len(s) + Len(t) /\ ~(n <= Len(s)) /\ n - Len(s) = j
  BY <1>4
<1> HIDE DEF n
<1>7. (s \o t)[n] = t[n - Len(s)]
  BY <1>5, <1>6
<1> QED
  BY <1>6, <1>7 DEF n

LEMMA ListIsSeq ==
  ASSUME NEW l, IsList(l)
  PROVE  IsSeq(l)
<1> DEFINE S == {l[n] : n \in 1..Len(l)}
<1>1. Len(l) \in Nat /\ l \in [1..Len(l) -> S]
  BY DEF IsList
<1> HIDE DEF S
<1>2. l \in Seq(S)
  BY <1>1
<1> QED
  BY <1>2 DEF IsSeq

\* FlattenSeq puts one list behind the other.
LEMMA FlattenIsLoop ==
  ASSUME NEW ls, NEW N \in Nat \ {0}, Len(ls) = N
  PROVE  \E f : /\ f[1] = ls[1] /\ \A n \in 2..N : f[n] = f[n - 1] \o ls[n]
                /\ Py!FlattenSeq(ls) = f[N]
<1> DEFINE Run(n, g) == /\ g = [k \in 1..n |-> g[k]] /\ g[1] = ls[1]
                        /\ \A k \in 2..n : g[k] = g[k - 1] \o ls[k]
           T == {n \in 0..N - 1 : \E g : Run(n + 1, g)}
<1>1. 0 \in T
  <2>1. Run(0 + 1, [k \in 1..1 |-> ls[1]])
    OBVIOUS
  <2> HIDE DEF Run
  <2> QED
    BY <2>1
<1>2. ASSUME NEW n \in 0..(N - 1) - 1, n \in T PROVE n + 1 \in T
  <2>1. PICK g : Run(n + 1, g)
    BY <1>2
  <2> DEFINE m == n + 1
             h == [k \in 1..m + 1 |-> IF k = m + 1 THEN g[m] \o ls[m + 1] ELSE g[k]]
  <2>2. m \in Nat \ {0} /\ m \in 0..N - 1
    OBVIOUS
  <2>3. /\ g = [k \in 1..m |-> g[k]] /\ g[1] = ls[1]
        /\ \A k \in 2..m : g[k] = g[k - 1] \o ls[k]
    BY <2>1
  <2> HIDE DEF m
  <2>4. h = [k \in 1..m + 1 |-> h[k]] /\ h[1] = ls[1]
    BY <2>2, <2>3
  <2>5. ASSUME NEW k \in 2..m + 1 PROVE h[k] = h[k - 1] \o ls[k]
    <3>1. CASE k = m + 1
      <4>1. k \in 1..m + 1 /\ k - 1 = m /\ m \in 1..m + 1 /\ m # m + 1
        BY <2>2, <3>1
      <4>2. h[k] = g[m] \o ls[m + 1] /\ h[m] = g[m]
        BY <3>1, <4>1
      <4> HIDE DEF h
      <4> QED
        BY <3>1, <4>1, <4>2
    <3>2. CASE k # m + 1
      <4>1. k \in 2..m /\ k \in 1..m + 1 /\ k - 1 \in 1..m + 1 /\ k - 1 # m + 1
        BY <2>2, <3>2
      <4> QED
        BY <2>3, <3>2, <4>1
    <3> QED
      BY <3>1, <3>2
  <2> HIDE DEF h
  <2>6. Run(m + 1, h)
    BY <2>4, <2>5
  <2> QED
    BY <2>2, <2>6 DEF m
<1> HIDE DEF T
<1>3. N - 1 \in T
  <2>1. 0..N - 1 \subseteq T
    BY <1>1, <1>2, LoopInduction
  <2> QED
    BY <2>1
<1>4. PICK g : Run(N, g)
  <2>1. N - 1 + 1 = N
    OBVIOUS
  <2> HIDE DEF Run
  <2>2. \E g : Run(N - 1 + 1, g)
    BY <1>3 DEF T
  <2> QED
    BY <2>1, <2>2
<1> DEFINE F(f) == [n \in 1..N |-> IF n = 1 THEN ls[n] ELSE f[n - 1] \o ls[n]]
<1>5. g = F(g)
  <2>1. ASSUME NEW n \in 1..N
        PROVE  g[n] = IF n = 1 THEN ls[n] ELSE g[n - 1] \o ls[n]
    <3>1. n = 1 \/ n \in 2..N
      OBVIOUS
    <3> QED
      BY <1>4, <3>1
  <2> QED
    BY <1>4, <2>1, Zenon
<1> DEFINE a == CHOOSE f : f = F(f)
<1>6. Py!FlattenSeq(ls) = a[N]
  BY DEF Py!FlattenSeq
<1>7. a = F(a)
  BY <1>5, Zenon
<1> HIDE DEF a
<1>8. a[1] = ls[1] /\ \A n \in 2..N : a[n] = a[n - 1] \o ls[n]
  <2>1. \A n \in 1..N : a[n] = IF n = 1 THEN ls[n] ELSE a[n - 1] \o ls[n]
    BY <1>7
  <2>2. 1 \in 1..N /\ \A n \in 2..N : n \in 1..N /\ n # 1
    OBVIOUS
  <2> HIDE DEF F
  <2> QED
    BY <2>1, <2>2
<1> QED
  BY <1>6, <1>8

-----------------------------------------------------------------------------
\* How far the two matchings are: what they have found filled depends only on
\* the arguments they have seen.

\* Arguments before the n-th that stand for one value, and how many they are.
SinglesBefore(list, n) == {a \in DOMAIN list : a < n /\ ~list[a].star}
Placed(list, n) == Cardinality(SinglesBefore(list, n))

\* The parameters they fill, of those that come before position k, and the
\* parameters of ds that keywords before the n-th fill.
ByPosition(list, k, n) == {p \in 1..k : p <= Placed(list, n)}
Named(ds, kw) == {p \in 1..Len(ds) : ds[p].name \in DOMAIN kw.map}
ByKeyword(ks, ds, n) ==
  {p \in 1..Len(ds) : \E k \in DOMAIN ks : k < n /\ ~ks[k].star /\ p \in Named(ds, ks[k])}

\* What arguments before the n-th and keywords before the m-th fill.
Given(n, m) == ByPosition(args, kwOnlyStart, n) \cup ByKeyword(kws, declared, m)

HasValue == {p \in 1..nNamed : namedVals[p] # <<>>}
AllArgs == Len(args) + 1
AllKws  == Len(kws) + 1

Declaring == pc \in {"define", "register", "undefined"}
Matched   == pc \in {"emit args", "emit kws"}

SignatureInv == /\ IsSeq(declared) /\ i \in Nat \ {0}
                /\ Declaring => kwOnlyStart \in -1..nNamed
                /\ ~Declaring => kwOnlyStart \in 0..nNamed
                /\ Declaring \/ pc = "defined" => posIdx = 1 /\ filled = {}
                /\ pc = "defined" => i = 1
                /\ ~(Declaring \/ pc = "defined") => args \in ArgLists /\ kws \in KwLists

CheckerInv == /\ pc = "args" => posIdx = Placed(args, i) + 1 /\ filled = Given(i, 1)
              /\ pc = "kws" => filled = Given(AllArgs, i)
              /\ Matched => filled = Given(AllArgs, AllKws)

GeneratorInv == /\ Matched => namedVals = [p \in 1..nNamed |-> namedVals[p]]
                /\ pc = "emit args" =>
                     /\ HasValue = Given(i, 1)
                     /\ posIdx = IF Placed(args, i) < kwOnlyStart THEN Placed(args, i) + 1
                                 ELSE kwOnlyStart + 1
                /\ pc = "emit kws" => HasValue = Given(AllArgs, i)

MatchInv == SignatureInv /\ CheckerInv /\ GeneratorInv

LEMMA PlacedGrows ==
  ASSUME NEW list, NEW N \in Nat, DOMAIN list = 1..N, NEW n \in Nat
  PROVE  /\ Placed(list, n) \in Nat /\ Placed(list, 1) = 0
         /\ n \in DOMAIN list /\ list[n].star => Placed(list, n + 1) = Placed(list, n)
         /\ n \in DOMAIN list /\ ~list[n].star => Placed(list, n + 1) = Placed(list, n) + 1
         /\ n > N => Placed(list, n) = Placed(list, N + 1)
<1> DEFINE B == SinglesBefore(list, n)
           star(a) == list[a].star
<1>0. \A k, a : a \in SinglesBefore(list, k) <=> a \in 1..N /\ a < k /\ ~star(a)
  BY DEF SinglesBefore
<1> HIDE DEF star
<1>1. IsFiniteSet(B) /\ Cardinality(B) \in Nat
  <2>1. B \in SUBSET (1..N)
    BY <1>0
  <2>2. IsFiniteSet(1..N)
    BY FS_Interval
  <2> HIDE DEF B
  <2>3. IsFiniteSet(B)
    BY <2>1, <2>2, FS_Subset
  <2> QED
    BY <2>3, FS_CardinalityType
<1>2. SinglesBefore(list, 1) = {}
  BY <1>0
<1>3. Cardinality({}) = 0
  BY FS_EmptySet
<1>4. n \in 1..N /\ star(n) => SinglesBefore(list, n + 1) = B
  <2>1. n \in 1..N /\ star(n) => \A a : a \in SinglesBefore(list, n + 1) <=> a \in B
    BY <1>0
  <2> QED
    BY <2>1
<1>5. n \in 1..N /\ ~star(n) => SinglesBefore(list, n + 1) = B \cup {n}
  <2>1. n \in 1..N /\ ~star(n) =>
          \A a : a \in SinglesBefore(list, n + 1) <=> a \in B \/ a = n
    BY <1>0
  <2> QED
    BY <2>1
<1>6. n > N => SinglesBefore(list, N + 1) = B
  <2>1. n > N => \A a : a \in SinglesBefore(list, N + 1) <=> a \in B
    BY <1>0
  <2> QED
    BY <2>1
<1>7. n \notin B
  BY <1>0
<1> HIDE DEF B
<1>8. Cardinality(B \cup {n}) = Cardinality(B) + 1
  BY <1>1, <1>7, FS_AddElement
<1>9. Placed(list, n) = Cardinality(B)
  BY DEF Placed, B
<1> QED
  BY <1>1, <1>2, <1>3, <1>4, <1>5, <1>6, <1>8, <1>9 DEF Placed, star

LEMMA ByPositionGrows ==
  ASSUME NEW list, NEW N \in Nat, DOMAIN list = 1..N, NEW k \in Nat, NEW n \in DOMAIN list
  PROVE  /\ list[n].star \/ Placed(list, n) >= k
              => ByPosition(list, k, n + 1) = ByPosition(list, k, n)
         /\ ~list[n].star /\ Placed(list, n) < k
              => ByPosition(list, k, n + 1) = ByPosition(list, k, n) \cup {Placed(list, n) + 1}
<1> DEFINE m == Placed(list, n)
           m1 == Placed(list, n + 1)
<1>0. n \in Nat
  OBVIOUS
<1>1. m \in Nat /\ (list[n].star => m1 = m) /\ (~list[n].star => m1 = m + 1)
  BY <1>0, PlacedGrows
<1>2. /\ ByPosition(list, k, n) = {p \in 1..k : p <= m}
      /\ ByPosition(list, k, n + 1) = {p \in 1..k : p <= m1}
  BY DEF ByPosition
<1> HIDE DEF m, m1
<1>3. list[n].star \/ m >= k => ByPosition(list, k, n + 1) = ByPosition(list, k, n)
  BY <1>1, <1>2
<1>4. ~list[n].star /\ m < k => ByPosition(list, k, n + 1) = ByPosition(list, k, n) \cup {m + 1}
  BY <1>1, <1>2
<1> QED
  BY <1>3, <1>4 DEF m

LEMMA ByPositionEnds ==
  ASSUME NEW list, NEW N \in Nat, DOMAIN list = 1..N, NEW k \in Nat, NEW n \in Nat
  PROVE  /\ ByPosition(list, k, 1) = {}
         /\ n > N => ByPosition(list, k, n) = ByPosition(list, k, N + 1)
<1>1. Placed(list, 1) = 0 /\ (n > N => Placed(list, n) = Placed(list, N + 1))
  BY PlacedGrows
<1> QED
  BY <1>1 DEF ByPosition

LEMMA ByKeywordMember ==
  ASSUME NEW ks, NEW N \in Nat, DOMAIN ks = 1..N, NEW ds, NEW m, NEW p
  PROVE  p \in ByKeyword(ks, ds, m) <=>
           \E k \in 1..N : k < m /\ ~ks[k].star /\ p \in Named(ds, ks[k])
<1>1. \A k : Named(ds, ks[k]) \subseteq 1..Len(ds)
  BY DEF Named
<1> QED
  BY <1>1 DEF ByKeyword

LEMMA ByKeywordStart ==
  ASSUME NEW ks, NEW N \in Nat, DOMAIN ks = 1..N, NEW ds
  PROVE  ByKeyword(ks, ds, 1) = {}
<1>1. \A p : p \notin ByKeyword(ks, ds, 1)
  BY ByKeywordMember
<1> QED
  BY <1>1

LEMMA ByKeywordSkips ==
  ASSUME NEW ks, NEW N \in Nat, DOMAIN ks = 1..N, NEW ds, NEW n \in 1..N, ks[n].star
  PROVE  ByKeyword(ks, ds, n + 1) = ByKeyword(ks, ds, n)
<1>1. \A k \in 1..N : k < n + 1 <=> k < n \/ k = n
  OBVIOUS
<1>2. \A p : p \in ByKeyword(ks, ds, n + 1) <=> p \in ByKeyword(ks, ds, n)
  BY <1>1, ByKeywordMember
<1> QED
  BY <1>2

LEMMA ByKeywordAdds ==
  ASSUME NEW ks, NEW N \in Nat, DOMAIN ks = 1..N, NEW ds, NEW n \in 1..N, ~ks[n].star
  PROVE  ByKeyword(ks, ds, n + 1) = ByKeyword(ks, ds, n) \cup Named(ds, ks[n])
<1>1. \A k \in 1..N : k < n + 1 <=> k < n \/ k = n
  OBVIOUS
<1>2. \A p : p \in ByKeyword(ks, ds, n + 1)
               <=> p \in ByKeyword(ks, ds, n) \/ p \in Named(ds, ks[n])
  BY <1>1, ByKeywordMember
<1> QED
  BY <1>2

LEMMA ByKeywordEnds ==
  ASSUME NEW ks, NEW N \in Nat, DOMAIN ks = 1..N, NEW ds, NEW n \in Nat, n > N
  PROVE  ByKeyword(ks, ds, n) = ByKeyword(ks, ds, N + 1)
<1>1. \A k \in 1..N : k < n /\ k < N + 1
  OBVIOUS
<1>2. \A p : p \in ByKeyword(ks, ds, n) <=> p \in ByKeyword(ks, ds, N + 1)
  BY <1>1, ByKeywordMember
<1> QED
  BY <1>2

\* The lists of a call, and the signature it is matched with.
LEMMA CallShape ==
  ASSUME SignatureInv, ~Declaring
  PROVE  /\ i \in Nat /\ nNamed \in Nat /\ kwOnlyStart \in Nat /\ kwOnlyStart <= nNamed
         /\ pc # "defined" =>
              /\ Len(args) \in Nat /\ DOMAIN args = 1..Len(args)
              /\ Len(kws) \in Nat /\ DOMAIN kws = 1..Len(kws)
              /\ \A a \in DOMAIN args : ~args[a].star => args[a].list # <<>>
<1>1. nNamed \in Nat
  BY SeqShape DEF SignatureInv, nNamed
<1>2. i \in Nat /\ kwOnlyStart \in Nat /\ kwOnlyStart <= nNamed
  BY <1>1 DEF SignatureInv
<1>3. ASSUME pc # "defined"
      PROVE  /\ Len(args) \in Nat /\ DOMAIN args = 1..Len(args)
             /\ Len(kws) \in Nat /\ DOMAIN kws = 1..Len(kws)
             /\ \A a \in DOMAIN args : ~args[a].star => Len(args[a].list) = 1
  <2>1. args \in ArgLists /\ kws \in KwLists
    BY <1>3 DEF SignatureInv
  <2>2. /\ \A l \in ParamLists \cup ArgLists \cup KwLists : IsList(l)
        /\ \A l \in ArgLists : \A a \in DOMAIN l : ~l[a].star => Len(l[a].list) = 1
    BY CallsAssumption DEF CallsAssumption
  <2>3. IsList(args) /\ IsList(kws) /\ \A a \in DOMAIN args : ~args[a].star => Len(args[a].list) = 1
    BY <2>1, <2>2
  <2>4. \A l : IsList(l) => Len(l) \in Nat /\ DOMAIN l = 1..Len(l)
    BY DEF IsList
  <2> QED
    BY <2>3, <2>4
<1>4. \A l : Len(l) = 1 => l # <<>>
  OBVIOUS
<1> QED
  BY <1>1, <1>2, <1>3, <1>4

-----------------------------------------------------------------------------
LEMMA MatchInit == Init => MatchInv
<1> SUFFICES ASSUME Init PROVE MatchInv
  OBVIOUS
<1>1. <<>> \in Seq({}) /\ Len(<<>>) = 0
  BY EmptySeq
<1>2. IsSeq(declared) /\ nNamed = 0
  BY <1>1 DEF Init, IsSeq, nNamed
<1> QED
  BY <1>2 DEF Init, MatchInv, SignatureInv, CheckerInv, GeneratorInv, Declaring, Matched

LEMMA RegisterKept == MatchInv /\ (Define \/ Register \/ Registered \/ Call) => MatchInv'
<1> SUFFICES ASSUME MatchInv, Define \/ Register \/ Registered \/ Call PROVE MatchInv'
  OBVIOUS
<1> USE DEF MatchInv
<1>0. IsSeq(declared) /\ nNamed \in Nat /\ i \in Nat \ {0}
  BY SeqShape DEF SignatureInv, nNamed
<1>1. CASE Define
  <2>1. SignatureInv'
    <3>1. nNamed' = nNamed
      BY <1>1 DEF Define, sign, nNamed
    <3> QED
      BY <1>1, <3>1 DEF Define, SignatureInv, sign, match, Declaring
  <2>2. CheckerInv' /\ GeneratorInv'
    BY <1>1 DEF Define, CheckerInv, GeneratorInv, Matched
  <2> QED
    BY <2>1, <2>2
<1>2. CASE Register
  <2>1. pc = "register" /\ pc' = "register" /\ i' = i + 1 /\ posIdx' = posIdx /\ filled' = filled
    BY <1>2 DEF Register, More, match
  <2>2. kwOnlyStart \in -1..nNamed /\ posIdx = 1 /\ filled = {}
    BY <2>1 DEF SignatureInv, Declaring
  <2>3. IsSeq(declared') /\ nNamed' \in Nat /\ kwOnlyStart' \in -1..nNamed'
    <3>1. CASE declared' = Append(declared, params[i]) /\ kwOnlyStart' = kwOnlyStart
      <4>1. IsSeq(declared') /\ nNamed' = nNamed + 1
        BY <1>0, <3>1, SeqAppend DEF nNamed
      <4> QED
        BY <1>0, <2>2, <3>1, <4>1
    <3>2. CASE declared' = declared /\ kwOnlyStart' \in {kwOnlyStart, KnownStart}
      <4>1. nNamed' = nNamed /\ KnownStart \in -1..nNamed
        BY <1>0, <2>2, <3>2 DEF KnownStart, nNamed
      <4> QED
        BY <1>0, <2>2, <3>2, <4>1
    <3> QED
      BY <1>2, <3>1, <3>2 DEF Register, sign
  <2>4. SignatureInv'
    BY <1>0, <2>1, <2>2, <2>3 DEF SignatureInv, Declaring
  <2>5. CheckerInv' /\ GeneratorInv'
    BY <2>1 DEF CheckerInv, GeneratorInv, Matched
  <2> QED
    BY <2>4, <2>5
<1>3. CASE Registered
  <2>1. /\ pc = "register" /\ pc' = "defined" /\ i' = 1 /\ posIdx' = posIdx /\ filled' = filled
        /\ declared' = declared /\ nNamed' = nNamed /\ kwOnlyStart' = KnownStart
    BY <1>3 DEF Registered, match, nNamed
  <2>2. kwOnlyStart \in -1..nNamed /\ posIdx = 1 /\ filled = {}
    BY <2>1 DEF SignatureInv, Declaring
  <2>3. KnownStart \in 0..nNamed
    BY <1>0, <2>2 DEF KnownStart, nNamed
  <2>4. SignatureInv'
    BY <1>0, <2>1, <2>2, <2>3 DEF SignatureInv, Declaring
  <2>5. CheckerInv' /\ GeneratorInv'
    BY <2>1 DEF CheckerInv, GeneratorInv, Matched
  <2> QED
    BY <2>4, <2>5
<1>4. CASE Call
  <2>1. /\ pc = "defined" /\ pc' = "args" /\ i' = i /\ posIdx' = posIdx /\ filled' = filled
        /\ declared' = declared /\ nNamed' = nNamed /\ kwOnlyStart' = kwOnlyStart
        /\ args' \in ArgLists /\ kws' \in KwLists
    BY <1>4 DEF Call, match, sign, nNamed
  <2>2. i = 1 /\ posIdx = 1 /\ filled = {} /\ kwOnlyStart \in 0..nNamed
    BY <2>1 DEF SignatureInv, Declaring
  <2>3. SignatureInv'
    BY <1>0, <2>1, <2>2 DEF SignatureInv, Declaring
  <2>4. /\ Len(args') \in Nat /\ DOMAIN args' = 1..Len(args')
        /\ Len(kws') \in Nat /\ DOMAIN kws' = 1..Len(kws')
    BY <2>1, CallsAssumption DEF CallsAssumption, IsList
  <2>5. Placed(args', 1) = 0
    BY <1>0, <2>4, PlacedGrows
  <2>6. ByPosition(args', kwOnlyStart, 1) = {}
    BY <1>0, <2>2, <2>4, ByPositionEnds
  <2>7. ByKeyword(kws', declared, 1) = {}
    BY <1>0, <2>4, ByKeywordStart
  <2>8. Given(1, 1)' = {}
    BY <2>1, <2>6, <2>7 DEF Given
  <2>9. CheckerInv' /\ GeneratorInv'
    BY <2>1, <2>2, <2>5, <2>8 DEF CheckerInv, GeneratorInv, Matched, Given
  <2> QED
    BY <2>3, <2>9
<1> QED
  BY <1>1, <1>2, <1>3, <1>4

LEMMA NextIndex == \A n \in Nat \ {0} : n + 1 \in Nat \ {0} /\ 1 \in Nat \ {0}
  OBVIOUS

\* In what follows the definition and the call stay.
LEMMA SignatureKept ==
  ASSUME SignatureInv, ~Declaring, pc # "defined", UNCHANGED <<source, sign>>,
         i' = i \/ i' = i + 1 \/ i' = 1,
         pc' \in {"args", "kws", "emit args", "emit kws", "called", "rejected"}
  PROVE  SignatureInv' /\ nNamed' = nNamed /\ AllArgs' = AllArgs /\ AllKws' = AllKws
<1>1. UNCHANGED <<params, args, kws, declared, kwOnlyStart>>
  BY DEF source, sign
<1>2. nNamed' = nNamed /\ AllArgs' = AllArgs /\ AllKws' = AllKws
  BY <1>1 DEF nNamed, AllArgs, AllKws
<1>3. ~Declaring' /\ pc' # "defined"
  BY DEF Declaring
<1>4. i \in Nat \ {0}
  BY DEF SignatureInv
<1>5. i' \in Nat \ {0}
  BY ONLY <1>4, NextIndex, i' = i \/ i' = i + 1 \/ i' = 1
<1> QED
  BY <1>1, <1>2, <1>3, <1>5 DEF SignatureInv

-----------------------------------------------------------------------------
\* What counts for the checker's errors: how many values a call has.
LEMMA PlacedRises ==
  ASSUME NEW list, NEW N \in Nat, DOMAIN list = 1..N, NEW m \in Nat, NEW n \in Nat, m <= n
  PROVE  Placed(list, m) <= Placed(list, n)
<1> DEFINE A == SinglesBefore(list, m)
           B == SinglesBefore(list, n)
<1>1. A \in SUBSET B /\ B \in SUBSET (1..N)
  BY DEF SinglesBefore
<1>2. IsFiniteSet(1..N)
  BY FS_Interval
<1> HIDE DEF A, B
<1>3. IsFiniteSet(B)
  BY <1>1, <1>2, FS_Subset
<1>4. Cardinality(A) <= Cardinality(B)
  BY <1>1, <1>3, FS_Subset
<1> QED
  BY <1>4 DEF Placed, A, B

LEMMA NoStarPlaced ==
  ASSUME NEW list, NEW N \in Nat, DOMAIN list = 1..N, NEW n \in 1..N + 1,
         \A a \in 1..N : a < n => ~list[a].star
  PROVE  Placed(list, n) = n - 1
<1>1. \A a : a \in SinglesBefore(list, n) <=> a \in 1..n - 1
  BY DEF SinglesBefore
<1>2. SinglesBefore(list, n) = 1..n - 1
  BY <1>1
<1>3. Cardinality(1..n - 1) = n - 1
  BY FS_Interval
<1> QED
  BY <1>2, <1>3 DEF Placed

IsArgs(list) == /\ IsList(list)
                /\ \A a \in DOMAIN list : /\ IsList(list[a].list)
                                          /\ ~list[a].star => Len(list[a].list) = 1

LEMMA ValuesLength ==
  ASSUME NEW list, IsArgs(list)
  PROVE  /\ Len(Py!Values(list)) \in Nat
         /\ Placed(list, Len(list) + 1) <= Len(Py!Values(list))
         /\ (\A a \in DOMAIN list : ~list[a].star) => Len(Py!Values(list)) = Len(list)
<1> DEFINE N == Len(list)
           ls == [a \in DOMAIN list |-> list[a].list]
<1>1. N \in Nat /\ DOMAIN list = 1..N
  BY DEF IsArgs, IsList
<1>2. \A a \in 1..N : /\ IsSeq(ls[a]) /\ Len(ls[a]) \in Nat
                      /\ ~list[a].star => Len(ls[a]) = 1
  BY <1>1, ListIsSeq DEF IsArgs, IsList
<1>3. Len(ls) = N
  BY <1>1
<1>4. Py!Values(list) = Py!FlattenSeq(ls)
  BY DEF Py!Values
<1> HIDE DEF ls, N
<1>5. CASE N = 0
  <2>1. Py!FlattenSeq(ls) = ls
    BY <1>3, <1>5 DEF Py!FlattenSeq
  <2>2. Placed(list, 1) = 0
    BY <1>1, PlacedGrows
  <2> QED
    BY <1>3, <1>4, <1>5, <2>1, <2>2 DEF N
<1>6. CASE N # 0
  <2>1. N \in Nat \ {0}
    BY <1>1, <1>6
  <2>2. PICK f : /\ f[1] = ls[1] /\ \A n \in 2..N : f[n] = f[n - 1] \o ls[n]
                 /\ Py!FlattenSeq(ls) = f[N]
    BY <1>3, <2>1, FlattenIsLoop
  <2> DEFINE Right(n) == /\ IsSeq(f[n]) /\ Placed(list, n + 1) <= Len(f[n])
                         /\ (\A a \in 1..n : ~list[a].star) => Len(f[n]) = n
             T == {n \in 0..N - 1 : Right(n + 1)}
  <2>3. ASSUME NEW n \in 1..N
        PROVE  /\ Placed(list, n) \in Nat /\ Placed(list, n + 1) \in Nat
               /\ list[n].star => Placed(list, n + 1) = Placed(list, n)
               /\ ~list[n].star => Placed(list, n + 1) = Placed(list, n) + 1
    <3>1. n \in Nat /\ n + 1 \in Nat /\ n \in DOMAIN list
      BY <1>1
    <3>2. Placed(list, n) \in Nat /\ Placed(list, n + 1) \in Nat
      BY <1>1, <3>1, PlacedGrows
    <3>3. /\ list[n].star => Placed(list, n + 1) = Placed(list, n)
          /\ ~list[n].star => Placed(list, n + 1) = Placed(list, n) + 1
      BY <1>1, <3>1, PlacedGrows
    <3> QED
      BY <3>2, <3>3
  <2>4. Placed(list, 1) = 0
    BY <1>1, PlacedGrows
  <2>5. 0 \in T
    <3>1. 1 \in 1..N
      BY <2>1
    <3>2. IsSeq(f[1]) /\ Len(f[1]) \in Nat /\ (~list[1].star => Len(f[1]) = 1)
      BY <1>2, <2>2, <3>1
    <3>3. Placed(list, 2) <= Len(f[1])
      <4>1. 1 + 1 = 2
        OBVIOUS
      <4>2. list[1].star => Placed(list, 2) = 0
        BY <2>3, <2>4, <3>1, <4>1
      <4>3. ~list[1].star => Placed(list, 2) = 1
        BY <2>3, <2>4, <3>1, <4>1
      <4> QED
        BY <3>2, <4>2, <4>3
    <3>4. Right(0 + 1)
      BY <3>2, <3>3
    <3> HIDE DEF Right
    <3> QED
      BY <2>1, <3>4
  <2>6. ASSUME NEW n \in 0..(N - 1) - 1, n \in T PROVE n + 1 \in T
    <3> DEFINE m == n + 1
    <3>1. m \in 1..N /\ m + 1 \in 2..N /\ m + 1 \in 1..N /\ m + 1 - 1 = m /\ m \in 0..N - 1
      BY <2>1
    <3>2. Right(m)
      BY <2>6
    <3> HIDE DEF m
    <3>3. f[m + 1] = f[m] \o ls[m + 1]
      <4> DEFINE j == m + 1
      <4>1. j \in 2..N /\ j - 1 = m
        BY <3>1
      <4> HIDE DEF j
      <4>2. \A k \in 2..N : f[k] = f[k - 1] \o ls[k]
        BY <2>2
      <4>3. f[j] = f[j - 1] \o ls[j]
        BY ONLY <4>1, <4>2
      <4>4. f[j] = f[m] \o ls[j]
        BY <4>1, <4>3
      <4> QED
        BY <4>4 DEF j
    <3>4. IsSeq(f[m]) /\ IsSeq(ls[m + 1]) /\ Len(ls[m + 1]) \in Nat
      BY <1>2, <3>1, <3>2
    <3>5. Len(f[m]) \in Nat
      BY <3>4, SeqShape
    <3>6. IsSeq(f[m + 1]) /\ Len(f[m + 1]) = Len(f[m]) + Len(ls[m + 1])
      BY <3>3, <3>4, SeqConcat
    <3>7. Placed(list, m + 1) <= Len(f[m])
      BY <3>2
    <3>8. ~list[m + 1].star => Len(ls[m + 1]) = 1
      BY <1>2, <3>1
    <3>9. Placed(list, m + 1 + 1) <= Len(f[m + 1])
      <4>1. Placed(list, m + 1) \in Nat
        BY <2>3, <3>1
      <4>2. CASE list[m + 1].star
        <5>1. Placed(list, m + 1 + 1) = Placed(list, m + 1)
          BY <2>3, <3>1, <4>2
        <5>2. \A a, b, c \in Nat : a <= b => a <= b + c
          OBVIOUS
        <5> QED
          BY <3>4, <3>5, <3>6, <3>7, <4>1, <5>1, <5>2
      <4>3. CASE ~list[m + 1].star
        <5>1. Placed(list, m + 1 + 1) = Placed(list, m + 1) + 1
          BY <2>3, <3>1, <4>3
        <5>2. Len(f[m + 1]) = Len(f[m]) + 1
          BY <3>6, <3>8, <4>3
        <5>3. \A a, b \in Nat : a <= b => a + 1 <= b + 1
          OBVIOUS
        <5> QED
          BY <3>5, <3>7, <4>1, <5>1, <5>2, <5>3
      <4> QED
        BY <4>2, <4>3
    <3>10. ASSUME \A a \in 1..m + 1 : ~list[a].star PROVE Len(f[m + 1]) = m + 1
      <4>1. \A a \in 1..m : ~list[a].star
        BY <3>1, <3>10
      <4>2. Len(f[m]) = m
        BY <3>2, <4>1
      <4>3. Len(ls[m + 1]) = 1
        BY <3>1, <3>8, <3>10
      <4> QED
        BY <3>6, <4>2, <4>3
    <3>11. Right(m + 1)
      BY <3>6, <3>9, <3>10
    <3> HIDE DEF Right
    <3> QED
      BY <3>1, <3>11 DEF m
  <2> HIDE DEF T
  <2>7. N - 1 \in T
    <3>1. N - 1 \in Nat /\ 0..N - 1 \subseteq T
      BY <2>1, <2>5, <2>6, LoopInduction
    <3> QED
      BY <3>1
  <2>8. Right(N)
    <3>1. N - 1 + 1 = N
      BY <2>1
    <3>2. Right(N - 1 + 1)
      BY <2>7 DEF T
    <3> HIDE DEF Right
    <3> QED
      BY <3>1, <3>2
  <2>9. Len(f[N]) \in Nat
    BY <2>8, SeqShape
  <2> QED
    BY <1>1, <1>4, <2>2, <2>8, <2>9 DEF N
<1> QED
  BY <1>5, <1>6

\* A step of matchCallArgs either goes on to the next argument or rejects the call.
LEMMA CheckArgKept ==
  ASSUME MatchInv, CheckUnpack \/ CheckPositional PROVE MatchInv'
<1> USE DEF MatchInv
<1> DEFINE n == Placed(args, i)
           P == ByPosition(args, kwOnlyStart, i)
           P1 == ByPosition(args, kwOnlyStart, i + 1)
<1>1. pc = "args" /\ i <= Len(args)
  BY DEF CheckUnpack, CheckPositional, More
<1>2. SignatureInv /\ ~Declaring /\ pc # "defined"
  BY <1>1 DEF Declaring
<1>3. /\ i \in DOMAIN args /\ i \in Nat \ {0} /\ nNamed \in Nat /\ kwOnlyStart \in Nat
      /\ Len(args) \in Nat /\ DOMAIN args = 1..Len(args)
      /\ Len(kws) \in Nat /\ DOMAIN kws = 1..Len(kws)
  BY <1>1, <1>2, CallShape DEF SignatureInv
<1>4. /\ UNCHANGED <<source, sign, emit>>
      /\ \/ i' = i + 1 /\ pc' = "args"
         \/ i' = i /\ pc' = "rejected"
  BY <1>1 DEF CheckUnpack, CheckPositional, CheckedArg
<1>5. SignatureInv' /\ nNamed' = nNamed
  BY <1>2, <1>3, <1>4, SignatureKept
<1>6. CASE pc' = "rejected"
  BY <1>5, <1>6 DEF CheckerInv, GeneratorInv, Matched
<1>7. CASE pc' = "args" /\ i' = i + 1
  <2>1. UNCHANGED <<args, kws, declared, kwOnlyStart>>
    BY <1>4 DEF source, sign
  <2>2. posIdx = n + 1 /\ filled = P /\ n \in Nat
    <3>1. ByKeyword(kws, declared, 1) = {}
      BY <1>3, ByKeywordStart
    <3>2. n \in Nat
      BY <1>3, PlacedGrows
    <3> QED
      BY <1>1, <3>1, <3>2 DEF CheckerInv, Given
  <2>3. posIdx' = Placed(args, i + 1) + 1 /\ filled' = P1
    <3>1. CASE CheckUnpack
      <4>1. args[i].star /\ posIdx' = posIdx /\ filled' = filled
        BY <3>1 DEF CheckUnpack, match
      <4>2. Placed(args, i + 1) = n
        BY <1>3, <4>1, PlacedGrows
      <4>3. P1 = P
        BY <1>3, <4>1, ByPositionGrows
      <4> QED
        BY <2>2, <4>1, <4>2, <4>3
    <3>2. CASE CheckPositional
      <4>1. /\ ~args[i].star /\ (posIdx <= kwOnlyStart \/ VarArgs)
            /\ filled' = IF posIdx <= kwOnlyStart THEN filled \cup {posIdx} ELSE filled
            /\ posIdx' = IF posIdx <= kwOnlyStart \/ VarArgs THEN posIdx + 1 ELSE posIdx
        BY <1>1, <1>7, <3>2 DEF CheckPositional, CheckedArg
      <4>2. Placed(args, i + 1) = n + 1
        BY <1>3, <4>1, PlacedGrows
      <4>3. /\ n >= kwOnlyStart => P1 = P
            /\ n < kwOnlyStart => P1 = P \cup {n + 1}
        BY <1>3, <4>1, ByPositionGrows
      <4>4. posIdx' = n + 2
        BY <2>2, <4>1
      <4>5. posIdx <= kwOnlyStart <=> n < kwOnlyStart
        BY <1>3, <2>2
      <4>6. ~(n < kwOnlyStart) => n >= kwOnlyStart
        BY <1>3, <2>2
      <4> HIDE DEF n, P, P1
      <4>7. filled' = P1
        BY <2>2, <4>1, <4>3, <4>5, <4>6
      <4> QED
        BY <2>2, <4>2, <4>4, <4>7
    <3> QED
      BY <3>1, <3>2
  <2>4. ByKeyword(kws, declared, 1) = {}
    BY <1>3, ByKeywordStart
  <2>5. Given(i, 1)' = P1
    BY <1>7, <2>1, <2>4 DEF Given
  <2>6. CheckerInv' /\ GeneratorInv'
    BY <1>7, <2>1, <2>3, <2>5 DEF CheckerInv, GeneratorInv, Matched
  <2> QED
    BY <1>5, <2>6
<1> QED
  BY <1>1, <1>4, <1>6, <1>7

LEMMA CheckKwKept ==
  ASSUME MatchInv, CheckDoubleUnpack \/ CheckKeyword PROVE MatchInv'
<1> USE DEF MatchInv
<1> DEFINE K == ByKeyword(kws, declared, i)
           K1 == ByKeyword(kws, declared, i + 1)
           P == ByPosition(args, kwOnlyStart, AllArgs)
<1>1. pc = "kws" /\ i <= Len(kws)
  BY DEF CheckDoubleUnpack, CheckKeyword, More
<1>2. SignatureInv /\ ~Declaring /\ pc # "defined"
  BY <1>1 DEF Declaring
<1>3. /\ i \in DOMAIN kws /\ i \in Nat \ {0} /\ nNamed \in Nat
      /\ Len(kws) \in Nat /\ DOMAIN kws = 1..Len(kws)
  BY <1>1, <1>2, CallShape DEF SignatureInv
<1>4. /\ UNCHANGED <<source, sign, emit>>
      /\ \/ i' = i + 1 /\ pc' = "kws"
         \/ i' = i /\ pc' = "rejected"
  BY <1>1 DEF CheckDoubleUnpack, CheckKeyword, CheckedArg
<1>5. SignatureInv' /\ nNamed' = nNamed
  BY <1>2, <1>3, <1>4, SignatureKept
<1>6. CASE pc' = "rejected"
  BY <1>5, <1>6 DEF CheckerInv, GeneratorInv, Matched
<1>7. CASE pc' = "kws" /\ i' = i + 1
  <2>1. UNCHANGED <<args, kws, declared, kwOnlyStart>>
    BY <1>4 DEF source, sign
  <2>2. filled = P \cup K
    BY <1>1 DEF CheckerInv, Given
  <2>3. filled' = P \cup K1
    <3>1. CASE CheckDoubleUnpack
      <4>1. kws[i].star /\ filled' = filled
        BY <3>1 DEF CheckDoubleUnpack, match
      <4>2. K1 = K
        BY <1>3, <4>1, ByKeywordSkips
      <4> QED
        BY <2>2, <4>1, <4>2
    <3>2. CASE CheckKeyword
      <4>1. ~kws[i].star /\ filled' = filled \cup Named(declared, kws[i])
        BY <3>2 DEF CheckKeyword, Matching, Named, ParamName, nNamed
      <4>2. ~kws[i].star
        BY <4>1
      <4>3. K1 = K \cup Named(declared, kws[i])
        BY <1>3, <4>2, ByKeywordAdds
      <4> QED
        BY <2>2, <4>1, <4>3
    <3> QED
      BY <3>1, <3>2
  <2>4. Given(AllArgs, i)' = P \cup K1
    BY <1>7, <2>1 DEF Given, AllArgs
  <2>5. CheckerInv' /\ GeneratorInv'
    BY <1>7, <2>3, <2>4 DEF CheckerInv, GeneratorInv, Matched
  <2> QED
    BY <1>5, <2>5
<1> QED
  BY <1>1, <1>4, <1>6, <1>7

\* Between the loops: the checker is done with the arguments, or with the call.
LEMMA ArgsCheckedKept ==
  ASSUME MatchInv, ArgsChecked PROVE MatchInv'
<1> USE DEF MatchInv
<1>1. /\ pc = "args" /\ pc' = "kws" /\ i > Len(args) /\ i' = 1
      /\ UNCHANGED <<source, sign, match, emit>>
  BY DEF ArgsChecked
<1>2. SignatureInv /\ ~Declaring /\ pc # "defined"
  BY <1>1 DEF Declaring
<1>3. /\ i \in Nat /\ kwOnlyStart \in Nat /\ Len(args) \in Nat /\ DOMAIN args = 1..Len(args)
  BY <1>2, CallShape
<1>4. SignatureInv' /\ nNamed' = nNamed /\ AllArgs' = AllArgs
  BY <1>1, <1>2, SignatureKept
<1>5. filled' = Given(i, 1)
  BY <1>1 DEF CheckerInv, match
<1>6. Given(i, 1) = Given(AllArgs, 1)
  BY <1>1, <1>3, ByPositionEnds DEF Given, AllArgs
<1>7. Given(AllArgs, 1)' = Given(AllArgs, 1)
  BY <1>1, <1>4 DEF Given, source, sign
<1>8. CheckerInv' /\ GeneratorInv'
  BY <1>1, <1>4, <1>5, <1>6, <1>7 DEF CheckerInv, GeneratorInv, Matched, Given
<1> QED
  BY <1>4, <1>8

LEMMA KwsCheckedKept ==
  ASSUME MatchInv, KwsChecked PROVE MatchInv'
<1> USE DEF MatchInv
<1>1. /\ pc = "kws" /\ pc' \in {"emit args", "rejected"} /\ i > Len(kws) /\ i' = 1 /\ posIdx' = 1
      /\ UNCHANGED <<source, sign>> /\ filled' = filled
      /\ namedVals' = [p \in 1..nNamed |-> <<>>]
  BY DEF KwsChecked
<1>2. SignatureInv /\ ~Declaring /\ pc # "defined"
  BY <1>1 DEF Declaring
<1>3. /\ i \in Nat /\ nNamed \in Nat /\ kwOnlyStart \in Nat
      /\ Len(args) \in Nat /\ DOMAIN args = 1..Len(args)
      /\ Len(kws) \in Nat /\ DOMAIN kws = 1..Len(kws)
  BY <1>2, CallShape
<1>4. SignatureInv' /\ nNamed' = nNamed /\ AllArgs' = AllArgs /\ AllKws' = AllKws
  BY <1>1, <1>2, SignatureKept
<1>5. UNCHANGED <<args, kws, declared, kwOnlyStart>>
  BY <1>1 DEF source, sign
<1>6. filled' = Given(AllArgs, AllKws)'
  <2>1. filled = Given(AllArgs, i)
    BY <1>1 DEF CheckerInv
  <2>2. Given(AllArgs, i) = Given(AllArgs, AllKws)
    BY <1>1, <1>3, ByKeywordEnds DEF Given, AllKws
  <2> QED
    BY <1>1, <1>4, <1>5, <2>1, <2>2 DEF Given
<1>7. CheckerInv'
  BY <1>1, <1>6 DEF CheckerInv
<1>8. Placed(args, 1) = 0 /\ Given(1, 1) = {}
  BY <1>3, PlacedGrows, ByPositionEnds, ByKeywordStart DEF Given
<1>9. HasValue' = {}
  BY <1>1, <1>4 DEF HasValue
<1>10. 1 = IF 0 < kwOnlyStart THEN 0 + 1 ELSE kwOnlyStart + 1
  BY <1>3
<1>11. GeneratorInv'
  <2>1. namedVals' = [p \in 1..nNamed' |-> namedVals'[p]]
    BY <1>1, <1>4
  <2>2. Given(i, 1)' = {} /\ Placed(args, i)' = 0
    BY <1>1, <1>5, <1>8 DEF Given
  <2>3. pc' # "emit kws"
    BY <1>1
  <2> QED
    BY <1>1, <1>5, <1>9, <1>10, <2>1, <2>2, <2>3 DEF GeneratorInv
<1> QED
  BY <1>4, <1>7, <1>11

LEMMA ArgsBoundKept ==
  ASSUME MatchInv, ArgsBound PROVE MatchInv'
<1> USE DEF MatchInv
<1>1. /\ pc = "emit args" /\ pc' = "emit kws" /\ i > Len(args) /\ i' = 1
      /\ UNCHANGED <<source, sign, match, emit>>
  BY DEF ArgsBound
<1>2. SignatureInv /\ ~Declaring /\ pc # "defined"
  BY <1>1 DEF Declaring
<1>3. /\ i \in Nat /\ kwOnlyStart \in Nat /\ Len(args) \in Nat /\ DOMAIN args = 1..Len(args)
  BY <1>2, CallShape
<1>4. SignatureInv' /\ nNamed' = nNamed /\ AllArgs' = AllArgs /\ AllKws' = AllKws
  BY <1>1, <1>2, SignatureKept
<1>5. UNCHANGED <<args, kws, declared, kwOnlyStart, filled, namedVals>>
  BY <1>1 DEF source, sign, match, emit
<1>6. filled' = Given(AllArgs, AllKws)'
  BY <1>1, <1>4, <1>5 DEF CheckerInv, Matched, Given
<1>7. HasValue' = Given(AllArgs, 1)'
  <2>1. HasValue = Given(i, 1)
    BY <1>1 DEF GeneratorInv
  <2>2. Given(i, 1) = Given(AllArgs, 1)
    BY <1>1, <1>3, ByPositionEnds DEF Given, AllArgs
  <2>3. HasValue' = HasValue
    BY <1>4, <1>5 DEF HasValue
  <2> QED
    BY <1>4, <1>5, <2>1, <2>2, <2>3 DEF Given
<1>8. namedVals' = [p \in 1..nNamed' |-> namedVals'[p]]
  BY <1>1, <1>4, <1>5 DEF GeneratorInv, Matched
<1>9. CheckerInv'
  BY <1>1, <1>6 DEF CheckerInv
<1>10. GeneratorInv'
  BY <1>1, <1>7, <1>8 DEF GeneratorInv, Given
<1> QED
  BY <1>4, <1>9, <1>10

\* prepareCallArgs fills a slot, or keeps the argument for *args.
LEMMA BindArgKept ==
  ASSUME MatchInv, BindArg PROVE MatchInv'
<1> USE DEF MatchInv
<1> DEFINE n == Placed(args, i)
           P == ByPosition(args, kwOnlyStart, i)
           P1 == ByPosition(args, kwOnlyStart, i + 1)
           slot == ~args[i].star /\ posIdx <= kwOnlyStart
<1>1. /\ pc = "emit args" /\ pc' = "emit args" /\ i <= Len(args) /\ i' = i + 1
      /\ UNCHANGED <<source, sign>> /\ filled' = filled
      /\ namedVals' = IF slot THEN [namedVals EXCEPT ![posIdx] = args[i].list] ELSE namedVals
      /\ posIdx' = IF slot THEN posIdx + 1 ELSE posIdx
  BY DEF BindArg, More
<1>2. SignatureInv /\ ~Declaring /\ pc # "defined"
  BY <1>1 DEF Declaring
<1>3. /\ i \in DOMAIN args /\ i \in Nat \ {0} /\ nNamed \in Nat
      /\ kwOnlyStart \in Nat /\ kwOnlyStart <= nNamed
      /\ Len(args) \in Nat /\ DOMAIN args = 1..Len(args)
      /\ Len(kws) \in Nat /\ DOMAIN kws = 1..Len(kws)
      /\ ~args[i].star => args[i].list # <<>>
  <2>1. i \in Nat \ {0}
    BY <1>2 DEF SignatureInv
  <2>2. /\ nNamed \in Nat /\ kwOnlyStart \in Nat /\ kwOnlyStart <= nNamed
        /\ Len(args) \in Nat /\ DOMAIN args = 1..Len(args)
        /\ Len(kws) \in Nat /\ DOMAIN kws = 1..Len(kws)
        /\ \A a \in DOMAIN args : ~args[a].star => args[a].list # <<>>
    BY <1>2, CallShape
  <2>3. i <= Len(args)
    BY <1>1
  <2>4. i \in DOMAIN args
    BY ONLY <2>1, <2>2, <2>3
  <2> QED
    BY <2>1, <2>2, <2>4
<1>4. SignatureInv' /\ nNamed' = nNamed /\ AllArgs' = AllArgs /\ AllKws' = AllKws
  BY <1>1, <1>2, <1>3, SignatureKept
<1>5. UNCHANGED <<args, kws, declared, kwOnlyStart>>
  BY <1>1 DEF source, sign
<1>6. CheckerInv'
  <2>1. filled' = Given(AllArgs, AllKws)'
    BY <1>1, <1>4, <1>5 DEF CheckerInv, Matched, Given
  <2> QED
    BY <1>1, <2>1 DEF CheckerInv
<1>7. /\ HasValue = P /\ n \in Nat
      /\ posIdx = IF n < kwOnlyStart THEN n + 1 ELSE kwOnlyStart + 1
      /\ namedVals = [p \in 1..nNamed |-> namedVals[p]]
  <2>1. ByKeyword(kws, declared, 1) = {}
    BY <1>3, ByKeywordStart
  <2>2. n \in Nat
    BY <1>3, PlacedGrows
  <2> QED
    BY <1>1, <2>1, <2>2 DEF GeneratorInv, Matched, Given
<1>8. /\ args[i].star \/ n >= kwOnlyStart => P1 = P
      /\ ~args[i].star /\ n < kwOnlyStart => P1 = P \cup {n + 1}
  BY <1>3, ByPositionGrows
<1>9. /\ args[i].star => Placed(args, i + 1) = n
      /\ ~args[i].star => Placed(args, i + 1) = n + 1
  BY <1>3, PlacedGrows
<1>10. HasValue' = {p \in 1..nNamed : namedVals'[p] # <<>>}
  BY <1>4 DEF HasValue
<1>11. HasValue = {p \in 1..nNamed : namedVals[p] # <<>>}
  BY DEF HasValue
<1>12. slot <=> ~args[i].star /\ n < kwOnlyStart
  BY <1>3, <1>7
<1> DEFINE n1 == Placed(args, i + 1)
<1>13. /\ namedVals' = [p \in 1..nNamed |-> namedVals'[p]]
       /\ HasValue' = P1
       /\ posIdx' = IF n1 < kwOnlyStart THEN n1 + 1 ELSE kwOnlyStart + 1
  <2>1. CASE slot
    <3>1. posIdx = n + 1 /\ posIdx \in 1..nNamed /\ posIdx' = n + 2 /\ n1 = n + 1
      <4>1. n < kwOnlyStart /\ n1 = n + 1 /\ posIdx' = posIdx + 1
        BY <1>1, <1>9, <1>12, <2>1
      <4>2. n \in Nat /\ posIdx = n + 1
        BY <1>7, <4>1
      <4> HIDE DEF n, n1
      <4> QED
        BY <1>3, <4>1, <4>2
    <3>2. namedVals' = [namedVals EXCEPT ![posIdx] = args[i].list] /\ args[i].list # <<>>
      BY <1>1, <1>3, <2>1
    <3>3. P1 = P \cup {n + 1}
      BY <1>8, <1>12, <2>1
    <3> HIDE DEF n, n1, P, P1, slot
    <3>4. namedVals' = [p \in 1..nNamed |-> IF p = posIdx THEN args[i].list ELSE namedVals[p]]
      BY <1>7, <3>2
    <3>5. HasValue' = HasValue \cup {posIdx}
      BY <1>10, <1>11, <3>1, <3>2, <3>4
    <3>6. n1 < kwOnlyStart \/ kwOnlyStart = n1
      BY <1>3, <1>7, <1>12, <2>1, <3>1
    <3> QED
      BY <1>3, <1>7, <3>1, <3>3, <3>4, <3>5, <3>6
  <2>2. CASE ~slot
    <3>1. posIdx' = posIdx /\ namedVals' = namedVals
      BY <1>1, <2>2
    <3>2. P1 = P
      BY <1>3, <1>7, <1>8, <1>12, <2>2
    <3>3. posIdx = IF n1 < kwOnlyStart THEN n1 + 1 ELSE kwOnlyStart + 1
      BY <1>3, <1>7, <1>9, <1>12, <2>2
    <3> HIDE DEF n, n1, P, P1, slot
    <3> QED
      BY <1>7, <1>10, <1>11, <3>1, <3>2, <3>3
  <2> QED
    BY <2>1, <2>2
<1>14. Given(i, 1)' = P1 /\ Placed(args, i)' = n1
  <2>1. ByKeyword(kws, declared, 1) = {}
    BY <1>3, ByKeywordStart
  <2> QED
    BY <1>1, <1>5, <2>1 DEF Given
<1>15. GeneratorInv'
  BY <1>1, <1>4, <1>5, <1>13, <1>14 DEF GeneratorInv
<1> QED
  BY <1>4, <1>6, <1>15

LEMMA BindKeywordKept ==
  ASSUME MatchInv, BindKeyword PROVE MatchInv'
<1> USE DEF MatchInv
<1> DEFINE K == ByKeyword(kws, declared, i)
           K1 == ByKeyword(kws, declared, i + 1)
           P == ByPosition(args, kwOnlyStart, AllArgs)
           N == Named(declared, kws[i])
           slots == {p \in N : ~kws[i].star /\ namedVals[p] = <<>>}
           v(p) == <<kws[i].map[ParamName(p)]>>
<1>1. /\ pc = "emit kws" /\ pc' = "emit kws" /\ i <= Len(kws) /\ i' = i + 1
      /\ UNCHANGED <<source, sign, match>>
      /\ slots = {} => namedVals' = namedVals
      /\ slots # {} => namedVals' = [p \in 1..nNamed |-> IF p \in slots THEN v(p) ELSE namedVals[p]]
  BY DEF BindKeyword, More, Matching, Named, ParamName, nNamed
<1>2. SignatureInv /\ ~Declaring /\ pc # "defined"
  BY <1>1 DEF Declaring
<1>3. /\ i \in DOMAIN kws /\ i \in Nat \ {0} /\ nNamed \in Nat
      /\ Len(kws) \in Nat /\ DOMAIN kws = 1..Len(kws)
  <2>1. i \in Nat \ {0}
    BY <1>2 DEF SignatureInv
  <2>2. nNamed \in Nat /\ Len(kws) \in Nat /\ DOMAIN kws = 1..Len(kws)
    BY <1>2, CallShape
  <2>3. i <= Len(kws)
    BY <1>1
  <2> QED
    BY ONLY <2>1, <2>2, <2>3
<1>4. SignatureInv' /\ nNamed' = nNamed /\ AllArgs' = AllArgs /\ AllKws' = AllKws
  BY <1>1, <1>2, <1>3, SignatureKept
<1>5. UNCHANGED <<args, kws, declared, kwOnlyStart, filled>>
  BY <1>1 DEF source, sign, match
<1>6. CheckerInv'
  <2>1. filled' = Given(AllArgs, AllKws)'
    BY <1>1, <1>4, <1>5 DEF CheckerInv, Matched, Given
  <2> QED
    BY <1>1, <2>1 DEF CheckerInv
<1>7. HasValue = P \cup K /\ namedVals = [p \in 1..nNamed |-> namedVals[p]]
  BY <1>1 DEF GeneratorInv, Matched, Given
<1>8. /\ kws[i].star => K1 = K
      /\ ~kws[i].star => K1 = K \cup N
  <2>1. i \in 1..Len(kws)
    BY <1>3
  <2>2. ASSUME kws[i].star PROVE K1 = K
    BY <1>3, <2>1, <2>2, ByKeywordSkips
  <2>3. ASSUME ~kws[i].star PROVE K1 = K \cup N
    <3> HIDE DEF slots, v
    <3>1. DOMAIN kws = 1..Len(kws) /\ Len(kws) \in Nat
      BY <1>3
    <3>2. ByKeyword(kws, declared, i + 1)
            = ByKeyword(kws, declared, i) \cup Named(declared, kws[i])
      BY ONLY <3>1, <2>1, <2>3, ByKeywordAdds
    <3> QED
      BY <3>2
  <2> QED
    BY <2>2, <2>3
<1>9. HasValue' = {p \in 1..nNamed : namedVals'[p] # <<>>}
  BY <1>4 DEF HasValue
<1>10. HasValue = {p \in 1..nNamed : namedVals[p] # <<>>}
  BY DEF HasValue
<1>11. N \subseteq 1..nNamed
  BY DEF Named, nNamed
<1>12. \A p : v(p) # <<>>
  OBVIOUS
<1> HIDE DEF K, K1, P, N, v
<1>13. namedVals' = [p \in 1..nNamed |-> namedVals'[p]]
  BY <1>1, <1>7
<1>14. HasValue' = HasValue \cup slots
  <2>1. CASE slots = {}
    BY <1>1, <1>9, <1>10, <2>1
  <2>2. CASE slots # {}
    <3>1. \A p \in 1..nNamed : namedVals'[p] = IF p \in slots THEN v(p) ELSE namedVals[p]
      BY <1>1, <2>2
    <3>2. slots \subseteq 1..nNamed
      BY <1>11
    <3> HIDE DEF slots
    <3> QED
      BY <1>9, <1>10, <1>12, <3>1, <3>2
  <2> QED
    BY <2>1, <2>2
<1>15. HasValue \cup slots = P \cup K1
  <2>1. CASE kws[i].star
    <3>1. slots = {}
      BY <2>1
    <3> QED
      BY <1>7, <1>8, <2>1, <3>1
  <2>2. CASE ~kws[i].star
    <3>1. HasValue \cup slots = HasValue \cup N
      BY <1>10, <1>11, <2>2
    <3> QED
      BY <1>7, <1>8, <2>2, <3>1
  <2> QED
    BY <2>1, <2>2
<1>16. Given(AllArgs, i)' = P \cup K1
  BY <1>1, <1>4, <1>5 DEF Given, P, K1
<1>17. GeneratorInv'
  BY <1>1, <1>4, <1>13, <1>14, <1>15, <1>16 DEF GeneratorInv
<1> QED
  BY <1>4, <1>6, <1>17

LEMMA MatchStep == MatchInv /\ [Next]_vars => MatchInv'
<1> SUFFICES ASSUME MatchInv, [Next]_vars PROVE MatchInv'
  OBVIOUS
<1>1. CASE EmitCall
  <2>1. /\ pc = "emit kws" /\ pc' = "called" /\ i' = i
        /\ UNCHANGED <<source, sign>>
    BY <1>1 DEF EmitCall
  <2>2. SignatureInv /\ ~Declaring /\ pc # "defined" /\ i \in Nat \ {0}
    BY <2>1 DEF MatchInv, SignatureInv, Declaring
  <2>3. SignatureInv'
    BY <2>1, <2>2, SignatureKept
  <2> QED
    BY <2>1, <2>3 DEF MatchInv, CheckerInv, GeneratorInv, Matched
<1>2. CASE UNCHANGED vars
  BY <1>2 DEF vars, source, sign, match, emit, MatchInv, SignatureInv, CheckerInv, GeneratorInv,
     Declaring, Matched, HasValue, Given, AllArgs, AllKws, nNamed
<1> QED
  BY <1>1, <1>2, RegisterKept, CheckArgKept, CheckKwKept, ArgsCheckedKept, KwsCheckedKept,
     BindArgKept, ArgsBoundKept, BindKeywordKept DEF Next

\* The code generator, which matches the arguments of a call a second time,
\* finds a value for exactly the parameters that the checker found filled
\* (matchCallArgs, prepareCallArgs): it never meets a parameter that is
\* neither given nor has a default.
THEOREM MatchingsAgree == Spec => []SameMatch
<1>1. MatchInv => SameMatch
  <2> SUFFICES ASSUME MatchInv, pc = "emit kws", i > Len(kws) PROVE HasValue = filled
    BY DEF SameMatch, HasValue
  <2>1. SignatureInv /\ ~Declaring /\ pc # "defined"
    BY DEF MatchInv, Declaring
  <2>2. i \in Nat /\ Len(kws) \in Nat /\ DOMAIN kws = 1..Len(kws)
    BY <2>1, CallShape
  <2>3. Given(AllArgs, i) = Given(AllArgs, AllKws)
    BY <2>2, ByKeywordEnds DEF Given, AllKws
  <2> QED
    BY <2>3 DEF MatchInv, CheckerInv, GeneratorInv, Matched
<1> QED
  BY <1>1, MatchInit, MatchStep, PTL DEF Spec

-----------------------------------------------------------------------------
\* What is rejected.  The signature ds, with k parameters that can be given by
\* position, is that of the first n parameters of ps: a star stands between.
Signed(ps, ds, k, n) ==
  /\ k \in 0..Len(ds)
  /\ \A p \in 1..k : p <= n /\ ps[p] = ds[p] /\ ps[p].kind = "named"
  /\ \A p \in k + 1..Len(ds) : p + 1 <= n /\ ps[p + 1] = ds[p] /\ ps[p + 1].kind = "named"
  /\ \A q \in 1..n : ps[q].kind = "named" => q <= k \/ q - 1 \in k + 1..Len(ds)
  /\ k + 1 <= n => ps[k + 1].kind # "named"

Kinds(ps, n) == {ps[q].kind : q \in 1..n}
Start(ds, w) == IF w = -1 THEN Len(ds) ELSE w

\* In the loop of registerFuncSignature, where w is the kwOnlyStart so far.
Signing(ps, ds, w, n) ==
  /\ IsSeq(ds) /\ n \in 0..Len(ps) /\ w \in -1..Len(ds)
  /\ Signed(ps, ds, Start(ds, w), n)
  /\ w = -1 => "*" \notin Kinds(ps, n)
  /\ w # -1 => w + 1 <= n /\ ps[w + 1].kind = "*"
  /\ "**" \notin Kinds(ps, n) => Len(ds) = IF w = -1 THEN n ELSE n - 1
  /\ "**" \in Kinds(ps, n) =>
       n > 0 /\ ps[n].kind = "**" /\ Len(ds) = IF w = -1 THEN n - 1 ELSE n - 2

\* Nothing comes after a double star, and one star at most.
InOrder(ps) ==
  \A p \in DOMAIN ps : /\ "**" \notin Kinds(ps, p - 1)
                       /\ ps[p].kind = "*" => "*" \notin Kinds(ps, p - 1)

LEMMA SigningStarts ==
  ASSUME NEW ps, Len(ps) \in Nat
  PROVE  Signing(ps, <<>>, -1, 0)
<1>1. IsSeq(<<>>) /\ Len(<<>>) = 0
  <2>1. <<>> \in Seq({}) /\ Len(<<>>) = 0
    BY EmptySeq
  <2> QED
    BY <2>1 DEF IsSeq
<1>2. Start(<<>>, -1) = 0 /\ Kinds(ps, 0) = {}
  BY <1>1 DEF Start, Kinds
<1>3. Signed(ps, <<>>, 0, 0)
  BY <1>1 DEF Signed
<1> QED
  BY <1>1, <1>2, <1>3 DEF Signing

LEMMA KindsGrow ==
  ASSUME NEW ps, NEW n \in Nat
  PROVE  Kinds(ps, n + 1) = Kinds(ps, n) \cup {ps[n + 1].kind}
<1>1. 1..n + 1 = 1..n \cup {n + 1}
  OBVIOUS
<1>2. \A x : x \in Kinds(ps, n + 1) <=> x \in Kinds(ps, n) \/ x = ps[n + 1].kind
  BY <1>1 DEF Kinds
<1> QED
  BY <1>2

LEMMA SigningNamed ==
  ASSUME NEW ps, Len(ps) \in Nat, NEW ds, NEW w, NEW n \in Nat, n < Len(ps),
         Signing(ps, ds, w, n), ps[n + 1].kind = "named", "**" \notin Kinds(ps, n)
  PROVE  Signing(ps, Append(ds, ps[n + 1]), w, n + 1)
<1> DEFINE es == Append(ds, ps[n + 1])
           L == Len(ds)
           k == Start(ds, w)
           k1 == Start(es, w)
<1>1. IsSeq(ds) /\ w \in -1..L /\ Signed(ps, ds, k, n) /\ L = IF w = -1 THEN n ELSE n - 1
  BY DEF Signing
<1>2. L \in Nat
  BY <1>1, SeqShape
<1>3. IsSeq(es) /\ Len(es) = L + 1 /\ (\A j \in 1..L : es[j] = ds[j]) /\ es[L + 1] = ps[n + 1]
  BY <1>1, SeqAppend
<1>4. /\ w = -1 => k = L /\ k1 = L + 1 /\ L = n
      /\ w # -1 => k = w /\ k1 = w /\ w \in Nat /\ L = n - 1
  BY <1>1, <1>3 DEF Start
<1>5. Kinds(ps, n + 1) = Kinds(ps, n) \cup {"named"}
  BY KindsGrow
<1> HIDE DEF es, k, k1, L
<1>6. /\ k \in 0..L
      /\ \A p \in 1..k : p <= n /\ ps[p] = ds[p] /\ ps[p].kind = "named"
      /\ \A p \in k + 1..L : p + 1 <= n /\ ps[p + 1] = ds[p] /\ ps[p + 1].kind = "named"
      /\ \A q \in 1..n : ps[q].kind = "named" => q <= k \/ q - 1 \in k + 1..L
      /\ k + 1 <= n => ps[k + 1].kind # "named"
  BY <1>1 DEF Signed, L
<1>7. Signed(ps, es, k1, n + 1)
  <2>1. CASE w = -1
    <3>1. k = n /\ L = n /\ k1 = n + 1 /\ Len(es) = n + 1
      BY <1>3, <1>4, <2>1
    <3>2. k1 \in 0..Len(es)
      BY <3>1
    <3>3. ASSUME NEW p \in 1..k1
          PROVE  p <= n + 1 /\ ps[p] = es[p] /\ ps[p].kind = "named"
      <4>1. p = n + 1 \/ p \in 1..n
        BY <3>1
      <4> QED
        BY <1>3, <1>6, <3>1, <4>1
    <3>4. \A q \in 1..n + 1 : q <= k1
      BY <3>1
    <3>5. ~(k1 + 1 <= n + 1) /\ \A p : p \notin k1 + 1..Len(es)
      BY <3>1
    <3> QED
      BY <3>2, <3>3, <3>4, <3>5 DEF Signed
  <2>2. CASE w # -1
    <3>1. k1 = k /\ k \in Nat /\ L = n - 1 /\ k <= L /\ Len(es) = n
      BY <1>2, <1>3, <1>4, <1>6, <2>2
    <3>2. k1 \in 0..Len(es)
      BY <3>1
    <3>3. ASSUME NEW p \in 1..k1
          PROVE  p <= n + 1 /\ ps[p] = es[p] /\ ps[p].kind = "named"
      <4>1. p \in 1..k /\ p \in 1..L
        BY <1>2, <3>1
      <4> QED
        BY <1>3, <1>6, <4>1
    <3>4. ASSUME NEW p \in k1 + 1..Len(es)
          PROVE  p + 1 <= n + 1 /\ ps[p + 1] = es[p] /\ ps[p + 1].kind = "named"
      <4>1. CASE p = n
        <5>1. L + 1 = n
          BY <3>1
        <5> QED
          BY <1>3, <4>1, <5>1
      <4>2. CASE p # n
        <5>1. p \in k + 1..L /\ p \in 1..L
          BY <3>1, <4>2
        <5> QED
          BY <1>3, <1>6, <5>1
      <4> QED
        BY <4>1, <4>2
    <3>5. ASSUME NEW q \in 1..n + 1, ps[q].kind = "named"
          PROVE  q <= k1 \/ q - 1 \in k1 + 1..Len(es)
      <4>1. CASE q = n + 1
        <5>1. n \in k + 1..n
          BY <3>1
        <5> QED
          BY <3>1, <4>1, <5>1
      <4>2. CASE q # n + 1
        <5>1. q \in 1..n
          BY <4>2
        <5>2. q <= k \/ q - 1 \in k + 1..L
          BY <1>6, <3>5, <5>1
        <5> QED
          BY <3>1, <5>1, <5>2
      <4> QED
        BY <4>1, <4>2
    <3>6. k + 1 <= n
      BY <3>1
    <3>7. ps[k1 + 1].kind # "named"
      BY <1>6, <3>1, <3>6
    <3> QED
      BY <3>2, <3>3, <3>4, <3>5, <3>7 DEF Signed
  <2> QED
    BY <2>1, <2>2
<1>8. w \in -1..Len(es) /\ n + 1 \in 0..Len(ps)
  BY <1>1, <1>2, <1>3 DEF L
<1>9. /\ w = -1 => "*" \notin Kinds(ps, n + 1)
      /\ w # -1 => w + 1 <= n + 1 /\ ps[w + 1].kind = "*"
  <2>1. w = -1 => "*" \notin Kinds(ps, n)
    BY DEF Signing
  <2>2. w # -1 => w + 1 <= n /\ ps[w + 1].kind = "*"
    BY DEF Signing
  <2>3. w \in Int
    BY <1>8
  <2> QED
    BY <1>5, <2>1, <2>2, <2>3
<1>10. Len(es) = IF w = -1 THEN n + 1 ELSE n + 1 - 1
  BY <1>3, <1>4
<1>11. "**" \notin Kinds(ps, n + 1)
  BY <1>5
<1> QED
  BY <1>3, <1>7, <1>8, <1>9, <1>10, <1>11 DEF Signing, es, k1

LEMMA SigningStar ==
  ASSUME NEW ps, Len(ps) \in Nat, NEW ds, NEW w, NEW n \in Nat, n < Len(ps),
         Signing(ps, ds, w, n), ps[n + 1].kind = "*", "**" \notin Kinds(ps, n),
         "*" \notin Kinds(ps, n)
  PROVE  Signing(ps, ds, Start(ds, w), n + 1)
<1> DEFINE L == Len(ds)
<1>1. IsSeq(ds) /\ w \in -1..L /\ Signed(ps, ds, Start(ds, w), n)
  BY DEF Signing
<1>2. L \in Nat
  BY <1>1, SeqShape
<1>3. w = -1
  <2>1. SUFFICES ASSUME w # -1 PROVE FALSE
    OBVIOUS
  <2>2. w + 1 <= n /\ ps[w + 1].kind = "*" /\ w \in Nat
    BY <1>1, <1>2, <2>1 DEF Signing
  <2>3. w + 1 \in 1..n
    BY <2>2
  <2> QED
    BY <2>2, <2>3 DEF Kinds
<1>4. L = n
  BY <1>3 DEF Signing
<1>5. Start(ds, w) = n /\ Start(ds, n) = n
  BY <1>3, <1>4 DEF Start
<1>6. "**" \notin Kinds(ps, n + 1)
  BY KindsGrow
<1>7. Signed(ps, ds, n, n + 1)
  <2> HIDE DEF L
  <2>1. \A p \in 1..n : ps[p] = ds[p] /\ ps[p].kind = "named"
    BY <1>1, <1>5 DEF Signed
  <2>2. \A q \in 1..n + 1 : ps[q].kind = "named" => q <= n
    <3>1. \A q \in 1..n + 1 : q = n + 1 \/ q <= n
      OBVIOUS
    <3> QED
      BY <3>1
  <2>3. Len(ds) = n
    BY <1>4 DEF L
  <2> QED
    BY <2>1, <2>2, <2>3 DEF Signed
<1>8. n \in -1..Len(ds) /\ n + 1 \in 0..Len(ps) /\ n # -1
  BY <1>4
<1>9. Len(ds) = n + 1 - 1
  BY <1>4
<1> QED
  BY <1>1, <1>5, <1>6, <1>7, <1>8, <1>9 DEF Signing

LEMMA SigningDouble ==
  ASSUME NEW ps, Len(ps) \in Nat, NEW ds, NEW w, NEW n \in Nat, n < Len(ps),
         Signing(ps, ds, w, n), ps[n + 1].kind = "**", "**" \notin Kinds(ps, n)
  PROVE  Signing(ps, ds, w, n + 1)
<1> DEFINE L == Len(ds)
           k == Start(ds, w)
<1>1. IsSeq(ds) /\ w \in -1..L /\ Signed(ps, ds, k, n)
  BY DEF Signing
<1>2. L \in Nat
  BY <1>1, SeqShape
<1>3. Kinds(ps, n + 1) = Kinds(ps, n) \cup {"**"}
  BY KindsGrow
<1> HIDE DEF L, k
<1>4. /\ k \in 0..L
      /\ \A p \in 1..k : p <= n /\ ps[p] = ds[p] /\ ps[p].kind = "named"
      /\ \A p \in k + 1..L : p + 1 <= n /\ ps[p + 1] = ds[p] /\ ps[p + 1].kind = "named"
      /\ \A q \in 1..n : ps[q].kind = "named" => q <= k \/ q - 1 \in k + 1..L
      /\ k + 1 <= n => ps[k + 1].kind # "named"
  BY <1>1 DEF Signed, L
<1>5. Signed(ps, ds, k, n + 1)
  <2>1. \A p \in 1..k : p <= n + 1 /\ ps[p] = ds[p] /\ ps[p].kind = "named"
    BY <1>4
  <2>2. \A p \in k + 1..L : p + 1 <= n + 1 /\ ps[p + 1] = ds[p] /\ ps[p + 1].kind = "named"
    BY <1>4
  <2>3. \A q \in 1..n + 1 : q = n + 1 \/ q \in 1..n
    OBVIOUS
  <2>4. \A q \in 1..n + 1 : ps[q].kind = "named" => q <= k \/ q - 1 \in k + 1..L
    BY <1>4, <2>3
  <2>5. k + 1 <= n + 1 => k + 1 <= n \/ k + 1 = n + 1
    BY <1>2, <1>4
  <2>6. k + 1 <= n + 1 => ps[k + 1].kind # "named"
    BY <1>4, <2>5
  <2> QED
    BY <1>4, <2>1, <2>2, <2>4, <2>6 DEF Signed, L
<1>6. w \in Int /\ n + 1 \in 0..Len(ps)
  BY <1>1, <1>2
<1>7. /\ w = -1 => "*" \notin Kinds(ps, n + 1)
      /\ w # -1 => w + 1 <= n + 1 /\ ps[w + 1].kind = "*"
  <2>1. /\ w = -1 => "*" \notin Kinds(ps, n)
        /\ w # -1 => w + 1 <= n /\ ps[w + 1].kind = "*"
    BY DEF Signing
  <2> QED
    BY <1>3, <1>6, <2>1
<1>8. "**" \in Kinds(ps, n + 1)
  BY <1>3
<1>9. L = IF w = -1 THEN n + 1 - 1 ELSE n + 1 - 2
  <2>1. L = IF w = -1 THEN n ELSE n - 1
    BY DEF Signing, L
  <2> QED
    BY <1>2, <1>6, <2>1
<1> QED
  BY <1>1, <1>5, <1>6, <1>7, <1>8, <1>9 DEF Signing, L, k

LEMMA SignedPositions ==
  ASSUME NEW ps, NEW N \in Nat, DOMAIN ps = 1..N, NEW ds, Len(ds) \in Nat, NEW k,
         Signed(ps, ds, k, N)
  PROVE  k \in Nat /\ Py!ByPosition(ps) = 1..k /\ Cardinality(Py!ByPosition(ps)) = k
<1>1. /\ k \in 0..Len(ds) /\ \A p \in 1..k : p <= N /\ ps[p].kind = "named"
      /\ k + 1 <= N => ps[k + 1].kind # "named"
  BY DEF Signed
<1>2. ASSUME NEW p PROVE p \in Py!ByPosition(ps) <=> p \in 1..k
  <2>1. ASSUME p \in 1..k PROVE p \in Py!ByPosition(ps)
    <3>1. p \in 1..N /\ \A q \in 1..p : q \in 1..k
      BY <1>1, <2>1
    <3> QED
      BY <1>1, <3>1 DEF Py!ByPosition
  <2>2. ASSUME p \in Py!ByPosition(ps), p \notin 1..k PROVE FALSE
    <3>1. p \in 1..N /\ \A q \in 1..p : ps[q].kind = "named"
      BY <2>2 DEF Py!ByPosition
    <3>2. k + 1 \in 1..p /\ k + 1 <= N
      BY <1>1, <2>2, <3>1
    <3> QED
      BY <1>1, <3>1, <3>2
  <2> QED
    BY <2>1, <2>2
<1>3. Py!ByPosition(ps) = 1..k
  BY <1>2
<1>4. Cardinality(1..k) = k
  <2>1. 1 \in Int /\ k \in Int /\ k >= 0
    BY <1>1
  <2> QED
    BY <2>1, FS_Interval
<1> QED
  BY <1>1, <1>3, <1>4

\* Where the p-th named parameter stands among all.
Place(k, p) == IF p <= k THEN p ELSE p + 1

LEMMA SignedPlace ==
  ASSUME NEW ps, NEW N \in Nat, DOMAIN ps = 1..N, NEW ds, Len(ds) \in Nat, NEW k,
         Signed(ps, ds, k, N), NEW p \in 1..Len(ds)
  PROVE  /\ Place(k, p) \in DOMAIN ps /\ ps[Place(k, p)] = ds[p]
         /\ ps[Place(k, p)].kind = "named"
         /\ ds[p].name \in Py!Names(ps)
<1>1. k \in 0..Len(ds)
  BY DEF Signed
<1>2. /\ Place(k, p) \in DOMAIN ps /\ ps[Place(k, p)] = ds[p]
      /\ ps[Place(k, p)].kind = "named"
  <2>1. CASE p <= k
    <3>1. p \in 1..k
      BY <1>1, <2>1
    <3>2. p <= N /\ ps[p] = ds[p] /\ ps[p].kind = "named"
      BY <3>1 DEF Signed
    <3> QED
      BY <2>1, <3>2 DEF Place
  <2>2. CASE ~(p <= k)
    <3>1. p \in k + 1..Len(ds)
      BY <1>1, <2>2
    <3>2. p + 1 <= N /\ ps[p + 1] = ds[p] /\ ps[p + 1].kind = "named"
      BY <3>1 DEF Signed
    <3> QED
      BY <2>2, <3>2 DEF Place
  <2> QED
    BY <2>1, <2>2
<1> QED
  BY <1>2 DEF Py!Names

LEMMA SignedNames ==
  ASSUME NEW ps, NEW N \in Nat, DOMAIN ps = 1..N, NEW ds, Len(ds) \in Nat, NEW k,
         Signed(ps, ds, k, N), NEW name \in Py!Names(ps)
  PROVE  \E p \in 1..Len(ds) : ds[p].name = name
<1>1. PICK q \in 1..N : ps[q].kind = "named" /\ ps[q].name = name
  BY DEF Py!Names
<1>2. k \in 0..Len(ds) /\ (q <= k \/ q - 1 \in k + 1..Len(ds))
  BY <1>1 DEF Signed
<1>3. CASE q <= k
  <2>1. q \in 1..k /\ q \in 1..Len(ds)
    BY <1>2, <1>3
  <2>2. ps[q] = ds[q]
    BY <2>1 DEF Signed
  <2> QED
    BY <1>1, <2>1, <2>2
<1>4. CASE q - 1 \in k + 1..Len(ds)
  <2>1. q - 1 \in 1..Len(ds) /\ q - 1 + 1 = q
    BY <1>2, <1>4
  <2>2. ps[q - 1 + 1] = ds[q - 1]
    BY <1>4 DEF Signed
  <2> QED
    BY <1>1, <2>1, <2>2
<1> QED
  BY <1>2, <1>3, <1>4

SigningInv ==
  /\ params \in ParamLists
  /\ pc = "define" => declared = <<>> /\ kwOnlyStart = -1 /\ i = 1
  /\ pc = "register" => InOrder(params) /\ Signing(params, declared, kwOnlyStart, i - 1)
  /\ ~Declaring => Signed(params, declared, kwOnlyStart, Len(params))

\* The checker has accepted the lists unpacked before the n-th argument.
Taken(n) ==
  \A a \in DOMAIN args : a < n /\ args[a].star => VarArgs /\ kwOnlyStart <= Placed(args, a)

VerdictInv == /\ pc = "args" => Taken(i)
              /\ pc = "kws" => Taken(AllArgs)
              /\ RejectsAsPython

RejectInv == MatchInv /\ SigningInv /\ VerdictInv

LEMMA ParamsShape ==
  ASSUME params \in ParamLists
  PROVE  Len(params) \in Nat /\ DOMAIN params = 1..Len(params)
<1>1. IsList(params)
  BY CallsAssumption DEF CallsAssumption
<1> QED
  BY <1>1 DEF IsList

LEMMA DeclarableInOrder ==
  ASSUME Declarable, Len(params) \in Nat, DOMAIN params = 1..Len(params)
  PROVE  InOrder(params)
<1> SUFFICES ASSUME NEW p \in DOMAIN params
             PROVE  /\ "**" \notin Kinds(params, p - 1)
                    /\ params[p].kind = "*" => "*" \notin Kinds(params, p - 1)
  BY DEF InOrder
<1>1. \A kind : Before(p, kind) <=> kind \in Kinds(params, p - 1)
  BY DEF Before, Kinds
<1>2. CASE params[p].kind = "**"
  BY <1>1, <1>2 DEF Declarable
<1>3. CASE params[p].kind = "*"
  BY <1>1, <1>3 DEF Declarable
<1>4. CASE params[p].kind # "**" /\ params[p].kind # "*"
  BY <1>1, <1>4 DEF Declarable
<1> QED
  BY <1>2, <1>3, <1>4

LEMMA SigningKept ==
  ASSUME MatchInv, SigningInv, [Next]_vars PROVE SigningInv'
<1>0. params' = params /\ Len(params) \in Nat /\ DOMAIN params = 1..Len(params)
  <2>1. params' = params
    BY DEF Next, Define, Register, Registered, Call, CheckUnpack, CheckPositional, CheckedArg,
       ArgsChecked, CheckDoubleUnpack, CheckKeyword, KwsChecked, BindArg, ArgsBound,
       BindKeyword, EmitCall, vars, source
  <2> QED
    BY <2>1, ParamsShape DEF SigningInv
<1>1. CASE Define
  <2>1. /\ pc = "define" /\ UNCHANGED <<declared, kwOnlyStart, i>>
        /\ pc' = IF Declarable THEN "register" ELSE "undefined"
    BY <1>1 DEF Define, sign
  <2>2. declared = <<>> /\ kwOnlyStart = -1 /\ i = 1 /\ i - 1 = 0
    BY <2>1 DEF SigningInv
  <2>3. Signing(params, <<>>, -1, 0)
    BY <1>0, SigningStarts
  <2>4. Declarable => InOrder(params)
    BY <1>0, DeclarableInOrder
  <2> QED
    BY <1>0, <2>1, <2>2, <2>3, <2>4 DEF SigningInv, Declaring
<1>2. CASE Register
  <2> DEFINE n == i - 1
  <2>1. pc = "register" /\ pc' = "register" /\ i <= Len(params) /\ i' = i + 1
    BY <1>2 DEF Register, More
  <2>2. InOrder(params) /\ Signing(params, declared, kwOnlyStart, n)
    BY <2>1 DEF SigningInv
  <2>3. i \in Nat \ {0}
    BY DEF MatchInv, SignatureInv
  <2>4. n \in Nat /\ n < Len(params) /\ n + 1 = i /\ i' - 1 = n + 1 /\ i \in DOMAIN params
    BY <1>0, <2>1, <2>3
  <2>5. /\ "**" \notin Kinds(params, n)
        /\ params[i].kind = "*" => "*" \notin Kinds(params, n)
    BY <2>2, <2>4 DEF InOrder
  <2> HIDE DEF n
  <2>6. Signing(params, declared', kwOnlyStart', n + 1)
    <3>1. CASE params[i].kind = "named"
      <4>1. declared' = Append(declared, params[n + 1]) /\ kwOnlyStart' = kwOnlyStart
        BY <1>2, <2>4, <3>1 DEF Register
      <4>2. params[n + 1].kind = "named"
        BY <2>4, <3>1
      <4> QED
        BY <1>0, <2>2, <2>4, <2>5, <4>1, <4>2, SigningNamed
    <3>2. CASE params[i].kind = "*"
      <4>1. declared' = declared /\ kwOnlyStart' = Start(declared, kwOnlyStart)
        BY <1>2, <3>2 DEF Register, KnownStart, Start
      <4>2. params[n + 1].kind = "*" /\ "*" \notin Kinds(params, n)
        BY <2>4, <2>5, <3>2
      <4> QED
        BY <1>0, <2>2, <2>4, <2>5, <4>1, <4>2, SigningStar
    <3>3. CASE params[i].kind = "**"
      <4>1. declared' = declared /\ kwOnlyStart' = kwOnlyStart
        BY <1>2, <3>3 DEF Register, sign
      <4>2. params[n + 1].kind = "**"
        BY <2>4, <3>3
      <4> QED
        BY <1>0, <2>2, <2>4, <2>5, <4>1, <4>2, SigningDouble
    <3> QED
      BY <1>2, <3>1, <3>2, <3>3 DEF Register
  <2>7. Signing(params, declared', kwOnlyStart', i' - 1)
    BY <2>4, <2>6
  <2> QED
    BY <1>0, <2>1, <2>2, <2>7 DEF SigningInv, Declaring
<1>3. CASE Registered
  <2>1. /\ pc = "register" /\ pc' = "defined" /\ i > Len(params) /\ declared' = declared
        /\ kwOnlyStart' = Start(declared, kwOnlyStart)
    BY <1>3 DEF Registered, KnownStart, Start
  <2>2. Signing(params, declared, kwOnlyStart, i - 1)
    BY <2>1 DEF SigningInv
  <2>3. i \in Nat \ {0}
    BY DEF MatchInv, SignatureInv
  <2>4. i - 1 \in 0..Len(params)
    BY <2>2 DEF Signing
  <2>5. i - 1 = Len(params)
    BY <1>0, <2>1, <2>3, <2>4
  <2>6. Signed(params, declared, Start(declared, kwOnlyStart), Len(params))
    BY <2>2, <2>5 DEF Signing
  <2> QED
    BY <1>0, <2>1, <2>6 DEF SigningInv, Declaring
<1>4. CASE ~Declaring /\ UNCHANGED sign /\ ~Declaring'
  <2>1. Signed(params, declared, kwOnlyStart, Len(params))
    BY <1>4 DEF SigningInv
  <2> QED
    BY <1>0, <1>4, <2>1 DEF SigningInv, Declaring, sign
<1>5. CASE UNCHANGED vars
  <2>1. UNCHANGED <<pc, declared, kwOnlyStart, i>>
    BY <1>5 DEF vars, sign
  <2> QED
    BY <1>0, <2>1 DEF SigningInv, Declaring
<1>6. Next /\ ~Define /\ ~Register /\ ~Registered
        => ~Declaring /\ UNCHANGED sign /\ ~Declaring'
  BY DEF Next, Call, CheckUnpack, CheckPositional, CheckedArg,
     ArgsChecked, CheckDoubleUnpack, CheckKeyword, KwsChecked, BindArg, ArgsBound,
     BindKeyword, EmitCall, More, Declaring
<1> QED
  BY <1>1, <1>2, <1>3, <1>4, <1>5, <1>6

\* What is known of a definition and a call while they are matched.
LEMMA CallKnown ==
  ASSUME MatchInv, SigningInv, pc \in {"args", "kws", "emit args", "emit kws"}
  PROVE  /\ IsArgs(args) /\ Len(args) \in Nat /\ DOMAIN args = 1..Len(args)
         /\ Len(kws) \in Nat /\ DOMAIN kws = 1..Len(kws) /\ kws \in KwLists
         /\ i \in Nat \ {0} /\ nNamed \in Nat /\ kwOnlyStart \in Nat
         /\ Len(params) \in Nat /\ DOMAIN params = 1..Len(params)
         /\ Signed(params, declared, kwOnlyStart, Len(params))
         /\ Py!ByPosition(params) = 1..kwOnlyStart
         /\ Cardinality(Py!ByPosition(params)) = kwOnlyStart
<1>1. SignatureInv /\ ~Declaring /\ pc # "defined"
  BY DEF MatchInv, Declaring
<1>2. /\ Len(args) \in Nat /\ DOMAIN args = 1..Len(args)
      /\ Len(kws) \in Nat /\ DOMAIN kws = 1..Len(kws)
      /\ nNamed \in Nat /\ kwOnlyStart \in Nat
  BY <1>1, CallShape
<1>3. args \in ArgLists /\ kws \in KwLists /\ i \in Nat \ {0}
  BY <1>1 DEF SignatureInv
<1>4. IsArgs(args)
  BY <1>3, CallsAssumption DEF CallsAssumption, IsArgs
<1>5. Len(params) \in Nat /\ DOMAIN params = 1..Len(params)
  BY ParamsShape DEF SigningInv
<1>6. Signed(params, declared, kwOnlyStart, Len(params))
  BY <1>1 DEF SigningInv
<1>7. /\ Py!ByPosition(params) = 1..kwOnlyStart
      /\ Cardinality(Py!ByPosition(params)) = kwOnlyStart
  BY <1>2, <1>5, <1>6, SignedPositions DEF nNamed
<1> QED
  BY <1>2, <1>3, <1>4, <1>5, <1>6, <1>7

\* The reference counts as this module does.
LEMMA PyCounts == ASSUME NEW S PROVE Py!Cardinality(S) = Cardinality(S)
  BY DEF Py!Cardinality, Cardinality

Wrong == Py!Refused(params, args, kws) \/ NotTaken

\* A list unpacked where the checker does not take it.
LEMMA UnpackRejected ==
  ASSUME RejectInv, CheckUnpack, ~(VarArgs /\ posIdx > kwOnlyStart) PROVE Wrong
<1>1. pc = "args" /\ i <= Len(args) /\ args[i].star
  BY DEF CheckUnpack, More
<1>2. /\ Len(args) \in Nat /\ DOMAIN args = 1..Len(args) /\ i \in Nat \ {0} /\ kwOnlyStart \in Nat
  BY <1>1, CallKnown DEF RejectInv
<1>3. i \in DOMAIN args
  BY <1>1, <1>2
<1>4. CASE ~VarArgs
  BY <1>1, <1>3, <1>4 DEF Wrong, NotTaken
<1>5. CASE ~(posIdx > kwOnlyStart)
  <2>1. posIdx = Placed(args, i) + 1
    BY <1>1 DEF RejectInv, MatchInv, CheckerInv
  <2>2. Placed(args, i) \in Nat
    BY <1>2, PlacedGrows
  <2>3. Placed(args, i) < kwOnlyStart
    BY <1>2, <1>5, <2>1, <2>2
  <2>4. ASSUME NEW a \in 1..Len(args), a < i, args[a].star PROVE FALSE
    <3>1. kwOnlyStart <= Placed(args, a)
      BY <1>1, <1>2, <2>4 DEF RejectInv, VerdictInv, Taken
    <3>2. a \in Nat /\ a <= i
      BY <1>2, <2>4
    <3>3. Placed(args, a) <= Placed(args, i)
      BY <1>2, <3>2, PlacedRises
    <3>4. Placed(args, a) \in Nat
      BY <1>2, <3>2, PlacedGrows
    <3> QED
      BY <1>2, <2>2, <2>3, <3>1, <3>3, <3>4
  <2>5. Placed(args, i) = i - 1
    <3>1. i \in 1..Len(args) + 1
      BY <1>1, <1>2
    <3> QED
      BY <1>2, <2>4, <3>1, NoStarPlaced
  <2>6. i <= kwOnlyStart
    BY <1>2, <2>3, <2>5
  <2> QED
    BY <1>1, <1>3, <2>6 DEF Wrong, NotTaken
<1> QED
  BY <1>4, <1>5

\* An argument too many.
LEMMA PositionalRejected ==
  ASSUME RejectInv, CheckPositional, ~(posIdx <= kwOnlyStart \/ VarArgs) PROVE Wrong
<1> DEFINE L == Len(Py!Values(args))
<1>1. pc = "args" /\ i <= Len(args) /\ ~args[i].star
  BY DEF CheckPositional, More
<1>2. /\ IsArgs(args) /\ Len(args) \in Nat /\ DOMAIN args = 1..Len(args) /\ i \in Nat \ {0}
      /\ kwOnlyStart \in Nat /\ Cardinality(Py!ByPosition(params)) = kwOnlyStart
  BY <1>1, CallKnown DEF RejectInv
<1>3. posIdx = Placed(args, i) + 1
  BY <1>1 DEF RejectInv, MatchInv, CheckerInv
<1>4. /\ i \in DOMAIN args /\ i \in Nat /\ i + 1 \in Nat
      /\ Len(args) + 1 \in Nat /\ i + 1 <= Len(args) + 1
  BY <1>1, <1>2
<1>5. Placed(args, i) \in Nat /\ Placed(args, i + 1) = Placed(args, i) + 1
  BY <1>1, <1>2, <1>4, PlacedGrows
<1>6. Placed(args, i + 1) <= Placed(args, Len(args) + 1)
  BY <1>2, <1>4, PlacedRises
<1>7. Placed(args, Len(args) + 1) \in Nat
  BY <1>2, <1>4, PlacedGrows
<1>8. L \in Nat /\ Placed(args, Len(args) + 1) <= L
  BY <1>2, ValuesLength
<1> HIDE DEF L
<1>9. L > kwOnlyStart
  BY <1>2, <1>3, <1>5, <1>6, <1>7, <1>8
<1>10. L > Py!Cardinality(Py!ByPosition(params)) /\ ~Py!Has(params, "*")
  BY <1>2, <1>9, PyCounts DEF Py!Has, VarArgs
<1> QED
  BY <1>10 DEF Wrong, Py!Refused, L

LEMMA DoubleUnpackRejected ==
  ASSUME RejectInv, CheckDoubleUnpack, ~Kwargs PROVE Wrong
<1>1. pc = "kws" /\ i <= Len(kws) /\ kws[i].star
  BY DEF CheckDoubleUnpack, More
<1>2. Len(kws) \in Nat /\ DOMAIN kws = 1..Len(kws) /\ i \in Nat \ {0}
  BY <1>1, CallKnown DEF RejectInv
<1>3. i \in DOMAIN kws
  BY <1>1, <1>2
<1> QED
  BY <1>1, <1>3 DEF Wrong, NotTaken

\* A keyword that names nothing, or what already has a value.
LEMMA KeywordRejected ==
  ASSUME RejectInv, CheckKeyword,
         ~(IF Matching(kws[i]) = {} THEN Kwargs ELSE Matching(kws[i]) \cap filled = {})
  PROVE  Wrong
<1> DEFINE m == Matching(kws[i])
           L == Len(Py!Values(args))
<1>1. pc = "kws" /\ i <= Len(kws) /\ ~kws[i].star
  BY DEF CheckKeyword, More
<1>2. /\ IsArgs(args) /\ Len(args) \in Nat /\ DOMAIN args = 1..Len(args)
      /\ Len(kws) \in Nat /\ DOMAIN kws = 1..Len(kws) /\ kws \in KwLists
      /\ i \in Nat \ {0} /\ nNamed \in Nat /\ kwOnlyStart \in Nat
      /\ Len(params) \in Nat /\ DOMAIN params = 1..Len(params)
      /\ Signed(params, declared, kwOnlyStart, Len(params))
      /\ Py!ByPosition(params) = 1..kwOnlyStart
  BY <1>1, CallKnown DEF RejectInv
<1>3. i \in DOMAIN kws
  BY <1>1, <1>2
<1>4. PICK key \in DOMAIN kws[i].map : DOMAIN kws[i].map = {key}
  BY <1>1, <1>2, <1>3, CallsAssumption DEF CallsAssumption
<1>5. key \in Py!Keys(kws)
  BY <1>3, <1>4 DEF Py!Keys
<1>6. CASE m = {} /\ ~Kwargs
  <2>1. key \notin Py!Names(params)
    <3>1. ASSUME key \in Py!Names(params) PROVE FALSE
      <4>1. PICK p \in 1..nNamed : declared[p].name = key
        BY <1>2, <3>1, SignedNames DEF nNamed
      <4> QED
        BY <1>4, <1>6, <4>1 DEF Matching, ParamName
    <3> QED
      BY <3>1
  <2>2. ~Py!Has(params, "**")
    BY <1>6 DEF Kwargs, Py!Has
  <2> QED
    BY <1>5, <2>1, <2>2 DEF Wrong, Py!Refused
<1>7. CASE m \cap filled # {}
  <2>1. PICK p : p \in m /\ p \in filled
    BY <1>7
  <2>2. p \in 1..nNamed /\ declared[p].name = key
    BY <1>4, <2>1 DEF Matching, ParamName
  <2>3. filled = Given(AllArgs, i)
    BY <1>1 DEF RejectInv, MatchInv, CheckerInv
  <2>4. CASE p \in ByPosition(args, kwOnlyStart, AllArgs)
    <3>1. p \in 1..kwOnlyStart /\ p <= Placed(args, Len(args) + 1)
      BY <2>4 DEF ByPosition, AllArgs
    <3>2. L \in Nat /\ Placed(args, Len(args) + 1) <= L
      BY <1>2, ValuesLength
    <3>3. Placed(args, Len(args) + 1) \in Nat
      <4>1. Len(args) + 1 \in Nat
        BY <1>2
      <4> QED
        BY <1>2, <4>1, PlacedGrows
    <3>4. p <= L
      <4>1. p \in Nat
        BY <1>2, <2>2
      <4> HIDE DEF L
      <4> QED
        BY <3>1, <3>2, <3>3, <4>1
    <3> HIDE DEF L
    <3>5. p \in Py!Positioned(params, args)
      BY <1>2, <3>1, <3>4 DEF Py!Positioned, L
    <3>6. params[p] = declared[p]
      BY <1>2, <3>1 DEF Signed
    <3> QED
      BY <1>5, <2>2, <3>5, <3>6 DEF Wrong, Py!Refused
  <2>5. CASE p \in ByKeyword(kws, declared, i)
    <3>1. PICK j \in 1..Len(kws) : j < i /\ p \in Named(declared, kws[j])
      BY <1>2, <2>5, ByKeywordMember
    <3>2. key \in DOMAIN kws[j].map /\ j # i /\ j \in DOMAIN kws
      BY <1>2, <2>2, <3>1 DEF Named
    <3>3. Py!TwiceInCall(kws)
      BY <1>3, <1>4, <3>2 DEF Py!TwiceInCall
    <3> QED
      BY <3>3 DEF Wrong, Py!Refused
  <2> QED
    BY <2>1, <2>3, <2>4, <2>5 DEF Given
<1> QED
  BY <1>6, <1>7

\* How many parameters get a value by position, when the lists that are
\* unpacked come after the arguments for them.
LEMMA PositionsFilled ==
  ASSUME NEW list, IsArgs(list), NEW k \in Nat,
         \A a \in DOMAIN list : list[a].star => a > k,
         NEW p \in 1..k, p <= Len(Py!Values(list))
  PROVE  p <= Placed(list, Len(list) + 1)
<1> DEFINE N == Len(list)
           L == Len(Py!Values(list))
<1>1. N \in Nat /\ DOMAIN list = 1..N
  BY DEF IsArgs, IsList
<1>2. Placed(list, N + 1) \in Nat
  BY <1>1, PlacedGrows
<1> HIDE DEF N
<1>3. CASE \A a \in DOMAIN list : ~list[a].star
  <2>1. L = N
    BY <1>3, ValuesLength DEF N
  <2>2. Placed(list, N + 1) = N + 1 - 1
    <3>1. N + 1 \in 1..N + 1
      BY <1>1
    <3> QED
      BY <1>1, <1>3, <3>1, NoStarPlaced
  <2> HIDE DEF L
  <2>3. p <= L
    BY DEF L
  <2> QED
    BY <1>1, <2>1, <2>2, <2>3 DEF N
<1>4. CASE \E a \in DOMAIN list : list[a].star
  <2>1. PICK a \in 1..N : list[a].star
    BY <1>1, <1>4
  <2>2. a > k
    BY <1>1, <2>1
  <2>3. k + 1 \in 1..N + 1 /\ k + 1 \in Nat /\ N + 1 \in Nat /\ k + 1 <= N + 1
    BY <1>1, <2>2
  <2>4. \A b \in 1..N : b < k + 1 => ~list[b].star
    <3>1. \A b \in 1..N : list[b].star => b > k
      BY <1>1
    <3> QED
      BY <1>1, <3>1
  <2>5. Placed(list, k + 1) = k + 1 - 1
    BY <1>1, <2>3, <2>4, NoStarPlaced
  <2>6. Placed(list, k + 1) <= Placed(list, N + 1)
    BY <1>1, <2>3, PlacedRises
  <2> QED
    BY <1>2, <2>5, <2>6 DEF N
<1> QED
  BY <1>3, <1>4

\* A parameter without a value.
LEMMA MissingRejected ==
  ASSUME RejectInv, KwsChecked, ~(\A p \in 1..nNamed : p \in filled \/ declared[p].default)
  PROVE  Wrong
<1> SUFFICES ASSUME ~NotTaken PROVE Py!Refused(params, args, kws)
  BY DEF Wrong
<1>1. pc = "kws" /\ i > Len(kws)
  BY DEF KwsChecked
<1>2. /\ IsArgs(args) /\ Len(args) \in Nat /\ DOMAIN args = 1..Len(args)
      /\ Len(kws) \in Nat /\ DOMAIN kws = 1..Len(kws)
      /\ i \in Nat \ {0} /\ nNamed \in Nat /\ kwOnlyStart \in Nat
      /\ Len(params) \in Nat /\ DOMAIN params = 1..Len(params)
      /\ Signed(params, declared, kwOnlyStart, Len(params))
      /\ Py!ByPosition(params) = 1..kwOnlyStart
  BY <1>1, CallKnown DEF RejectInv
<1>3. PICK p \in 1..nNamed : p \notin filled /\ ~declared[p].default
  OBVIOUS
<1>4. /\ p \notin ByPosition(args, kwOnlyStart, AllArgs)
      /\ p \notin ByKeyword(kws, declared, i)
  BY <1>1, <1>3 DEF RejectInv, MatchInv, CheckerInv, Given
<1> DEFINE q == Place(kwOnlyStart, p)
<1>5. /\ q \in DOMAIN params /\ params[q] = declared[p] /\ params[q].kind = "named"
      /\ declared[p].name \in Py!Names(params)
  BY <1>2, SignedPlace DEF nNamed
<1>6. q \notin Py!Positioned(params, args)
  <2>1. SUFFICES ASSUME q \in Py!Positioned(params, args) PROVE FALSE
    OBVIOUS
  <2>2. q \in 1..kwOnlyStart /\ q <= Len(Py!Values(args))
    BY <1>2, <2>1 DEF Py!Positioned
  <2>3. q = p
    BY <1>2, <2>2 DEF Place
  <2>4. \A a \in DOMAIN args : args[a].star => a > kwOnlyStart
    <3>1. \A a \in DOMAIN args : args[a].star => ~(a <= kwOnlyStart)
      BY DEF NotTaken
    <3> QED
      BY <1>2, <3>1
  <2> HIDE DEF q
  <2>5. p <= Placed(args, Len(args) + 1)
    BY <1>2, <2>2, <2>3, <2>4, PositionsFilled
  <2> QED
    BY <1>4, <2>2, <2>3, <2>5 DEF ByPosition, AllArgs
<1>7. params[q].name \notin Py!Keys(kws)
  <2>1. SUFFICES ASSUME params[q].name \in Py!Keys(kws) PROVE FALSE
    OBVIOUS
  <2>2. PICK j \in DOMAIN kws : declared[p].name \in DOMAIN kws[j].map
    BY <1>5, <2>1 DEF Py!Keys
  <2>3. ~kws[j].star
    BY <1>5, <2>2 DEF NotTaken, MapNamesParameter
  <2>4. p \in Named(declared, kws[j])
    BY <2>2 DEF Named, nNamed
  <2>5. j \in 1..Len(kws) /\ j < i
    BY <1>1, <1>2
  <2> QED
    BY <1>2, <1>4, <2>3, <2>4, <2>5, ByKeywordMember
<1> HIDE DEF q
<1> QED
  BY <1>3, <1>5, <1>6, <1>7 DEF Py!Refused

LEMMA VerdictKept ==
  ASSUME RejectInv, [Next]_vars PROVE VerdictInv'
<1> DEFINE Fate == pc' = "rejected" => Wrong
<1>1. /\ pc = "rejected" => Wrong
      /\ pc = "args" => Taken(i)
      /\ pc = "kws" => Taken(AllArgs)
  BY DEF RejectInv, VerdictInv, RejectsAsPython, Wrong
<1>2. ASSUME pc' \notin {"args", "kws", "rejected"} PROVE VerdictInv'
  BY <1>2 DEF VerdictInv, RejectsAsPython
\* Once a call has been made, the verdict is on what was written.
<1>3. ASSUME UNCHANGED <<source, sign>>,
             Fate, pc' = "args" => Taken(i)', pc' = "kws" => Taken(AllArgs)'
      PROVE  VerdictInv'
  <2>1. UNCHANGED <<params, args, kws, kwOnlyStart>>
    BY <1>3 DEF source, sign
  <2>2. NotTaken' <=> NotTaken
    BY <2>1 DEF NotTaken, VarArgs, Kwargs, MapNamesParameter
  <2>3. Py!Refused(params, args, kws)' <=> Py!Refused(params, args, kws)
    BY <2>1
  <2>4. RejectsAsPython'
    BY <1>3, <2>2, <2>3 DEF RejectsAsPython, Wrong
  <2> QED
    BY <1>3, <2>4 DEF VerdictInv
<1>4. ASSUME UNCHANGED <<source, sign>>, NEW n, NEW n1,
             Taken(n),
             \A a \in DOMAIN args : a < n1 => a < n \/ ~args[a].star
                                               \/ (VarArgs /\ kwOnlyStart <= Placed(args, a))
      PROVE  \A a \in DOMAIN args' : a < n1 /\ args'[a].star
                 => VarArgs' /\ kwOnlyStart' <= Placed(args', a)
  <2>1. UNCHANGED <<params, args, kwOnlyStart>>
    BY <1>4 DEF source, sign
  <2>2. VarArgs' <=> VarArgs
    BY <2>1 DEF VarArgs
  <2> QED
    BY <1>4, <2>1, <2>2 DEF Taken
<1> HIDE DEF Fate
<1>5. CASE Call
  <2>1. pc = "defined" /\ pc' = "args" /\ i' = i
    BY <1>5 DEF Call
  <2>2. i = 1
    BY <2>1 DEF RejectInv, MatchInv, SignatureInv
  <2>3. args' \in ArgLists
    BY <1>5 DEF Call
  <2>4. Len(args') \in Nat /\ DOMAIN args' = 1..Len(args')
    BY <2>3, CallsAssumption DEF CallsAssumption, IsList
  <2>5. Taken(i)'
    BY <2>1, <2>2, <2>4 DEF Taken
  <2> QED
    BY <2>1, <2>5 DEF VerdictInv, RejectsAsPython
<1>6. CASE CheckUnpack \/ CheckPositional
  <2>1. pc = "args" /\ i <= Len(args) /\ UNCHANGED <<source, sign>>
    BY <1>6 DEF CheckUnpack, CheckPositional, CheckedArg, More
  <2>2. /\ i \in Nat \ {0} /\ kwOnlyStart \in Nat /\ Len(args) \in Nat /\ DOMAIN args = 1..Len(args)
    BY <2>1, CallKnown DEF RejectInv
  <2>3. posIdx = Placed(args, i) + 1 /\ Placed(args, i) \in Nat
    <3>1. i \in Nat
      BY <2>2
    <3>2. Placed(args, i) \in Nat
      BY <2>2, <3>1, PlacedGrows
    <3> QED
      BY <2>1, <3>2 DEF RejectInv, MatchInv, CheckerInv
  <2>4. CASE CheckUnpack
    <3>1. /\ args[i].star
          /\ IF VarArgs /\ posIdx > kwOnlyStart
             THEN i' = i + 1 /\ pc' = "args" ELSE pc' = "rejected"
      BY <2>1, <2>4 DEF CheckUnpack, CheckedArg
    <3>2. pc' # "kws"
      BY <3>1
    <3>3. CASE ~(VarArgs /\ posIdx > kwOnlyStart)
      <4>1. Wrong
        BY <2>4, <3>3, UnpackRejected
      <4>2. pc' # "args"
        BY <3>1, <3>3
      <4> QED
        BY <1>3, <2>1, <3>2, <4>1, <4>2 DEF Fate
    <3>4. CASE VarArgs /\ posIdx > kwOnlyStart
      <4>1. i' = i + 1 /\ pc' = "args"
        BY <3>1, <3>4
      <4>2. kwOnlyStart <= Placed(args, i)
        BY <2>2, <2>3, <3>4
      <4>3. \A a \in DOMAIN args : a < i + 1 => a < i \/ a = i
        BY <2>2
      <4>4. Taken(i)'
        <5>1. Taken(i)
          BY <1>1, <2>1
        <5>2. \A a \in DOMAIN args : a < i + 1 => a < i \/ ~args[a].star
                                               \/ (VarArgs /\ kwOnlyStart <= Placed(args, a))
          BY <3>4, <4>2, <4>3
        <5>3. \A a \in DOMAIN args' : a < i + 1 /\ args'[a].star
                 => VarArgs' /\ kwOnlyStart' <= Placed(args', a)
          BY <1>4, <2>1, <5>1, <5>2
        <5> QED
          BY <4>1, <5>3 DEF Taken
      <4> QED
        BY <1>3, <2>1, <4>1, <4>4 DEF Fate
    <3> QED
      BY <3>3, <3>4
  <2>5. CASE CheckPositional
    <3>1. /\ ~args[i].star
          /\ IF posIdx <= kwOnlyStart \/ VarArgs
             THEN i' = i + 1 /\ pc' = "args" ELSE pc' = "rejected"
      BY <2>1, <2>5 DEF CheckPositional, CheckedArg
    <3>2. pc' # "kws"
      BY <3>1
    <3>3. CASE ~(posIdx <= kwOnlyStart \/ VarArgs)
      <4>1. Wrong
        BY <2>5, <3>3, PositionalRejected
      <4>2. pc' # "args"
        BY <3>1, <3>3
      <4> QED
        BY <1>3, <2>1, <3>2, <4>1, <4>2 DEF Fate
    <3>4. CASE posIdx <= kwOnlyStart \/ VarArgs
      <4>1. i' = i + 1 /\ pc' = "args"
        BY <3>1, <3>4
      <4>2. \A a \in DOMAIN args : a < i + 1 => a < i \/ a = i
        BY <2>2
      <4>3. Taken(i)'
        <5>1. Taken(i)
          BY <1>1, <2>1
        <5>2. \A a \in DOMAIN args : a < i + 1 => a < i \/ ~args[a].star
                                               \/ (VarArgs /\ kwOnlyStart <= Placed(args, a))
          BY <3>1, <4>2
        <5>3. \A a \in DOMAIN args' : a < i + 1 /\ args'[a].star
                 => VarArgs' /\ kwOnlyStart' <= Placed(args', a)
          BY <1>4, <2>1, <5>1, <5>2
        <5> QED
          BY <4>1, <5>3 DEF Taken
      <4> QED
        BY <1>3, <2>1, <4>1, <4>3 DEF Fate
    <3> QED
      BY <3>3, <3>4
  <2> QED
    BY <1>6, <2>4, <2>5
<1>7. CASE ArgsChecked
  <2>1. pc = "args" /\ pc' = "kws" /\ i > Len(args) /\ UNCHANGED <<source, sign>>
    BY <1>7 DEF ArgsChecked
  <2>2. i \in Nat \ {0} /\ Len(args) \in Nat /\ DOMAIN args = 1..Len(args)
    BY <2>1, CallKnown DEF RejectInv
  <2>3. \A a \in DOMAIN args : a < i
    BY <2>1, <2>2
  <2>4. Taken(AllArgs)'
    <3>1. AllArgs' = AllArgs
      BY <2>1 DEF AllArgs, source
    <3>2. Taken(i)
      BY <1>1, <2>1
    <3>3. \A a \in DOMAIN args' : a < AllArgs /\ args'[a].star
                 => VarArgs' /\ kwOnlyStart' <= Placed(args', a)
      BY <1>4, <2>1, <2>3, <3>2
    <3> QED
      BY <3>1, <3>3 DEF Taken
  <2> QED
    BY <1>3, <2>1, <2>4 DEF Fate
<1>8. CASE CheckDoubleUnpack \/ CheckKeyword \/ KwsChecked
  <2>1. pc = "kws" /\ pc' \in {"kws", "rejected", "emit args"} /\ UNCHANGED <<source, sign>>
    BY <1>8 DEF CheckDoubleUnpack, CheckKeyword, KwsChecked, CheckedArg, More
  <2>2. Taken(AllArgs)'
    <3>1. AllArgs' = AllArgs
      BY <2>1 DEF AllArgs, source
    <3>2. Taken(AllArgs)
      BY <1>1, <2>1
    <3>3. \A a \in DOMAIN args' : a < AllArgs /\ args'[a].star
                 => VarArgs' /\ kwOnlyStart' <= Placed(args', a)
      BY <1>4, <2>1, <3>2
    <3> QED
      BY <3>1, <3>3 DEF Taken
  <2>3. Fate
    <3>1. CASE CheckDoubleUnpack
      <4>1. pc' = "rejected" => ~Kwargs
        BY <2>1, <3>1 DEF CheckDoubleUnpack, CheckedArg
      <4> QED
        BY <3>1, <4>1, DoubleUnpackRejected DEF Fate
    <3>2. CASE CheckKeyword
      <4>1. pc' = "rejected" =>
              ~(IF Matching(kws[i]) = {} THEN Kwargs ELSE Matching(kws[i]) \cap filled = {})
        BY <2>1, <3>2 DEF CheckKeyword, CheckedArg
      <4> QED
        BY <3>2, <4>1, KeywordRejected DEF Fate
    <3>3. CASE KwsChecked
      <4>1. pc' = "rejected" => ~(\A p \in 1..nNamed : p \in filled \/ declared[p].default)
        BY <3>3 DEF KwsChecked
      <4> QED
        BY <3>3, <4>1, MissingRejected DEF Fate
    <3> QED
      BY <1>8, <3>1, <3>2, <3>3
  <2>4. pc' # "args"
    BY <2>1
  <2> QED
    BY <1>3, <2>1, <2>2, <2>3, <2>4
<1>9. CASE Define \/ Register \/ Registered \/ BindArg \/ ArgsBound \/ BindKeyword \/ EmitCall
  <2>1. pc' \notin {"args", "kws", "rejected"}
    BY <1>9 DEF Define, Register, Registered, BindArg, ArgsBound, BindKeyword, EmitCall, More
  <2> QED
    BY <1>2, <2>1
<1>10. CASE UNCHANGED vars
  <2>1. UNCHANGED <<source, sign, pc, i>>
    BY <1>10 DEF vars
  <2>2. AllArgs' = AllArgs
    BY <2>1 DEF AllArgs, source
  <2>3. Fate
    BY <1>1, <2>1 DEF Fate
  <2>4. ASSUME NEW n, Taken(n)
        PROVE  \A a \in DOMAIN args' : a < n /\ args'[a].star
                 => VarArgs' /\ kwOnlyStart' <= Placed(args', a)
    BY <1>4, <2>1, <2>4
  <2>5. pc' = "args" => Taken(i)'
    BY <1>1, <2>1, <2>4 DEF Taken
  <2>6. pc' = "kws" => Taken(AllArgs)'
    BY <1>1, <2>1, <2>2, <2>4 DEF Taken
  <2> QED
    BY <1>3, <2>1, <2>3, <2>5, <2>6
<1> QED
  BY <1>5, <1>6, <1>7, <1>8, <1>9, <1>10 DEF Next

\* What the checker rejects (matchCallArgs) is an error in Python too, but for
\* the calls of NotTaken, whatever the definition and the call: in none that
\* Python accepts without unpacking is an argument found to be too many, a
\* keyword unknown or given twice, or a parameter missing.
THEOREM RejectionsAgree == Spec => []RejectsAsPython
<1>1. Init => RejectInv
  <2> SUFFICES ASSUME Init PROVE RejectInv
    OBVIOUS
  <2>1. SigningInv /\ VerdictInv
    BY DEF Init, SigningInv, VerdictInv, RejectsAsPython, Declaring
  <2> QED
    BY <2>1, MatchInit DEF RejectInv
<1>2. RejectInv /\ [Next]_vars => RejectInv'
  <2> SUFFICES ASSUME RejectInv, [Next]_vars PROVE RejectInv'
    OBVIOUS
  <2>1. MatchInv' /\ SigningInv'
    BY MatchStep, SigningKept DEF RejectInv
  <2>2. VerdictInv'
    BY VerdictKept
  <2> QED
    BY <2>1, <2>2 DEF RejectInv
<1>3. RejectInv => RejectsAsPython
  BY DEF RejectInv, VerdictInv
<1> QED
  BY <1>1, <1>2, <1>3, PTL DEF Spec

-----------------------------------------------------------------------------
\* What is bound.  The values of a call, put one behind the other.
Concat(list, n, f) ==
  /\ f[0] = <<>>
  /\ \A m \in 1..n : f[m] = f[m - 1] \o list[m].list

LEMMA EmptyIsSeq == IsSeq(<<>>) /\ Len(<<>>) = 0
<1>1. <<>> \in Seq({}) /\ Len(<<>>) = 0
  BY EmptySeq
<1> QED
  BY <1>1 DEF IsSeq

LEMMA ConcatEmpty ==
  ASSUME NEW s, IsSeq(s)
  PROVE  <<>> \o s = s /\ s \o <<>> = s
<1>1. PICK S : s \in Seq(S)
  BY DEF IsSeq
<1> QED
  BY <1>1, ConcatEmptySeq

LEMMA ValuesAreConcat ==
  ASSUME NEW list, IsArgs(list)
  PROVE  \E f : Concat(list, Len(list), f) /\ Py!Values(list) = f[Len(list)]
<1> DEFINE N == Len(list)
           ls == [a \in DOMAIN list |-> list[a].list]
<1>1. N \in Nat /\ DOMAIN list = 1..N
  BY DEF IsArgs, IsList
<1>2. \A a \in 1..N : ls[a] = list[a].list /\ IsSeq(ls[a])
  BY <1>1, ListIsSeq DEF IsArgs, IsList
<1>3. Len(ls) = N
  BY <1>1
<1>4. Py!Values(list) = Py!FlattenSeq(ls)
  BY DEF Py!Values
<1>5. IsList(ls)
  BY <1>1, <1>3 DEF IsList
<1> HIDE DEF ls, N
<1>6. CASE N = 0
  <2>1. Py!FlattenSeq(ls) = ls
    BY <1>3, <1>6 DEF Py!FlattenSeq
  <2>2. ls = <<>>
    BY <1>3, <1>5, <1>6, ListIsSeq, SeqShape
  <2> DEFINE f == [n \in 0..0 |-> <<>>]
  <2>3. f[0] = <<>>
    OBVIOUS
  <2> HIDE DEF f
  <2>4. Concat(list, N, f)
    BY <1>6, <2>3 DEF Concat
  <2> QED
    BY <1>4, <1>6, <2>1, <2>2, <2>3, <2>4 DEF N
<1>7. CASE N # 0
  <2>1. N \in Nat \ {0}
    BY <1>1, <1>7
  <2>2. PICK g : /\ g[1] = ls[1] /\ \A n \in 2..N : g[n] = g[n - 1] \o ls[n]
                 /\ Py!FlattenSeq(ls) = g[N]
    BY <1>3, <2>1, FlattenIsLoop
  <2> DEFINE f == [n \in 0..N |-> IF n = 0 THEN <<>> ELSE g[n]]
  <2>3. f[0] = <<>> /\ \A n \in 1..N : f[n] = g[n]
    BY <2>1
  <2>4. N \in 1..N
    BY <2>1
  <2> HIDE DEF f
  <2>5. ASSUME NEW m \in 1..N PROVE f[m] = f[m - 1] \o list[m].list
    <3>1. CASE m = 1
      <4>1. <<>> \o ls[1] = ls[1]
        BY <1>2, <3>1, ConcatEmpty
      <4>2. m - 1 = 0
        BY <3>1
      <4>3. f[m - 1] = <<>> /\ f[m] = ls[1] /\ list[m].list = ls[1]
        BY <1>2, <2>2, <2>3, <3>1, <4>2
      <4> QED
        BY <4>1, <4>3
    <3>2. CASE m # 1
      <4>1. m \in 2..N /\ m - 1 \in 1..N
        BY <2>1, <3>2
      <4>2. f[m] = g[m] /\ f[m - 1] = g[m - 1]
        BY <2>3, <4>1
      <4> QED
        BY <1>2, <2>2, <4>1, <4>2
    <3> QED
      BY <3>1, <3>2
  <2>6. Concat(list, N, f)
    BY <2>3, <2>5 DEF Concat
  <2>7. Py!Values(list) = f[N]
    BY <1>4, <2>2, <2>3, <2>4
  <2> QED
    BY <2>6, <2>7 DEF N
<1> QED
  BY <1>6, <1>7

\* When lists are unpacked behind the first k arguments only, these are the
\* first k values.
StarsAfter(list, k) == \A a \in DOMAIN list : list[a].star => a > k
Behind(list, k, rest) ==
  /\ IsSeq(rest) /\ Len(rest) = IF k < Len(list) THEN Len(list) - k ELSE 0
  /\ \A j \in 1..Len(rest) : rest[j] = list[k + j]

LEMMA ConcatHead ==
  ASSUME NEW list, IsArgs(list), NEW f, Concat(list, Len(list), f), NEW k \in Nat,
         StarsAfter(list, k),
         NEW K \in 0..Len(list), K <= k
  PROVE  IsSeq(f[K]) /\ Len(f[K]) = K /\ \A j \in 1..K : f[K][j] = list[j].list[1]
<1> DEFINE N == Len(list)
           Single(n) == IsSeq(f[n]) /\ Len(f[n]) = n /\ \A j \in 1..n : f[n][j] = list[j].list[1]
           T == {n \in 0..K : Single(n)}
<1>1. N \in Nat /\ DOMAIN list = 1..N
  BY DEF IsArgs, IsList
<1>2. K \in Nat /\ K <= N /\ K <= k
  BY <1>1
<1>3. \A a \in 1..K : IsSeq(list[a].list) /\ Len(list[a].list) = 1
  <2>1. \A a \in 1..K : a \in DOMAIN list /\ ~list[a].star
    BY <1>1, <1>2 DEF StarsAfter
  <2> QED
    BY <2>1, ListIsSeq DEF IsArgs
<1>4. f[0] = <<>> /\ \A m \in 1..N : f[m] = f[m - 1] \o list[m].list
  BY DEF Concat
<1> HIDE DEF N
<1>5. 0 \in T
  <2>1. Single(0)
    BY <1>4, EmptyIsSeq
  <2> HIDE DEF Single
  <2> QED
    BY <1>2, <2>1
<1>6. ASSUME NEW n \in 0..K - 1, n \in T PROVE n + 1 \in T
  <2> DEFINE m == n + 1
  <2>1. m \in 1..K /\ m - 1 = n /\ m \in 1..N /\ n \in Nat /\ m \in 0..K
    BY <1>1, <1>2
  <2>2. Single(n)
    BY <1>6
  <2> HIDE DEF m
  <2>3. f[m] = f[n] \o list[m].list
    BY <1>4, <2>1
  <2>4. /\ IsSeq(f[m]) /\ Len(f[m]) = Len(f[n]) + 1
        /\ \A j \in 1..n : f[m][j] = f[n][j]
        /\ f[m][n + 1] = list[m].list[1]
    <3> DEFINE s == f[n]
               t == list[m].list
    <3>1. IsSeq(t) /\ Len(t) = 1
      BY <1>3, <2>1
    <3>2. IsSeq(s) /\ Len(s) = n /\ f[m] = s \o t
      BY <2>2, <2>3
    <3> HIDE DEF s, t
    <3>3. /\ IsSeq(s \o t) /\ Len(s \o t) = Len(s) + Len(t)
          /\ \A j \in 1..Len(s) : (s \o t)[j] = s[j]
      BY <3>1, <3>2, SeqConcat
    <3>4. (s \o t)[n + 1] = t[1]
      <4>1. 1 \in 1..Len(t)
        BY <3>1
      <4>2. (s \o t)[Len(s) + 1] = t[1]
        <5>1. IsSeq(s) /\ IsSeq(t)
          BY <3>1, <3>2
        <5> QED
          BY ONLY <4>1, <5>1, SeqConcatRight
      <4> QED
        BY <3>2, <4>2
    <3> QED
      BY <3>1, <3>2, <3>3, <3>4 DEF s, t
  <2>5. \A j \in 1..m : j \in 1..n \/ j = m
    BY <2>1
  <2>6. Single(m)
    BY <2>1, <2>2, <2>4, <2>5 DEF m
  <2> HIDE DEF Single
  <2> QED
    BY <2>1, <2>6 DEF m
<1> HIDE DEF T
<1>7. 0..K \subseteq T
  BY <1>2, <1>5, <1>6, LoopInduction
<1>8. K \in T
  BY <1>2, <1>7
<1> QED
  BY <1>8 DEF T

\* What is behind the first k values: the arguments behind the first k.
LEMMA ConcatTail ==
  ASSUME NEW list, IsArgs(list), NEW f, Concat(list, Len(list), f), NEW k \in Nat,
         StarsAfter(list, k), k <= Len(list), NEW rest, Behind(list, k, rest), NEW g, Concat(rest, Len(rest), g)
  PROVE  /\ IsSeq(f[Len(list)]) /\ IsSeq(g[Len(rest)])
         /\ Len(f[Len(list)]) = k + Len(g[Len(rest)])
         /\ \A j \in 1..k : f[Len(list)][j] = list[j].list[1]
         /\ \A j \in 1..Len(g[Len(rest)]) : f[Len(list)][k + j] = g[Len(rest)][j]
<1> DEFINE N == Len(list)
           R == Len(rest)
           Both(n) == /\ IsSeq(f[k + n]) /\ IsSeq(g[n])
                      /\ Len(f[k + n]) = k + Len(g[n])
                      /\ \A j \in 1..k : f[k + n][j] = list[j].list[1]
                      /\ \A j \in 1..Len(g[n]) : f[k + n][k + j] = g[n][j]
           T == {n \in 0..R : Both(n)}
<1>1. N \in Nat /\ DOMAIN list = 1..N
  BY DEF IsArgs, IsList
<1>2. R \in Nat /\ k + R = N /\ IsSeq(rest)
  <2>1. R = IF k < N THEN N - k ELSE 0
    BY DEF Behind
  <2>2. k \in Nat /\ k <= N
    OBVIOUS
  <2>3. IsSeq(rest)
    BY DEF Behind
  <2> HIDE DEF N, R
  <2> QED
    BY <1>1, <2>1, <2>2, <2>3
<1>3. \A a \in 1..N : IsSeq(list[a].list)
  BY <1>1, ListIsSeq DEF IsArgs
<1>4. \A m \in 1..N : f[m] = f[m - 1] \o list[m].list
  BY DEF Concat
<1>5. g[0] = <<>> /\ \A m \in 1..R : g[m] = g[m - 1] \o rest[m].list
  BY DEF Concat
<1>6. \A j \in 1..R : rest[j] = list[k + j]
  BY DEF Behind
<1> HIDE DEF N, R
<1>7. 0 \in T
  <2>1. k \in 0..Len(list) /\ k <= k
    BY <1>1 DEF N
  <2>2. IsSeq(f[k]) /\ Len(f[k]) = k /\ \A j \in 1..k : f[k][j] = list[j].list[1]
    BY <2>1, ConcatHead
  <2>3. k + 0 = k
    OBVIOUS
  <2>4. Both(0)
    BY <1>5, <2>2, <2>3, EmptyIsSeq
  <2> HIDE DEF Both
  <2> QED
    BY <1>2, <2>4
<1>8. ASSUME NEW n \in 0..R - 1, n \in T PROVE n + 1 \in T
  <2> DEFINE m == n + 1
             q == k + m
             e == list[q].list
  <2>1. /\ m \in 1..R /\ m - 1 = n /\ n \in Nat /\ m \in 0..R
        /\ q \in 1..N /\ q - 1 = k + n
    BY <1>2
  <2>2. Both(n)
    BY <1>8
  <2>3. IsSeq(f[k + n]) /\ IsSeq(g[n]) /\ Len(f[k + n]) = k + Len(g[n])
    BY <2>2
  <2> HIDE DEF m, q, e
  <2>4. f[q] = f[k + n] \o e /\ g[m] = g[n] \o e /\ IsSeq(e)
    <3>1. rest[m].list = e
      BY <1>6, <2>1 DEF e, q
    <3>2. f[q] = f[q - 1] \o list[q].list
      BY <1>4, <2>1
    <3>3. g[m] = g[m - 1] \o rest[m].list
      BY <1>5, <2>1
    <3>4. IsSeq(e)
      BY <1>3, <2>1 DEF e
    <3>5. f[q] = f[k + n] \o e
      BY <2>1, <3>2 DEF e
    <3>6. g[m] = g[n] \o e
      BY <2>1, <3>1, <3>3
    <3> QED
      BY <3>4, <3>5, <3>6
  <2>5. Len(g[n]) \in Nat /\ Len(e) \in Nat
    BY <2>3, <2>4, SeqShape
  <2>6. /\ IsSeq(f[q]) /\ Len(f[q]) = k + Len(g[n]) + Len(e)
        /\ \A j \in 1..k + Len(g[n]) : f[q][j] = f[k + n][j]
        /\ \A j \in 1..Len(e) : f[q][k + Len(g[n]) + j] = e[j]
    <3> DEFINE s == f[k + n]
    <3>1. IsSeq(s) /\ Len(s) = k + Len(g[n]) /\ f[q] = s \o e
      BY <2>3, <2>4
    <3> HIDE DEF s
    <3>2. /\ IsSeq(s \o e) /\ Len(s \o e) = Len(s) + Len(e)
          /\ \A j \in 1..Len(s) : (s \o e)[j] = s[j]
      BY <2>4, <3>1, SeqConcat
    <3>3. ASSUME NEW j \in 1..Len(e) PROVE (s \o e)[Len(s) + j] = e[j]
      <4>1. IsSeq(s) /\ IsSeq(e)
        BY <2>4, <3>1
      <4> QED
        BY ONLY <4>1, j \in 1..Len(e), SeqConcatRight
    <3> QED
      BY <3>1, <3>2, <3>3 DEF s
  <2>7. /\ IsSeq(g[m]) /\ Len(g[m]) = Len(g[n]) + Len(e)
        /\ \A j \in 1..Len(g[n]) : g[m][j] = g[n][j]
        /\ \A j \in 1..Len(e) : g[m][Len(g[n]) + j] = e[j]
    <3>1. /\ IsSeq(g[m]) /\ Len(g[m]) = Len(g[n]) + Len(e)
          /\ \A j \in 1..Len(g[n]) : g[m][j] = g[n][j]
      BY <2>3, <2>4, SeqConcat
    <3>2. ASSUME NEW j \in 1..Len(e) PROVE g[m][Len(g[n]) + j] = e[j]
      BY <2>3, <2>4, SeqConcatRight
    <3> QED
      BY <3>1, <3>2
  <2>8. \A j \in 1..k : f[q][j] = list[j].list[1]
    <3>1. \A j \in 1..k : f[k + n][j] = list[j].list[1]
      BY <2>2
    <3>2. \A j \in 1..k : j \in 1..k + Len(g[n])
      BY <2>5
    <3> QED
      BY <2>6, <3>1, <3>2
  <2>9. ASSUME NEW j \in 1..Len(g[m]) PROVE f[q][k + j] = g[m][j]
    <3>1. CASE j <= Len(g[n])
      <4>1. j \in 1..Len(g[n]) /\ k + j \in 1..k + Len(g[n])
        BY <2>5, <3>1
      <4>2. f[k + n][k + j] = g[n][j]
        BY <2>2, <4>1
      <4> QED
        BY <2>6, <2>7, <4>1, <4>2
    <3>2. CASE ~(j <= Len(g[n]))
      <4> DEFINE h == j - Len(g[n])
      <4>1. h \in 1..Len(e) /\ k + j = k + Len(g[n]) + h /\ j = Len(g[n]) + h
        <5>1. Len(g[m]) = Len(g[n]) + Len(e)
          BY <2>7
        <5>3. j \in Int /\ Len(g[n]) \in Int /\ Len(e) \in Int /\ k \in Int
              /\ j \in 1..Len(g[n]) + Len(e)
          BY <2>5, <5>1
        <5>2. h \in Int /\ j = Len(g[n]) + h
          BY <5>3
        <5> HIDE DEF h
        <5> QED
          BY <3>2, <5>2, <5>3
      <4> HIDE DEF h
      <4> QED
        BY <2>6, <2>7, <4>1
    <3> QED
      BY <3>1, <3>2
  <2>10. Len(f[q]) = k + Len(g[m])
    BY <2>5, <2>6, <2>7
  <2>11. Both(m)
    BY <2>6, <2>7, <2>8, <2>9, <2>10 DEF q
  <2> HIDE DEF Both
  <2> QED
    BY <2>1, <2>11 DEF m
<1> HIDE DEF T
<1>9. 0..R \subseteq T
  BY <1>2, <1>7, <1>8, LoopInduction
<1>10. R \in T
  BY <1>2, <1>9
<1>11. Both(R)
  BY <1>10 DEF T
<1>12. f[k + R] = f[Len(list)]
  BY <1>2 DEF N
<1> QED
  BY <1>11, <1>12 DEF R

LEMMA SameElements ==
  ASSUME NEW s, IsSeq(s), NEW t, IsSeq(t), Len(s) = Len(t), \A j \in 1..Len(s) : s[j] = t[j]
  PROVE  s = t
<1>1. PICK S : s \in Seq(S)
  BY DEF IsSeq
<1>2. PICK T : t \in Seq(T)
  BY DEF IsSeq
<1>3. s = [j \in 1..Len(s) |-> s[j]] /\ t = [j \in 1..Len(t) |-> t[j]]
  <2>1. s \in [1..Len(s) -> S] /\ t \in [1..Len(t) -> T]
    BY <1>1, <1>2
  <2> QED
    BY <2>1
<1>4. [j \in 1..Len(s) |-> s[j]] = [j \in 1..Len(t) |-> t[j]]
  OBVIOUS
<1> QED
  BY <1>3, <1>4

LEMMA SeqBehind ==
  ASSUME NEW s, IsSeq(s), NEW k \in Nat
  PROVE  /\ IsSeq(SubSeq(s, k + 1, Len(s)))
         /\ Len(SubSeq(s, k + 1, Len(s))) = IF k < Len(s) THEN Len(s) - k ELSE 0
         /\ \A j \in 1..Len(s) - k : SubSeq(s, k + 1, Len(s))[j] = s[k + j]
<1>1. PICK S : s \in Seq(S)
  BY DEF IsSeq
<1> DEFINE n == Len(s)
<1>2. n \in Nat /\ \A j \in 1..n : s[j] \in S
  BY <1>1
<1>3. k + 1 \in Int /\ n \in Int /\ \A j \in k + 1..n : s[j] \in S
  BY <1>2
<1> HIDE DEF n
<1>4. /\ SubSeq(s, k + 1, n) \in Seq(S)
      /\ Len(SubSeq(s, k + 1, n)) = IF k + 1 <= n THEN n - (k + 1) + 1 ELSE 0
      /\ \A j \in 1..n - (k + 1) + 1 : SubSeq(s, k + 1, n)[j] = s[k + 1 + j - 1]
  BY <1>3, SubSeqProperties
<1>5. ASSUME NEW j \in 1..n - k PROVE SubSeq(s, k + 1, n)[j] = s[k + j]
  <2>1. j \in 1..n - (k + 1) + 1 /\ k + 1 + j - 1 = k + j
    BY <1>2
  <2>2. SubSeq(s, k + 1, n)[j] = s[k + 1 + j - 1]
    BY <1>4, <2>1
  <2> QED
    BY <2>1, <2>2
<1>6. Len(SubSeq(s, k + 1, n)) = IF k < n THEN n - k ELSE 0
  BY <1>2, <1>4
<1> QED
  BY <1>4, <1>5, <1>6 DEF IsSeq, n

\* What the loop of buildVarArgsList computes, and that of buildKwargsMap.
LEMMA ListLoop ==
  ASSUME NEW list, NEW N \in Nat
  PROVE  \E f : f = [n \in 0..N |-> IF n = 0 THEN <<>> ELSE f[n - 1] \o list[n].list]
<1> DEFINE Step(n, g) == IF n = 0 THEN <<>> ELSE g[n - 1] \o list[n].list
           Run(n, g) == g = [k \in 0..n |-> Step(k, g)]
           T == {n \in 0..N : \E g : Run(n, g)}
<1>1. 0 \in T
  <2>1. Run(0, [k \in 0..0 |-> <<>>])
    OBVIOUS
  <2> HIDE DEF Run
  <2> QED
    BY <2>1
<1>2. ASSUME NEW n \in 0..N - 1, n \in T PROVE n + 1 \in T
  <2>1. PICK g : Run(n, g)
    BY <1>2
  <2> DEFINE h == [k \in 0..n + 1 |-> IF k = n + 1 THEN Step(k, g) ELSE g[k]]
  <2>2. ASSUME NEW k \in 0..n + 1 PROVE h[k] = Step(k, h)
    <3>1. CASE k = 0
      <4>1. k # n + 1 /\ k \in 0..n
        BY <3>1
      <4> QED
        BY <2>1, <3>1, <4>1
    <3>2. CASE k # 0
      <4>1. k - 1 \in 0..n + 1 /\ k - 1 # n + 1
        BY <3>2
      <4>2. h[k - 1] = g[k - 1]
        BY <4>1
      <4>3. Step(k, h) = Step(k, g)
        BY <3>2, <4>2
      <4>4. k = n + 1 \/ k \in 0..n
        OBVIOUS
      <4>5. k \in 0..n => g[k] = Step(k, g)
        BY <2>1
      <4> HIDE DEF Step
      <4> QED
        BY <4>3, <4>4, <4>5
    <3> QED
      BY <3>1, <3>2
  <2>3. h = [k \in 0..n + 1 |-> h[k]]
    OBVIOUS
  <2> HIDE DEF h
  <2>4. Run(n + 1, h)
    BY <2>2, <2>3
  <2>5. n + 1 \in 0..N
    OBVIOUS
  <2> HIDE DEF Run
  <2> QED
    BY <2>4, <2>5
<1> HIDE DEF T
<1>3. 0..N \subseteq T
  BY <1>1, <1>2, LoopInduction
<1>4. N \in T
  BY <1>3
<1> QED
  BY <1>4 DEF T

LEMMA LoopIsConcat ==
  ASSUME NEW list, NEW N \in Nat, NEW f,
         f = [n \in 0..N |-> IF n = 0 THEN <<>> ELSE f[n - 1] \o list[n].list]
  PROVE  Concat(list, N, f)
<1>1. \A n \in 0..N : f[n] = IF n = 0 THEN <<>> ELSE f[n - 1] \o list[n].list
  OBVIOUS
<1>2. 0 \in 0..N /\ \A n \in 1..N : n \in 0..N /\ n # 0
  OBVIOUS
<1> QED
  BY ONLY <1>1, <1>2 DEF Concat

LEMMA MapLoop ==
  ASSUME NEW list, NEW N \in Nat
  PROVE  \E f : f = [n \in 0..N |-> IF n = 0 THEN <<>> ELSE Extended(f[n - 1], list[n].map)]
<1> DEFINE Step(n, g) == IF n = 0 THEN <<>> ELSE Extended(g[n - 1], list[n].map)
           Run(n, g) == g = [k \in 0..n |-> Step(k, g)]
           T == {n \in 0..N : \E g : Run(n, g)}
<1>1. 0 \in T
  <2>1. Run(0, [k \in 0..0 |-> <<>>])
    OBVIOUS
  <2> HIDE DEF Run
  <2> QED
    BY <2>1
<1>2. ASSUME NEW n \in 0..N - 1, n \in T PROVE n + 1 \in T
  <2>1. PICK g : Run(n, g)
    BY <1>2
  <2> DEFINE h == [k \in 0..n + 1 |-> IF k = n + 1 THEN Step(k, g) ELSE g[k]]
  <2>2. ASSUME NEW k \in 0..n + 1 PROVE h[k] = Step(k, h)
    <3>1. CASE k = 0
      <4>1. k # n + 1 /\ k \in 0..n
        BY <3>1
      <4> QED
        BY <2>1, <3>1, <4>1
    <3>2. CASE k # 0
      <4>1. k - 1 \in 0..n + 1 /\ k - 1 # n + 1
        BY <3>2
      <4>2. h[k - 1] = g[k - 1]
        BY <4>1
      <4>3. Step(k, h) = Step(k, g)
        BY <3>2, <4>2
      <4>4. k = n + 1 \/ k \in 0..n
        OBVIOUS
      <4>5. k \in 0..n => g[k] = Step(k, g)
        BY <2>1
      <4> HIDE DEF Step
      <4> QED
        BY <4>3, <4>4, <4>5
    <3> QED
      BY <3>1, <3>2
  <2>3. h = [k \in 0..n + 1 |-> h[k]]
    OBVIOUS
  <2> HIDE DEF h
  <2>4. Run(n + 1, h)
    BY <2>2, <2>3
  <2>5. n + 1 \in 0..N
    OBVIOUS
  <2> HIDE DEF Run
  <2> QED
    BY <2>4, <2>5
<1> HIDE DEF T
<1>3. 0..N \subseteq T
  BY <1>1, <1>2, LoopInduction
<1>4. N \in T
  BY <1>3
<1> QED
  BY <1>4 DEF T

\* The values that no parameter takes are those of the arguments behind.
LEMMA ValuesBehind ==
  ASSUME NEW list, IsArgs(list), NEW k \in Nat,
         StarsAfter(list, k),
         NEW rest, Behind(list, k, rest), NEW g, Concat(rest, Len(rest), g)
  PROVE  g[Len(rest)] = SubSeq(Py!Values(list), k + 1, Len(Py!Values(list)))
<1> DEFINE N == Len(list)
           V == Py!Values(list)
<1>1. N \in Nat
  BY DEF IsArgs, IsList
<1>2. PICK f : Concat(list, N, f) /\ V = f[N]
  BY ValuesAreConcat
<1> HIDE DEF V
<1>3. CASE k <= N
  <2> DEFINE W == g[Len(rest)]
  <2>2. /\ IsSeq(V) /\ IsSeq(W) /\ Len(V) = k + Len(W)
        /\ \A j \in 1..Len(W) : V[k + j] = W[j]
    <3>1. /\ IsSeq(f[Len(list)]) /\ IsSeq(W) /\ Len(f[Len(list)]) = k + Len(W)
          /\ \A j \in 1..Len(W) : f[Len(list)][k + j] = W[j]
      <4>1. Concat(list, Len(list), f) /\ k <= Len(list)
        BY <1>2, <1>3
      <4> QED
        BY <4>1, ConcatTail
    <3>2. f[Len(list)] = V
      BY <1>2
    <3> QED
      BY <3>1, <3>2
  <2> HIDE DEF W
  <2>3. Len(W) \in Nat /\ Len(V) - k = Len(W) /\ (~(k < Len(V)) => Len(W) = 0)
    BY <2>2, SeqShape
  <2>4. /\ IsSeq(SubSeq(V, k + 1, Len(V)))
        /\ Len(SubSeq(V, k + 1, Len(V))) = Len(W)
        /\ \A j \in 1..Len(W) : SubSeq(V, k + 1, Len(V))[j] = V[k + j]
    <3>1. Len(SubSeq(V, k + 1, Len(V))) = IF k < Len(V) THEN Len(V) - k ELSE 0
      BY <2>2, SeqBehind
    <3>2. \A j \in 1..Len(V) - k : SubSeq(V, k + 1, Len(V))[j] = V[k + j]
      BY <2>2, SeqBehind
    <3> QED
      BY <2>2, <2>3, <3>1, <3>2, SeqBehind
  <2>5. W = SubSeq(V, k + 1, Len(V))
    BY <2>2, <2>4, SameElements
  <2> QED
    BY <2>5 DEF W, V
<1>4. CASE ~(k <= N)
  <2>1. N \in 0..Len(list) /\ N <= k /\ Len(rest) = 0
    BY <1>1, <1>4 DEF Behind
  <2>2. IsSeq(V) /\ Len(V) = N
    BY <1>2, <2>1, ConcatHead
  <2>3. ~(k < Len(V))
    BY <1>1, <1>4, <2>2
  <2>4. IsSeq(SubSeq(V, k + 1, Len(V))) /\ Len(SubSeq(V, k + 1, Len(V))) = 0
    BY <2>2, <2>3, SeqBehind
  <2>5. SubSeq(V, k + 1, Len(V)) = <<>>
    BY <2>4, SeqShape
  <2>6. g[Len(rest)] = <<>>
    BY <2>1 DEF Concat
  <2> QED
    BY <2>5, <2>6 DEF V
<1> QED
  BY <1>3, <1>4

\* A parameter given by position gets the value at that place.
LEMMA ValueAt ==
  ASSUME NEW list, IsArgs(list), NEW k \in Nat,
         StarsAfter(list, k),
         NEW p \in 1..k, p <= Len(list)
  PROVE  Py!Values(list)[p] = list[p].list[1] /\ p <= Len(Py!Values(list))
<1> DEFINE N == Len(list)
           V == Py!Values(list)
<1>1. N \in Nat
  BY DEF IsArgs, IsList
<1>2. PICK f : Concat(list, N, f) /\ V = f[N]
  BY ValuesAreConcat
<1>3. CASE k <= N
  <2> DEFINE rest == SubSeq(list, k + 1, N)
  <2>1. IsSeq(list)
    BY ListIsSeq DEF IsArgs
  <2>2. /\ IsSeq(rest) /\ Len(rest) = N - k
        /\ \A j \in 1..N - k : rest[j] = list[k + j]
    <3>1. Len(rest) = IF k < N THEN N - k ELSE 0
      BY <2>1, SeqBehind
    <3>2. ~(k < N) => N - k = 0
      BY <1>1, <1>3
    <3> QED
      BY <2>1, <3>1, <3>2, SeqBehind
  <2> HIDE DEF rest
  <2>3. PICK g : g = [n \in 0..Len(rest) |-> IF n = 0 THEN <<>> ELSE g[n - 1] \o rest[n].list]
    <3>1. Len(rest) \in Nat
      BY <2>2, SeqShape
    <3> QED
      BY <3>1, ListLoop
  <2>4. Concat(rest, Len(rest), g)
    BY <2>2, <2>3, LoopIsConcat, SeqShape
  <2>5. /\ IsSeq(V) /\ Len(V) = k + Len(g[Len(rest)]) /\ IsSeq(g[Len(rest)])
        /\ \A j \in 1..k : V[j] = list[j].list[1]
    <3>1. /\ IsSeq(f[Len(list)]) /\ Len(f[Len(list)]) = k + Len(g[Len(rest)])
          /\ IsSeq(g[Len(rest)])
          /\ \A j \in 1..k : f[Len(list)][j] = list[j].list[1]
      <4>1. Concat(list, Len(list), f) /\ k <= Len(list) /\ Concat(rest, Len(rest), g)
        BY <1>2, <1>3, <2>4
      <4>2. Behind(list, k, rest)
        <5>1. Len(rest) = IF k < Len(list) THEN Len(list) - k ELSE 0
          <6>1. Len(rest) = N - k
            BY <2>2
          <6> HIDE DEF N
          <6>2. Len(rest) = IF k < N THEN N - k ELSE 0
            BY ONLY <1>1, <1>3, <6>1, k \in Nat
          <6> QED
            BY <6>2 DEF N
        <5>2. IsSeq(rest) /\ \A j \in 1..Len(rest) : rest[j] = list[k + j]
          BY <2>2
        <5> QED
          BY <5>1, <5>2 DEF Behind
      <4> QED
        BY <4>1, <4>2, ConcatTail
    <3>2. f[Len(list)] = V
      BY <1>2
    <3> QED
      BY <3>1, <3>2
  <2>6. Len(g[Len(rest)]) \in Nat
    BY <2>5, SeqShape
  <2> QED
    BY <2>5, <2>6
<1>4. CASE ~(k <= N)
  <2>1. N \in 0..Len(list) /\ N <= k /\ p \in 1..N
    BY <1>1, <1>4
  <2>2. Len(f[N]) = N /\ \A j \in 1..N : f[N][j] = list[j].list[1]
    BY <1>2, <2>1, ConcatHead
  <2> QED
    BY <1>1, <1>2, <2>1, <2>2
<1> QED
  BY <1>3, <1>4

\* The keywords that are left, merged key by key: m has what is in their maps,
\* which do not disagree.
Merging(list, N, f) ==
  f = [n \in 0..N |-> IF n = 0 THEN <<>> ELSE Extended(f[n - 1], list[n].map)]
Union(list, N, m) ==
  /\ m = [x \in DOMAIN m |-> m[x]]
  /\ \A q \in 1..N : \A x \in DOMAIN list[q].map : x \in DOMAIN m /\ list[q].map[x] = m[x]
  /\ \A x \in DOMAIN m : \E q \in 1..N : x \in DOMAIN list[q].map

LEMMA MapsMerged ==
  ASSUME NEW list, NEW N \in Nat, NEW f, Merging(list, N, f), NEW m, Union(list, N, m)
  PROVE  f[N] = m
<1> USE DEF Merging, Union
<1> DEFINE Some(n, x) == \E q \in 1..n : x \in DOMAIN list[q].map
           Part(n) == f[n] = [x \in DOMAIN f[n] |-> m[x]] /\ \A x : x \in DOMAIN f[n] <=> Some(n, x)
           T == {n \in 0..N : Part(n)}
<1>1. \A n \in 0..N : f[n] = IF n = 0 THEN <<>> ELSE Extended(f[n - 1], list[n].map)
  OBVIOUS
<1>2. 0 \in T
  <2>1. f[0] = <<>> /\ 0 \in 0..N
    BY <1>1
  <2>2. DOMAIN <<>> = {} /\ <<>> = [x \in {} |-> m[x]]
    OBVIOUS
  <2>3. \A x : ~Some(0, x)
    OBVIOUS
  <2> HIDE DEF Some
  <2>4. Part(0)
    BY <2>1, <2>2, <2>3
  <2> HIDE DEF Part
  <2> QED
    BY <2>1, <2>4
<1>3. ASSUME NEW n \in 0..N - 1, n \in T PROVE n + 1 \in T
  <2> DEFINE h == n + 1
             b == list[h].map
  <2>1. h \in 1..N /\ h \in 0..N /\ h - 1 = n /\ h # 0 /\ 1..h = 1..n \cup {h}
    OBVIOUS
  <2>2. Part(n)
    BY <1>3
  <2> HIDE DEF h
  <2>3. f[h] = Extended(f[n], b)
    BY <1>1, <2>1
  <2>4. \A x \in DOMAIN b : b[x] = m[x]
    BY <2>1
  <2>5. \A x : Some(h, x) <=> Some(n, x) \/ x \in DOMAIN b
    BY <2>1
  <2> HIDE DEF b, Some
  <2>6. f[h] = [x \in DOMAIN f[n] \cup DOMAIN b |-> IF x \in DOMAIN b THEN b[x] ELSE f[n][x]]
    BY <2>3 DEF Extended
  <2>7. DOMAIN f[h] = DOMAIN f[n] \cup DOMAIN b
    BY <2>6
  <2>8. \A x \in DOMAIN f[n] : f[n][x] = m[x]
    BY <2>2
  <2>9. f[h] = [x \in DOMAIN f[h] |-> m[x]]
    BY <2>4, <2>6, <2>7, <2>8
  <2>10. \A x : x \in DOMAIN f[h] <=> Some(h, x)
    BY <2>2, <2>5, <2>7
  <2>11. Part(h)
    BY <2>9, <2>10
  <2> HIDE DEF Part
  <2> QED
    BY <2>1, <2>11 DEF h
<1> HIDE DEF T
<1>4. 0..N \subseteq T
  BY <1>2, <1>3, LoopInduction
<1>5. N \in T
  BY <1>4
<1>6. Part(N)
  BY <1>5 DEF T
<1>7. \A x : x \in DOMAIN f[N] <=> x \in DOMAIN m
  BY <1>6
<1>8. DOMAIN f[N] = DOMAIN m
  BY <1>7
<1> QED
  BY <1>6, <1>8

\* When lists are unpacked only where the checker takes them, the arguments for
\* the first k parameters are the first k.
LEMMA TakenPlaces ==
  ASSUME NEW list, NEW N \in Nat, DOMAIN list = 1..N, NEW k \in Nat,
         \A a \in 1..N : list[a].star => k <= Placed(list, a)
  PROVE  /\ StarsAfter(list, k)
         /\ \A n \in 1..N + 1 : /\ n - 1 <= k => Placed(list, n) = n - 1
                                /\ n - 1 >= k => Placed(list, n) >= k
         /\ \A n \in 1..N + 1 : Placed(list, n) \in Nat
<1>1. ASSUME NEW n \in Nat \ {0}
      PROVE  Placed(list, n) \in Nat /\ Placed(list, n) <= n - 1
  <2>1. SinglesBefore(list, n) \in SUBSET (1..n - 1)
    BY DEF SinglesBefore
  <2>2. IsFiniteSet(1..n - 1) /\ Cardinality(1..n - 1) = n - 1
    BY FS_Interval
  <2>3. Cardinality(SinglesBefore(list, n)) <= Cardinality(1..n - 1)
    BY <2>1, <2>2, FS_Subset
  <2>4. n \in Nat
    OBVIOUS
  <2>5. Placed(list, n) \in Nat
    BY <2>4, PlacedGrows
  <2> QED
    BY <2>2, <2>3, <2>5 DEF Placed
<1>2. ASSUME NEW a \in 1..N, list[a].star PROVE a > k
  <2>1. k <= Placed(list, a) /\ a \in Nat \ {0}
    BY <1>2
  <2>2. Placed(list, a) \in Nat /\ Placed(list, a) <= a - 1
    BY <1>1, <2>1
  <2> QED
    BY <2>1, <2>2
<1>3. StarsAfter(list, k)
  BY <1>2 DEF StarsAfter
<1>4. ASSUME NEW n \in 1..N + 1, n - 1 <= k PROVE Placed(list, n) = n - 1
  <2>1. \A a \in 1..N : a < n => ~list[a].star
    BY <1>2, <1>4
  <2> QED
    BY <2>1, NoStarPlaced
<1>5. ASSUME NEW n \in 1..N + 1, n - 1 >= k PROVE Placed(list, n) >= k
  <2> DEFINE h == k + 1
  <2>1. h \in 1..N + 1 /\ h - 1 = k /\ h \in Nat /\ n \in Nat /\ h <= n /\ n \in Nat \ {0}
    BY <1>5
  <2> HIDE DEF h
  <2>2. Placed(list, h) = k
    <3>1. h - 1 <= k
      BY <2>1
    <3> QED
      BY <1>4, <2>1, <3>1
  <2>3. Placed(list, h) <= Placed(list, n)
    BY <2>1, PlacedRises
  <2>4. Placed(list, n) \in Nat
    BY <1>1, <2>1
  <2> QED
    BY <2>2, <2>3, <2>4
<1>6. \A n \in 1..N + 1 : n \in Nat \ {0}
  OBVIOUS
<1>7. ASSUME NEW n \in 1..N + 1 PROVE Placed(list, n) \in Nat
  BY <1>1, <1>6
<1> QED
  BY <1>3, <1>4, <1>5, <1>7

LEMMA TakenPositions ==
  ASSUME NEW list, NEW N \in Nat, DOMAIN list = 1..N, NEW k \in Nat,
         \A a \in 1..N : list[a].star => k <= Placed(list, a),
         NEW n \in 1..N + 1, NEW p
  PROVE  p \in ByPosition(list, k, n) <=> p \in 1..k /\ p < n
<1> DEFINE P == Placed(list, n)
<1>1. P \in Nat /\ (n - 1 <= k => P = n - 1) /\ (n - 1 >= k => P >= k)
  BY TakenPlaces
<1>2. p \in ByPosition(list, k, n) <=> p \in 1..k /\ p <= P
  BY DEF ByPosition
<1> HIDE DEF P
<1>3. n \in Nat
  OBVIOUS
<1> QED
  BY ONLY <1>1, <1>2, <1>3, k \in Nat

\* What the checker has found of a call that it accepts.
Fits(n) == ~VarArgs => Placed(args, n) <= kwOnlyStart
KeywordsTaken(n) ==
  \A j \in DOMAIN kws : j < n =>
    IF kws[j].star THEN Kwargs
    ELSE /\ Named(declared, kws[j]) = {} => Kwargs
         /\ Named(declared, kws[j]) \cap Given(AllArgs, j) = {}
Complete == \A p \in 1..nNamed : p \in Given(AllArgs, AllKws) \/ declared[p].default

Accepted == Taken(AllArgs) /\ Fits(AllArgs) /\ KeywordsTaken(AllKws) /\ Complete

AcceptedInv == /\ pc = "args" => Fits(i)
               /\ pc = "kws" => Fits(AllArgs) /\ KeywordsTaken(i)
               /\ pc \in {"emit args", "emit kws", "called"} => Accepted

LEMMA AcceptedStays ==
  ASSUME UNCHANGED <<source, sign>>
  PROVE  (Accepted' <=> Accepted) /\ AllArgs' = AllArgs
<1>1. UNCHANGED <<params, args, kws, declared, kwOnlyStart>>
  BY DEF source, sign
<1>2. /\ AllArgs' = AllArgs /\ AllKws' = AllKws /\ nNamed' = nNamed
      /\ (VarArgs' <=> VarArgs) /\ (Kwargs' <=> Kwargs)
  BY <1>1 DEF AllArgs, AllKws, nNamed, VarArgs, Kwargs
<1>3. (Taken(AllArgs)' <=> Taken(AllArgs)) /\ (Fits(AllArgs)' <=> Fits(AllArgs))
  BY <1>1, <1>2 DEF Taken, Fits
<1>4. KeywordsTaken(AllKws)' <=> KeywordsTaken(AllKws)
  BY <1>1, <1>2 DEF KeywordsTaken, Given
<1>5. Complete' <=> Complete
  BY <1>1, <1>2 DEF Complete, Given
<1> QED
  BY <1>2, <1>3, <1>4, <1>5 DEF Accepted

LEMMA AcceptedKept ==
  ASSUME RejectInv, AcceptedInv, [Next]_vars PROVE AcceptedInv'
<1>1. CASE Define \/ Register \/ Registered
  BY <1>1 DEF Define, Register, Registered, More, AcceptedInv
<1>2. CASE Call
  <2>1. pc = "defined" /\ pc' = "args" /\ i' = i /\ kwOnlyStart' = kwOnlyStart /\ args' \in ArgLists
    BY <1>2 DEF Call, sign
  <2>2. i = 1 /\ kwOnlyStart \in 0..nNamed /\ nNamed \in Nat
    <3>1. IsSeq(declared)
      BY DEF RejectInv, MatchInv, SignatureInv
    <3>2. nNamed \in Nat
      BY <3>1, SeqShape DEF nNamed
    <3> QED
      BY <2>1, <3>2 DEF RejectInv, MatchInv, SignatureInv, Declaring
  <2>3. Len(args') \in Nat /\ DOMAIN args' = 1..Len(args')
    BY <2>1, CallsAssumption DEF CallsAssumption, IsList
  <2>4. Placed(args', 1) = 0
    <3>1. 1 \in Nat
      OBVIOUS
    <3> QED
      BY <2>3, <3>1, PlacedGrows
  <2>5. Fits(i)'
    BY <2>1, <2>2, <2>4 DEF Fits
  <2> QED
    BY <2>1, <2>5 DEF AcceptedInv
<1>3. CASE CheckUnpack \/ CheckPositional
  <2>1. /\ pc = "args" /\ i <= Len(args) /\ UNCHANGED <<source, sign>>
        /\ pc' \in {"args", "rejected"} /\ (pc' = "args" => i' = i + 1)
    BY <1>3 DEF CheckUnpack, CheckPositional, CheckedArg, More
  <2>2. /\ i \in Nat \ {0} /\ kwOnlyStart \in Nat /\ Len(args) \in Nat /\ DOMAIN args = 1..Len(args)
    BY <2>1, CallKnown DEF RejectInv
  <2>3. i \in Nat /\ i \in DOMAIN args
    BY <2>1, <2>2
  <2>4. posIdx = Placed(args, i) + 1 /\ Placed(args, i) \in Nat
    <3>1. Placed(args, i) \in Nat
      BY <2>2, <2>3, PlacedGrows
    <3> QED
      BY <2>1, <3>1 DEF RejectInv, MatchInv, CheckerInv
  <2>5. ASSUME pc' = "args" PROVE Fits(i)'
    <3>1. UNCHANGED <<args, kwOnlyStart>> /\ (VarArgs' <=> VarArgs) /\ i' = i + 1
      BY <2>1, <2>5 DEF source, sign, VarArgs
    <3>2. CASE CheckUnpack
      <4>1. VarArgs
        BY <2>5, <3>2 DEF CheckUnpack, CheckedArg
      <4> QED
        BY <3>1, <4>1 DEF Fits
    <3>3. CASE CheckPositional
      <4>1. ~args[i].star /\ (posIdx <= kwOnlyStart \/ VarArgs)
        BY <2>5, <3>3 DEF CheckPositional, CheckedArg
      <4>2. Placed(args, i + 1) = Placed(args, i) + 1
        BY <2>2, <2>3, <4>1, PlacedGrows
      <4> QED
        BY <2>4, <3>1, <4>1, <4>2 DEF Fits
    <3> QED
      BY <1>3, <3>2, <3>3
  <2> QED
    BY <2>1, <2>5 DEF AcceptedInv
<1>4. CASE ArgsChecked
  <2>1. pc = "args" /\ pc' = "kws" /\ i > Len(args) /\ i' = 1 /\ UNCHANGED <<source, sign>>
    BY <1>4 DEF ArgsChecked
  <2>2. /\ i \in Nat \ {0} /\ Len(args) \in Nat /\ DOMAIN args = 1..Len(args)
        /\ Len(kws) \in Nat /\ DOMAIN kws = 1..Len(kws)
    BY <2>1, CallKnown DEF RejectInv
  <2>3. Placed(args, i) = Placed(args, AllArgs)
    <3>1. i \in Nat
      BY <2>2
    <3> QED
      BY <2>1, <2>2, <3>1, PlacedGrows DEF AllArgs
  <2>4. UNCHANGED <<args, kws, kwOnlyStart, AllArgs>> /\ (VarArgs' <=> VarArgs)
    BY <2>1 DEF source, sign, AllArgs, VarArgs
  <2>5. Fits(AllArgs)'
    BY <2>1, <2>3, <2>4 DEF AcceptedInv, Fits
  <2>6. KeywordsTaken(i)'
    BY <2>1, <2>2, <2>4 DEF KeywordsTaken
  <2> QED
    BY <2>1, <2>5, <2>6 DEF AcceptedInv
<1>5. CASE CheckDoubleUnpack \/ CheckKeyword
  <2>1. /\ pc = "kws" /\ i <= Len(kws) /\ UNCHANGED <<source, sign>>
        /\ pc' \in {"kws", "rejected"} /\ (pc' = "kws" => i' = i + 1)
    BY <1>5 DEF CheckDoubleUnpack, CheckKeyword, CheckedArg, More
  <2>2. /\ i \in Nat \ {0} /\ Len(kws) \in Nat /\ DOMAIN kws = 1..Len(kws)
    BY <2>1, CallKnown DEF RejectInv
  <2>3. /\ UNCHANGED <<args, kws, declared, kwOnlyStart, AllArgs>>
        /\ (VarArgs' <=> VarArgs) /\ (Kwargs' <=> Kwargs)
    BY <2>1 DEF source, sign, AllArgs, VarArgs, Kwargs
  <2>4. Fits(AllArgs)'
    BY <2>1, <2>3 DEF AcceptedInv, Fits
  <2>5. ASSUME pc' = "kws" PROVE KeywordsTaken(i)'
    <3>1. i' = i + 1
      BY <2>1, <2>5
    <3>2. IF kws[i].star THEN Kwargs
          ELSE /\ Named(declared, kws[i]) = {} => Kwargs
               /\ Named(declared, kws[i]) \cap Given(AllArgs, i) = {}
      <4>1. CASE CheckDoubleUnpack
        BY <2>5, <4>1 DEF CheckDoubleUnpack, CheckedArg
      <4>2. CASE CheckKeyword
        <5>1. ~kws[i].star /\ Matching(kws[i]) = Named(declared, kws[i])
          BY <4>2 DEF CheckKeyword, Matching, Named, ParamName, nNamed
        <5>2. filled = Given(AllArgs, i)
          BY <2>1 DEF RejectInv, MatchInv, CheckerInv
        <5>3. IF Matching(kws[i]) = {} THEN Kwargs ELSE Matching(kws[i]) \cap filled = {}
          BY <2>5, <4>2 DEF CheckKeyword, CheckedArg
        <5> QED
          BY <5>1, <5>2, <5>3
      <4> QED
        BY <1>5, <4>1, <4>2
    <3>3. KeywordsTaken(i)
      BY <2>1 DEF AcceptedInv
    <3>4. \A j \in DOMAIN kws : j < i + 1 => j < i \/ j = i
      BY <2>2
    <3>5. \A j : Given(AllArgs, j)' = Given(AllArgs, j)
      BY <2>3 DEF Given
    <3> QED
      BY <2>3, <3>1, <3>2, <3>3, <3>4, <3>5 DEF KeywordsTaken
  <2> QED
    BY <2>1, <2>4, <2>5 DEF AcceptedInv
<1>6. CASE KwsChecked
  <2>1. pc = "kws" /\ i > Len(kws) /\ UNCHANGED <<source, sign>> /\ pc' \in {"emit args", "rejected"}
    BY <1>6 DEF KwsChecked
  <2>2. /\ i \in Nat \ {0} /\ Len(kws) \in Nat /\ DOMAIN kws = 1..Len(kws)
    BY <2>1, CallKnown DEF RejectInv
  <2>3. ASSUME pc' = "emit args" PROVE Accepted
    <3>1. Taken(AllArgs) /\ Fits(AllArgs)
      BY <2>1 DEF AcceptedInv, RejectInv, VerdictInv
    <3>2. KeywordsTaken(AllKws)
      <4>1. KeywordsTaken(i)
        BY <2>1 DEF AcceptedInv
      <4>2. ASSUME NEW j \in DOMAIN kws PROVE j < i
        <5>1. j \in 1..Len(kws) /\ Len(kws) \in Nat /\ i \in Nat /\ Len(kws) < i
          BY <2>1, <2>2
        <5> QED
          BY ONLY <5>1
      <4> QED
        BY <4>1, <4>2 DEF KeywordsTaken
    <3>3. filled = Given(AllArgs, AllKws)
      <4>1. filled = Given(AllArgs, i)
        BY <2>1 DEF RejectInv, MatchInv, CheckerInv
      <4>2. i \in Nat
        BY <2>2
      <4> QED
        BY <2>1, <2>2, <4>1, <4>2, ByKeywordEnds DEF Given, AllKws
    <3>4. Complete
      BY <2>3, <3>3, <1>6 DEF KwsChecked, Complete
    <3> QED
      BY <3>1, <3>2, <3>4 DEF Accepted
  <2> QED
    BY <2>1, <2>3, AcceptedStays DEF AcceptedInv
<1>7. CASE BindArg \/ ArgsBound \/ BindKeyword \/ EmitCall
  <2>1. /\ pc \in {"emit args", "emit kws"} /\ pc' \in {"emit args", "emit kws", "called"}
        /\ UNCHANGED <<source, sign>>
    BY <1>7 DEF BindArg, ArgsBound, BindKeyword, EmitCall, More
  <2> QED
    BY <2>1, AcceptedStays DEF AcceptedInv
<1>8. CASE UNCHANGED vars
  <2>1. UNCHANGED <<source, sign, pc, i>>
    BY <1>8 DEF vars
  <2>2. UNCHANGED <<args, kws, declared, kwOnlyStart, AllArgs>>
        /\ (VarArgs' <=> VarArgs) /\ (Kwargs' <=> Kwargs)
    BY <2>1 DEF source, sign, AllArgs, VarArgs, Kwargs
  <2>3. (Fits(i)' <=> Fits(i)) /\ (Fits(AllArgs)' <=> Fits(AllArgs))
    BY <2>1, <2>2 DEF Fits
  <2>4. KeywordsTaken(i)' <=> KeywordsTaken(i)
    BY <2>1, <2>2 DEF KeywordsTaken, Given
  <2> QED
    BY <2>1, <2>3, <2>4, AcceptedStays DEF AcceptedInv
<1> QED
  BY <1>1, <1>2, <1>3, <1>4, <1>5, <1>6, <1>7, <1>8 DEF Next

LEMMA InRange ==
  ASSUME NEW N \in Nat, NEW j \in Nat \ {0}, j <= N
  PROVE  j \in 1..N /\ j \in 1..N + 1 /\ j + 1 \in 1..N + 1
OBVIOUS

\* What the generator has bound: the first arguments to the first parameters,
\* keywords to the parameters they name, the rest kept for the stars.
Extra(j) == kws[j].star \/ Named(declared, kws[j]) = {}

PositionsBound(n) ==
  \A p \in 1..nNamed : p <= kwOnlyStart /\ p < n => namedVals[p] = args[p].list
RestKept(n) ==
  /\ IsSeq(overflow)
  /\ Len(overflow) = IF kwOnlyStart < n - 1 THEN n - 1 - kwOnlyStart ELSE 0
  /\ \A j \in 1..Len(overflow) : overflow[j] = args[kwOnlyStart + j]
KeywordsBound(n) ==
  \A j \in DOMAIN kws : j < n /\ ~kws[j].star =>
    \A p \in Named(declared, kws[j]) : namedVals[p] = <<kws[j].map[declared[p].name]>>
LeftoverKept(n) ==
  /\ IsSeq(leftoverKw)
  /\ \A q \in 1..Len(leftoverKw) : \E j \in DOMAIN kws : Extra(j) /\ leftoverKw[q] = kws[j]
  /\ \A j \in DOMAIN kws : j < n /\ Extra(j) => \E q \in 1..Len(leftoverKw) : leftoverKw[q] = kws[j]

ValuesInv ==
  /\ pc \notin {"emit args", "emit kws", "called"} => overflow = <<>>
  /\ pc \notin {"emit kws", "called"} => leftoverKw = <<>>
  /\ pc = "emit args" => i \in 1..AllArgs /\ PositionsBound(i) /\ RestKept(i)
  /\ pc = "emit kws" => /\ PositionsBound(AllArgs) /\ RestKept(AllArgs)
                        /\ KeywordsBound(i) /\ LeftoverKept(i)

LEMMA EmitKnown ==
  ASSUME RejectInv, AcceptedInv, pc \in {"emit args", "emit kws"}
  PROVE  /\ IsArgs(args) /\ Len(args) \in Nat /\ DOMAIN args = 1..Len(args)
         /\ Len(kws) \in Nat /\ DOMAIN kws = 1..Len(kws) /\ kws \in KwLists
         /\ i \in Nat \ {0} /\ nNamed \in Nat /\ kwOnlyStart \in Nat /\ kwOnlyStart <= nNamed
         /\ \A a \in 1..Len(args) : args[a].star => VarArgs /\ kwOnlyStart <= Placed(args, a)
         /\ Accepted
<1>1. /\ IsArgs(args) /\ Len(args) \in Nat /\ DOMAIN args = 1..Len(args)
      /\ Len(kws) \in Nat /\ DOMAIN kws = 1..Len(kws) /\ kws \in KwLists
      /\ i \in Nat \ {0} /\ nNamed \in Nat /\ kwOnlyStart \in Nat
  BY CallKnown DEF RejectInv
<1>2. kwOnlyStart <= nNamed
  <2>1. SignatureInv /\ ~Declaring
    BY DEF RejectInv, MatchInv, Declaring
  <2> QED
    BY <2>1, CallShape
<1>3. Accepted
  BY DEF AcceptedInv
<1>4. ASSUME NEW a \in 1..Len(args), args[a].star PROVE VarArgs /\ kwOnlyStart <= Placed(args, a)
  <2>1. a \in DOMAIN args /\ a < AllArgs
    <3>1. a \in 1..Len(args) /\ Len(args) \in Nat /\ AllArgs = Len(args) + 1
      BY <1>1 DEF AllArgs
    <3>2. a < AllArgs
      BY ONLY <3>1
    <3> QED
      BY <1>1, <3>2
  <2>2. Taken(AllArgs)
    BY <1>3 DEF Accepted
  <2> QED
    BY <1>4, <2>1, <2>2 DEF Taken
<1> QED
  BY <1>1, <1>2, <1>3, <1>4

LEMMA ValuesKeptBefore ==
  ASSUME RejectInv, AcceptedInv, ValuesInv,
         Define \/ Register \/ Registered \/ Call \/ CheckUnpack \/ CheckPositional
           \/ ArgsChecked \/ CheckDoubleUnpack \/ CheckKeyword \/ KwsChecked
  PROVE  ValuesInv'
<1>1. pc \notin {"emit args", "emit kws", "called"} /\ UNCHANGED <<overflow, leftoverKw>>
  BY DEF Define, Register, Registered, Call, CheckUnpack, CheckPositional, CheckedArg,
     ArgsChecked, CheckDoubleUnpack, CheckKeyword, KwsChecked, More, emit
<1>2. overflow' = <<>> /\ leftoverKw' = <<>>
  BY <1>1 DEF ValuesInv
<1>3. pc' \notin {"emit kws", "called"}
  BY DEF Define, Register, Registered, Call, CheckUnpack, CheckPositional, CheckedArg,
     ArgsChecked, CheckDoubleUnpack, CheckKeyword, KwsChecked, More
<1>4. ASSUME pc' = "emit args" PROVE (i \in 1..AllArgs /\ PositionsBound(i) /\ RestKept(i))'
  <2>1. KwsChecked
    BY <1>4 DEF Define, Register, Registered, Call, CheckUnpack, CheckPositional, CheckedArg,
       ArgsChecked, CheckDoubleUnpack, CheckKeyword, More
  <2>2. pc = "kws" /\ i' = 1 /\ UNCHANGED <<source, sign>>
    BY <2>1 DEF KwsChecked
  <2>3. Len(args) \in Nat /\ nNamed \in Nat /\ kwOnlyStart \in Nat
    BY <2>2, CallKnown DEF RejectInv
  <2>4. AllArgs' = Len(args) + 1 /\ nNamed' = nNamed /\ kwOnlyStart' = kwOnlyStart
    BY <2>2 DEF AllArgs, nNamed, source, sign
  <2>5. (i \in 1..AllArgs)'
    BY <2>2, <2>3, <2>4
  <2>6. PositionsBound(i)'
    BY <2>2, <2>3, <2>4 DEF PositionsBound
  <2>7. RestKept(i)'
    BY <1>2, <2>2, <2>3, <2>4, EmptyIsSeq DEF RestKept
  <2> QED
    BY <2>5, <2>6, <2>7
<1> QED
  BY <1>2, <1>3, <1>4 DEF ValuesInv

LEMMA ValuesKeptArgs ==
  ASSUME RejectInv, AcceptedInv, ValuesInv, BindArg PROVE ValuesInv'
<1> DEFINE k == kwOnlyStart
           slot == ~args[i].star /\ posIdx <= k
<1>1. /\ pc = "emit args" /\ pc' = "emit args" /\ i <= Len(args) /\ i' = i + 1
      /\ UNCHANGED <<source, sign>> /\ leftoverKw' = leftoverKw
      /\ namedVals' = IF slot THEN [namedVals EXCEPT ![posIdx] = args[i].list] ELSE namedVals
      /\ overflow' = IF slot THEN overflow ELSE Append(overflow, args[i])
  BY DEF BindArg, More
<1>2. /\ Len(args) \in Nat /\ DOMAIN args = 1..Len(args) /\ i \in Nat \ {0}
      /\ nNamed \in Nat /\ k \in Nat /\ k <= nNamed
      /\ \A a \in 1..Len(args) : args[a].star => k <= Placed(args, a)
  <2>1. pc \in {"emit args", "emit kws"}
    BY <1>1
  <2> HIDE DEF slot
  <2> QED
    BY <2>1, EmitKnown
<1>3. i \in 1..Len(args) /\ i \in 1..Len(args) + 1 /\ i + 1 \in 1..Len(args) + 1
  <2>1. i <= Len(args) /\ Len(args) \in Nat /\ i \in Nat \ {0}
    BY <1>1, <1>2
  <2> QED
    BY ONLY <2>1, InRange
<1>4. /\ StarsAfter(args, k)
      /\ i - 1 <= k => Placed(args, i) = i - 1
      /\ i - 1 >= k => Placed(args, i) >= k
      /\ Placed(args, i) \in Nat
  BY <1>2, <1>3, TakenPlaces
<1>5. /\ posIdx = IF Placed(args, i) < k THEN Placed(args, i) + 1 ELSE k + 1
      /\ namedVals = [p \in 1..nNamed |-> namedVals[p]]
  BY <1>1 DEF RejectInv, MatchInv, GeneratorInv, Matched
<1>6. PositionsBound(i) /\ RestKept(i) /\ leftoverKw = <<>>
  BY <1>1 DEF ValuesInv
<1>7. /\ UNCHANGED <<args, kwOnlyStart>> /\ nNamed' = nNamed /\ AllArgs' = Len(args) + 1
  BY <1>1 DEF source, sign, nNamed, AllArgs
<1>8. PositionsBound(i)' /\ RestKept(i)'
  <2>1. CASE i <= k
    <3>1. ~args[i].star
      <4>1. args[i].star => i > k
        BY <1>2, <1>3, <1>4 DEF StarsAfter
      <4> QED
        BY <1>2, <2>1, <4>1
    <3>2. posIdx = i /\ slot
      <4>1. Placed(args, i) = i - 1
        BY <1>2, <1>4, <2>1
      <4>2. posIdx = i
        BY <1>2, <1>5, <2>1, <4>1
      <4> QED
        BY <2>1, <3>1, <4>2
    <3>3. namedVals' = [namedVals EXCEPT ![i] = args[i].list] /\ overflow' = overflow
      BY <1>1, <3>2
    <3>4. \A p \in 1..nNamed : namedVals'[p] = IF p = i THEN args[i].list ELSE namedVals[p]
      BY <1>5, <3>3
    <3>5. \A p \in 1..nNamed : p < i + 1 => p < i \/ p = i
      BY <1>2
    <3> HIDE DEF slot, k
    <3>6. \A p \in 1..nNamed : p <= k /\ p < i + 1 => namedVals'[p] = args[p].list
      BY <1>6, <3>4, <3>5 DEF PositionsBound, k
    <3>7. ~(k < i - 1) /\ ~(k < i + 1 - 1)
      BY <1>2, <2>1
    <3>8. PositionsBound(i)'
      BY <1>1, <1>7, <3>6 DEF PositionsBound, k
    <3>9. IsSeq(overflow) /\ Len(overflow) = 0
      BY <1>6, <3>7 DEF RestKept, k
    <3>10. i' = i + 1
      BY <1>1
    <3>11. Len(overflow') = IF k < i' - 1 THEN i' - 1 - k ELSE 0
      <4>1. ~(k < i' - 1)
        <5>1. i \in Nat /\ k \in Nat /\ i <= k
          BY <1>2, <2>1 DEF k
        <5> QED
          BY ONLY <3>10, <5>1
      <4>2. overflow' = overflow /\ Len(overflow) = 0
        BY <3>3, <3>9
      <4>3. Len(overflow') = 0
        BY ONLY <4>2
      <4> QED
        BY ONLY <4>1, <4>3
    <3>12. \A j \in 1..Len(overflow') : overflow'[j] = args[k + j]
      BY <3>3, <3>9
    <3>13. RestKept(i)'
      BY <1>7, <3>3, <3>9, <3>11, <3>12 DEF RestKept, k
    <3> QED
      BY <3>8, <3>13
  <2>2. CASE ~(i <= k)
    <3>1. ~slot
      <4>1. i - 1 >= k
        BY <1>2, <2>2
      <4>2. posIdx = k + 1
        BY <1>2, <1>4, <1>5, <4>1
      <4> QED
        BY <1>2, <4>2
    <3>2. namedVals' = namedVals /\ overflow' = Append(overflow, args[i])
      BY <1>1, <3>1
    <3> HIDE DEF slot, k
    <3>3. k \in Nat /\ i \in Nat /\ k < i
      BY <1>2, <2>2
    <3>4. IsSeq(overflow) /\ \A j \in 1..Len(overflow) : overflow[j] = args[k + j]
      BY <1>6 DEF RestKept, k
    <3>5. Len(overflow) = i - 1 - k
      <4>1. Len(overflow) = IF k < i - 1 THEN i - 1 - k ELSE 0
        BY <1>6 DEF RestKept, k
      <4> QED
        BY <3>3, <4>1
    <3>6. /\ IsSeq(overflow') /\ Len(overflow') = Len(overflow) + 1
          /\ \A j \in 1..Len(overflow) : overflow'[j] = overflow[j]
          /\ overflow'[Len(overflow) + 1] = args[i]
      BY <3>2, <3>4, SeqAppend
    <3>7. Len(overflow') = i - k /\ Len(overflow) + 1 = i - k
      BY <3>3, <3>5, <3>6
    <3>8. \A j \in 1..Len(overflow') : overflow'[j] = args[k + j]
      <4>1. \A j \in 1..Len(overflow') : j \in 1..Len(overflow) \/ j = i - k
        BY <3>3, <3>5, <3>7
      <4>2. k + (i - k) = i
        BY <3>3
      <4> QED
        BY <3>4, <3>6, <3>7, <4>1, <4>2
    <3>9. Len(overflow') = IF k < i' - 1 THEN i' - 1 - k ELSE 0
      <4>1. i' = i + 1
        BY <1>1
      <4>2. i' - 1 = i
        BY ONLY <3>3, <4>1
      <4> QED
        BY ONLY <3>3, <3>7, <4>2
    <3>10. RestKept(i)'
      BY <1>7, <3>6, <3>8, <3>9 DEF RestKept, k
    <3>11. \A p \in 1..nNamed : p <= k /\ p < i + 1 => p < i
      BY <3>3
    <3>12. PositionsBound(i)'
      BY <1>1, <1>6, <1>7, <3>2, <3>11 DEF PositionsBound, k
    <3> QED
      BY <3>10, <3>12
  <2> QED
    BY <2>1, <2>2
<1>9. (i \in 1..AllArgs)'
  BY <1>1, <1>3, <1>7
<1> QED
  BY <1>1, <1>6, <1>8, <1>9 DEF ValuesInv

LEMMA ValuesKeptBound ==
  ASSUME RejectInv, AcceptedInv, ValuesInv, ArgsBound PROVE ValuesInv'
<1>1. /\ pc = "emit args" /\ pc' = "emit kws" /\ i > Len(args) /\ i' = 1
      /\ UNCHANGED <<source, sign, emit>>
  BY DEF ArgsBound
<1>2. /\ Len(args) \in Nat /\ Len(kws) \in Nat /\ DOMAIN kws = 1..Len(kws) /\ i \in Nat
  <2>1. pc \in {"emit args", "emit kws"}
    BY <1>1
  <2> QED
    BY <2>1, EmitKnown
<1>3. PositionsBound(i) /\ RestKept(i) /\ leftoverKw = <<>> /\ i = AllArgs
  <2>1. i \in 1..AllArgs /\ PositionsBound(i) /\ RestKept(i) /\ leftoverKw = <<>>
    BY <1>1 DEF ValuesInv
  <2>2. i > Len(args) /\ AllArgs = Len(args) + 1
    BY <1>1 DEF AllArgs
  <2>3. i = AllArgs
    <3>1. i \in 1..AllArgs
      BY <2>1
    <3> QED
      BY ONLY <1>2, <2>2, <3>1
  <2> QED
    BY <2>1, <2>3
<1>4. UNCHANGED <<args, kws, declared, kwOnlyStart, namedVals, overflow, leftoverKw, AllArgs, nNamed>>
  BY <1>1 DEF source, sign, emit, AllArgs, nNamed
<1>5. PositionsBound(AllArgs)' /\ RestKept(AllArgs)'
  <2>1. PositionsBound(AllArgs) /\ RestKept(AllArgs)
    BY <1>3
  <2>2. PositionsBound(AllArgs)'
    BY <1>4, <2>1 DEF PositionsBound
  <2>3. RestKept(AllArgs)'
    BY <1>4, <2>1 DEF RestKept
  <2> QED
    BY <2>2, <2>3
<1>6. KeywordsBound(i)'
  <2>1. i' = 1 /\ kws' = kws
    BY <1>1, <1>4
  <2>2. \A j \in DOMAIN kws : ~(j < 1)
    BY <1>2
  <2> QED
    BY <2>1, <2>2 DEF KeywordsBound
<1>7. LeftoverKept(i)'
  <2>1. \A j \in DOMAIN kws : ~(j < 1)
    BY <1>2
  <2>2. \A q : q \notin 1..0
    OBVIOUS
  <2> QED
    BY <1>1, <1>3, <1>4, <2>1, <2>2, EmptyIsSeq DEF LeftoverKept
<1> QED
  BY <1>1, <1>5, <1>6, <1>7 DEF ValuesInv

LEMMA ValuesKeptKws ==
  ASSUME RejectInv, AcceptedInv, ValuesInv, BindKeyword PROVE ValuesInv'
<1> DEFINE N == Named(declared, kws[i])
           slots == {p \in N : ~kws[i].star /\ namedVals[p] = <<>>}
           v(p) == <<kws[i].map[declared[p].name]>>
<1>1. /\ pc = "emit kws" /\ pc' = "emit kws" /\ i <= Len(kws) /\ i' = i + 1
      /\ UNCHANGED <<source, sign>> /\ overflow' = overflow
      /\ slots = {} => namedVals' = namedVals /\ leftoverKw' = Append(leftoverKw, kws[i])
      /\ slots # {} => /\ leftoverKw' = leftoverKw
                       /\ namedVals' = [p \in 1..nNamed |-> IF p \in slots THEN v(p) ELSE namedVals[p]]
  BY DEF BindKeyword, More, Matching, Named, ParamName, nNamed
<1>2. /\ Len(args) \in Nat /\ DOMAIN args = 1..Len(args) /\ i \in Nat \ {0}
      /\ Len(kws) \in Nat /\ DOMAIN kws = 1..Len(kws)
      /\ nNamed \in Nat /\ kwOnlyStart \in Nat /\ kwOnlyStart <= nNamed
      /\ \A a \in 1..Len(args) : args[a].star => kwOnlyStart <= Placed(args, a)
      /\ Accepted
  <2>1. pc \in {"emit args", "emit kws"}
    BY <1>1
  <2> HIDE DEF slots, v, N
  <2> QED
    BY <2>1, EmitKnown
<1>3. Accepted
  BY <1>2
<1>4. i \in DOMAIN kws
  <2>1. i <= Len(kws) /\ Len(kws) \in Nat /\ i \in Nat \ {0}
    BY <1>1, <1>2
  <2>2. i \in 1..Len(kws)
    BY ONLY <2>1, InRange
  <2> QED
    BY <1>2, <2>2
<1>5. PositionsBound(AllArgs) /\ RestKept(AllArgs) /\ KeywordsBound(i) /\ LeftoverKept(i)
  BY <1>1 DEF ValuesInv
<1>6. HasValue = Given(AllArgs, i)
  BY <1>1 DEF RejectInv, MatchInv, GeneratorInv
<1>7. N \subseteq 1..nNamed
  BY DEF Named, nNamed
<1>8. HasValue = {p \in 1..nNamed : namedVals[p] # <<>>}
  BY DEF HasValue
<1>9. ~kws[i].star => slots = N
  <2>1. ASSUME ~kws[i].star, NEW p \in N PROVE namedVals[p] = <<>>
    <3>1. i < AllKws
      <4>1. i <= Len(kws) /\ i \in Nat /\ Len(kws) \in Nat /\ AllKws = Len(kws) + 1
        BY <1>1, <1>2 DEF AllKws
      <4> QED
        BY ONLY <4>1
    <3>2. N \cap Given(AllArgs, i) = {}
      BY <1>3, <1>4, <2>1, <3>1 DEF Accepted, KeywordsTaken
    <3>3. p \notin HasValue /\ p \in 1..nNamed
      BY <1>6, <1>7, <3>2
    <3> QED
      BY <1>8, <3>3
  <2> QED
    BY <2>1
<1>10. slots = {} <=> Extra(i)
  BY <1>9 DEF Extra
<1>11. UNCHANGED <<args, kws, declared, kwOnlyStart, AllArgs, nNamed>>
  BY <1>1 DEF source, sign, AllArgs, nNamed
<1>12. ASSUME NEW p \in 1..nNamed, p \notin slots PROVE namedVals'[p] = namedVals[p]
  BY <1>1, <1>12
<1>13. ASSUME NEW p \in slots PROVE namedVals'[p] = v(p)
  <2>1. slots # {} /\ p \in 1..nNamed
    BY <1>7, <1>13
  <2>2. namedVals' = [h \in 1..nNamed |-> IF h \in slots THEN v(h) ELSE namedVals[h]]
    BY <1>1, <2>1
  <2> HIDE DEF slots, v
  <2> QED
    BY <1>13, <2>1, <2>2
<1>14. \A p \in slots : p \notin HasValue
  BY <1>8
<1> HIDE DEF slots, v
<1>15. PositionsBound(AllArgs)'
  <2>1. ASSUME NEW p \in 1..nNamed, p <= kwOnlyStart, p < AllArgs PROVE p \notin slots
    <3>1. AllArgs \in 1..Len(args) + 1 /\ p \in 1..kwOnlyStart
      BY <1>2, <2>1 DEF AllArgs
    <3>2. p \in ByPosition(args, kwOnlyStart, AllArgs)
      BY <1>2, <2>1, <3>1, TakenPositions
    <3> QED
      BY <1>6, <1>14, <3>2 DEF Given
  <2> QED
    BY <1>5, <1>11, <1>12, <2>1 DEF PositionsBound
<1>16. RestKept(AllArgs)'
  BY <1>1, <1>5, <1>11 DEF RestKept
<1>17. KeywordsBound(i)'
  <2>1. ASSUME NEW j \in DOMAIN kws, j < i + 1, ~kws[j].star, NEW p \in Named(declared, kws[j])
        PROVE  namedVals'[p] = <<kws[j].map[declared[p].name]>>
    <3>1. CASE j = i
      <4>1. p \in slots
        BY <1>9, <2>1, <3>1
      <4> QED
        BY <1>13, <3>1, <4>1 DEF v
    <3>2. CASE j # i
      <4>1. j < i /\ j \in 1..Len(kws)
        BY <1>2, <2>1, <3>2
      <4>2. namedVals[p] = <<kws[j].map[declared[p].name]>>
        BY <1>5, <2>1, <4>1 DEF KeywordsBound
      <4>3. p \in ByKeyword(kws, declared, i)
        BY <1>2, <2>1, <4>1, ByKeywordMember
      <4>4. p \notin slots
        BY <1>6, <1>14, <4>3 DEF Given
      <4>5. p \in 1..nNamed
        BY DEF Named, nNamed
      <4> QED
        BY <1>12, <4>2, <4>4, <4>5
    <3> QED
      BY <3>1, <3>2
  <2> QED
    BY <1>1, <1>11, <2>1 DEF KeywordsBound
<1>18. LeftoverKept(i)'
  <2>1. \A j : Extra(j)' <=> Extra(j)
    BY <1>11 DEF Extra
  <2>2. \A j \in DOMAIN kws : j < i + 1 => j < i \/ j = i
    BY <1>2
  <2>3. /\ IsSeq(leftoverKw)
        /\ \A q \in 1..Len(leftoverKw) : \E j \in DOMAIN kws : Extra(j) /\ leftoverKw[q] = kws[j]
        /\ \A j \in DOMAIN kws : j < i /\ Extra(j)
             => \E q \in 1..Len(leftoverKw) : leftoverKw[q] = kws[j]
    BY <1>5 DEF LeftoverKept
  <2>4. Len(leftoverKw) \in Nat
    BY <2>3, SeqShape
  <2>5. /\ IsSeq(leftoverKw')
        /\ \A q \in 1..Len(leftoverKw') : \E j \in DOMAIN kws : Extra(j) /\ leftoverKw'[q] = kws[j]
        /\ \A j \in DOMAIN kws : j < i + 1 /\ Extra(j)
             => \E q \in 1..Len(leftoverKw') : leftoverKw'[q] = kws[j]
    <3>1. CASE slots # {}
      <4>1. leftoverKw' = leftoverKw /\ ~Extra(i)
        BY <1>1, <1>10, <3>1
      <4>2. \A j \in DOMAIN kws : j < i + 1 /\ Extra(j) => j < i
        BY <2>2, <4>1
      <4> QED
        BY <2>3, <4>1, <4>2
    <3>2. CASE slots = {}
      <4> DEFINE L == Len(leftoverKw)
      <4>1. leftoverKw' = Append(leftoverKw, kws[i]) /\ Extra(i)
        BY <1>1, <1>10, <3>2
      <4>2. /\ IsSeq(leftoverKw') /\ Len(leftoverKw') = L + 1
            /\ \A q \in 1..L : leftoverKw'[q] = leftoverKw[q]
            /\ leftoverKw'[L + 1] = kws[i]
        BY <2>3, <4>1, SeqAppend
      <4>3. 1..Len(leftoverKw') = 1..L \cup {L + 1}
        BY <2>4, <4>2
      <4> HIDE DEF L
      <4>4. \A q \in 1..Len(leftoverKw') : \E j \in DOMAIN kws : Extra(j) /\ leftoverKw'[q] = kws[j]
        BY <1>4, <2>3, <4>1, <4>2, <4>3 DEF L
      <4>5. ASSUME NEW j \in DOMAIN kws, j < i + 1, Extra(j)
            PROVE  \E q \in 1..Len(leftoverKw') : leftoverKw'[q] = kws[j]
        <5>1. CASE j = i
          BY <4>2, <4>3, <5>1
        <5>2. CASE j # i
          <6>1. j < i
            BY <2>2, <4>5, <5>2
          <6>2. PICK q \in 1..L : leftoverKw[q] = kws[j]
            BY <2>3, <4>5, <6>1 DEF L
          <6> QED
            BY <4>2, <4>3, <6>2
        <5> QED
          BY <5>1, <5>2
      <4> QED
        BY <4>2, <4>4, <4>5
    <3> QED
      BY <3>1, <3>2
  <2> QED
    BY <1>1, <1>11, <2>1, <2>5 DEF LeftoverKept
<1> QED
  BY <1>1, <1>15, <1>16, <1>17, <1>18 DEF ValuesInv

LEMMA ValuesKept ==
  ASSUME RejectInv, AcceptedInv, ValuesInv, [Next]_vars PROVE ValuesInv'
<1>1. CASE EmitCall
  BY <1>1 DEF EmitCall, ValuesInv
<1>2. CASE UNCHANGED vars
  <2>1. /\ UNCHANGED <<args, kws, declared, kwOnlyStart, pc, i, namedVals, overflow, leftoverKw>>
        /\ UNCHANGED <<AllArgs, nNamed>>
    BY <1>2 DEF vars, source, sign, emit, AllArgs, nNamed
  <2>2. (PositionsBound(i)' <=> PositionsBound(i)) /\ (RestKept(i)' <=> RestKept(i))
    BY <2>1 DEF PositionsBound, RestKept
  <2>3. /\ PositionsBound(AllArgs)' <=> PositionsBound(AllArgs)
        /\ RestKept(AllArgs)' <=> RestKept(AllArgs)
    BY <2>1 DEF PositionsBound, RestKept
  <2>4. (KeywordsBound(i)' <=> KeywordsBound(i)) /\ (LeftoverKept(i)' <=> LeftoverKept(i))
    BY <2>1 DEF KeywordsBound, LeftoverKept, Extra
  <2> QED
    BY <2>1, <2>2, <2>3, <2>4 DEF ValuesInv
<1> QED
  BY <1>1, <1>2, ValuesKeptBefore, ValuesKeptArgs, ValuesKeptBound, ValuesKeptKws DEF Next

\* Where the stars of a whole parameter list stand.
HasKind(ps, kind) == \E p \in DOMAIN ps : ps[p].kind = kind
One01(b) == IF b THEN 1 ELSE 0

Shape(ps, ds, k) ==
  /\ IF HasKind(ps, "*") THEN k + 1 \in DOMAIN ps /\ ps[k + 1].kind = "*" ELSE k = Len(ds)
  /\ HasKind(ps, "**") => Len(ps) \in DOMAIN ps /\ ps[Len(ps)].kind = "**"
  /\ Len(ps) = Len(ds) + One01(HasKind(ps, "*")) + One01(HasKind(ps, "**"))

LEMMA SigningEnds ==
  ASSUME NEW ps, NEW N \in Nat, Len(ps) = N, DOMAIN ps = 1..N, NEW ds, NEW w, Signing(ps, ds, w, N)
  PROVE  Shape(ps, ds, Start(ds, w))
<1> DEFINE L == Len(ds)
<1>1. IsSeq(ds) /\ w \in -1..L
  BY DEF Signing
<1>2. L \in Nat
  BY <1>1, SeqShape
<1>3. \A kind : HasKind(ps, kind) <=> kind \in Kinds(ps, N)
  BY DEF HasKind, Kinds
<1>4. /\ w = -1 => ~HasKind(ps, "*")
      /\ w # -1 => w + 1 <= N /\ ps[w + 1].kind = "*"
      /\ ~HasKind(ps, "**") => L = IF w = -1 THEN N ELSE N - 1
      /\ HasKind(ps, "**") => /\ N > 0 /\ ps[N].kind = "**"
                              /\ L = IF w = -1 THEN N - 1 ELSE N - 2
  BY <1>3 DEF Signing
<1> HIDE DEF L
<1>5. w # -1 => w + 1 \in 1..N /\ HasKind(ps, "*")
  <2>1. w # -1 => w + 1 \in 1..N
    BY <1>1, <1>2, <1>4 DEF L
  <2> QED
    BY <1>4, <2>1 DEF HasKind
<1>6. IF HasKind(ps, "*") THEN Start(ds, w) + 1 \in DOMAIN ps /\ ps[Start(ds, w) + 1].kind = "*"
      ELSE Start(ds, w) = Len(ds)
  <2>1. CASE w = -1
    BY <1>4, <2>1 DEF Start
  <2>2. CASE w # -1
    <3>1. Start(ds, w) = w
      BY <2>2 DEF Start
    <3> QED
      BY <1>4, <1>5, <2>2, <3>1
  <2> QED
    BY <2>1, <2>2
<1>7. HasKind(ps, "**") => N \in 1..N
  BY <1>4
<1>8. N = L + One01(HasKind(ps, "*")) + One01(HasKind(ps, "**"))
  <2>1. HasKind(ps, "*") <=> w # -1
    BY <1>4, <1>5
  <2>2. CASE w = -1
    <3>1. One01(HasKind(ps, "*")) = 0
      BY <2>1, <2>2 DEF One01
    <3>2. CASE HasKind(ps, "**")
      <4>1. One01(HasKind(ps, "**")) = 1 /\ L = N - 1
        BY <1>4, <2>2, <3>2 DEF One01
      <4> QED
        BY ONLY <1>2, <3>1, <4>1, N \in Nat
    <3>3. CASE ~HasKind(ps, "**")
      <4>1. One01(HasKind(ps, "**")) = 0 /\ L = N
        BY <1>4, <2>2, <3>3 DEF One01
      <4> QED
        BY ONLY <1>2, <3>1, <4>1, N \in Nat
    <3> QED
      BY <3>2, <3>3
  <2>3. CASE w # -1
    <3>1. One01(HasKind(ps, "*")) = 1
      BY <2>1, <2>3 DEF One01
    <3>2. CASE HasKind(ps, "**")
      <4>1. One01(HasKind(ps, "**")) = 1 /\ L = N - 2
        BY <1>4, <2>3, <3>2 DEF One01
      <4> QED
        BY ONLY <1>2, <3>1, <4>1, N \in Nat
    <3>3. CASE ~HasKind(ps, "**")
      <4>1. One01(HasKind(ps, "**")) = 0 /\ L = N - 1
        BY <1>4, <2>3, <3>3 DEF One01
      <4> QED
        BY ONLY <1>2, <3>1, <4>1, N \in Nat
    <3> QED
      BY <3>2, <3>3
  <2> QED
    BY <2>2, <2>3
<1> QED
  BY <1>4, <1>6, <1>7, <1>8 DEF Shape, L

ShapeInv == ~Declaring => Shape(params, declared, kwOnlyStart)

LEMMA ShapeKept ==
  ASSUME MatchInv, SigningInv, ShapeInv, [Next]_vars PROVE ShapeInv'
<1>1. params' = params /\ Len(params) \in Nat /\ DOMAIN params = 1..Len(params)
  <2>1. params' = params
    BY DEF Next, Define, Register, Registered, Call, CheckUnpack, CheckPositional, CheckedArg,
       ArgsChecked, CheckDoubleUnpack, CheckKeyword, KwsChecked, BindArg, ArgsBound,
       BindKeyword, EmitCall, vars, source
  <2> QED
    BY <2>1, ParamsShape DEF SigningInv
<1>2. CASE Registered
  <2>1. /\ pc = "register" /\ pc' = "defined" /\ i > Len(params) /\ declared' = declared
        /\ kwOnlyStart' = Start(declared, kwOnlyStart)
    BY <1>2 DEF Registered, KnownStart, Start
  <2>2. Signing(params, declared, kwOnlyStart, i - 1)
    BY <2>1 DEF SigningInv
  <2>3. i \in Nat \ {0}
    BY DEF MatchInv, SignatureInv
  <2>4. i - 1 \in 0..Len(params)
    BY <2>2 DEF Signing
  <2>5. i - 1 = Len(params)
    BY <1>1, <2>1, <2>3, <2>4
  <2>6. Shape(params, declared, Start(declared, kwOnlyStart))
    BY <1>1, <2>2, <2>5, SigningEnds
  <2> QED
    BY <1>1, <2>1, <2>6 DEF ShapeInv
<1>3. CASE Define \/ Register
  BY <1>3 DEF Define, Register, More, ShapeInv, Declaring
<1>4. CASE ~Declaring /\ UNCHANGED sign
  BY <1>1, <1>4 DEF ShapeInv, sign
<1>5. CASE UNCHANGED vars
  BY <1>1, <1>5 DEF vars, sign, ShapeInv, Declaring
<1>6. Next /\ ~Define /\ ~Register /\ ~Registered => ~Declaring /\ UNCHANGED sign
  BY DEF Next, Call, CheckUnpack, CheckPositional, CheckedArg,
     ArgsChecked, CheckDoubleUnpack, CheckKeyword, KwsChecked, BindArg, ArgsBound,
     BindKeyword, EmitCall, More, Declaring
<1> QED
  BY <1>2, <1>3, <1>4, <1>5, <1>6

\* Four sequences one behind the other, of which the second and the last have
\* one element or none.
InFour(o, a, b, c, d) ==
  IsSeq(a) /\ IsSeq(b) /\ IsSeq(c) /\ IsSeq(d) /\ o = a \o b \o c \o d

LEMMA FourParts ==
  ASSUME NEW o, NEW a, NEW b, NEW c, NEW d, InFour(o, a, b, c, d)
  PROVE  /\ IsSeq(o) /\ Len(o) = Len(a) + Len(b) + Len(c) + Len(d)
         /\ \A j \in 1..Len(a) : o[j] = a[j]
         /\ \A j \in 1..Len(b) : o[Len(a) + j] = b[j]
         /\ \A j \in 1..Len(c) : o[Len(a) + Len(b) + j] = c[j]
         /\ \A j \in 1..Len(d) : o[Len(a) + Len(b) + Len(c) + j] = d[j]
<1> DEFINE ab == a \o b
           abc == ab \o c
<1>0. IsSeq(a) /\ IsSeq(b) /\ IsSeq(c) /\ IsSeq(d) /\ o = a \o b \o c \o d
  BY DEF InFour
<1>1. Len(a) \in Nat /\ Len(b) \in Nat /\ Len(c) \in Nat /\ Len(d) \in Nat
  BY <1>0, SeqShape
<1>2. IsSeq(ab) /\ Len(ab) = Len(a) + Len(b) /\ \A j \in 1..Len(a) : ab[j] = a[j]
  BY <1>0, SeqConcat
<1>3. \A j \in 1..Len(b) : ab[Len(a) + j] = b[j]
  BY <1>0, SeqConcatRight
<1>4. o = abc \o d
  BY <1>0
<1> HIDE DEF ab
<1>5. IsSeq(abc) /\ Len(abc) = Len(ab) + Len(c) /\ \A j \in 1..Len(ab) : abc[j] = ab[j]
  BY <1>0, <1>2, SeqConcat
<1>6. \A j \in 1..Len(c) : abc[Len(ab) + j] = c[j]
  BY <1>0, <1>2, SeqConcatRight
<1> HIDE DEF abc
<1>7. IsSeq(o) /\ Len(o) = Len(abc) + Len(d) /\ \A j \in 1..Len(abc) : o[j] = abc[j]
  <2>1. /\ IsSeq(abc \o d) /\ Len(abc \o d) = Len(abc) + Len(d)
        /\ \A j \in 1..Len(abc) : (abc \o d)[j] = abc[j]
    BY <1>0, <1>5, SeqConcat, Zenon
  <2> QED
    BY <1>4, <2>1, Zenon
<1>8. \A j \in 1..Len(d) : o[Len(abc) + j] = d[j]
  BY <1>0, <1>4, <1>5, SeqConcatRight
<1>9. /\ \A j \in 1..Len(a) : j \in 1..Len(ab) /\ j \in 1..Len(abc)
      /\ \A j \in 1..Len(b) : Len(a) + j \in 1..Len(ab) /\ Len(a) + j \in 1..Len(abc)
      /\ \A j \in 1..Len(c) : Len(ab) + j \in 1..Len(abc)
  <2>1. Len(ab) = Len(a) + Len(b) /\ Len(abc) = Len(ab) + Len(c)
    BY ONLY <1>2, <1>5
  <2>2. ASSUME NEW j \in 1..Len(a) PROVE j \in 1..Len(ab) /\ j \in 1..Len(abc)
    BY ONLY <1>1, <2>1, <2>2
  <2>3. ASSUME NEW j \in 1..Len(b) PROVE Len(a) + j \in 1..Len(ab) /\ Len(a) + j \in 1..Len(abc)
    BY ONLY <1>1, <2>1, <2>3
  <2>4. ASSUME NEW j \in 1..Len(c) PROVE Len(ab) + j \in 1..Len(abc)
    BY ONLY <1>1, <2>1, <2>4
  <2> QED
    BY ONLY <2>2, <2>3, <2>4
<1>10. Len(abc) = Len(a) + Len(b) + Len(c)
  BY <1>2, <1>5
<1>11. \A j \in 1..Len(a) : o[j] = a[j]
  BY <1>2, <1>5, <1>7, <1>9
<1>12. \A j \in 1..Len(b) : o[Len(a) + j] = b[j]
  BY <1>3, <1>5, <1>7, <1>9
<1>13. \A j \in 1..Len(c) : o[Len(a) + Len(b) + j] = c[j]
  BY <1>2, <1>6, <1>7, <1>9
<1>14. \A j \in 1..Len(d) : o[Len(a) + Len(b) + Len(c) + j] = d[j]
  BY <1>8, <1>10
<1> QED
  BY <1>7, <1>10, <1>11, <1>12, <1>13, <1>14

LEMMA PlaceInverse ==
  ASSUME NEW ps, NEW N \in Nat, DOMAIN ps = 1..N, NEW ds, Len(ds) \in Nat, NEW k,
         Signed(ps, ds, k, N), NEW q \in 1..N, ps[q].kind = "named"
  PROVE  \E p \in 1..Len(ds) : q = Place(k, p)
<1>1. k \in 0..Len(ds) /\ (q <= k \/ q - 1 \in k + 1..Len(ds))
  BY DEF Signed
<1>2. CASE q <= k
  <2>1. q \in 1..Len(ds) /\ q = Place(k, q)
    BY <1>1, <1>2 DEF Place
  <2> QED
    BY <2>1
<1>3. CASE q - 1 \in k + 1..Len(ds)
  <2>1. q - 1 \in 1..Len(ds) /\ ~(q - 1 <= k)
    BY <1>1, <1>3
  <2>2. q = Place(k, q - 1)
    BY <2>1 DEF Place
  <2> QED
    BY <2>1, <2>2
<1> QED
  BY <1>1, <1>2, <1>3

\* The call is about to be emitted; it is one that this model compares.
Done == /\ RejectInv /\ AcceptedInv /\ ValuesInv /\ ShapeInv
        /\ pc = "emit kws" /\ i > Len(kws)
Compared == ~Py!TwiceInCall(kws) /\ ~MapNamesParameter

LEMMA DoneKnown ==
  ASSUME Done
  PROVE  /\ IsArgs(args) /\ Len(args) \in Nat /\ DOMAIN args = 1..Len(args)
         /\ Len(kws) \in Nat /\ DOMAIN kws = 1..Len(kws) /\ kws \in KwLists
         /\ nNamed \in Nat /\ kwOnlyStart \in Nat /\ kwOnlyStart <= nNamed
         /\ Len(params) \in Nat /\ DOMAIN params = 1..Len(params)
         /\ Signed(params, declared, kwOnlyStart, Len(params))
         /\ Py!ByPosition(params) = 1..kwOnlyStart
         /\ Cardinality(Py!ByPosition(params)) = kwOnlyStart
         /\ StarsAfter(args, kwOnlyStart)
         /\ Accepted
<1>1. pc \in {"emit args", "emit kws"} /\ RejectInv /\ AcceptedInv
  BY DEF Done
<1>2. /\ IsArgs(args) /\ Len(args) \in Nat /\ DOMAIN args = 1..Len(args)
      /\ Len(kws) \in Nat /\ DOMAIN kws = 1..Len(kws) /\ kws \in KwLists
      /\ nNamed \in Nat /\ kwOnlyStart \in Nat /\ kwOnlyStart <= nNamed
      /\ \A a \in 1..Len(args) : args[a].star => kwOnlyStart <= Placed(args, a)
      /\ Accepted
  BY <1>1, EmitKnown
<1>3. StarsAfter(args, kwOnlyStart)
  BY <1>2, TakenPlaces
<1>4. /\ Len(params) \in Nat /\ DOMAIN params = 1..Len(params)
      /\ Signed(params, declared, kwOnlyStart, Len(params))
      /\ Py!ByPosition(params) = 1..kwOnlyStart
      /\ Cardinality(Py!ByPosition(params)) = kwOnlyStart
  BY <1>1, CallKnown DEF RejectInv
<1> QED
  BY <1>2, <1>3, <1>4

LEMMA KeywordIsOne ==
  ASSUME kws \in KwLists, NEW j \in DOMAIN kws, ~kws[j].star, NEW x \in DOMAIN kws[j].map
  PROVE  DOMAIN kws[j].map = {x}
BY CallsAssumption DEF CallsAssumption

\* A parameter has a value by position in Python when it has one here.
LEMMA PositionsAgree ==
  ASSUME Done, NEW p \in 1..nNamed
  PROVE  /\ p \in Py!Positioned(params, args) <=> p \in ByPosition(args, kwOnlyStart, AllArgs)
         /\ p \in ByPosition(args, kwOnlyStart, AllArgs)
              <=> p \in 1..kwOnlyStart /\ p <= Len(args)
         /\ p \in ByPosition(args, kwOnlyStart, AllArgs)
              => Py!Values(args)[p] = args[p].list[1] /\ Len(args[p].list) = 1
<1> DEFINE k == kwOnlyStart
           L == Len(Py!Values(args))
<1>1. /\ IsArgs(args) /\ Len(args) \in Nat /\ DOMAIN args = 1..Len(args)
      /\ k \in Nat /\ Py!ByPosition(params) = 1..k
      /\ StarsAfter(args, k) /\ Accepted
  BY DoneKnown
<1>2. \A a \in 1..Len(args) : args[a].star => k <= Placed(args, a)
  <2>1. pc \in {"emit args", "emit kws"} /\ RejectInv /\ AcceptedInv
    BY DEF Done
  <2> QED
    BY <2>1, EmitKnown
<1>3. AllArgs = Len(args) + 1 /\ AllArgs \in 1..Len(args) + 1
  BY <1>1 DEF AllArgs
<1>4. p \in ByPosition(args, k, AllArgs) <=> p \in 1..k /\ p < AllArgs
  BY <1>1, <1>2, <1>3, TakenPositions
<1>5. p < AllArgs <=> p <= Len(args)
  <2>1. p \in Int
    OBVIOUS
  <2> QED
    BY ONLY <1>1, <1>3, <2>1
<1>6. p \in 1..k /\ p <= Len(args) => Py!Values(args)[p] = args[p].list[1] /\ p <= L
  BY <1>1, ValueAt
<1>7. p \in 1..k /\ p <= L => p <= Len(args)
  <2>1. SUFFICES ASSUME p \in 1..k, p <= L PROVE p <= Len(args)
    OBVIOUS
  <2>2. \A a \in DOMAIN args : args[a].star => a > k
    BY <1>1 DEF StarsAfter
  <2>3. p <= Placed(args, Len(args) + 1)
    BY <1>1, <2>1, <2>2, PositionsFilled
  <2>4. p \in ByPosition(args, k, AllArgs)
    BY <1>3, <2>1, <2>3 DEF ByPosition
  <2> QED
    BY <1>4, <1>5, <2>4
<1>8. p \in Py!Positioned(params, args) <=> p \in 1..k /\ p <= L
  BY <1>1 DEF Py!Positioned
<1>9. p \in 1..k /\ p <= Len(args) => Len(args[p].list) = 1
  <2>1. SUFFICES ASSUME p \in 1..k, p <= Len(args) PROVE Len(args[p].list) = 1
    OBVIOUS
  <2>2. p \in DOMAIN args
    BY <1>1, <2>1
  <2>3. p <= k /\ p \in Nat
    BY <1>1, <2>1
  <2>4. ~(p > k)
    BY ONLY <1>1, <2>3
  <2>5. ~args[p].star
    BY <1>1, <2>2, <2>4 DEF StarsAfter
  <2> QED
    BY <1>1, <2>2, <2>5 DEF IsArgs
<1> HIDE DEF L
<1> QED
  BY <1>4, <1>5, <1>6, <1>7, <1>8, <1>9

\* A parameter has a keyword in Python when it has one here; which one, is
\* settled when no keyword is given twice.
LEMMA KeywordsAgree ==
  ASSUME Done, Compared, NEW p \in 1..nNamed
  PROVE  /\ declared[p].name \in Py!Keys(kws) <=> p \in ByKeyword(kws, declared, AllKws)
         /\ p \in ByKeyword(kws, declared, AllKws) =>
              namedVals[p] = <<Py!Given(kws, declared[p].name)>>
<1> DEFINE x == declared[p].name
<1>1. /\ Len(kws) \in Nat /\ DOMAIN kws = 1..Len(kws) /\ nNamed \in Nat
      /\ Len(params) \in Nat /\ DOMAIN params = 1..Len(params)
      /\ Signed(params, declared, kwOnlyStart, Len(params))
  BY DoneKnown
<1>2. x \in Py!Names(params)
  BY <1>1, SignedPlace DEF nNamed
<1>3. \A j \in DOMAIN kws : x \in DOMAIN kws[j].map => ~kws[j].star
  BY <1>2 DEF Compared, MapNamesParameter
<1>4. \A j : x \in DOMAIN kws[j].map <=> p \in Named(declared, kws[j])
  BY DEF Named, nNamed
<1>5. \A j \in 1..Len(kws) : j < AllKws
  <2>1. AllKws = Len(kws) + 1
    BY DEF AllKws
  <2> QED
    BY ONLY <1>1, <2>1
<1> HIDE DEF x
<1>6. x \in Py!Keys(kws) <=> \E j \in DOMAIN kws : x \in DOMAIN kws[j].map
  BY DEF Py!Keys
<1>7. p \in ByKeyword(kws, declared, AllKws) <=>
        \E j \in 1..Len(kws) : j < AllKws /\ ~kws[j].star /\ p \in Named(declared, kws[j])
  BY <1>1, ByKeywordMember
<1>8. x \in Py!Keys(kws) <=> p \in ByKeyword(kws, declared, AllKws)
  BY <1>1, <1>3, <1>4, <1>5, <1>6, <1>7
<1>9. ASSUME p \in ByKeyword(kws, declared, AllKws) PROVE namedVals[p] = <<Py!Given(kws, x)>>
  <2>1. PICK j \in DOMAIN kws : ~kws[j].star /\ p \in Named(declared, kws[j])
    BY <1>1, <1>7, <1>9
  <2>2. KeywordsBound(i)
    BY DEF Done, ValuesInv
  <2>3. j < i
    <3>1. j \in 1..Len(kws) /\ i > Len(kws) /\ i \in Nat
      <4>1. RejectInv /\ i > Len(kws)
        BY DEF Done
      <4>2. i \in Nat \ {0}
        BY <4>1 DEF RejectInv, MatchInv, SignatureInv
      <4> QED
        BY <1>1, <4>1, <4>2
    <3> QED
      BY ONLY <1>1, <3>1
  <2>4. namedVals[p] = <<kws[j].map[x]>>
    BY <2>1, <2>2, <2>3 DEF KeywordsBound, x
  <2>5. Py!Given(kws, x) = kws[j].map[x]
    <3>1. x \in DOMAIN kws[j].map
      BY <1>4, <2>1
    <3>2. \A h \in DOMAIN kws : x \in DOMAIN kws[h].map => h = j
      BY <3>1 DEF Compared, Py!TwiceInCall
    <3>3. (CHOOSE h \in DOMAIN kws : x \in DOMAIN kws[h].map) = j
      BY <3>1, <3>2
    <3> QED
      BY <3>3 DEF Py!Given
  <2> QED
    BY <2>4, <2>5
<1> QED
  BY <1>8, <1>9 DEF x

\* A key is left for the double star in Python when its keyword is left here.
LEMMA LeftAgree ==
  ASSUME Done, Compared, NEW j \in DOMAIN kws, NEW x \in DOMAIN kws[j].map
  PROVE  /\ Extra(j) <=> x \notin Py!Names(params)
         /\ Py!Given(kws, x) = kws[j].map[x]
         /\ Extra(j) => Kwargs
<1>1. /\ Len(kws) \in Nat /\ DOMAIN kws = 1..Len(kws) /\ kws \in KwLists /\ nNamed \in Nat
      /\ Len(params) \in Nat /\ DOMAIN params = 1..Len(params)
      /\ Signed(params, declared, kwOnlyStart, Len(params)) /\ Accepted
  BY DoneKnown
<1>2. ASSUME ~Extra(j) PROVE x \in Py!Names(params)
  <2>1. ~kws[j].star /\ Named(declared, kws[j]) # {}
    BY <1>2 DEF Extra
  <2>2. DOMAIN kws[j].map = {x}
    BY <1>1, <2>1, KeywordIsOne
  <2>3. PICK p \in 1..nNamed : declared[p].name = x
    BY <2>1, <2>2 DEF Named, nNamed
  <2> QED
    BY <1>1, <2>3, SignedPlace DEF nNamed
<1>3. ASSUME x \in Py!Names(params) PROVE ~Extra(j)
  <2>1. ~kws[j].star
    BY <1>3 DEF Compared, MapNamesParameter
  <2>2. PICK p \in 1..nNamed : declared[p].name = x
    BY <1>1, <1>3, SignedNames DEF nNamed
  <2>3. p \in Named(declared, kws[j])
    BY <2>2 DEF Named, nNamed
  <2> QED
    BY <2>1, <2>3 DEF Extra
<1>4. Py!Given(kws, x) = kws[j].map[x]
  <2>1. \A h \in DOMAIN kws : x \in DOMAIN kws[h].map => h = j
    BY DEF Compared, Py!TwiceInCall
  <2>2. (CHOOSE h \in DOMAIN kws : x \in DOMAIN kws[h].map) = j
    BY <2>1
  <2> QED
    BY <2>2 DEF Py!Given
<1>5. Extra(j) => Kwargs
  <2>1. j < AllKws
    <3>1. j \in 1..Len(kws) /\ AllKws = Len(kws) + 1
      BY <1>1 DEF AllKws
    <3> QED
      BY ONLY <1>1, <3>1
  <2> QED
    BY <1>1, <2>1 DEF Accepted, KeywordsTaken, Extra
<1> QED
  BY <1>2, <1>3, <1>4, <1>5

\* Python accepts the call.
LEMMA AcceptedByPython ==
  ASSUME Done, Compared PROVE ~Py!Refused(params, args, kws)
<1> DEFINE k == kwOnlyStart
           L == Len(Py!Values(args))
<1>1. /\ IsArgs(args) /\ Len(args) \in Nat /\ DOMAIN args = 1..Len(args)
      /\ Len(kws) \in Nat /\ DOMAIN kws = 1..Len(kws) /\ kws \in KwLists
      /\ nNamed \in Nat /\ k \in Nat /\ k <= nNamed
      /\ Len(params) \in Nat /\ DOMAIN params = 1..Len(params)
      /\ Signed(params, declared, k, Len(params))
      /\ Py!ByPosition(params) = 1..k
      /\ Cardinality(Py!ByPosition(params)) = k
      /\ Accepted
  BY DoneKnown
<1>2. ~(L > Py!Cardinality(Py!ByPosition(params)) /\ ~Py!Has(params, "*"))
  <2>1. SUFFICES ASSUME L > k, ~VarArgs PROVE FALSE
    BY <1>1, PyCounts DEF Py!Has, VarArgs
  <2>2. Placed(args, AllArgs) <= k
    BY <1>1, <2>1 DEF Accepted, Fits
  <2>3. \A a \in DOMAIN args : ~args[a].star
    <3>1. pc \in {"emit args", "emit kws"} /\ RejectInv /\ AcceptedInv
      BY DEF Done
    <3>2. \A a \in 1..Len(args) : args[a].star => VarArgs
      BY <3>1, EmitKnown
    <3> QED
      BY <1>1, <2>1, <3>2
  <2>4. L = Len(args)
    BY <1>1, <2>3, ValuesLength
  <2>5. Placed(args, Len(args) + 1) = Len(args) + 1 - 1
    <3> DEFINE n == Len(args) + 1
    <3>1. n \in 1..Len(args) + 1
      BY <1>1
    <3>2. \A a \in 1..Len(args) : a < n => ~args[a].star
      BY <1>1, <2>3
    <3> HIDE DEF n
    <3>3. Placed(args, n) = n - 1
      BY <1>1, <3>1, <3>2, NoStarPlaced
    <3> QED
      BY <3>3 DEF n
  <2> HIDE DEF L, k
  <2>6. Len(args) + 1 - 1 <= k
    BY <2>2, <2>5 DEF AllArgs
  <2> QED
    BY ONLY <1>1, <2>1, <2>4, <2>6
<1> HIDE DEF L
<1>3. ASSUME NEW p \in Py!Positioned(params, args), params[p].name \in Py!Keys(kws) PROVE FALSE
  <2>1. p \in 1..k
    BY <1>1, <1>3 DEF Py!Positioned
  <2>2. params[p] = declared[p] /\ p \in 1..nNamed
    <3>1. p \in 1..nNamed
      BY <1>1, <2>1
    <3> QED
      BY <1>1, <2>1, <3>1 DEF Signed
  <2>3. p \in ByPosition(args, k, AllArgs)
    BY <1>3, <2>2, PositionsAgree
  <2>4. p \in ByKeyword(kws, declared, AllKws)
    BY <1>3, <2>2, KeywordsAgree
  <2>5. PICK j \in 1..Len(kws) : j < AllKws /\ ~kws[j].star /\ p \in Named(declared, kws[j])
    BY <1>1, <2>4, ByKeywordMember
  <2>6. Named(declared, kws[j]) \cap Given(AllArgs, j) = {}
    BY <1>1, <2>5 DEF Accepted, KeywordsTaken
  <2> QED
    BY <2>3, <2>5, <2>6 DEF Given
<1>4. ASSUME NEW x \in Py!Keys(kws) \ Py!Names(params), ~Py!Has(params, "**") PROVE FALSE
  <2>1. PICK j \in DOMAIN kws : x \in DOMAIN kws[j].map
    BY DEF Py!Keys
  <2>2. Kwargs
    BY <2>1, LeftAgree
  <2> QED
    BY <1>4, <2>2 DEF Kwargs, Py!Has
<1>5. ASSUME NEW q \in DOMAIN params, params[q].kind = "named", ~params[q].default,
             q \notin Py!Positioned(params, args), params[q].name \notin Py!Keys(kws)
      PROVE  FALSE
  <2>1. PICK p \in 1..nNamed : q = Place(k, p)
    <3>1. q \in 1..Len(params)
      BY <1>1, <1>5
    <3>2. \E p \in 1..Len(declared) : q = Place(k, p)
      BY <1>1, <1>5, <3>1, PlaceInverse DEF nNamed
    <3> QED
      BY <3>2 DEF nNamed
  <2>2. params[q] = declared[p]
    <3>1. p \in 1..Len(declared) /\ q = Place(k, p)
      BY <2>1 DEF nNamed
    <3>2. Len(params) \in Nat /\ DOMAIN params = 1..Len(params)
          /\ Len(declared) \in Nat /\ Signed(params, declared, k, Len(params))
      BY <1>1 DEF nNamed
    <3>3. params[Place(k, p)] = declared[p]
      BY <3>1, <3>2, SignedPlace
    <3> QED
      BY <3>1, <3>3
  <2>3. p \in ByPosition(args, k, AllArgs) \/ p \in ByKeyword(kws, declared, AllKws)
    BY <1>1, <1>5, <2>2 DEF Accepted, Complete, Given
  <2>4. CASE p \in ByPosition(args, k, AllArgs)
    <3>1. p \in Py!Positioned(params, args) /\ p \in 1..k
      BY <2>4, PositionsAgree
    <3>2. q = p
      BY <1>1, <2>1, <3>1 DEF Place
    <3> QED
      BY <1>5, <3>1, <3>2
  <2>5. CASE p \in ByKeyword(kws, declared, AllKws)
    BY <1>5, <2>2, <2>5, KeywordsAgree
  <2> QED
    BY <2>3, <2>4, <2>5
<1>6. ~Py!TwiceInCall(kws)
  BY DEF Compared
<1> QED
  BY <1>2, <1>3, <1>4, <1>5, <1>6 DEF Py!Refused, L

\* What the p-th named parameter receives.
Receives(p) == Py!Bound(params, args, kws)[p]

LEMMA NamedReceives ==
  ASSUME Done, Compared, NEW p \in 1..nNamed
  PROVE  Receives(Place(kwOnlyStart, p)) = Slot(p)
<1> DEFINE k == kwOnlyStart
           q == Place(k, p)
           x == declared[p].name
<1>1. /\ nNamed \in Nat /\ k \in Nat /\ k <= nNamed
      /\ Len(params) \in Nat /\ DOMAIN params = 1..Len(params)
      /\ Signed(params, declared, k, Len(params)) /\ Py!ByPosition(params) = 1..k
  BY DoneKnown
<1>2. q \in DOMAIN params /\ params[q] = declared[p] /\ params[q].kind = "named"
  BY <1>1, SignedPlace DEF nNamed
<1>3. q \in Py!Positioned(params, args) <=> p \in ByPosition(args, k, AllArgs)
  <2>1. CASE p <= k
    <3>1. q = p
      BY <2>1 DEF Place
    <3> QED
      BY <3>1, PositionsAgree
  <2>2. CASE ~(p <= k)
    <3>1. q = p + 1
      BY <2>2 DEF Place
    <3>2. q \notin 1..k /\ p \notin 1..k
      BY <1>1, <2>2, <3>1
    <3> HIDE DEF q
    <3> QED
      BY <1>1, <3>2 DEF Py!Positioned, ByPosition
  <2> QED
    BY <2>1, <2>2
<1>4. q \in Py!Positioned(params, args) => q = p
  BY <1>1 DEF Py!Positioned, Place
<1> DEFINE value == IF q \in Py!Positioned(params, args) THEN Py!Values(args)[q]
                    ELSE IF x \in Py!Keys(kws) THEN Py!Given(kws, x)
                    ELSE Py!Default(x)
<1>5. Receives(q) = Py!One(value)
  <2> HIDE DEF q
  <2>1. params[q].kind # "*" /\ params[q].kind # "**" /\ params[q].name = x
    BY <1>2
  <2> QED
    BY <1>2, <2>1 DEF Receives, Py!Bound
<1> DEFINE given == IF namedVals[p] # <<>> THEN namedVals[p][1] ELSE Py!Default(x)
<1>6. Slot(p) = Py!One(given)
  BY DEF Slot, ParamName
<1> HIDE DEF q, x, value, given
<1>7. CASE p \in ByPosition(args, k, AllArgs)
  <2>1. /\ p \in 1..k /\ p <= Len(args) /\ Len(args[p].list) = 1
        /\ Py!Values(args)[p] = args[p].list[1]
    BY <1>7, PositionsAgree
  <2>2. namedVals[p] = args[p].list
    <3>1. PositionsBound(AllArgs)
      BY DEF Done, ValuesInv
    <3>2. Len(args) \in Nat /\ AllArgs = Len(args) + 1
      BY DoneKnown DEF AllArgs
    <3>3. p <= k /\ p < AllArgs
      BY ONLY <2>1, <3>2, <1>1
    <3> QED
      BY <3>1, <3>3 DEF PositionsBound
  <2>3. namedVals[p] # <<>>
    <3>1. \A l : Len(l) = 1 => l # <<>>
      OBVIOUS
    <3>2. Len(namedVals[p]) = 1
      BY <2>1, <2>2
    <3> QED
      BY <3>1, <3>2
  <2>4. value = args[p].list[1] /\ given = args[p].list[1]
    BY <1>3, <1>4, <1>7, <2>1, <2>2, <2>3 DEF value, given
  <2> QED
    BY <1>5, <1>6, <2>4 DEF q
<1>8. CASE p \notin ByPosition(args, k, AllArgs) /\ p \in ByKeyword(kws, declared, AllKws)
  <2>1. x \in Py!Keys(kws) /\ namedVals[p] = <<Py!Given(kws, x)>>
    BY <1>8, KeywordsAgree DEF x
  <2>2. namedVals[p] # <<>> /\ namedVals[p][1] = Py!Given(kws, x)
    BY <2>1
  <2>3. value = Py!Given(kws, x) /\ given = Py!Given(kws, x)
    BY <1>3, <1>8, <2>1, <2>2 DEF value, given
  <2> QED
    BY <1>5, <1>6, <2>3 DEF q
<1>9. CASE p \notin ByPosition(args, k, AllArgs) /\ p \notin ByKeyword(kws, declared, AllKws)
  <2>1. x \notin Py!Keys(kws)
    BY <1>9, KeywordsAgree DEF x
  <2>2. HasValue = Given(AllArgs, i)
    BY DEF Done, RejectInv, MatchInv, GeneratorInv
  <2>3. ByKeyword(kws, declared, i) = ByKeyword(kws, declared, AllKws)
    <3>1. RejectInv /\ i > Len(kws)
      BY DEF Done
    <3>2. i \in Nat
      BY <3>1 DEF RejectInv, MatchInv, SignatureInv
    <3>3. Len(kws) \in Nat /\ DOMAIN kws = 1..Len(kws)
      BY DoneKnown
    <3> QED
      BY <3>1, <3>2, <3>3, ByKeywordEnds DEF AllKws
  <2>4. p \notin HasValue
    BY <1>9, <2>2, <2>3 DEF Given
  <2>5. namedVals[p] = <<>>
    BY <2>4 DEF HasValue
  <2>6. value = Py!Default(x) /\ given = Py!Default(x)
    BY <1>3, <1>9, <2>1, <2>5 DEF value, given
  <2> QED
    BY <1>5, <1>6, <2>6 DEF q
<1> QED
  BY <1>7, <1>8, <1>9

LEMMA StarReceives ==
  ASSUME Done, NEW q \in DOMAIN params, q = kwOnlyStart + 1, params[q].kind = "*"
  PROVE  Receives(q) = Py!Many(buildVarArgsList)
<1> DEFINE k == kwOnlyStart
           V == Py!Values(args)
           M == Len(overflow)
<1>1. Receives(q) = Py!Many(SubSeq(V, q, Len(V)))
  BY DEF Receives, Py!Bound
<1>2. IsArgs(args) /\ Len(args) \in Nat /\ k \in Nat /\ StarsAfter(args, k)
  BY DoneKnown
<1>3. RestKept(AllArgs)
  BY DEF Done, ValuesInv
<1>4. Behind(args, k, overflow)
  <2>1. AllArgs - 1 = Len(args)
    BY <1>2 DEF AllArgs
  <2>2. /\ IsSeq(overflow) /\ \A j \in 1..Len(overflow) : overflow[j] = args[k + j]
        /\ Len(overflow) = IF k < AllArgs - 1 THEN AllArgs - 1 - k ELSE 0
    BY <1>3 DEF RestKept
  <2> QED
    BY <2>1, <2>2 DEF Behind
<1>5. M \in Nat
  BY <1>4, SeqShape DEF Behind
<1> DEFINE F(f) == [n \in 0..M |-> IF n = 0 THEN <<>> ELSE f[n - 1] \o overflow[n].list]
           g == CHOOSE f : f = F(f)
<1>6. buildVarArgsList = g[M]
  BY DEF buildVarArgsList
<1>7. \E f : f = F(f)
  <2> HIDE DEF M
  <2> QED
    BY <1>5, ListLoop, Zenon
<1>8. g = F(g)
  BY <1>7, Zenon
<1> HIDE DEF g
<1>9. Concat(overflow, M, g)
  BY <1>5, <1>8, LoopIsConcat
<1>10. g[Len(overflow)] = SubSeq(Py!Values(args), k + 1, Len(Py!Values(args)))
  BY <1>2, <1>4, <1>9, ValuesBehind
<1> QED
  BY <1>1, <1>6, <1>10

LEMMA DoubleStarReceives ==
  ASSUME Done, Compared, NEW q \in DOMAIN params, params[q].kind = "**"
  PROVE  Receives(q) = Py!Keyed(buildKwargsMap)
<1> DEFINE S == Py!Keys(kws) \ Py!Names(params)
           m == [x \in S |-> Py!Given(kws, x)]
           M == Len(leftoverKw)
<1>1. Receives(q) = Py!Keyed(m)
  BY DEF Receives, Py!Bound
<1>2. Len(kws) \in Nat /\ DOMAIN kws = 1..Len(kws)
  BY DoneKnown
<1>3. /\ IsSeq(leftoverKw)
      /\ \A h \in 1..M : \E j \in DOMAIN kws : Extra(j) /\ leftoverKw[h] = kws[j]
      /\ \A j \in DOMAIN kws : Extra(j) => \E h \in 1..M : leftoverKw[h] = kws[j]
  <2>1. LeftoverKept(i)
    BY DEF Done, ValuesInv
  <2>2. ASSUME NEW j \in DOMAIN kws PROVE j < i
    <3>1. RejectInv /\ i > Len(kws)
      BY DEF Done
    <3>2. i \in Nat \ {0}
      BY <3>1 DEF RejectInv, MatchInv, SignatureInv
    <3>3. j \in 1..Len(kws)
      BY <1>2
    <3> QED
      BY ONLY <1>2, <3>1, <3>2, <3>3
  <2> QED
    BY <2>1, <2>2 DEF LeftoverKept
<1>4. M \in Nat
  BY <1>3, SeqShape
<1> DEFINE F(f) == [n \in 0..M |-> IF n = 0 THEN <<>> ELSE Extended(f[n - 1], leftoverKw[n].map)]
           g == CHOOSE f : f = F(f)
<1>5. buildKwargsMap = g[M]
  BY DEF buildKwargsMap
<1>6. \E f : f = F(f)
  <2> HIDE DEF M
  <2> QED
    BY <1>4, MapLoop
<1>7. g = F(g)
  BY <1>6
<1> HIDE DEF g
<1>8. DOMAIN m = S /\ m = [x \in DOMAIN m |-> m[x]] /\ \A x \in S : m[x] = Py!Given(kws, x)
  OBVIOUS
<1>9. ASSUME NEW h \in 1..M, NEW x \in DOMAIN leftoverKw[h].map
      PROVE  x \in DOMAIN m /\ leftoverKw[h].map[x] = m[x]
  <2>1. PICK j \in DOMAIN kws : Extra(j) /\ leftoverKw[h] = kws[j]
    BY <1>3
  <2>2. x \in DOMAIN kws[j].map
    BY <2>1
  <2>3. x \notin Py!Names(params) /\ Py!Given(kws, x) = kws[j].map[x]
    BY <2>1, <2>2, LeftAgree
  <2>4. x \in S
    BY <2>2, <2>3 DEF Py!Keys
  <2> HIDE DEF m, S
  <2> QED
    BY <1>8, <2>1, <2>3, <2>4
<1>10. ASSUME NEW x \in DOMAIN m PROVE \E h \in 1..M : x \in DOMAIN leftoverKw[h].map
  <2>1. x \in Py!Keys(kws) /\ x \notin Py!Names(params)
    OBVIOUS
  <2>2. PICK j \in DOMAIN kws : x \in DOMAIN kws[j].map
    BY <2>1 DEF Py!Keys
  <2>3. Extra(j)
    BY <2>1, <2>2, LeftAgree
  <2>4. PICK h \in 1..M : leftoverKw[h] = kws[j]
    BY <1>3, <2>3
  <2> QED
    BY <2>2, <2>4
<1> HIDE DEF m, S
<1>11. g[M] = m
  <2> HIDE DEF M
  <2>1. Merging(leftoverKw, M, g)
    BY <1>7 DEF Merging
  <2>2. m = [x \in DOMAIN m |-> m[x]]
    BY <1>8
  <2>3. \A h \in 1..M : \A x \in DOMAIN leftoverKw[h].map :
          x \in DOMAIN m /\ leftoverKw[h].map[x] = m[x]
    BY <1>9
  <2>4. \A x \in DOMAIN m : \E h \in 1..M : x \in DOMAIN leftoverKw[h].map
    BY <1>10
  <2>5. Union(leftoverKw, M, m)
    BY <2>2, <2>3, <2>4 DEF Union
  <2> QED
    BY <1>4, <2>1, <2>5, MapsMerged
<1> QED
  BY <1>1, <1>5, <1>11

LEMMA SlotsShape ==
  ASSUME NEW from \in Nat, NEW to \in Nat, from <= to + 1
  PROVE  /\ IsSeq(Slots(from, to)) /\ Len(Slots(from, to)) = to - from + 1
         /\ \A j \in 1..to - from + 1 : Slots(from, to)[j] = Slot(from + j - 1)
<1> DEFINE n == to - from + 1
           s == [p \in 1..n |-> Slot(from + p - 1)]
           S == {Slot(from + p - 1) : p \in 1..n}
<1>1. Slots(from, to) = s
  BY DEF Slots
<1>2. n \in Nat
  OBVIOUS
<1>3. \A j \in 1..n : s[j] = Slot(from + j - 1)
  OBVIOUS
<1>4. s \in [1..n -> S]
  OBVIOUS
<1> HIDE DEF n, S, s
<1>5. s \in Seq(S) /\ Len(s) = n
  BY <1>2, <1>4
<1> QED
  BY <1>1, <1>3, <1>5 DEF IsSeq, n

LEMMA SingletonIsSeq ==
  ASSUME NEW e PROVE IsSeq(<<e>>) /\ Len(<<e>>) = 1 /\ <<e>>[1] = e
<1>1. <<e>> \in Seq({e}) /\ Len(<<e>>) = 1 /\ <<e>>[1] = e
  OBVIOUS
<1> QED
  BY <1>1 DEF IsSeq

\* The operands of the call are what the parameters receive, in their order.
LEMMA OperandsAgree ==
  ASSUME Done, Compared PROVE Operands = Py!Bound(params, args, kws)
<1> DEFINE k == kwOnlyStart
           N == Len(params)
           a == Slots(1, k)
           star == IF VarArgs THEN <<Py!Many(buildVarArgsList)>> ELSE <<>>
           c == Slots(k + 1, nNamed)
           dbl == IF Kwargs THEN <<Py!Keyed(buildKwargsMap)>> ELSE <<>>
           o == Operands
           b == Py!Bound(params, args, kws)
           ns == One01(VarArgs)
           nd == One01(Kwargs)
<1>1. /\ nNamed \in Nat /\ k \in Nat /\ k <= nNamed /\ N \in Nat /\ DOMAIN params = 1..N
  BY DoneKnown
<1>2. /\ IF VarArgs THEN k + 1 \in 1..N /\ params[k + 1].kind = "*" ELSE k = nNamed
      /\ Kwargs => N \in 1..N /\ params[N].kind = "**"
      /\ N = nNamed + ns + nd
  <2>1. Shape(params, declared, k)
    BY DEF Done, ShapeInv, Declaring
  <2>2. (HasKind(params, "*") <=> VarArgs) /\ (HasKind(params, "**") <=> Kwargs)
    BY DEF HasKind, VarArgs, Kwargs
  <2> HIDE DEF k, N
  <2>3. One01(HasKind(params, "*")) = ns /\ One01(HasKind(params, "**")) = nd
    BY <2>2 DEF One01
  <2>4. Len(params) = Len(declared) + One01(HasKind(params, "*")) + One01(HasKind(params, "**"))
    BY <2>1 DEF Shape
  <2>5. N = nNamed + ns + nd
    BY <2>3, <2>4 DEF N, nNamed
  <2>6. /\ IF VarArgs THEN k + 1 \in DOMAIN params /\ params[k + 1].kind = "*" ELSE k = Len(declared)
        /\ Kwargs => N \in DOMAIN params /\ params[N].kind = "**"
    BY <2>1, <2>2 DEF Shape, N
  <2> QED
    BY <1>1, <2>5, <2>6 DEF nNamed
<1>3. (VarArgs => ns = 1) /\ (~VarArgs => ns = 0) /\ (Kwargs => nd = 1) /\ (~Kwargs => nd = 0)
  BY DEF One01
<1>4. IsSeq(a) /\ Len(a) = k /\ \A j \in 1..k : a[j] = Slot(j)
  <2>1. k - 1 + 1 = k /\ 1 <= k + 1 /\ \A j \in 1..k : 1 + j - 1 = j
    BY <1>1
  <2>2. /\ IsSeq(a) /\ Len(a) = k - 1 + 1
        /\ \A j \in 1..k - 1 + 1 : a[j] = Slot(1 + j - 1)
    BY <1>1, <2>1, SlotsShape
  <2> HIDE DEF a
  <2> QED
    BY <2>1, <2>2
<1>5. /\ IsSeq(c) /\ Len(c) = nNamed - k
      /\ \A j \in 1..nNamed - k : c[j] = Slot(k + j)
  <2> DEFINE h == k + 1
  <2>1. /\ nNamed - h + 1 = nNamed - k /\ h <= nNamed + 1 /\ h \in Nat
        /\ \A j \in 1..nNamed - k : h + j - 1 = k + j
    BY <1>1
  <2> HIDE DEF h
  <2>2. /\ IsSeq(Slots(h, nNamed)) /\ Len(Slots(h, nNamed)) = nNamed - h + 1
        /\ \A j \in 1..nNamed - h + 1 : Slots(h, nNamed)[j] = Slot(h + j - 1)
    BY <1>1, <2>1, SlotsShape
  <2>3. c = Slots(h, nNamed)
    BY DEF h
  <2> HIDE DEF c
  <2> QED
    BY <2>1, <2>2, <2>3
<1>6. IsSeq(star) /\ Len(star) = ns /\ (VarArgs => star[1] = Py!Many(buildVarArgsList))
  BY <1>3, SingletonIsSeq, EmptyIsSeq
<1>7. IsSeq(dbl) /\ Len(dbl) = nd /\ (Kwargs => dbl[1] = Py!Keyed(buildKwargsMap))
  BY <1>3, SingletonIsSeq, EmptyIsSeq
<1>8. o = a \o star \o c \o dbl
  BY DEF Operands
<1> HIDE DEF a, star, c, dbl, o
<1>9. /\ IsSeq(o) /\ Len(o) = k + ns + (nNamed - k) + nd
      /\ \A j \in 1..k : o[j] = a[j]
      /\ \A j \in 1..ns : o[k + j] = star[j]
      /\ \A j \in 1..nNamed - k : o[k + ns + j] = c[j]
      /\ \A j \in 1..nd : o[k + ns + (nNamed - k) + j] = dbl[j]
  <2> HIDE DEF k, ns, nd
  <2>1. InFour(o, a, star, c, dbl)
    BY <1>4, <1>5, <1>6, <1>7, <1>8 DEF InFour
  <2>2. /\ IsSeq(o) /\ Len(o) = Len(a) + Len(star) + Len(c) + Len(dbl)
        /\ \A j \in 1..Len(a) : o[j] = a[j]
        /\ \A j \in 1..Len(star) : o[Len(a) + j] = star[j]
        /\ \A j \in 1..Len(c) : o[Len(a) + Len(star) + j] = c[j]
        /\ \A j \in 1..Len(dbl) : o[Len(a) + Len(star) + Len(c) + j] = dbl[j]
    BY ONLY <2>1, FourParts
  <2>3. Len(a) = k /\ Len(star) = ns /\ Len(c) = nNamed - k /\ Len(dbl) = nd
    BY <1>4, <1>5, <1>6, <1>7
  <2> QED
    BY ONLY <2>2, <2>3
<1>10. ns \in Nat /\ nd \in Nat
  BY <1>3
<1> HIDE DEF ns, nd, k, N
<1>11. Len(o) = N
  BY <1>1, <1>2, <1>9, <1>10
<1>12. IsSeq(b) /\ Len(b) = N /\ \A q \in 1..N : b[q] = Receives(q)
  <2> DEFINE S == {b[q] : q \in 1..N}
  <2>1. b = [q \in 1..N |-> b[q]]
    BY <1>1 DEF Py!Bound
  <2>2. \A q \in 1..N : b[q] = Receives(q)
    BY DEF Receives
  <2>3. \A q \in 1..N : b[q] \in S
    OBVIOUS
  <2> HIDE DEF b, S
  <2>4. b \in [1..N -> S]
    BY <2>1, <2>3
  <2>5. b \in Seq(S) /\ Len(b) = N
    BY <1>1, <2>4
  <2> QED
    BY <2>2, <2>5 DEF IsSeq
<1> HIDE DEF b
<1>13. ASSUME NEW q \in 1..N PROVE o[q] = Receives(q)
  <2>1. CASE q \in 1..k
    <3>1. q \in 1..nNamed /\ Place(k, q) = q
      BY <1>1, <2>1 DEF Place
    <3>2. Receives(Place(k, q)) = Slot(q)
      BY <3>1, NamedReceives DEF k
    <3> QED
      BY <1>4, <1>9, <2>1, <3>1, <3>2
  <2>2. CASE VarArgs /\ q = k + 1
    <3>1. q \in DOMAIN params /\ params[q].kind = "*"
      BY <1>1, <1>2, <2>2
    <3>2. Receives(q) = Py!Many(buildVarArgsList)
      BY <2>2, <3>1, StarReceives DEF k
    <3>3. 1 \in 1..ns
      BY <1>3, <2>2
    <3> QED
      BY <1>6, <1>9, <2>2, <3>2, <3>3
  <2>3. CASE Kwargs /\ q = N
    <3>1. q \in DOMAIN params /\ params[q].kind = "**"
      BY <1>1, <1>2, <2>3
    <3>2. Receives(q) = Py!Keyed(buildKwargsMap)
      BY <3>1, DoubleStarReceives
    <3>3. 1 \in 1..nd /\ nd = 1
      BY <1>3, <2>3
    <3>4. o[k + ns + (nNamed - k) + 1] = dbl[1]
      BY <1>9, <3>3
    <3>5. k + ns + (nNamed - k) + 1 = N
      BY <1>1, <1>2, <1>10, <3>3
    <3> QED
      BY <1>7, <2>3, <3>2, <3>4, <3>5
  <2>4. CASE q \notin 1..k /\ ~(VarArgs /\ q = k + 1) /\ ~(Kwargs /\ q = N)
    <3> DEFINE j == q - k - ns
               p == k + j
    <3>1. j \in 1..nNamed - k
      <4>1. j <= nNamed - k
        <5>1. CASE Kwargs
          <6>1. nd = 1 /\ q \in Int /\ q < N
            BY <1>1, <1>3, <2>4, <5>1
          <6> QED
            BY ONLY <1>1, <1>2, <1>10, <6>1
        <5>2. CASE ~Kwargs
          <6>1. nd = 0 /\ q \in Int /\ q <= N
            BY <1>1, <1>3, <5>2
          <6> QED
            BY ONLY <1>1, <1>2, <1>10, <6>1
        <5> QED
          BY <5>1, <5>2
      <4>2. j >= 1
        <5>1. q \in Int /\ q > k
          BY <1>1, <2>4
        <5>2. CASE VarArgs
          <6>1. ns = 1 /\ q # k + 1
            BY <1>3, <2>4, <5>2
          <6> QED
            BY ONLY <1>1, <5>1, <6>1
        <5>3. CASE ~VarArgs
          <6>1. ns = 0
            BY <1>3, <5>3
          <6> QED
            BY ONLY <1>1, <5>1, <6>1
        <5> QED
          BY <5>2, <5>3
      <4>3. j \in Int
        BY <1>1, <1>10
      <4> HIDE DEF j
      <4> QED
        BY <1>1, <4>1, <4>2, <4>3
    <3>2. k + ns + j = q
      BY <1>1, <1>10
    <3> HIDE DEF j
    <3>3. p \in 1..nNamed /\ ~(p <= k)
      BY <1>1, <3>1
    <3>4. VarArgs
      <4>1. ~VarArgs => k = nNamed
        BY <1>2
      <4> QED
        BY <1>1, <3>1, <4>1
    <3>5. Place(k, p) = q
      <4>1. Place(k, p) = p + 1
        BY <3>3 DEF Place
      <4>2. ns = 1 /\ j \in Int
        BY <1>3, <3>1, <3>4
      <4> QED
        BY <1>1, <3>2, <4>1, <4>2
    <3>6. Receives(Place(k, p)) = Slot(p)
      BY <3>3, NamedReceives DEF k
    <3>7. o[k + ns + j] = Slot(k + j)
      BY <1>5, <1>9, <3>1
    <3> QED
      BY <3>2, <3>5, <3>6, <3>7
  <2> QED
    BY <2>1, <2>2, <2>3, <2>4
<1>14. \A q \in 1..Len(o) : o[q] = b[q]
  BY <1>11, <1>12, <1>13
<1>15. o = b
  BY <1>9, <1>11, <1>12, <1>14, SameElements
<1> QED
  BY <1>15 DEF o, b

BindInv == RejectInv /\ AcceptedInv /\ ValuesInv /\ ShapeInv /\ BindsAsPython

LEMMA BindsKept ==
  ASSUME BindInv, [Next]_vars PROVE BindsAsPython'
<1>1. CASE EmitCall
  <2>1. Done /\ parts' = Operands /\ UNCHANGED <<params, args, kws>>
    BY <1>1 DEF EmitCall, BindInv, Done, source
  <2>2. MapNamesParameter' <=> MapNamesParameter
    BY <2>1 DEF MapNamesParameter
  <2>3. Py!TwiceInCall(kws) => Py!Refused(params, args, kws)
    BY DEF Py!Refused
  <2>4. Compared => /\ ~Py!Refused(params, args, kws)
                    /\ parts' = Py!Bound(params, args, kws)
    BY <2>1, AcceptedByPython, OperandsAgree
  <2>5. /\ Py!TwiceInCall(kws)' <=> Py!TwiceInCall(kws)
        /\ Py!Refused(params, args, kws)' <=> Py!Refused(params, args, kws)
        /\ Py!Bound(params, args, kws)' = Py!Bound(params, args, kws)
    BY <2>1
  <2> QED
    BY <2>2, <2>3, <2>4, <2>5 DEF BindsAsPython, Compared
<1>2. CASE UNCHANGED vars
  <2>1. UNCHANGED <<params, args, kws, pc, parts>>
    BY <1>2 DEF vars, source, emit
  <2>2. MapNamesParameter' <=> MapNamesParameter
    BY <2>1 DEF MapNamesParameter
  <2>3. /\ Py!TwiceInCall(kws)' <=> Py!TwiceInCall(kws)
        /\ Py!Refused(params, args, kws)' <=> Py!Refused(params, args, kws)
        /\ Py!Bound(params, args, kws)' = Py!Bound(params, args, kws)
    BY <2>1
  <2>4. BindsAsPython
    BY DEF BindInv
  <2> QED
    BY <2>1, <2>2, <2>3, <2>4 DEF BindsAsPython
<1>3. Next /\ ~EmitCall => pc' # "called"
  BY DEF Next, Define, Register, Registered, Call, CheckUnpack, CheckPositional, CheckedArg,
     ArgsChecked, CheckDoubleUnpack, CheckKeyword, KwsChecked, BindArg, ArgsBound,
     BindKeyword, More
<1> QED
  BY <1>1, <1>2, <1>3 DEF BindsAsPython

\* A call that the checker accepts and that the code generator has emitted gives
\* every parameter what Python gives it, in the order in which the function
\* takes them, for any definition and any call (matchCallArgs, prepareCallArgs,
\* buildVarArgsList, buildKwargsMap): Python accepts the call too.  Left out are
\* a keyword given twice and a map whose key is the name of a parameter.
THEOREM BindingsAgree == Spec => []BindsAsPython
<1>1. Init => BindInv
  <2> SUFFICES ASSUME Init PROVE BindInv
    OBVIOUS
  <2>1. RejectInv
    <3>1. SigningInv /\ VerdictInv
      BY DEF Init, SigningInv, VerdictInv, RejectsAsPython, Declaring
    <3> QED
      BY <3>1, MatchInit DEF RejectInv
  <2>2. AcceptedInv /\ ValuesInv /\ ShapeInv /\ BindsAsPython
    BY DEF Init, AcceptedInv, ValuesInv, ShapeInv, BindsAsPython, Declaring
  <2> QED
    BY <2>1, <2>2 DEF BindInv
<1>2. BindInv /\ [Next]_vars => BindInv'
  <2> SUFFICES ASSUME BindInv, [Next]_vars PROVE BindInv'
    OBVIOUS
  <2>1. RejectInv /\ AcceptedInv /\ ValuesInv /\ ShapeInv
    BY DEF BindInv
  <2>2. RejectInv'
    <3>1. MatchInv' /\ SigningInv'
      BY <2>1, MatchStep, SigningKept DEF RejectInv
    <3>2. VerdictInv'
      BY <2>1, VerdictKept
    <3> QED
      BY <3>1, <3>2 DEF RejectInv
  <2>3. AcceptedInv'
    BY <2>1, AcceptedKept
  <2>4. ValuesInv'
    BY <2>1, ValuesKept
  <2>5. ShapeInv'
    BY <2>1, ShapeKept DEF RejectInv
  <2>6. BindsAsPython'
    BY BindsKept
  <2> QED
    BY <2>2, <2>3, <2>4, <2>5, <2>6 DEF BindInv
<1>3. BindInv => BindsAsPython
  BY DEF BindInv
<1> QED
  BY <1>1, <1>2, <1>3, PTL DEF Spec
=============================================================================
