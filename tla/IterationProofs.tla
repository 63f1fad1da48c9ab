-------------------------- MODULE IterationProofs --------------------------
(***************************************************************************)
(* What a program goes through: tables and generators.                      *)
(*                                                                          *)
(* The tables of the runtime find every key they hold and no other, and      *)
(* always keep a free slot, for every set of keys, every hash function and   *)
(* every initial capacity; a loop over one runs once for each of its keys.   *)
(*                                                                          *)
(* The calls of next on compiled generators give what Python's give, for    *)
(* any two functions, any objects and any order of calls, and there is an    *)
(* exception frame for each activation's caller.  This is by a simulation:   *)
(* for every object there is a state of Python's run of its body, some       *)
(* statements in, in step with the object and the activations (Tracks).      *)
(***************************************************************************)
EXTENDS TableLoop, Generators, FiniteSetTheorems, SequenceTheorems, WellFoundedInduction, TLAPS

-----------------------------------------------------------------------------
\* The strengthening.

\* In table t, slot x is on the probe path of the entry in slot p.
OnPath(t, x, p) == Dist(Home(t[p].key), x) < Dist(Home(t[p].key), p)

\* No entry has a free slot on its path.
Reachable(t) == \A p, x \in Pos :
                  t[p] # Empty /\ OnPath(t, x, p) => t[x] # Empty

\* No key stands in two slots.
Unique(t) == \A p, q \in Pos :
               t[p] # Empty /\ t[q] # Empty /\ t[p].key = t[q].key => p = q

\* While growth moves entries, at most one entry has come with each old slot.
Growing == \E n \in Nat : /\ n >= 2 /\ cap = 2 * n
                          /\ old \in [0 .. n - 1 -> Entry \cup {Empty}]
                          /\ i <= n /\ len <= i
                          /\ arg \in Entry

\* No key waits in two old slots, or in one and in the new table.
Apart == /\ \A a, b \in DOMAIN old :
              old[a] # Empty /\ old[b] # Empty /\ old[a].key = old[b].key => a = b
         /\ \A a \in DOMAIN old, p \in Pos :
              a >= i /\ old[a] # Empty /\ slots[p] # Empty => old[a].key # slots[p].key

\* In table t, the entry in slot p is still in the run that discard, seen from
\* slot h, goes on with at its n-th probe: no slot from there to p is free.
InRun(t, h, n, p) == /\ n <= Dist(h, p)
                     /\ \A y \in Pos : n <= Dist(h, y) /\ Dist(h, y) < Dist(h, p) => t[y] # Empty

\* A free slot on the path of an entry is behind discard, the entry ahead of it.
Broken(t, h, n) == \A p, x \in Pos :
                     t[p] # Empty /\ OnPath(t, x, p) /\ t[x] = Empty =>
                       Dist(h, x) < n /\ InRun(t, h, n, p)

\* The run that discard goes through has an end.
RunEnds(t, h, n) == \E e \in Pos : t[e] = Empty /\ n <= Dist(h, e)

\* Table t with entry e where its probe loop ends.
Inserted(t, e) == [t EXCEPT ![StopSlot(t, e.key)] = e]

\* The number of entries in table t.
Count(t) == Cardinality({p \in Pos : t[p] # Empty})

IInv == /\ TypeOK
        /\ Unique(slots)
        /\ op = "idle" => 4 * len <= 3 * cap /\ Reachable(slots) /\ old = <<>>
        /\ op = "grow" => Growing /\ Apart /\ Reachable(slots)
        /\ op = "discard" => /\ arg \in Entry /\ ~Full(len) /\ i >= 1 /\ old = <<>>
                             /\ Broken(slots, Home(arg.key), i)
                             /\ i < cap => RunEnds(slots, Home(arg.key), i)

-----------------------------------------------------------------------------
\* Lemmas on positions.

LEMMA HomeInPos ==
  ASSUME TypeOK, NEW k \in Key
  PROVE  Home(k) \in Pos
<1>1. hash[k] \in Nat /\ cap \in Nat /\ cap >= 2
  BY HashTableAssumption DEF TypeOK
<1> QED BY <1>1 DEF Home, Pos

LEMMA DistFacts ==
  ASSUME cap \in Nat, NEW a \in Pos, NEW b \in Pos
  PROVE  /\ Dist(a, b) \in Pos
         /\ Dist(a, a) = 0
         /\ \A c \in Pos : Dist(a, b) = Dist(a, c) => b = c
BY DEF Dist, Pos

LEMMA ProbeFacts ==
  ASSUME cap \in Nat, NEW a \in Pos, NEW n \in Nat, n < cap
  PROVE  Probe(a, n) \in Pos /\ Dist(a, Probe(a, n)) = n
BY DEF Dist, Probe, Pos

\* Whoever goes around the table from q to p comes past e.
LEMMA Between ==
  ASSUME cap \in Nat, NEW h \in Pos, NEW g \in Pos,
         NEW q \in Pos, NEW e \in Pos, NEW p \in Pos,
         Dist(h, q) < Dist(h, e), Dist(g, q) < Dist(g, p),
         Dist(h, p) < Dist(h, q) \/ Dist(h, e) < Dist(h, p)
  PROVE  Dist(g, e) < Dist(g, p)
BY DEF Dist, Pos

-----------------------------------------------------------------------------
\* The probe loop.

\* It ends at the first slot that is free or has the key.
LEMMA StopFacts ==
  ASSUME cap \in Nat, NEW k \in Key, Home(k) \in Pos,
         NEW t, Stops(t, k) # {}
  PROVE  /\ StopSlot(t, k) \in Pos
         /\ t[StopSlot(t, k)] = Empty \/ t[StopSlot(t, k)].key = k
         /\ \A x \in Pos : Dist(Home(k), x) < Dist(Home(k), StopSlot(t, k)) =>
                             t[x] # Empty /\ t[x].key # k
<1> DEFINE d(p) == Dist(Home(k), p)
           T == {d(p) : p \in Stops(t, k)}
           R == OpToRel(<, Nat)
<1>1. \A p \in Pos : d(p) \in Nat
  <2> TAKE p \in Pos
  <2>1. Dist(Home(k), p) \in Pos
    BY DistFacts
  <2> QED BY <2>1 DEF Pos
<1>2. Stops(t, k) \subseteq Pos
  BY DEF Stops
<1>3. IsWellFoundedOn(R, Nat)
  BY NatLessThanWellFounded
<1>4. \A x, y \in Nat : x < y => <<x, y>> \in R
  BY DEF OpToRel
<1>5. T \in SUBSET Nat /\ T # {}
  BY <1>1, <1>2
<1>6. PICK m \in T : \A y \in T : ~(<<y, m>> \in R)
  <2> HIDE DEF T, R
  <2> QED BY <1>3, <1>5, WFMin
<1>7. PICK p \in Stops(t, k) : m = d(p)
  BY <1>6
<1>8. \A s \in Stops(t, k) : d(p) <= d(s)
  <2> SUFFICES ASSUME NEW s \in Stops(t, k) PROVE d(p) <= d(s)
    OBVIOUS
  <2>1. d(s) \in T /\ d(s) \in Nat /\ d(p) \in Nat
    BY <1>1, <1>2
  <2>2. ~(d(s) < d(p))
    <3> HIDE DEF d, T, R
    <3> QED BY <1>4, <1>6, <1>7, <2>1
  <2> HIDE DEF d
  <2> QED BY <2>1, <2>2
<1>9. StopSlot(t, k) \in Stops(t, k) /\ \A s \in Stops(t, k) : d(StopSlot(t, k)) <= d(s)
  BY <1>8 DEF StopSlot
<1>10. ASSUME NEW x \in Pos, d(x) < d(StopSlot(t, k)) PROVE x \notin Stops(t, k)
  <2>1. d(x) \in Nat /\ d(StopSlot(t, k)) \in Nat
    BY <1>1, <1>2, <1>9
  <2> HIDE DEF d
  <2> QED BY <1>9, <1>10, <2>1
<1>11. /\ StopSlot(t, k) \in Pos
       /\ t[StopSlot(t, k)] = Empty \/ t[StopSlot(t, k)].key = k
  BY <1>9 DEF Stops
<1>12. \A x \in Pos : d(x) < d(StopSlot(t, k)) => t[x] # Empty /\ t[x].key # k
  BY <1>10 DEF Stops
<1> QED BY <1>11, <1>12

\* A table with fewer entries than slots has a free slot, and every search ends.
LEMMA FreeSlot ==
  ASSUME cap \in Nat, NEW t \in [Pos -> Entry \cup {Empty}],
         Cardinality({p \in Pos : t[p] # Empty}) < cap
  PROVE  /\ \E p \in Pos : t[p] = Empty
         /\ \A k : Stops(t, k) # {}
<1>1. Cardinality(Pos) = cap
  <2>1. Cardinality(0 .. cap - 1) = IF 0 > cap - 1 THEN 0 ELSE (cap - 1) - 0 + 1
    BY FS_Interval
  <2> QED BY <2>1 DEF Pos
<1>2. {p \in Pos : t[p] # Empty} # Pos
  <2>1. cap \in Int /\ ~(cap < cap)
    OBVIOUS
  <2> QED BY <1>1, <2>1
<1>3. \E p \in Pos : t[p] = Empty
  BY <1>2
<1> QED BY <1>3 DEF Stops

\* What it puts there.
LEMMA InsertFacts ==
  ASSUME cap \in Nat, NEW t \in [Pos -> Entry \cup {Empty}],
         NEW e \in Entry, Home(e.key) \in Pos,
         Unique(t), Stops(t, e.key) # {},
         \A p, x \in Pos : t[p] # Empty /\ t[p].key = e.key /\ OnPath(t, x, p) => t[x] # Empty,
         NEW s, s = StopSlot(t, e.key)
  PROVE  /\ s \in Pos /\ Inserted(t, e) \in [Pos -> Entry \cup {Empty}]
         /\ Inserted(t, e)[s] = e /\ \A p \in Pos \ {s} : Inserted(t, e)[p] = t[p]
         /\ t[s] = Empty \/ t[s].key = e.key
         /\ Unique(Inserted(t, e))
         /\ \A x \in Pos : OnPath(Inserted(t, e), x, s) => t[x] # Empty /\ Inserted(t, e)[x] # Empty
<1> DEFINE u == Inserted(t, e)
<1>1. /\ s \in Pos /\ (t[s] = Empty \/ t[s].key = e.key)
      /\ \A x \in Pos : Dist(Home(e.key), x) < Dist(Home(e.key), s) => t[x] # Empty /\ t[x].key # e.key
  BY StopFacts DEF Entry
<1>2. /\ u \in [Pos -> Entry \cup {Empty}]
      /\ u[s] = e /\ \A p \in Pos \ {s} : u[p] = t[p]
  BY <1>1 DEF Inserted
<1> HIDE DEF u
<1>3. e # Empty /\ e.key \in Key
  BY HashTableAssumption DEF Entry
<1>5. ASSUME NEW p \in Pos, p # s, t[p] # Empty, t[p].key = e.key PROVE FALSE
  <2>1. t[s] = Empty
    BY <1>1, <1>5 DEF Unique
  <2>2. ~(Dist(Home(e.key), p) < Dist(Home(e.key), s))
    BY <1>1, <1>5
  <2>3. /\ Dist(Home(e.key), p) \in Int /\ Dist(Home(e.key), s) \in Int
        /\ Dist(Home(e.key), p) # Dist(Home(e.key), s)
    BY <1>1, <1>5, DistFacts DEF Pos
  <2>4. OnPath(t, s, p)
    BY <1>5, <2>2, <2>3 DEF OnPath
  <2> QED BY <1>1, <1>5, <2>1, <2>4
<1>6. Unique(u)
  BY <1>1, <1>2, <1>3, <1>5 DEF Unique
<1>7. \A x \in Pos : OnPath(u, x, s) => t[x] # Empty /\ u[x] # Empty
  BY <1>1, <1>2, <1>3 DEF OnPath
<1> QED BY <1>1, <1>2, <1>6, <1>7 DEF u

\* How the number of entries changes.
LEMMA CountFacts ==
  ASSUME cap \in Nat, NEW t \in [Pos -> Entry \cup {Empty}], NEW s \in Pos
  PROVE  /\ Count(t) \in Nat
         /\ \A e \in Entry : Count([t EXCEPT ![s] = e]) =
                               IF t[s] = Empty THEN Count(t) + 1 ELSE Count(t)
         /\ Count([t EXCEPT ![s] = Empty]) =
              IF t[s] = Empty THEN Count(t) ELSE Count(t) - 1
<1> DEFINE A == {p \in Pos : t[p] # Empty}
<1>1. IsFiniteSet(A)
  <2>1. IsFiniteSet(Pos)
    BY FS_Interval DEF Pos
  <2> QED BY <2>1, FS_Subset
<1>2. \A e \in Entry : {p \in Pos : [t EXCEPT ![s] = e][p] # Empty} = A \cup {s}
  BY HashTableAssumption
<1>3. {p \in Pos : [t EXCEPT ![s] = Empty][p] # Empty} = A \ {s}
  OBVIOUS
<1>4. s \in A <=> t[s] # Empty
  OBVIOUS
<1> HIDE DEF A
<1>5. Cardinality(A) \in Nat
  BY <1>1, FS_CardinalityType
<1>6. Cardinality(A \cup {s}) = IF t[s] = Empty THEN Cardinality(A) + 1 ELSE Cardinality(A)
  BY <1>1, <1>4, FS_AddElement
<1>7. Cardinality(A \ {s}) = IF t[s] = Empty THEN Cardinality(A) ELSE Cardinality(A) - 1
  BY <1>1, <1>4, FS_RemoveElement
<1>8. Count(t) = Cardinality(A)
  BY DEF Count, A
<1>9. \A e \in Entry : Count([t EXCEPT ![s] = e]) = Cardinality(A \cup {s})
  BY <1>2 DEF Count
<1>10. Count([t EXCEPT ![s] = Empty]) = Cardinality(A \ {s})
  BY <1>3 DEF Count
<1> QED BY <1>5, <1>6, <1>7, <1>8, <1>9, <1>10

-----------------------------------------------------------------------------
\* Put, Move and PutAfterGrow insert into a table in which every entry is reached.
LEMMA InsertPreserves ==
  ASSUME TypeOK, Unique(slots), Reachable(slots), len < cap,
         NEW e \in Entry, Insert(slots, len, e), cap' = cap, hash' = hash
  PROVE  /\ slots' \in [Pos' -> Entry \cup {Empty}]
         /\ len' = Cardinality(Occupied)' /\ len' \in {len, len + 1} /\ len \in Nat
         /\ Unique(slots)' /\ Reachable(slots)'
<1>1. /\ cap \in Nat /\ slots \in [Pos -> Entry \cup {Empty}]
      /\ len = Count(slots)
      /\ e.key \in Key /\ Home(e.key) \in Pos
  BY HomeInPos DEF TypeOK, Occupied, Entry, Count
<1>2. Stops(slots, e.key) # {}
  BY <1>1, FreeSlot DEF Count
<1> DEFINE s == StopSlot(slots, e.key)
           u == Inserted(slots, e)
<1>3. slots' = u /\ len' = IF slots[s] = Empty THEN len + 1 ELSE len
  BY <1>2 DEF Insert, Inserted
<1>4. /\ s \in Pos /\ u \in [Pos -> Entry \cup {Empty}]
      /\ u[s] = e /\ \A p \in Pos \ {s} : u[p] = slots[p]
      /\ Unique(u)
      /\ \A x \in Pos : OnPath(u, x, s) => slots[x] # Empty /\ u[x] # Empty
  <2>1. \A p, x \in Pos : slots[p] # Empty /\ slots[p].key = e.key /\ OnPath(slots, x, p) => slots[x] # Empty
    BY DEF Reachable
  <2>2. s = StopSlot(slots, e.key) /\ u = Inserted(slots, e)
    OBVIOUS
  <2> HIDE DEF s, u
  <2> QED BY <1>1, <1>2, <2>1, <2>2, InsertFacts
<1>5. Pos' = Pos /\ \A k : Home(k)' = Home(k)
  BY DEF Pos, Home
<1>6. len' = Cardinality(Occupied)' /\ len' \in {len, len + 1} /\ len \in Nat
  <2>1. Occupied' = {p \in Pos : u[p] # Empty}
    BY <1>3, <1>5 DEF Occupied
  <2>u. u = [slots EXCEPT ![s] = e]
    BY DEF Inserted
  <2>c. s \in Pos /\ slots \in [Pos -> Entry \cup {Empty}] /\ cap \in Nat /\ len = Count(slots)
    BY <1>1, <1>4
  <2> HIDE DEF u, s
  <2>2. Count(u) = IF slots[s] = Empty THEN len + 1 ELSE len
    BY <2>u, <2>c, CountFacts
  <2>3. len \in Nat
    BY <1>1, <1>4, CountFacts
  <2> QED BY <1>3, <2>1, <2>2, <2>3 DEF Count
<1>7. \A p, x \in Pos : u[p] # Empty /\ OnPath(u, x, p) => u[x] # Empty
  <2> HIDE DEF u, s
  <2> SUFFICES ASSUME NEW p \in Pos, NEW x \in Pos, u[p] # Empty, OnPath(u, x, p), u[x] = Empty
               PROVE  FALSE
    OBVIOUS
  <2>1. p # s
    BY <1>4
  <2>2. u[p] = slots[p] /\ OnPath(slots, x, p)
    BY <1>4, <2>1 DEF OnPath
  <2>3. x # s
    BY <1>1, <1>4, HashTableAssumption
  <2> QED BY <1>4, <2>2, <2>3 DEF Reachable
<1>8. Unique(slots)' /\ Reachable(slots)'
  <2> HIDE DEF u
  <2>1. \A t, x, p : OnPath(t, x, p)' <=> OnPath(t', x, p)
    BY <1>5 DEF OnPath, Dist
  <2> QED BY <1>3, <1>4, <1>5, <1>7 DEF Unique, Reachable, OnPath, Dist
<1> QED BY <1>1, <1>3, <1>4, <1>5, <1>6, <1>8

LEMMA LenNat ==
  ASSUME TypeOK
  PROVE  len \in Nat /\ len = Count(slots)
<1>1. /\ cap \in Nat /\ slots \in [Pos -> Entry \cup {Empty}] /\ 0 \in Pos
      /\ len = Count(slots)
  BY DEF TypeOK, Pos, Count, Occupied
<1> QED BY <1>1, CountFacts

-----------------------------------------------------------------------------
\* One lemma for each action.

LEMMA InitHolds == Init => IInv
<1> SUFFICES ASSUME Init PROVE IInv
  OBVIOUS
<1>1. /\ cap = InitCap /\ cap \in Nat /\ cap >= 2 /\ len = 0
      /\ slots = [p \in Pos |-> Empty] /\ op = "idle" /\ i = 0 /\ arg = Empty /\ old = <<>>
  BY HashTableAssumption DEF Init
<1>2. Occupied = {}
  BY <1>1 DEF Occupied
<1>3. TypeOK
  BY <1>1, <1>2, FS_EmptySet DEF Init, TypeOK
<1>4. Unique(slots) /\ Reachable(slots)
  BY <1>1 DEF Unique, Reachable
<1> QED BY <1>1, <1>3, <1>4 DEF IInv

LEMMA PutPreserves ==
  ASSUME IInv, NEW e \in Entry, Put(e)
  PROVE  IInv'
<1>1. /\ TypeOK /\ Unique(slots) /\ Reachable(slots) /\ op = "idle" /\ old = <<>> /\ ~Full(len)
      /\ cap \in Nat /\ cap >= 2 /\ len \in Nat
  BY LenNat DEF IInv, Put, Idle, TypeOK
<1>2. len < cap
  BY <1>1 DEF Full
<1>3. /\ Insert(slots, len, e) /\ cap' = cap /\ hash' = hash
      /\ kind' = kind /\ op' = op /\ old' = old /\ i' = i /\ arg' = arg
  BY DEF Put
<1>4. /\ slots' \in [Pos' -> Entry \cup {Empty}]
      /\ len' = Cardinality(Occupied)' /\ len' \in {len, len + 1} /\ len \in Nat
      /\ Unique(slots)' /\ Reachable(slots)'
  BY <1>1, <1>2, <1>3, InsertPreserves
<1>5. TypeOK'
  BY <1>1, <1>3, <1>4 DEF TypeOK
<1>6. 4 * len' <= 3 * cap'
  BY <1>1, <1>3, <1>4 DEF Full
<1> QED BY <1>1, <1>3, <1>4, <1>5, <1>6 DEF IInv

LEMMA GrowPreserves ==
  ASSUME IInv, NEW e \in Entry, Grow(e)
  PROVE  IInv'
<1>1. /\ TypeOK /\ op = "idle" /\ cap \in Nat /\ cap >= 2
      /\ slots \in [0 .. cap - 1 -> Entry \cup {Empty}]
  BY DEF IInv, Grow, Idle, TypeOK, Pos
<1>2. /\ cap' = 2 * cap /\ len' = 0 /\ op' = "grow" /\ old' = slots /\ i' = 0 /\ arg' = e
      /\ kind' = kind /\ hash' = hash
      /\ slots' = [p \in 0 .. 2 * cap - 1 |-> Empty]
  BY DEF Grow
<1>3. Pos' = 0 .. 2 * cap - 1
  BY <1>2 DEF Pos
<1>4. Occupied' = {} /\ \A p \in Pos' : slots'[p] = Empty
  BY <1>2, <1>3 DEF Occupied
<1>5. TypeOK'
  <2>1. cap' \in Nat /\ cap' >= 2
    BY <1>1, <1>2
  <2>2. slots' \in [Pos' -> Entry \cup {Empty}]
    BY <1>2, <1>3
  <2> QED BY <1>1, <1>2, <1>4, <2>1, <2>2, FS_EmptySet DEF TypeOK
<1>6. Unique(slots)' /\ Reachable(slots)'
  BY <1>4 DEF Unique, Reachable
<1>7. Growing'
  BY <1>1, <1>2 DEF Growing
<1>8. Apart'
  <2>1. DOMAIN old' = Pos
    BY <1>1, <1>2 DEF Pos
  <2>2. Unique(slots)
    BY DEF IInv
  <2> QED BY <1>2, <1>4, <2>1, <2>2 DEF Apart, Unique
<1> QED BY <1>2, <1>5, <1>6, <1>7, <1>8 DEF IInv

LEMMA MovePreserves ==
  ASSUME IInv, Move
  PROVE  IInv'
<1>1. /\ TypeOK /\ Unique(slots) /\ Reachable(slots) /\ op = "grow" /\ i \in DOMAIN old
      /\ cap \in Nat /\ i \in Nat
      /\ cap' = cap /\ hash' = hash /\ kind' = kind /\ op' = op /\ old' = old /\ arg' = arg
      /\ i' = i + 1
  BY DEF IInv, Move, TypeOK
<1>2. PICK n \in Nat : /\ n >= 2 /\ cap = 2 * n /\ old \in [0 .. n - 1 -> Entry \cup {Empty}]
                       /\ i <= n /\ len <= i /\ arg \in Entry
  BY <1>1 DEF IInv, Growing
<1>3. i \in 0 .. n - 1 /\ i < n /\ old[i] \in Entry \cup {Empty}
  BY <1>1, <1>2
<1>4. /\ slots' \in [Pos' -> Entry \cup {Empty}]
      /\ len' = Cardinality(Occupied)' /\ len' <= i + 1
      /\ Unique(slots)' /\ Reachable(slots)'
      /\ \A p \in Pos : slots'[p] = slots[p] \/ slots'[p] = old[i]
  <2>1. len \in Nat
    BY <1>1, LenNat
  <2>2. CASE old[i] = Empty
    <3>1. slots' = slots /\ len' = len
      BY <2>2 DEF Move
    <3>2. Pos' = Pos /\ \A k : Home(k)' = Home(k)
      BY <1>1 DEF Pos, Home
    <3> QED BY <1>1, <1>2, <2>1, <3>1, <3>2
         DEF TypeOK, Occupied, Unique, Reachable, OnPath, Dist
  <2>3. CASE old[i] # Empty
    <3>1. Insert(slots, len, old[i]) /\ old[i] \in Entry
      BY <1>3, <2>3 DEF Move
    <3>2. len < cap
      BY <1>2, <1>3, <2>1
    <3>3. \A p \in Pos : slots'[p] = slots[p] \/ slots'[p] = old[i]
      BY <1>1, <3>1 DEF Insert, TypeOK
    <3> QED BY <1>1, <1>2, <1>3, <2>1, <3>1, <3>2, <3>3, InsertPreserves
  <2> QED BY <2>2, <2>3
<1>5. TypeOK'
  BY <1>1, <1>4 DEF TypeOK
<1>6. Growing'
  <2>1. i + 1 <= n
    BY <1>3
  <2> QED BY <1>1, <1>2, <1>4, <2>1 DEF Growing
<1>7. Apart'
  <2>1. Apart /\ DOMAIN old = 0 .. n - 1 /\ Pos' = Pos
    BY <1>1, <1>2 DEF IInv, Pos
  <2>2. \A a \in DOMAIN old : a >= i + 1 => a >= i /\ a # i
    BY <1>1, <2>1
  <2>3. ASSUME NEW a \in DOMAIN old, NEW p \in Pos,
               a >= i + 1, old[a] # Empty, slots'[p] # Empty, old[a].key = slots'[p].key
        PROVE  FALSE
    BY <1>1, <1>4, <2>1, <2>2, <2>3 DEF Apart
  <2> QED BY <1>1, <2>1, <2>3 DEF Apart
<1> QED BY <1>1, <1>4, <1>5, <1>6, <1>7 DEF IInv

LEMMA PutAfterGrowPreserves ==
  ASSUME IInv, PutAfterGrow
  PROVE  IInv'
<1>1. /\ TypeOK /\ Unique(slots) /\ Reachable(slots) /\ op = "grow" /\ i \notin DOMAIN old
      /\ cap \in Nat /\ cap >= 2 /\ i \in Nat
      /\ cap' = cap /\ hash' = hash /\ kind' = kind
      /\ op' = "idle" /\ old' = <<>> /\ i' = 0 /\ arg' = Empty
      /\ Insert(slots, len, arg)
  BY DEF IInv, PutAfterGrow, TypeOK, Rest
<1>2. PICK n \in Nat : /\ n >= 2 /\ cap = 2 * n /\ old \in [0 .. n - 1 -> Entry \cup {Empty}]
                       /\ i <= n /\ len <= i /\ arg \in Entry
  BY <1>1 DEF IInv, Growing
<1>3. len \in Nat
  BY <1>1, LenNat
<1>4. len < cap
  BY <1>1, <1>2, <1>3
<1>5. /\ slots' \in [Pos' -> Entry \cup {Empty}]
      /\ len' = Cardinality(Occupied)' /\ len' \in {len, len + 1}
      /\ Unique(slots)' /\ Reachable(slots)'
  BY <1>1, <1>2, <1>4, InsertPreserves
<1>6. TypeOK'
  BY <1>1, <1>5 DEF TypeOK
<1>7. 4 * len' <= 3 * cap'
  BY <1>1, <1>2, <1>3, <1>5
<1> QED BY <1>1, <1>5, <1>6, <1>7 DEF IInv

LEMMA ClearPreserves ==
  ASSUME IInv, Clear
  PROVE  IInv'
<1>1. /\ TypeOK /\ op = "idle" /\ cap \in Nat /\ cap >= 2 /\ old = <<>>
      /\ cap' = cap /\ hash' = hash /\ kind' = kind /\ op' = op /\ old' = old /\ i' = i /\ arg' = arg
      /\ slots' = [p \in Pos |-> Empty] /\ len' = 0
  BY DEF IInv, Clear, Idle, TypeOK
<1>2. Pos' = Pos
  BY <1>1 DEF Pos
<1>3. Occupied' = {} /\ \A p \in Pos' : slots'[p] = Empty
  BY <1>1, <1>2 DEF Occupied
<1>4. TypeOK'
  BY <1>1, <1>2, <1>3, FS_EmptySet DEF TypeOK
<1>5. Unique(slots)' /\ Reachable(slots)'
  BY <1>3 DEF Unique, Reachable
<1> QED BY <1>1, <1>4, <1>5 DEF IInv

\* An entry is taken out: what is behind the hole is in the run that follows.
LEMMA DiscardPreserves ==
  ASSUME IInv, NEW k \in Key, Discard(k)
  PROVE  IInv'
<1> DEFINE h == Home(k)
           s == StopSlot(slots, k)
           t == [slots EXCEPT ![s] = Empty]
           n == Dist(h, s) + 1
<1>1. /\ TypeOK /\ Unique(slots) /\ Reachable(slots) /\ op = "idle" /\ old = <<>>
      /\ cap \in Nat /\ cap >= 2 /\ len \in Nat /\ len = Count(slots) /\ 4 * len <= 3 * cap
      /\ slots \in [Pos -> Entry \cup {Empty}]
  BY LenNat DEF IInv, Discard, Idle, TypeOK
<1>2. /\ cap' = cap /\ hash' = hash /\ kind' = kind /\ op' = "discard" /\ old' = <<>>
      /\ slots' = t /\ i' = n /\ arg' = slots[s] /\ len' = len - 1
      /\ Stops(slots, k) # {} /\ slots[s] # Empty
  BY <1>1 DEF Discard, Found
<1>3. h \in Pos
  BY <1>1, HomeInPos
<1>4. /\ s \in Pos /\ slots[s].key = k
      /\ \A x \in Pos : Dist(h, x) < Dist(h, s) => slots[x] # Empty
  BY <1>1, <1>2, <1>3, StopFacts
<1>5. PICK e \in Pos : slots[e] = Empty
  <2>1. len < cap
    BY <1>1
  <2> QED BY <1>1, <2>1, FreeSlot DEF Count
<1> HIDE DEF h, s
<1>6. Dist(h, s) \in Nat /\ Dist(h, s) < cap /\ Dist(h, s) < Dist(h, e) /\ n <= Dist(h, e)
  <2>1. Dist(h, s) \in Pos /\ Dist(h, e) \in Pos /\ Dist(h, s) # Dist(h, e)
    BY <1>1, <1>2, <1>3, <1>4, <1>5, DistFacts
  <2> QED BY <1>1, <1>4, <1>5, <2>1 DEF Pos
<1>7. /\ Pos' = Pos /\ Home(arg.key)' = h
      /\ \A x, p : OnPath(slots, x, p)' <=> OnPath(t, x, p)
      /\ \A x \in Pos \ {s} : t[x] = slots[x]
      /\ t[s] = Empty /\ t[e] = Empty
  <2>1. Pos' = Pos /\ \A j : Home(j)' = Home(j)
    BY <1>2 DEF Pos, Home
  <2>2. Home(arg.key)' = h
    BY <1>2, <1>4, <2>1 DEF h
  <2>3. /\ \A x \in Pos \ {s} : t[x] = slots[x]
        /\ t[s] = Empty /\ t[e] = Empty
    BY <1>1, <1>4, <1>5
  <2> QED BY <1>2, <2>1, <2>2, <2>3 DEF OnPath, Dist
<1>8. t \in [Pos -> Entry \cup {Empty}] /\ Count(t) = len - 1 /\ len - 1 \in Nat
  <2>1. t \in [Pos -> Entry \cup {Empty}] /\ Count(t) = len - 1
    BY <1>1, <1>2, <1>4, CountFacts
  <2>2. Count(t) \in Nat
    BY <1>1, <1>4, <2>1, CountFacts
  <2> QED BY <2>1, <2>2
<1>9. Broken(t, h, n)
  <2> SUFFICES ASSUME NEW p \in Pos, NEW x \in Pos, t[p] # Empty, OnPath(t, x, p), t[x] = Empty
               PROVE  Dist(h, x) < n /\ InRun(t, h, n, p)
    BY DEF Broken
  <2>1. p # s /\ slots[p] # Empty /\ OnPath(slots, x, p) /\ Home(slots[p].key) \in Pos
    <3>1. p # s /\ slots[p] = t[p] /\ slots[p] \in Entry
      BY <1>1, <1>7
    <3> QED BY <1>1, <3>1, HomeInPos DEF OnPath, Entry
  <2>2. x = s
    BY <1>1, <1>7, <2>1 DEF Reachable
  <2>3. Dist(h, p) \in Int /\ Dist(h, p) # Dist(h, s)
    <3>1. Dist(h, p) \in Pos /\ Dist(h, p) # Dist(h, s)
      BY <1>1, <1>3, <1>4, <2>1, DistFacts
    <3> QED BY <3>1 DEF Pos
  <2>4. ASSUME NEW y \in Pos, Dist(h, s) < Dist(h, y), slots[y] = Empty,
               Dist(h, p) < Dist(h, s) \/ Dist(h, y) < Dist(h, p)
        PROVE  FALSE
    <3>1. OnPath(slots, y, p)
      BY <1>1, <1>3, <1>4, <2>1, <2>2, <2>4, Between DEF OnPath
    <3> QED BY <1>1, <2>1, <2>4, <3>1 DEF Reachable
  <2>5. n <= Dist(h, p)
    <3>1. ~(Dist(h, p) < Dist(h, s))
      BY <1>5, <1>6, <2>4
    <3> QED BY <1>6, <2>3, <3>1
  <2>6. ASSUME NEW y \in Pos, n <= Dist(h, y), Dist(h, y) < Dist(h, p) PROVE t[y] # Empty
    <3>1. Dist(h, y) \in Int
      BY <1>1, <1>3, DistFacts DEF Pos
    <3>2. Dist(h, s) < Dist(h, y) /\ y # s
      BY <1>6, <2>6, <3>1
    <3>3. slots[y] # Empty
      BY <2>4, <2>6, <3>2
    <3> QED BY <1>7, <3>2, <3>3
  <2>7. Dist(h, x) < n
    BY <1>6, <2>2
  <2> QED BY <2>5, <2>6, <2>7 DEF InRun
<1>10. TypeOK'
  <2>1. Occupied' = {p \in Pos : t[p] # Empty}
    BY <1>2, <1>7 DEF Occupied
  <2>2. n \in Nat /\ slots[s] \in Entry \cup {Empty}
    BY <1>1, <1>4, <1>6
  <2> QED BY <1>1, <1>2, <1>7, <1>8, <2>1, <2>2 DEF TypeOK, Count
<1>11. Unique(slots)'
  BY <1>1, <1>2, <1>7 DEF Unique
<1>12. arg' \in Entry /\ ~Full(len)' /\ i' >= 1
  <2>1. 4 * (len - 1 + 1) <= 3 * cap
    BY <1>1
  <2> QED BY <1>1, <1>2, <1>4, <1>6, <2>1 DEF Full
<1>13. Broken(slots, Home(arg.key), i)' /\ RunEnds(slots, Home(arg.key), i)'
  <2> HIDE DEF t, n
  <2>1. Broken(slots, Home(arg.key), i)'
    BY <1>2, <1>7, <1>9 DEF Broken, InRun, OnPath, Dist, Home
  <2>2. RunEnds(slots, Home(arg.key), i)'
    BY <1>2, <1>5, <1>6, <1>7 DEF RunEnds, Dist
  <2> QED BY <2>1, <2>2
<1> QED BY <1>2, <1>10, <1>11, <1>12, <1>13 DEF IInv

\* The entry after the hole is taken out and put where its search ends: at the
\* hole or before it, or where it was.
LEMMA ReinsertPreserves ==
  ASSUME IInv, Reinsert
  PROVE  IInv'
<1> DEFINE h == Home(arg.key)
           q == Probe(h, i)
           e == slots[q]
           t == [slots EXCEPT ![q] = Empty]
           s == StopSlot(t, e.key)
           u == Inserted(t, e)
<1>1. /\ TypeOK /\ Unique(slots) /\ op = "discard" /\ old = <<>>
      /\ cap \in Nat /\ cap >= 2 /\ len \in Nat /\ len = Count(slots) /\ ~Full(len)
      /\ slots \in [Pos -> Entry \cup {Empty}]
      /\ i \in Nat /\ i >= 1 /\ i < cap /\ arg \in Entry
      /\ Broken(slots, h, i) /\ RunEnds(slots, h, i)
  BY LenNat DEF IInv, Reinsert, TypeOK
<1>2. h \in Pos
  BY <1>1, HomeInPos DEF Entry
<1>3. q \in Pos /\ Dist(h, q) = i
  BY <1>1, <1>2, ProbeFacts
<1>4. /\ cap' = cap /\ hash' = hash /\ kind' = kind /\ op' = op /\ old' = old /\ arg' = arg
      /\ i' = i + 1 /\ e # Empty /\ Insert(t, len - 1, e)
  BY DEF Reinsert, next
<1>5. /\ t \in [Pos -> Entry \cup {Empty}] /\ Count(t) = len - 1 /\ len - 1 \in Nat
      /\ t[q] = Empty /\ \A p \in Pos \ {q} : t[p] = slots[p]
  <2>1. t \in [Pos -> Entry \cup {Empty}] /\ Count(t) = len - 1
    BY <1>1, <1>3, <1>4, CountFacts
  <2>2. Count(t) \in Nat
    BY <1>1, <1>3, <2>1, CountFacts
  <2> QED BY <1>1, <1>3, <2>1, <2>2
<1>6. /\ e \in Entry /\ Home(e.key) \in Pos /\ Stops(t, e.key) # {} /\ Unique(t)
      /\ \A p \in Pos : t[p] # Empty => t[p].key # e.key
  <2> HIDE DEF t, q
  <2>1. e \in Entry
    BY <1>1, <1>3, <1>4
  <2>2. Home(e.key) \in Pos
    BY <1>1, <2>1, HomeInPos DEF Entry
  <2>3. Stops(t, e.key) # {}
    BY <1>3, <1>5 DEF Stops
  <2>4. Unique(t) /\ \A p \in Pos : t[p] # Empty => t[p].key # e.key
    BY <1>1, <1>3, <1>4, <1>5 DEF Unique
  <2> QED BY <2>1, <2>2, <2>3, <2>4
<1>7. slots' = u /\ len' = IF t[s] = Empty THEN len ELSE len - 1
  <2> HIDE DEF t, e
  <2>1. slots' = u /\ len' = IF t[s] = Empty THEN (len - 1) + 1 ELSE len - 1
    BY <1>4, <1>6 DEF Insert, Inserted
  <2> QED BY <1>1, <2>1
<1> HIDE DEF h, q, e, t
<1>8. /\ s \in Pos /\ u \in [Pos -> Entry \cup {Empty}]
      /\ u[s] = e /\ \A p \in Pos \ {s} : u[p] = t[p]
      /\ Unique(u) /\ t[s] = Empty
      /\ \A x \in Pos : OnPath(u, x, s) => t[x] # Empty /\ u[x] # Empty
  <2>1. s = StopSlot(t, e.key) /\ u = Inserted(t, e)
    OBVIOUS
  <2> HIDE DEF s, u
  <2>2. /\ s \in Pos /\ u \in [Pos -> Entry \cup {Empty}]
        /\ u[s] = e /\ \A p \in Pos \ {s} : u[p] = t[p]
        /\ t[s] = Empty \/ t[s].key = e.key
        /\ Unique(u)
        /\ \A x \in Pos : OnPath(u, x, s) => t[x] # Empty /\ u[x] # Empty
    BY SMTT(30), <1>1, <1>5, <1>6, <2>1, InsertFacts
  <2> QED BY <1>6, <2>2
<1>9. Count(u) = len /\ len' = len
  <2>1. Count(u) = Count(t) + 1
    <3>1. u = [t EXCEPT ![s] = e]
      BY DEF Inserted
    <3> HIDE DEF u, s
    <3>2. cap \in Nat /\ t \in [Pos -> Entry \cup {Empty}] /\ s \in Pos /\ e \in Entry /\ t[s] = Empty
      BY <1>1, <1>5, <1>6, <1>8
    <3>3. Count([t EXCEPT ![s] = e]) = Count(t) + 1
      BY <3>2, CountFacts
    <3> QED BY <3>1, <3>3
  <2> QED BY <1>1, <1>5, <1>7, <1>8, <2>1
<1> HIDE DEF s, u
\* The hole that the entry goes to, if any, is behind.
<1>10. s # q => slots[s] = Empty /\ Dist(h, s) < i
  <2> SUFFICES ASSUME s # q PROVE slots[s] = Empty /\ Dist(h, s) < i
    OBVIOUS
  <2>1. slots[s] = Empty
    BY <1>5, <1>8
  <2>2. OnPath(slots, s, q)
    <3>1. ~(Dist(Home(e.key), q) < Dist(Home(e.key), s))
      BY <1>3, <1>5, <1>8 DEF OnPath
    <3>2. Dist(Home(e.key), q) \in Pos /\ Dist(Home(e.key), s) \in Pos /\ Dist(Home(e.key), q) # Dist(Home(e.key), s)
      BY <1>1, <1>3, <1>6, <1>8, DistFacts
    <3> QED BY <3>1, <3>2 DEF OnPath, Pos, e
  <2>3. Dist(h, s) < i
    BY <1>1, <1>3, <1>4, <1>8, <2>1, <2>2 DEF Broken, e
  <2> QED BY <2>1, <2>3
<1>11. PICK z \in Pos : slots[z] = Empty /\ i < Dist(h, z) /\ z # q /\ z # s
  <2>1. PICK z \in Pos : slots[z] = Empty /\ i <= Dist(h, z)
    BY <1>1 DEF RunEnds
  <2>2. z # q
    BY <1>4, <2>1 DEF e
  <2>3. Dist(h, z) \in Pos /\ Dist(h, z) # i /\ Dist(h, s) \in Pos
    BY <1>1, <1>2, <1>3, <1>8, <2>2, DistFacts
  <2>4. z # s
    BY <1>1, <1>10, <2>1, <2>2, <2>3 DEF Pos
  <2> QED BY <1>1, <2>1, <2>2, <2>3, <2>4 DEF Pos
<1>12. ASSUME NEW p \in Pos, NEW x \in Pos, u[p] # Empty, OnPath(u, x, p), u[x] = Empty
       PROVE  Dist(h, x) < i + 1 /\ InRun(u, h, i + 1, p)
  <2>1. p # s /\ x # s
    BY <1>4, <1>8, <1>12
  <2>2. p # q /\ slots[p] # Empty /\ OnPath(slots, x, p)
    <3>1. p # q /\ slots[p] = u[p]
      BY <1>5, <1>8, <1>12, <2>1
    <3> QED BY <1>12, <3>1 DEF OnPath
  <2>3. /\ Dist(h, p) \in Int /\ Dist(h, p) # i /\ Dist(h, x) \in Int
        /\ \A y \in Pos : Dist(h, y) \in Int
        /\ Home(slots[p].key) \in Pos
    <3>1. Dist(h, p) \in Pos /\ Dist(h, p) # Dist(h, q) /\ \A y \in Pos : Dist(h, y) \in Pos
      BY <1>1, <1>2, <1>3, <2>2, DistFacts
    <3>2. slots[p].key \in Key
      BY <1>1, <2>2 DEF Entry
    <3> QED BY <1>1, <1>3, <3>1, <3>2, HomeInPos DEF Pos
  <2>4. \A y \in Pos : y # q /\ y # s => u[y] = slots[y]
    BY <1>5, <1>8
  <2>5. \A y \in Pos : slots[y] # Empty /\ y # q => u[y] # Empty
    BY <1>4, <1>8, <2>4
  <2>6. CASE x # q
    <3>1. slots[x] = Empty
      BY <1>12, <2>1, <2>4, <2>6
    <3>2. Dist(h, x) < i /\ InRun(slots, h, i, p)
      BY <1>1, <2>2, <3>1 DEF Broken
    <3>3. i + 1 <= Dist(h, p) /\ Dist(h, x) < i + 1
      BY <1>1, <2>3, <3>2 DEF InRun
    <3>4. ASSUME NEW y \in Pos, i + 1 <= Dist(h, y), Dist(h, y) < Dist(h, p) PROVE u[y] # Empty
      <4>1. i <= Dist(h, y) /\ y # q
        BY <1>1, <1>3, <2>3, <3>4
      <4>2. slots[y] # Empty
        BY <3>2, <3>4, <4>1 DEF InRun
      <4> QED BY <2>5, <4>1, <4>2
    <3> QED BY <3>3, <3>4 DEF InRun
  <2>7. CASE x = q
    <3>1. ASSUME NEW y \in Pos, i < Dist(h, y), slots[y] = Empty,
                 Dist(h, p) < i \/ Dist(h, y) < Dist(h, p)
          PROVE  FALSE
      <4>1. OnPath(slots, y, p)
        BY <1>1, <1>2, <1>3, <2>2, <2>3, <2>7, <3>1, Between DEF OnPath
      <4>2. Dist(h, y) < i
        BY <1>1, <2>2, <3>1, <4>1 DEF Broken
      <4> QED BY <1>1, <2>3, <3>1, <4>2
    <3>2. i + 1 <= Dist(h, p)
      <4>1. ~(Dist(h, p) < i)
        BY <1>11, <3>1
      <4> QED BY <1>1, <2>3, <4>1
    <3>3. ASSUME NEW y \in Pos, i + 1 <= Dist(h, y), Dist(h, y) < Dist(h, p) PROVE u[y] # Empty
      <4>1. i < Dist(h, y) /\ y # q
        BY <1>1, <1>3, <2>3, <3>3
      <4>2. slots[y] # Empty
        BY <3>1, <3>3, <4>1
      <4> QED BY <2>5, <4>1, <4>2
    <3>4. Dist(h, x) < i + 1
      BY <1>1, <1>3, <2>7
    <3> QED BY <3>2, <3>3, <3>4 DEF InRun
  <2> QED BY <2>6, <2>7
<1>13. Pos' = Pos /\ \A j : Home(j)' = Home(j) /\ Home(arg.key)' = h
  BY <1>4 DEF Pos, Home, h
<1>14. TypeOK'
  <2>1. Occupied' = {p \in Pos : u[p] # Empty}
    BY <1>7, <1>13 DEF Occupied
  <2> QED BY <1>1, <1>4, <1>7, <1>8, <1>9, <1>13, <2>1 DEF TypeOK, Count
<1>15. Unique(slots)'
  BY <1>7, <1>8, <1>13 DEF Unique
<1>16. ~Full(len)' /\ i' >= 1
  BY <1>1, <1>4, <1>9 DEF Full
<1>17. Broken(slots, Home(arg.key), i)'
  BY <1>4, <1>7, <1>12, <1>13 DEF Broken, InRun, OnPath, Dist
<1>18. RunEnds(slots, Home(arg.key), i)'
  <2>1. u[z] = Empty /\ Dist(h, z) \in Pos
    BY <1>1, <1>2, <1>5, <1>8, <1>11, DistFacts
  <2>2. i + 1 <= Dist(h, z)
    BY <1>1, <1>11, <2>1 DEF Pos
  <2> QED BY <1>4, <1>7, <1>13, <2>1, <2>2 DEF RunEnds, Dist
<1> QED BY <1>1, <1>4, <1>14, <1>15, <1>16, <1>17, <1>18 DEF IInv

\* At the end of the run no free slot is left on any path.
LEMMA DiscardEndPreserves ==
  ASSUME IInv, DiscardEnd
  PROVE  IInv'
<1> DEFINE h == Home(arg.key)
<1>1. /\ TypeOK /\ Unique(slots) /\ op = "discard"
      /\ cap \in Nat /\ cap >= 2 /\ len \in Nat /\ ~Full(len)
      /\ i \in Nat /\ i >= 1 /\ arg \in Entry /\ Broken(slots, h, i)
      /\ i >= cap \/ slots[Probe(h, i)] = Empty
  BY LenNat DEF IInv, DiscardEnd, TypeOK, next
<1>2. /\ cap' = cap /\ hash' = hash /\ kind' = kind /\ slots' = slots /\ len' = len
      /\ op' = "idle" /\ old' = <<>> /\ i' = 0 /\ arg' = Empty
  BY DEF DiscardEnd, Rest
<1>3. h \in Pos
  BY <1>1, HomeInPos DEF Entry
<1> HIDE DEF h
<1>4. Reachable(slots)
  <2> SUFFICES ASSUME NEW p \in Pos, NEW x \in Pos, slots[p] # Empty, OnPath(slots, x, p), slots[x] = Empty
               PROVE  FALSE
    BY DEF Reachable
  <2>1. InRun(slots, h, i, p)
    BY <1>1 DEF Broken
  <2>2. Dist(h, p) \in Nat /\ Dist(h, p) < cap
    <3>1. Dist(h, p) \in Pos
      BY <1>1, <1>3, DistFacts
    <3> QED BY <1>1, <3>1 DEF Pos
  <2>3. i < cap
    BY <1>1, <2>1, <2>2 DEF InRun
  <2>4. slots[Probe(h, i)] = Empty
    BY <1>1, <2>3, <2>2
  <2>5. Probe(h, i) \in Pos /\ Dist(h, Probe(h, i)) = i
    BY <1>1, <1>3, <2>3, ProbeFacts
  <2>6. p # Probe(h, i)
    BY <2>4
  <2>7. Dist(h, p) # i
    BY <1>1, <1>3, <2>5, <2>6, DistFacts
  <2>8. Dist(h, Probe(h, i)) < Dist(h, p)
    BY <1>1, <2>1, <2>2, <2>5, <2>7 DEF InRun
  <2> QED BY <1>1, <2>1, <2>4, <2>5, <2>8 DEF InRun
<1>5. Pos' = Pos /\ \A k : Home(k)' = Home(k)
  BY <1>2 DEF Pos, Home
<1>6. TypeOK'
  BY <1>1, <1>2, <1>5 DEF TypeOK, Occupied
<1>7. Unique(slots)' /\ Reachable(slots)'
  BY <1>1, <1>2, <1>4, <1>5 DEF Unique, Reachable, OnPath, Dist
<1>8. 4 * len' <= 3 * cap'
  BY <1>1, <1>2 DEF Full
<1> QED BY <1>2, <1>6, <1>7, <1>8 DEF IInv

LEMMA NextPreserves ==
  ASSUME IInv, [Next]_vars
  PROVE  IInv'
<1>1. CASE UNCHANGED vars
  <2>1. Pos' = Pos /\ \A k : Home(k)' = Home(k)
    BY <1>1 DEF vars, Pos, Home
  <2>2. \A a, b : Dist(a, b)' = Dist(a, b)
    BY <1>1 DEF vars, Dist
  <2>3. TypeOK' /\ Unique(slots)'
    BY <1>1, <2>1 DEF IInv, vars, TypeOK, Occupied, Unique
  <2>4. /\ Reachable(slots)' <=> Reachable(slots)
        /\ Broken(slots, Home(arg.key), i)' <=> Broken(slots, Home(arg.key), i)
        /\ RunEnds(slots, Home(arg.key), i)' <=> RunEnds(slots, Home(arg.key), i)
    BY <1>1, <2>1, <2>2 DEF vars, Reachable, Broken, RunEnds, InRun, OnPath
  <2>5. (Growing' <=> Growing) /\ (Apart' <=> Apart) /\ (Full(len)' <=> Full(len))
    BY <1>1, <2>1 DEF vars, Growing, Apart, Full
  <2> QED BY <1>1, <2>3, <2>4, <2>5 DEF IInv, vars
<1>2. ASSUME NEW k \in Key, NEW v \in Values, Call([key |-> k, val |-> v]) PROVE IInv'
  <2>1. [key |-> k, val |-> v] \in Entry
    BY <1>2, HashTableAssumption DEF Entry, Values
  <2> QED BY <1>2, <2>1, PutPreserves, GrowPreserves DEF Call
<1>3. ASSUME NEW k \in Key, Discard(k) PROVE IInv'
  BY <1>3, DiscardPreserves
<1>4. CASE Clear
  BY <1>4, ClearPreserves
<1>5. CASE Inner
  BY <1>5, MovePreserves, PutAfterGrowPreserves, ReinsertPreserves, DiscardEndPreserves DEF Inner
<1> QED BY <1>1, <1>2, <1>3, <1>4, <1>5 DEF Next

\* What the invariant says of the table when no loop is in it.
LEMMA IdleTable ==
  ASSUME IInv, op = "idle"
  PROVE  /\ len < cap
         /\ LookupIsExact
<1>1. /\ TypeOK /\ Unique(slots) /\ Reachable(slots) /\ old = <<>> /\ 4 * len <= 3 * cap
      /\ cap \in Nat /\ cap >= 2 /\ len \in Nat /\ len = Count(slots)
      /\ slots \in [Pos -> Entry \cup {Empty}]
  BY LenNat DEF IInv, TypeOK
<1>2. len < cap
  BY <1>1
<1>3. Content = {slots[p] : p \in Pos} \ {Empty}
  <2>1. DOMAIN old = {}
    BY <1>1
  <2> QED BY <2>1 DEF Content
<1>4. ASSUME NEW k \in Key
      PROVE  Stops(slots, k) # {} /\ {e \in Content : e.key = k} = {slots[StopSlot(slots, k)]} \ {Empty}
  <2> DEFINE s == StopSlot(slots, k)
  <2>1. Stops(slots, k) # {} /\ Home(k) \in Pos
    BY <1>1, <1>2, FreeSlot, HomeInPos DEF Count
  <2>2. s \in Pos /\ (slots[s] = Empty \/ slots[s].key = k)
    BY <1>1, <2>1, StopFacts
  <2>3. ASSUME NEW p \in Pos, slots[p] # Empty, slots[p].key = k PROVE p = s
    <3>1. ~(Dist(Home(k), p) < Dist(Home(k), s))
      BY <1>1, <2>1, <2>3, StopFacts
    <3>2. ~(Dist(Home(k), s) < Dist(Home(k), p)) \/ slots[s] # Empty
      BY <1>1, <2>2, <2>3 DEF Reachable, OnPath
    <3> HIDE DEF s
    <3>3. Dist(Home(k), p) \in Pos /\ Dist(Home(k), s) \in Pos /\ (Dist(Home(k), p) = Dist(Home(k), s) => p = s)
      BY <1>1, <2>1, <2>2, DistFacts
    <3>4. CASE slots[s] = Empty
      BY <3>1, <3>2, <3>3, <3>4 DEF Pos
    <3>5. CASE slots[s] # Empty
      BY <1>1, <2>2, <2>3, <3>5 DEF Unique
    <3> QED BY <3>4, <3>5
  <2> HIDE DEF s
  <2>4. {e \in Content : e.key = k} \subseteq {slots[s]} \ {Empty}
    BY <1>3, <2>3
  <2>5. {slots[s]} \ {Empty} \subseteq {e \in Content : e.key = k}
    BY <1>3, <2>2
  <2> QED BY <2>1, <2>4, <2>5 DEF s
<1> QED BY <1>2, <1>4 DEF LookupIsExact

LEMMA FreeAlways == IInv => NeverFull
<1> SUFFICES ASSUME IInv PROVE NeverFull
  OBVIOUS
<1>1. /\ TypeOK /\ cap \in Nat /\ cap >= 2 /\ len \in Nat /\ len = Count(slots) /\ i \in Nat
      /\ slots \in [Pos -> Entry \cup {Empty}] /\ op \in {"idle", "grow", "discard"}
  BY LenNat DEF IInv, TypeOK
<1>2. op = "grow" => len < cap /\ (i \in DOMAIN old => ~Full(len))
  <2> SUFFICES ASSUME op = "grow" PROVE len < cap /\ (i \in DOMAIN old => ~Full(len))
    OBVIOUS
  <2>1. PICK n \in Nat : /\ n >= 2 /\ cap = 2 * n /\ old \in [0 .. n - 1 -> Entry \cup {Empty}]
                         /\ i <= n /\ len <= i
    BY DEF IInv, Growing
  <2>2. i \in DOMAIN old => i < n
    BY <1>1, <2>1
  <2>3. len < cap
    BY <1>1, <2>1
  <2>4. i \in DOMAIN old => ~Full(len)
    BY <1>1, <2>1, <2>2 DEF Full
  <2> QED BY <2>3, <2>4
<1>3. op = "discard" => len < cap /\ ~Full(len)
  BY <1>1 DEF IInv, Full
<1>4. len < cap
  BY <1>1, <1>2, <1>3, IdleTable
<1>5. Stops(slots, arg.key) # {}
  BY <1>1, <1>4, FreeSlot DEF Count
<1> QED BY <1>2, <1>3, <1>4, <1>5 DEF NeverFull

-----------------------------------------------------------------------------
LEMMA Invariance == Spec => []IInv
<1>1. Init => IInv
  BY InitHolds
<1>2. IInv /\ [Next]_vars => IInv'
  BY NextPreserves
<1> QED BY <1>1, <1>2, PTL DEF Spec

\* Tables are well formed and len is the number of occupied slots, which the
\* load factor and the language's len() rely on.
THEOREM TableTypeCorrect == Spec => []TypeOK
<1>1. IInv => TypeOK
  BY DEF IInv
<1> QED BY <1>1, Invariance, PTL

\* spy_map_get, spy_map_contains, spy_set_contains: a key is found exactly when
\* it is in the table, after any sequence of insertions, growths and discards.
THEOREM LookupsAreExact == Spec => []LookupIsExact
<1>1. IInv => LookupIsExact
  BY IdleTable DEF LookupIsExact, Idle
<1> QED BY <1>1, Invariance, PTL

\* spy_map_set, spy_set_add: there is always a slot for the key, and the loops of
\* resize and discard never start a growth themselves.
THEOREM TablesAreNeverFull == Spec => []NeverFull
BY Invariance, FreeAlways, PTL

-----------------------------------------------------------------------------
\* The table implements the store.

Entries(t) == {t[p] : p \in Pos} \ {Empty}

\* The entries growth has still to move.
Waiting == {old[j] : j \in {n \in DOMAIN old : n >= i}} \ {Empty}

LEMMA ContentSplit == Content = Entries(slots) \cup Waiting
BY DEF Content, Entries, Waiting

LEMMA EntriesInserted ==
  ASSUME cap \in Nat, NEW t \in [Pos -> Entry \cup {Empty}],
         NEW e \in Entry, Home(e.key) \in Pos,
         Unique(t), Stops(t, e.key) # {},
         \A p, x \in Pos : t[p] # Empty /\ t[p].key = e.key /\ OnPath(t, x, p) => t[x] # Empty
  PROVE  Entries(Inserted(t, e)) = {x \in Entries(t) : x.key # e.key} \cup {e}
<1> DEFINE s == StopSlot(t, e.key)
           u == Inserted(t, e)
<1>1. /\ s \in Pos /\ u \in [Pos -> Entry \cup {Empty}]
      /\ u[s] = e /\ \A p \in Pos \ {s} : u[p] = t[p]
      /\ t[s] = Empty \/ t[s].key = e.key
      /\ Unique(u)
  <2>1. s = StopSlot(t, e.key) /\ u = Inserted(t, e)
    OBVIOUS
  <2> HIDE DEF s, u
  <2>2. /\ s \in Pos /\ u \in [Pos -> Entry \cup {Empty}]
        /\ u[s] = e /\ \A p \in Pos \ {s} : u[p] = t[p]
        /\ t[s] = Empty \/ t[s].key = e.key
        /\ Unique(u)
        /\ \A x \in Pos : OnPath(u, x, s) => t[x] # Empty /\ u[x] # Empty
    BY <2>1, InsertFacts
  <2> QED BY <2>2
<1>2. e # Empty
  BY HashTableAssumption
<1> HIDE DEF s, u
<1>3. Entries(u) \subseteq {x \in Entries(t) : x.key # e.key} \cup {e}
  BY <1>1, <1>2 DEF Entries, Unique
<1>4. {x \in Entries(t) : x.key # e.key} \cup {e} \subseteq Entries(u)
  BY <1>1, <1>2 DEF Entries
<1> QED BY <1>3, <1>4 DEF u

\* The content after an insertion into a table in which every entry is reached.
LEMMA ContentInserted ==
  ASSUME TypeOK, Unique(slots), Reachable(slots), len < cap,
         NEW e \in Entry, Insert(slots, len, e), cap' = cap
  PROVE  Entries(slots)' = {x \in Entries(slots) : x.key # e.key} \cup {e}
<1>1. /\ cap \in Nat /\ slots \in [Pos -> Entry \cup {Empty}] /\ e.key \in Key /\ Home(e.key) \in Pos
      /\ len = Count(slots)
  BY HomeInPos, LenNat DEF TypeOK, Entry
<1>2. Stops(slots, e.key) # {}
  BY <1>1, FreeSlot DEF Count
<1>3. slots' = Inserted(slots, e)
  BY <1>2 DEF Insert, Inserted
<1>4. Entries(slots)' = Entries(slots')
  BY DEF Entries, Pos
<1>5. \A p, x \in Pos : slots[p] # Empty /\ slots[p].key = e.key /\ OnPath(slots, x, p) => slots[x] # Empty
  BY DEF Reachable
<1> QED BY <1>1, <1>2, <1>3, <1>4, <1>5, EntriesInserted

LEMMA InitIsStore == Init => Store!Init
<1> SUFFICES ASSUME Init PROVE Store!Init
  OBVIOUS
<1>1. DOMAIN old = {} /\ op = "idle" /\ \A p \in Pos : slots[p] = Empty
  BY DEF Init
<1>2. Content = {}
  BY <1>1 DEF Content
<1> QED BY <1>1, <1>2 DEF Store!Init

LEMMA CallIsStore ==
  ASSUME IInv, NEW e \in Entry, Call(e)
  PROVE  Store!Next
<1>1. /\ TypeOK /\ Unique(slots) /\ Reachable(slots) /\ op = "idle" /\ old = <<>>
      /\ slots \in [0 .. cap - 1 -> Entry \cup {Empty}] /\ cap \in Nat /\ len < cap
  BY IdleTable DEF IInv, Call, Put, Grow, Idle, TypeOK, Pos
<1>2. Waiting = {} /\ Content = Entries(slots)
  <2>1. DOMAIN old = {}
    BY <1>1
  <2> QED BY <2>1, ContentSplit DEF Waiting
<1>3. CASE Put(e)
  <2>1. Insert(slots, len, e) /\ cap' = cap /\ op' = "idle" /\ old' = <<>>
    BY <1>1, <1>3 DEF Put
  <2>2. Content' = Entries(slots)'
    <3>1. DOMAIN old' = {}
      BY <2>1
    <3> QED BY <3>1 DEF Content, Entries
  <2>3. Content' = {x \in Content : x.key # e.key} \cup {e}
    BY <1>1, <1>2, <2>1, <2>2, ContentInserted
  <2>4. Store!Put(e)
    BY <1>1, <2>1, <2>3 DEF Store!Put, Store!Free, Store!Others
  <2> QED BY <2>4 DEF Store!Next, Entry
<1>4. CASE Grow(e)
  <2>1. /\ slots' = [p \in 0 .. 2 * cap - 1 |-> Empty] /\ cap' = 2 * cap
        /\ op' = "grow" /\ old' = slots /\ i' = 0 /\ arg' = e
    BY <1>4 DEF Grow
  <2>2. \A p \in Pos' : slots'[p] = Empty
    BY <2>1 DEF Pos
  <2>3. {n \in DOMAIN old' : n >= i'} = Pos
    BY <1>1, <2>1 DEF Pos
  <2>4. Content' = Content
    BY <1>2, <2>1, <2>2, <2>3 DEF Content, Entries
  <2>5. Store!BeginPut(e)
    BY <1>1, <2>1, <2>4 DEF Store!BeginPut, Store!Free
  <2> QED BY <2>5 DEF Store!Next, Entry
<1> QED BY <1>3, <1>4 DEF Call

LEMMA MoveIsStutter ==
  ASSUME IInv, Move
  PROVE  UNCHANGED Store!vars
<1>1. /\ TypeOK /\ Unique(slots) /\ Reachable(slots) /\ Apart /\ op = "grow"
      /\ i \in DOMAIN old /\ i \in Nat /\ cap' = cap /\ op' = op /\ old' = old /\ arg' = arg
      /\ i' = i + 1
  BY DEF IInv, Move, TypeOK
<1>2. PICK n \in Nat : old \in [0 .. n - 1 -> Entry \cup {Empty}]
  BY <1>1 DEF IInv, Growing
<1>3. Waiting = (Waiting' \cup {old[i]}) \ {Empty}
  <2>1. {m \in DOMAIN old : m >= i} = {m \in DOMAIN old : m >= i + 1} \cup {i}
    BY <1>1, <1>2
  <2> QED BY <1>1, <2>1 DEF Waiting
<1> DEFINE after == Entries(slots)' \cup Waiting'
<1>4. Content = Entries(slots) \cup Waiting /\ Content' = after
  BY ContentSplit DEF Content, Entries, Waiting
<1>5. CASE old[i] = Empty
  <2>1. slots' = slots
    BY <1>5 DEF Move
  <2>2. Entries(slots)' = Entries(slots) /\ Waiting' = Waiting
    <3>1. Empty \notin Waiting'
      BY DEF Waiting
    <3> QED BY <1>1, <1>3, <1>5, <2>1, <3>1 DEF Entries, Pos
  <2> QED BY <1>1, <1>4, <2>2 DEF Store!vars
<1>6. CASE old[i] # Empty
  <2>1. Insert(slots, len, old[i]) /\ old[i] \in Entry /\ len < cap
    BY <1>1, <1>2, <1>6, FreeAlways DEF Move, NeverFull
  <2>2. Entries(slots)' = {x \in Entries(slots) : x.key # old[i].key} \cup {old[i]}
    BY <1>1, <2>1, ContentInserted
  <2>3. \A x \in Entries(slots) : x.key # old[i].key
    BY <1>1, <1>6 DEF Entries, Apart
  <2>4. Empty \notin Waiting' /\ Empty \notin Entries(slots)
    BY DEF Waiting, Entries
  <2>5. Entries(slots)' \cup Waiting' = Entries(slots) \cup Waiting
    BY <1>3, <1>6, <2>2, <2>3, <2>4
  <2> QED BY <1>1, <1>4, <2>5 DEF Store!vars
<1> QED BY <1>5, <1>6

LEMMA PutAfterGrowIsPut ==
  ASSUME IInv, PutAfterGrow
  PROVE  Store!Next
<1>1. /\ TypeOK /\ Unique(slots) /\ Reachable(slots) /\ op = "grow"
      /\ i \notin DOMAIN old /\ i \in Nat /\ len < cap
      /\ cap' = cap /\ op' = "idle" /\ old' = <<>> /\ Insert(slots, len, arg)
  BY FreeAlways DEF IInv, PutAfterGrow, TypeOK, Rest, NeverFull
<1>2. PICK n \in Nat : old \in [0 .. n - 1 -> Entry \cup {Empty}] /\ i <= n /\ arg \in Entry
  BY <1>1 DEF IInv, Growing
<1>3. {m \in DOMAIN old : m >= i} = {} /\ DOMAIN old' = {}
  BY <1>1, <1>2
<1>4. Content = Entries(slots) /\ Content' = Entries(slots)'
  BY <1>3 DEF Content, Entries
<1>5. Content' = {x \in Content : x.key # arg.key} \cup {arg}
  BY <1>1, <1>2, <1>4, ContentInserted
<1>6. Store!Put(arg)
  BY <1>1, <1>5 DEF Store!Put, Store!Others
<1> QED BY <1>2, <1>6 DEF Store!Next, Entry

LEMMA DiscardIsRemove ==
  ASSUME IInv, NEW k \in Key, Discard(k)
  PROVE  Store!Next
<1> DEFINE s == StopSlot(slots, k)
<1>1. /\ TypeOK /\ Unique(slots) /\ op = "idle" /\ old = <<>> /\ cap \in Nat
      /\ slots \in [Pos -> Entry \cup {Empty}] /\ cap' = cap /\ op' = "discard" /\ old' = old
      /\ slots' = [slots EXCEPT ![s] = Empty] /\ Stops(slots, k) # {} /\ slots[s] # Empty
  BY DEF IInv, Discard, Idle, TypeOK, Found
<1>2. s \in Pos /\ slots[s].key = k
  BY <1>1, HomeInPos, StopFacts
<1>3. Content = Entries(slots) /\ Content' = Entries(slots)'
  <2>1. DOMAIN old = {} /\ DOMAIN old' = {}
    BY <1>1
  <2> QED BY <2>1 DEF Content, Entries
<1> HIDE DEF s
<1>4. Content' = {x \in Content : x.key # k}
  <2>1. Pos' = Pos /\ \A p \in Pos \ {s} : slots'[p] = slots[p] /\ slots'[s] = Empty
    BY <1>1, <1>2 DEF Pos
  <2>2. slots'[s] = Empty
    BY <1>1, <1>2
  <2>3. \A p \in Pos \ {s} : slots[p] # Empty => slots[p].key # k
    BY <1>1, <1>2 DEF Unique
  <2> QED BY <1>1, <1>2, <1>3, <2>1, <2>2, <2>3 DEF Entries
<1>5. Store!Remove(k)
  BY <1>1, <1>4 DEF Store!Remove, Store!Free, Store!Others
<1> QED BY <1>5 DEF Store!Next

LEMMA ReinsertIsStutter ==
  ASSUME IInv, Reinsert
  PROVE  UNCHANGED Store!vars
<1> DEFINE h == Home(arg.key)
           q == Probe(h, i)
           e == slots[q]
           t == [slots EXCEPT ![q] = Empty]
<1>1. /\ TypeOK /\ Unique(slots) /\ op = "discard" /\ old = <<>> /\ cap \in Nat
      /\ slots \in [Pos -> Entry \cup {Empty}] /\ i \in Nat /\ i < cap /\ arg \in Entry
      /\ cap' = cap /\ op' = op /\ old' = old /\ e # Empty /\ Insert(t, len - 1, e)
  BY DEF IInv, Reinsert, TypeOK, next
<1>2. q \in Pos
  <2>1. h \in Pos
    BY <1>1, HomeInPos DEF Entry
  <2> QED BY <1>1, <2>1, ProbeFacts
<1> HIDE DEF q
<1>3. /\ t \in [Pos -> Entry \cup {Empty}] /\ e \in Entry /\ Home(e.key) \in Pos
      /\ Stops(t, e.key) # {} /\ Unique(t)
      /\ \A p \in Pos : t[p] # Empty => t[p].key # e.key
  <2>1. t \in [Pos -> Entry \cup {Empty}] /\ t[q] = Empty /\ \A p \in Pos \ {q} : t[p] = slots[p]
    BY <1>1, <1>2
  <2> HIDE DEF t
  <2>2. e \in Entry /\ Home(e.key) \in Pos
    BY <1>1, <1>2, HomeInPos DEF Entry
  <2>3. Stops(t, e.key) # {}
    BY <1>2, <2>1 DEF Stops
  <2>4. Unique(t) /\ \A p \in Pos : t[p] # Empty => t[p].key # e.key
    BY <1>1, <1>2, <2>1 DEF Unique
  <2> QED BY <2>1, <2>2, <2>3, <2>4
<1>4. slots' = Inserted(t, e)
  BY <1>1, <1>3 DEF Insert, Inserted
<1>5. Entries(t) = Entries(slots) \ {e}
  <2>1. t[q] = Empty /\ \A p \in Pos \ {q} : t[p] = slots[p] /\ (slots[p] # Empty => slots[p] # e)
    BY <1>1, <1>2, <1>3
  <2> HIDE DEF t
  <2> QED BY <1>2, <2>1 DEF Entries
<1>6. Entries(Inserted(t, e)) = {x \in Entries(t) : x.key # e.key} \cup {e}
  <2> HIDE DEF t, e
  <2> QED BY <1>1, <1>3, EntriesInserted
<1>7. Entries(slots)' = Entries(slots)
  <2>1. e \in Entries(slots)
    BY <1>1, <1>2 DEF Entries
  <2>2. \A x \in Entries(t) : x.key # e.key
    BY <1>3 DEF Entries
  <2>3. Entries(slots)' = Entries(slots')
    BY <1>1 DEF Entries, Pos
  <2> HIDE DEF t, e
  <2> QED BY <1>4, <1>5, <1>6, <2>1, <2>2, <2>3
<1>8. Content' = Content
  <2>1. DOMAIN old = {} /\ DOMAIN old' = {}
    BY <1>1
  <2> QED BY <1>7, <2>1 DEF Content, Entries
<1> QED BY <1>1, <1>8 DEF Store!vars

LEMMA NextIsStore ==
  ASSUME IInv, [Next]_vars
  PROVE  Store!Next \/ UNCHANGED Store!vars
<1>1. CASE UNCHANGED vars
  BY <1>1 DEF vars, Store!vars, Content, Pos
<1>2. ASSUME NEW k \in Key, NEW v \in Values, Call([key |-> k, val |-> v]) PROVE Store!Next
  <2>1. [key |-> k, val |-> v] \in Entry
    BY <1>2, HashTableAssumption DEF Entry, Values
  <2> QED BY <1>2, <2>1, CallIsStore
<1>3. ASSUME NEW k \in Key, Discard(k) PROVE Store!Next
  BY <1>3, DiscardIsRemove
<1>4. CASE Clear
  <2>1. op = "idle" /\ op' = "idle" /\ old = <<>> /\ old' = <<>>
    BY <1>4 DEF IInv, Clear, Idle
  <2>2. DOMAIN old' = {} /\ \A p \in Pos' : slots'[p] = Empty
    BY <1>4, <2>1 DEF Clear, Pos
  <2>3. Content' = {}
    BY <2>2 DEF Content
  <2>4. Store!Clear
    BY <2>1, <2>3 DEF Store!Clear, Store!Free
  <2> QED BY <2>4 DEF Store!Next
<1>5. CASE DiscardEnd
  <2>1. /\ op = "discard" /\ op' = "idle" /\ old = <<>> /\ old' = <<>>
        /\ slots' = slots /\ cap' = cap
    BY <1>5 DEF IInv, DiscardEnd, Rest
  <2>2. DOMAIN old = {} /\ DOMAIN old' = {}
    BY <2>1
  <2>3. Content' = Content
    BY <2>1, <2>2 DEF Content, Pos
  <2>4. Store!Return
    BY <2>1, <2>3 DEF Store!Return
  <2> QED BY <2>4 DEF Store!Next
<1>6. CASE Move \/ PutAfterGrow \/ Reinsert
  BY <1>6, MoveIsStutter, PutAfterGrowIsPut, ReinsertIsStutter
<1> QED BY <1>1, <1>2, <1>3, <1>4, <1>5, <1>6 DEF Next, Inner

\* The runtime's tables implement the dict and the set of the language: growth
\* and re-insertion change nothing, and each call changes the entry of its key,
\* once, and no other.
THEOREM TablesImplementStore == Spec => IsStore
<1>1. Init => Store!Init
  BY InitIsStore
<1>2. IInv /\ [Next]_vars => [Store!Next]_(Store!vars)
  BY NextIsStore
<1> QED BY <1>1, <1>2, Invariance, PTL DEF Spec, IsStore, Store!Spec

-----------------------------------------------------------------------------
\* A loop over the table.

\* The body has run for the watched key exactly if the index is past its slot,
\* as long as the loop is steady; then no loop of the table's own is under way.
LInv == /\ IInv
        /\ idx \in Nat
        /\ on /\ steady => /\ Idle
                           /\ \E p \in Occupied : /\ slots[p].key = watched
                                                  /\ runs = IF p < idx THEN 1 ELSE 0
        /\ SteadyLoopIsExact

LEMMA LoopInitHolds == LoopInit => LInv
BY InitHolds DEF LoopInit, LInv, SteadyLoopIsExact

\* The steps of a loop leave the table alone, or use it.
LEMMA LoopUsesTable == [LoopNext]_allVars => [Next]_vars
BY DEF LoopNext, LoopStart, LoopTurn, LoopEnd, Use, allVars

LEMMA LoopStartPreserves ==
  ASSUME LInv, LoopStart
  PROVE  LInv'
<1>1. IInv' /\ UNCHANGED vars
  BY NextPreserves DEF LInv, LoopStart
<1>2. idx' = 0 /\ runs' = 0 /\ on' /\ Idle
  BY DEF LoopStart
<1>3. old = <<>>
  BY <1>2 DEF LInv, IInv, Idle
<1>4. PICK e \in Content : watched' = e.key
  BY DEF LoopStart, Members
<1>5. DOMAIN old = {}
  BY <1>3
<1>6. PICK p \in Pos : slots[p] = e /\ e # Empty
  BY <1>4, <1>5 DEF Content
<1>7. p \in Occupied' /\ slots'[p].key = watched'
  BY <1>1, <1>4, <1>6 DEF vars, Occupied, Pos
<1>8. ~(p < idx') /\ Idle'
  BY <1>1, <1>2 DEF Pos, vars, Idle
<1> QED BY <1>1, <1>2, <1>7, <1>8 DEF LInv, SteadyLoopIsExact

LEMMA LoopTurnPreserves ==
  ASSUME LInv, LoopTurn
  PROVE  LInv'
<1>1. IInv' /\ UNCHANGED <<on, watched, steady, vars>> /\ on /\ Idle
  BY NextPreserves DEF LInv, LoopTurn
<1>2. PICK q \in Following : /\ \A r \in Following : q <= r
                             /\ runs' = IF slots[q].key = watched THEN runs + 1 ELSE runs
                             /\ idx' = q + 1
  BY DEF LoopTurn
<1>3. q \in Occupied /\ q \in Nat /\ idx \in Nat /\ q >= idx /\ cap \in Nat
  BY <1>2 DEF Following, Occupied, Pos, LInv, IInv, TypeOK
<1>4. ASSUME steady
      PROVE  \E p \in Occupied : slots[p].key = watched /\ runs' = IF p < idx' THEN 1 ELSE 0
  <2>1. PICK p \in Occupied : slots[p].key = watched /\ runs = IF p < idx THEN 1 ELSE 0
    BY <1>1, <1>4 DEF LInv
  <2>2. p \in Nat /\ p \in Pos /\ q \in Pos
    BY <1>3, <2>1 DEF Occupied, Pos
  <2>3. slots[q].key = watched => p = q
    BY <1>3, <2>1, <2>2 DEF Occupied, LInv, IInv, Unique
  <2>4. p >= idx => q <= p
    BY <1>2, <1>3, <2>1, <2>2 DEF Following
  <2>5. CASE p = q
    BY <1>2, <1>3, <2>1, <2>2, <2>5
  <2>6. CASE p # q
    BY <1>2, <1>3, <2>1, <2>2, <2>3, <2>4, <2>6
  <2> QED BY <2>5, <2>6
<1>5. Occupied' = Occupied /\ slots' = slots /\ Idle'
  BY <1>1 DEF vars, Occupied, Pos, Idle
<1> QED BY <1>1, <1>2, <1>3, <1>4, <1>5 DEF LInv, SteadyLoopIsExact

LEMMA LoopEndPreserves ==
  ASSUME LInv, LoopEnd
  PROVE  LInv'
<1>1. IInv' /\ UNCHANGED <<idx, watched, runs, steady, vars>> /\ on /\ ~on' /\ idx \in Nat
  BY NextPreserves DEF LInv, LoopEnd
<1>2. ASSUME steady PROVE runs = 1
  <2>1. PICK p \in Occupied : slots[p].key = watched /\ runs = IF p < idx THEN 1 ELSE 0
    BY <1>1, <1>2 DEF LInv
  <2>2. p < idx
    BY <1>1, <2>1 DEF LoopEnd, Following, Occupied, Pos
  <2> QED BY <2>1, <2>2
<1> QED BY <1>1, <1>2 DEF LInv, SteadyLoopIsExact

\* A use that keeps the loop steady is a put below the load factor: no entry
\* leaves its slot.
LEMMA SteadyUse ==
  ASSUME IInv, Next, Idle, cap' = cap, op' # "discard", len' >= len, Occupied # {}
  PROVE  \E e \in Entry : Put(e)
<1>1. /\ TypeOK /\ cap \in Nat /\ cap >= 2 /\ len \in Nat /\ len = Cardinality(Occupied)
  BY LenNat DEF IInv, TypeOK
<1>2. ~Inner /\ \A k \in Key : ~Discard(k)
  BY DEF Idle, Inner, Move, PutAfterGrow, Reinsert, DiscardEnd, Discard
<1>3. \A e : ~Grow(e)
  BY <1>1 DEF Grow
<1>4. ~Clear
  <2>1. IsFiniteSet(Occupied)
    <3>1. IsFiniteSet(Pos)
      BY <1>1, FS_Interval DEF Pos
    <3> QED BY <3>1, FS_Subset DEF Occupied
  <2>2. len # 0
    BY <1>1, <2>1, FS_EmptySet
  <2> QED BY <1>1, <2>2 DEF Clear
<1>5. PICK k \in Key, v \in Values : Put([key |-> k, val |-> v])
  BY <1>2, <1>3, <1>4 DEF Next, Call
<1>6. [key |-> k, val |-> v] \in Entry
  BY <1>5, HashTableAssumption DEF Entry, Values
<1> QED BY <1>5, <1>6

LEMMA UsePreserves ==
  ASSUME LInv, Use
  PROVE  LInv'
<1>1. IInv' /\ Next /\ IInv /\ idx \in Nat
  BY NextPreserves DEF LInv, Use
<1>2. CASE ~on
  <2>1. idx' = 0 /\ watched' = Empty /\ ~on'
    BY <1>2 DEF Use
  <2> QED BY <1>1, <2>1 DEF LInv, SteadyLoopIsExact
<1>3. CASE on
  <2>1. /\ steady' = (steady /\ cap' = cap /\ op' # "discard" /\ len' >= len)
        /\ on' = on /\ idx' = idx /\ watched' = watched /\ runs' = runs
    BY <1>3 DEF Use
  <2>2. ASSUME steady'
        PROVE  Idle' /\ \E p \in Occupied' : /\ slots'[p].key = watched'
                                             /\ runs' = IF p < idx' THEN 1 ELSE 0
    <3>1. steady /\ cap' = cap /\ op' # "discard" /\ len' >= len
      BY <2>1, <2>2
    <3>2. PICK p \in Occupied : slots[p].key = watched /\ runs = IF p < idx THEN 1 ELSE 0
      BY <1>3, <3>1 DEF LInv
    <3>3. Idle
      BY <1>3, <3>1 DEF LInv
    <3>4. PICK e \in Entry : Put(e)
      BY <1>1, <3>1, <3>2, <3>3, SteadyUse
    <3>5. /\ TypeOK /\ Unique(slots) /\ Reachable(slots) /\ cap \in Nat /\ cap >= 2
          /\ slots \in [Pos -> Entry \cup {Empty}]
      BY <1>1, <3>3 DEF IInv, Idle, TypeOK
    <3>6. Stops(slots, e.key) # {} /\ Home(e.key) \in Pos
      <4>1. len < cap /\ len = Count(slots)
        BY <1>1, <3>3, <3>5, IdleTable, LenNat DEF Idle
      <4>2. e.key \in Key
        BY DEF Entry
      <4> QED BY <3>5, <4>1, <4>2, FreeSlot, HomeInPos DEF Count
    <3>7. slots' = Inserted(slots, e) /\ op' = op
      BY <3>4, <3>6 DEF Put, Insert, Inserted
    <3> DEFINE s == StopSlot(slots, e.key)
    <3>8. /\ Inserted(slots, e)[s] = e /\ \A x \in Pos \ {s} : Inserted(slots, e)[x] = slots[x]
          /\ slots[s] = Empty \/ slots[s].key = e.key
      BY <3>5, <3>6, InsertFacts DEF Reachable
    <3> HIDE DEF s
    <3>9. p \in Pos /\ slots[p] # Empty /\ Pos' = Pos
      BY <3>1, <3>2 DEF Occupied, Pos
    <3>10. slots'[p].key = slots[p].key /\ slots'[p] # Empty
      BY <3>4, <3>7, <3>8, <3>9, HashTableAssumption
    <3>11. p \in Occupied'
      BY <3>9, <3>10 DEF Occupied
    <3>12. Idle'
      BY <3>3, <3>7 DEF Idle
    <3> QED BY <2>1, <3>2, <3>10, <3>11, <3>12
  <2> QED BY <1>1, <1>3, <2>1, <2>2 DEF LInv, SteadyLoopIsExact
<1> QED BY <1>2, <1>3

LEMMA LoopInvariance == LoopSpec => []LInv
<1>1. ASSUME LInv, [LoopNext]_allVars PROVE LInv'
  <2>1. CASE UNCHANGED allVars
    <3>1. IInv' /\ Occupied' = Occupied /\ Idle' = Idle
      BY <1>1, <2>1, NextPreserves DEF LInv, allVars, vars, Occupied, Pos, Idle
    <3> QED BY <1>1, <2>1, <3>1 DEF LInv, SteadyLoopIsExact, allVars, loop, vars
  <2>2. CASE LoopNext
    BY <1>1, <2>2, LoopStartPreserves, LoopTurnPreserves, LoopEndPreserves, UsePreserves DEF LoopNext
  <2> QED BY <1>1, <2>1, <2>2
<1> QED BY <1>1, LoopInitHolds, PTL DEF LoopSpec

\* A for loop over a dict or a set during which the table neither grows nor loses
\* an entry runs its body exactly once for every key that was there when it
\* began, whatever the body puts meanwhile.
THEOREM SteadyLoopsAreExact == LoopSpec => []SteadyLoopIsExact
<1>1. LInv => SteadyLoopIsExact
  BY DEF LInv
<1> QED BY <1>1, LoopInvariance, PTL

\* What is proved of a table used in any order holds of one that loops use.
THEOREM LoopsUseTables == LoopSpec => Spec
<1>1. LoopInit => Init
  BY DEF LoopInit
<1> QED BY <1>1, LoopUsesTable, PTL DEF LoopSpec, Spec
-----------------------------------------------------------------------------
(* Generators *)

\* Sequences, of whatever elements.
IsSeq(s) == \E S : s \in Seq(S)

LEMMA SeqShape ==
  ASSUME NEW s, IsSeq(s)
  PROVE  Len(s) \in Nat /\ DOMAIN s = 1..Len(s) /\ (s = <<>> <=> Len(s) = 0)
<1>1. PICK S : s \in Seq(S)
  BY DEF IsSeq
<1> QED
  BY <1>1

LEMMA SeqAppend ==
  ASSUME NEW s, IsSeq(s), NEW e
  PROVE  /\ IsSeq(Append(s, e)) /\ Len(Append(s, e)) = Len(s) + 1
         /\ \A j \in 1..Len(s) : Append(s, e)[j] = s[j]
         /\ Append(s, e)[Len(s) + 1] = e
<1>1. PICK S : s \in Seq(S)
  BY DEF IsSeq
<1> DEFINE T == S \cup {e}
<1>2. s \in Seq(T) /\ e \in T
  BY <1>1, SeqMonotonic
<1> HIDE DEF T
<1> QED
  BY <1>2, AppendProperties DEF IsSeq

LEMMA SeqPrefix ==
  ASSUME NEW s, IsSeq(s), NEW n \in 0..Len(s)
  PROVE  /\ IsSeq(SubSeq(s, 1, n)) /\ Len(SubSeq(s, 1, n)) = n
         /\ \A j \in 1..n : SubSeq(s, 1, n)[j] = s[j]
<1>1. PICK S : s \in Seq(S)
  BY DEF IsSeq
<1>2. Len(s) \in Nat /\ \A j \in 1..n : s[j] \in S
  BY <1>1
<1>3. 1 \in Int /\ n \in Int /\ n - 1 + 1 = n /\ (~(1 <= n) => n = 0)
  BY <1>2
<1>4. /\ SubSeq(s, 1, n) \in Seq(S)
      /\ Len(SubSeq(s, 1, n)) = IF 1 <= n THEN n - 1 + 1 ELSE 0
  BY <1>2, <1>3, SubSeqProperties
<1>5. \A j \in 1..n : SubSeq(s, 1, n)[j] = s[j]
  BY <1>3, <1>4
<1> QED
  BY <1>3, <1>4, <1>5 DEF IsSeq

LEMMA SeqFront ==
  ASSUME NEW s, IsSeq(s), s # <<>>
  PROVE  /\ IsSeq(Front(s)) /\ Len(Front(s)) = Len(s) - 1
         /\ \A j \in 1..(Len(s) - 1) : Front(s)[j] = s[j]
<1>1. Len(s) \in Nat /\ Len(s) - 1 \in 0..Len(s)
  BY SeqShape
<1> QED
  BY <1>1, SeqPrefix DEF Front

\* A sequence with other elements in its places.
LEMMA SeqChanged ==
  ASSUME NEW s, IsSeq(s), NEW t, t = [j \in DOMAIN s |-> t[j]]
  PROVE  IsSeq(t) /\ Len(t) = Len(s)
<1>1. Len(s) \in Nat /\ DOMAIN s = 1..Len(s)
  BY SeqShape
<1> DEFINE T == {t[j] : j \in DOMAIN s}
<1>2. t \in [1..Len(s) -> T]
  BY <1>1
<1>3. t \in Seq(T) /\ Len(t) = Len(s)
  BY <1>1, <1>2
<1> QED
  BY <1>3 DEF IsSeq

\* Counting up.
LEMMA LeastNat ==
  ASSUME NEW T \in SUBSET Nat, T # {}
  PROVE  \E x \in T : \A y \in T : x <= y
<1> DEFINE R == OpToRel(<, Nat)
<1>1. IsWellFoundedOn(R, Nat)
  BY NatLessThanWellFounded
<1>2. \A x, y \in Nat : x < y => <<x, y>> \in R
  BY DEF OpToRel
<1> HIDE DEF R
<1>3. PICK x \in T : \A y \in T : ~(<<y, x>> \in R)
  BY <1>1, WFMin
<1>4. \A y \in T : x <= y
  <2> TAKE y \in T
  <2>1. x \in Nat /\ y \in Nat
    OBVIOUS
  <2>2. ~(y < x)
    BY <1>2, <1>3, <2>1
  <2> QED BY <2>1, <2>2
<1> QED BY <1>4

LEMMA LoopInduction ==
  ASSUME NEW n \in Nat, NEW T, 0 \in T, \A k \in 0..n - 1 : k \in T => k + 1 \in T
  PROVE  0..n \subseteq T
<1> DEFINE Bad == {k \in 0..n : k \notin T}
<1>1. SUFFICES ASSUME Bad # {} PROVE FALSE
  OBVIOUS
<1>2. PICK k \in Bad : \A j \in Bad : k <= j
  <2>1. Bad \in SUBSET Nat
    OBVIOUS
  <2> HIDE DEF Bad
  <2> QED BY <1>1, <2>1, LeastNat
<1>3. k \in 0..n /\ k \notin T /\ k # 0
  OBVIOUS
<1>4. k - 1 \in 0..n - 1 /\ k - 1 + 1 = k
  BY <1>3
<1>5. k - 1 \notin T
  BY <1>3, <1>4
<1>6. k - 1 \in Bad
  BY <1>4, <1>5
<1> QED BY <1>2, <1>3, <1>4, <1>6

\* Where control is, in every state of a program: there is at most one result,
\* and an exception is thrown by an activation.
ControlInv ==
  /\ IsSeq(calls) /\ IsSeq(frames)
  /\ result = <<>> \/ \E n : result = <<n>>
  /\ thrown # 0 => calls # <<>> /\ result = <<>>
  /\ FramesMatchCalls

\* The depth of each frame is that of its place.
DepthsMatch(fs) == \A j \in DOMAIN fs : fs[j].depth = j - 1

LEMMA MatchedAppend ==
  ASSUME NEW fs, IsSeq(fs), DepthsMatch(fs), NEW at
  PROVE  DepthsMatch(Append(fs, [depth |-> Len(fs), pc |-> at]))
<1> DEFINE f == [depth |-> Len(fs), pc |-> at]
           t == Append(fs, f)
<1>1. Len(fs) \in Nat /\ DOMAIN fs = 1..Len(fs)
  BY SeqShape
<1>2. /\ IsSeq(t) /\ Len(t) = Len(fs) + 1
      /\ \A j \in 1..Len(fs) : t[j] = fs[j]
      /\ t[Len(fs) + 1] = f
  BY SeqAppend
<1>3. DOMAIN t = 1..(Len(fs) + 1)
  BY <1>2, SeqShape
<1>4. f.depth = (Len(fs) + 1) - 1
  BY <1>1
<1> HIDE DEF t, f
<1>5. \A j \in DOMAIN t : t[j].depth = j - 1
  BY <1>1, <1>2, <1>3, <1>4 DEF DepthsMatch
<1> QED
  BY <1>5 DEF DepthsMatch, t, f

LEMMA MatchedFront ==
  ASSUME NEW fs, IsSeq(fs), fs # <<>>, DepthsMatch(fs)
  PROVE  DepthsMatch(Front(fs))
<1> DEFINE n == Len(fs)
           t == Front(fs)
<1>1. n \in Nat /\ DOMAIN fs = 1..n
  BY SeqShape
<1>2. IsSeq(t) /\ Len(t) = n - 1 /\ \A j \in 1..(n - 1) : t[j] = fs[j]
  BY SeqFront
<1>3. DOMAIN t = 1..(n - 1)
  BY <1>2, SeqShape
<1> HIDE DEF t, n
<1>4. \A j \in DOMAIN t : t[j].depth = j - 1
  BY <1>1, <1>2, <1>3 DEF DepthsMatch
<1> QED
  BY <1>4 DEF DepthsMatch, t

-----------------------------------------------------------------------------
LEMMA ControlInit == GenInit => ControlInv
<1> SUFFICES ASSUME GenInit PROVE ControlInv
  OBVIOUS
<1>1. <<>> \in Seq({}) /\ Len(<<>>) = 0 /\ DOMAIN <<>> = {}
  BY EmptySeq, LenProperties
<1>2. calls = <<>> /\ frames = <<>> /\ result = <<>> /\ thrown = 0
  BY DEF GenInit
<1>3. FramesMatchCalls
  BY <1>1, <1>2 DEF FramesMatchCalls
<1> QED
  BY <1>1, <1>2, <1>3 DEF ControlInv, IsSeq

\* The lengths behind FramesMatchCalls.
LEMMA Lengths ==
  ASSUME ControlInv
  PROVE  /\ Len(calls) \in Nat /\ Len(frames) \in Nat
         /\ (calls = <<>> <=> Len(calls) = 0) /\ (frames = <<>> <=> Len(frames) = 0)
         /\ result = <<>> => Len(frames) = Len(calls)
         /\ result # <<>> => Len(frames) = Len(calls) + 1
         /\ DepthsMatch(frames)
<1>1. /\ Len(calls) \in Nat /\ Len(frames) \in Nat
      /\ (calls = <<>> <=> Len(calls) = 0) /\ (frames = <<>> <=> Len(frames) = 0)
  BY SeqShape DEF ControlInv
<1>2. Len(frames) = Len(calls) + Len(result) /\ DepthsMatch(frames)
  BY DEF ControlInv, FramesMatchCalls, DepthsMatch
<1>3. Len(<<>>) = 0 /\ \A n : Len(<<n>>) = 1
  OBVIOUS
<1>4. result = <<>> => Len(result) = 0
  BY <1>3
<1>5. result # <<>> => Len(result) = 1
  BY <1>3 DEF ControlInv
<1>6. result = <<>> => Len(frames) = Len(calls)
  BY <1>1, <1>2, <1>4
<1>7. result # <<>> => Len(frames) = Len(calls) + 1
  BY <1>1, <1>2, <1>5
<1> QED
  BY <1>1, <1>2, <1>6, <1>7

\* What a step has to show.
LEMMA ControlKept ==
  ASSUME IsSeq(calls'), IsSeq(frames'),
         \/ result' = <<>> /\ Len(frames') = Len(calls')
         \/ (\E n : result' = <<n>>) /\ Len(frames') = Len(calls') + 1,
         thrown' # 0 => calls' # <<>> /\ result' = <<>>,
         DepthsMatch(frames')
  PROVE  ControlInv'
<1>1. Len(calls') \in Nat /\ Len(frames') \in Nat
  BY SeqShape
<1>2. Len(<<>>) = 0 /\ \A n : Len(<<n>>) = 1
  OBVIOUS
<1>3. Len(frames') = Len(calls') + Len(result')
  BY <1>1, <1>2
<1> QED
  BY <1>3 DEF ControlInv, FramesMatchCalls, DepthsMatch

\* An activation goes on elsewhere.
LEMMA MovesOn ==
  ASSUME ControlInv, UNCHANGED <<result, frames, thrown>>,
         calls' = [j \in DOMAIN calls |-> calls'[j]]
  PROVE  ControlInv'
<1>1. IsSeq(calls') /\ Len(calls') = Len(calls)
  BY SeqChanged DEF ControlInv
<1>2. calls' # <<>> <=> calls # <<>>
  BY <1>1, Lengths, SeqShape
<1> QED
  BY <1>1, <1>2, Lengths, ControlKept DEF ControlInv

\* __next__ is called with a frame of its own.
LEMMA CallsNext ==
  ASSUME ControlInv, result = <<>>, thrown = 0, NEW o, NEW at, CallNext(o, at)
  PROVE  ControlInv'
<1> DEFINE f == [depth |-> Top, pc |-> at]
           a == Dispatch(o)
<1>1. /\ frames' = Append(frames, f) /\ calls' = Append(calls, a)
      /\ result' = <<>> /\ thrown' = 0
  BY DEF CallNext
<1>2. Top = Len(frames)
  BY Lengths DEF Top
<1> HIDE DEF a
<1>3. IsSeq(frames) /\ IsSeq(calls) /\ DepthsMatch(frames)
  BY Lengths DEF ControlInv
<1>4. DepthsMatch(frames')
  BY <1>1, <1>2, <1>3, MatchedAppend
<1> HIDE DEF f
<1>5. IsSeq(frames') /\ Len(frames') = Len(frames) + 1
  BY <1>1, <1>3, SeqAppend
<1>6. IsSeq(calls') /\ Len(calls') = Len(calls) + 1
  BY <1>1, <1>3, SeqAppend
<1> QED
  BY <1>1, <1>4, <1>5, <1>6, Lengths, ControlKept

\* An activation returns a value.
LEMMA Returns ==
  ASSUME ControlInv, calls # <<>>, thrown = 0, NEW n, result' = <<n>>, thrown' = 0,
         calls' = Front(calls),
         \/ result = <<>> /\ frames' = frames
         \/ result # <<>> /\ frames' = Front(frames)
  PROVE  ControlInv'
<1>1. IsSeq(calls') /\ Len(calls') = Len(calls) - 1
  BY SeqFront DEF ControlInv
<1>2. CASE result = <<>>
  <2>1. IsSeq(frames') /\ Len(frames') = Len(calls') + 1 /\ DepthsMatch(frames')
    BY <1>1, <1>2, Lengths DEF ControlInv
  <2> QED
    BY <1>1, <2>1, ControlKept
<1>3. CASE result # <<>>
  <2>1. frames # <<>> /\ frames' = Front(frames)
    BY <1>3, Lengths
  <2>2. IsSeq(frames') /\ Len(frames') = Len(frames) - 1 /\ DepthsMatch(frames')
    BY <2>1, SeqFront, MatchedFront, Lengths DEF ControlInv
  <2>3. Len(frames') = Len(calls') + 1
    BY <1>1, <1>3, <2>2, Lengths
  <2> QED
    BY <1>1, <2>2, <2>3, ControlKept
<1> QED
  BY <1>2, <1>3

-----------------------------------------------------------------------------
LEMMA LandKept == ControlInv /\ Land => ControlInv'
<1> SUFFICES ASSUME ControlInv, Land PROVE ControlInv'
  OBVIOUS
<1> DEFINE f == Last(frames)
<1>1. thrown # 0 /\ calls # <<>> /\ result = <<>> /\ result' = <<>>
  BY DEF Land, ControlInv
<1>2. frames # <<>> /\ Len(frames) = Len(calls) /\ Len(calls) \in Nat \ {0}
  BY <1>1, Lengths
<1>3. frames' = Front(frames)
  BY DEF Land
<1>4. IsSeq(frames') /\ Len(frames') = Len(frames) - 1 /\ DepthsMatch(frames')
  BY <1>2, <1>3, SeqFront, MatchedFront, Lengths DEF ControlInv
<1>5. f.depth = Len(frames) - 1
  <2>1. DOMAIN frames = 1..Len(frames)
    BY SeqShape DEF ControlInv
  <2>2. Len(frames) \in DOMAIN frames /\ f = frames[Len(frames)]
    BY <1>2, <2>1 DEF Last
  <2>3. DepthsMatch(frames)
    BY Lengths
  <2> HIDE DEF f
  <2> QED
    BY <2>2, <2>3 DEF DepthsMatch
<1> HIDE DEF f
<1>6. CASE f.depth = 0
  <2>1. calls' = <<>> /\ thrown' = 0
    BY <1>6 DEF Land, f
  <2>2. IsSeq(calls') /\ Len(calls') = 0
    BY <2>1, EmptySeq DEF IsSeq
  <2>3. Len(frames') = 0
    BY <1>2, <1>4, <1>5, <1>6
  <2> QED
    BY <1>1, <1>4, <2>1, <2>2, <2>3, ControlKept
<1>7. CASE f.depth # 0
  <2> DEFINE left == SubSeq(calls, 1, f.depth)
  <2>1. f.depth \in 0..Len(calls) /\ f.depth = Len(frames')
    BY <1>2, <1>4, <1>5
  <2>2. IsSeq(left) /\ Len(left) = f.depth
    BY <2>1, SeqPrefix DEF ControlInv
  <2>3. CASE thrown = Stop
    <3>1. thrown' = 0 /\ calls' = [left EXCEPT ![f.depth].head = FALSE,
               ![f.depth].pc = IF Body(calls[f.depth].obj)[f.pc].op = "for"
                               THEN EndOf(Body(calls[f.depth].obj), f.pc) + 1 ELSE f.pc + 1]
      BY <1>7, <2>3 DEF Land, f
    <3> HIDE DEF left
    <3>2. calls' = [j \in DOMAIN left |-> calls'[j]]
      BY <3>1
    <3>3. IsSeq(calls') /\ Len(calls') = Len(left)
      BY <2>2, <3>2, SeqChanged
    <3> QED
      BY <1>1, <1>4, <2>1, <2>2, <3>1, <3>3, ControlKept
  <2>4. CASE thrown # Stop
    <3>1. calls' = left
      BY <1>7, <2>4 DEF Land, f
    <3> HIDE DEF left
    <3>2. calls' # <<>>
      BY <1>7, <2>2, <3>1, SeqShape
    <3> QED
      BY <1>1, <1>4, <2>1, <2>2, <3>1, <3>2, ControlKept
  <2> QED
    BY <2>3, <2>4
<1> QED
  BY <1>6, <1>7

LEMMA ControlStep == ControlInv /\ [GenNext]_(genVars) => ControlInv'
<1> SUFFICES ASSUME ControlInv, [GenNext]_(genVars) PROVE ControlInv'
  OBVIOUS
<1>0. CASE UNCHANGED control
  BY <1>0 DEF control, ControlInv, FramesMatchCalls
<1>1. CASE Make
  BY <1>0, <1>1 DEF Make
<1>2. ASSUME NEW k \in DOMAIN mains, NextOf(k) PROVE ControlInv'
  BY <1>2, CallsNext DEF NextOf, ModuleRuns
<1>3. CASE TakeResult
  <2>1. frames # <<>> /\ Len(frames) = 1
    BY <1>3, Lengths DEF TakeResult
  <2>2. IsSeq(frames') /\ Len(frames') = 0 /\ DepthsMatch(frames')
    BY <1>3, <2>1, SeqFront, MatchedFront, Lengths DEF TakeResult, ControlInv
  <2>3. Len(calls) = 0 /\ calls' = calls /\ thrown' = thrown /\ result' = <<>>
    BY <1>3, Lengths DEF TakeResult
  <2> QED
    BY <2>2, <2>3, ControlKept DEF ControlInv
<1>4. CASE \E at : GoTo(at) /\ UNCHANGED <<result, frames, thrown>>
  BY <1>4, MovesOn DEF GoTo
<1>5. CASE Assign
  BY <1>4, <1>5 DEF Assign, GoOn, Quiet
<1>6. CASE Branch
  BY <1>4, <1>6 DEF Branch, Quiet
<1>7. CASE Yield
  BY <1>7, Returns DEF Yield, At, Running, Return
<1>8. CASE StartLoop
  BY <1>8, MovesOn DEF StartLoop, Quiet
<1>9. CASE Pull
  BY <1>9, CallsNext DEF Pull, Running
<1>10. CASE TakeValue
  <2>1. /\ calls # <<>> /\ result # <<>> /\ frames' = Front(frames)
        /\ thrown = 0 /\ thrown' = 0
    BY <1>10 DEF TakeValue, AfterReturn, ControlInv
  <2>2. CASE result' = <<>> /\ GoOn
    <3>1. calls' = [j \in DOMAIN calls |-> calls'[j]]
      BY <2>2 DEF GoOn, GoTo
    <3>2. IsSeq(calls') /\ Len(calls') = Len(calls)
      BY <3>1, SeqChanged DEF ControlInv
    <3>3. frames # <<>> /\ Len(frames) = Len(calls) + 1
      BY <2>1, Lengths
    <3>4. IsSeq(frames') /\ Len(frames') = Len(frames) - 1 /\ DepthsMatch(frames')
      BY <2>1, <3>3, SeqFront, MatchedFront, Lengths DEF ControlInv
    <3>5. Len(frames') = Len(calls')
      BY <3>2, <3>3, <3>4, Lengths
    <3> QED
      BY <2>1, <2>2, <3>2, <3>4, <3>5, ControlKept
  <2>3. CASE \E n : result' = <<n>> /\ calls' = Front(calls)
    BY <2>1, <2>3, Returns
  <2> QED
    BY <1>10, <2>2, <2>3 DEF TakeValue, Return
<1>11. CASE Finish \/ Raise
  <2>1. calls # <<>> /\ result = <<>> /\ UNCHANGED <<calls, result, frames>>
    BY <1>11 DEF Finish, Raise, At, Running
  <2> QED
    BY <2>1 DEF ControlInv, FramesMatchCalls
<1>12. CASE Land
  BY <1>12, LandKept
<1> QED
  BY <1>0, <1>1, <1>2, <1>3, <1>5, <1>6, <1>7, <1>8, <1>9, <1>10, <1>11, <1>12
     DEF GenNext, genVars, control

\* Whatever generators do - yield out of loops in loops, end, raise, leave a
\* loop by break or return - there is a frame for each activation's caller and
\* one for a result on its way, and none is left behind (emitForIterator,
\* emitYieldFromStmt, emitGeneratorNext).
THEOREM FramesMatch == GenSpec => []FramesMatchCalls
<1>1. ControlInv => FramesMatchCalls
  BY DEF ControlInv
<1> QED
  BY <1>1, ControlInit, ControlStep, PTL DEF GenSpec

-----------------------------------------------------------------------------
\* The loops of a body are closed like brackets.

\* How many members of K there are in a stretch.
CountIn(K, x, y) == Cardinality((x..y) \cap K)
OpensOf(b) == {k \in Int : Opens(b, k)}
EndsOf(b) == {k \in Int : b[k].op = "end"}

LEMMA CountSplit ==
  ASSUME NEW K, NEW a \in Int, NEW m \in Int, NEW n \in Int, NEW j \in Int,
         n = m + 1, a <= n, m <= j
  PROVE  /\ CountIn(K, a, j) = CountIn(K, a, m) + CountIn(K, n, j)
         /\ CountIn(K, a, m) \in Nat /\ CountIn(K, n, j) \in Nat /\ CountIn(K, a, j) \in Nat
<1> DEFINE A == (a..m) \cap K
           B == (n..j) \cap K
<1>1. (a..j) \cap K = A \cup B
  OBVIOUS
<1>2. A \cap B = {}
  OBVIOUS
<1>3. IsFiniteSet(a..m) /\ IsFiniteSet(n..j)
  BY FS_Interval
<1>4. A \in SUBSET (a..m) /\ B \in SUBSET (n..j)
  OBVIOUS
<1> HIDE DEF A, B
<1>5. IsFiniteSet(A) /\ IsFiniteSet(B)
  BY <1>3, <1>4, FS_Subset
<1>6. Cardinality(A) \in Nat /\ Cardinality(B) \in Nat
  BY <1>5, FS_CardinalityType
<1>7. Cardinality(A \cup B) = Cardinality(A) + Cardinality(B) - Cardinality({})
  BY <1>2, <1>5, FS_Union
<1>8. Cardinality(A \cup B) = Cardinality(A) + Cardinality(B)
  BY <1>6, <1>7, FS_EmptySet
<1> QED
  BY <1>1, <1>6, <1>8 DEF A, B, CountIn

LEMMA DepthIs ==
  ASSUME NEW b, NEW a \in Int, NEW j \in Int
  PROVE  Depth(b, a, j) = CountIn(OpensOf(b), a, j) - CountIn(EndsOf(b), a, j)
<1>1. {k \in a..j : Opens(b, k)} = (a..j) \cap OpensOf(b)
  BY DEF OpensOf
<1>2. {k \in a..j : b[k].op = "end"} = (a..j) \cap EndsOf(b)
  BY DEF EndsOf
<1> QED
  BY <1>1, <1>2, Zenon DEF Depth, CountIn

LEMMA DepthSplit ==
  ASSUME NEW b, NEW a \in Int, NEW m \in Int, NEW n \in Int, NEW j \in Int,
         n = m + 1, a <= n, m <= j
  PROVE  /\ Depth(b, a, j) = Depth(b, a, m) + Depth(b, n, j)
         /\ Depth(b, a, m) \in Int /\ Depth(b, n, j) \in Int /\ Depth(b, a, j) \in Int
<1>1. \A K : /\ CountIn(K, a, j) = CountIn(K, a, m) + CountIn(K, n, j)
             /\ CountIn(K, a, m) \in Nat /\ CountIn(K, n, j) \in Nat /\ CountIn(K, a, j) \in Nat
  BY CountSplit
<1>2. /\ Depth(b, a, j) = CountIn(OpensOf(b), a, j) - CountIn(EndsOf(b), a, j)
      /\ Depth(b, a, m) = CountIn(OpensOf(b), a, m) - CountIn(EndsOf(b), a, m)
      /\ Depth(b, n, j) = CountIn(OpensOf(b), n, j) - CountIn(EndsOf(b), n, j)
  BY DepthIs
<1> QED
  BY <1>1, <1>2

\* Of one statement, and of none.
LEMMA DepthOne ==
  ASSUME NEW b, NEW a \in Int
  PROVE  /\ Depth(b, a, a) = IF Opens(b, a) THEN 1 ELSE IF b[a].op = "end" THEN -1 ELSE 0
         /\ Depth(b, a, a - 1) = 0
<1> DEFINE Up == OpensOf(b)
           Down == EndsOf(b)
<1>1. /\ Depth(b, a, a) = CountIn(Up, a, a) - CountIn(Down, a, a)
      /\ Depth(b, a, a - 1) = CountIn(Up, a, a - 1) - CountIn(Down, a, a - 1)
  BY DepthIs
<1>2. Cardinality({a}) = 1 /\ Cardinality({}) = 0
  BY FS_Singleton, FS_EmptySet
<1>3. /\ Opens(b, a) <=> a \in Up
      /\ b[a].op = "end" <=> a \in Down
      /\ ~(a \in Up /\ a \in Down)
  BY DEF Opens, OpensOf, EndsOf
<1> HIDE DEF Up, Down
<1>4. \A K : (a..(a - 1)) \cap K = {} /\ (a..a) \cap K = IF a \in K THEN {a} ELSE {}
  OBVIOUS
<1>5. \A K : CountIn(K, a, a - 1) = 0 /\ CountIn(K, a, a) = IF a \in K THEN 1 ELSE 0
  BY <1>2, <1>4 DEF CountIn
<1> QED
  BY <1>1, <1>3, <1>5

\* The depth with one statement more, or less.
LEMMA DepthNext ==
  ASSUME NEW b, NEW a \in Int, NEW j \in Int, NEW m \in Int, m = j - 1, a <= j
  PROVE  /\ Depth(b, a, j) = Depth(b, a, m) + Depth(b, j, j)
         /\ Depth(b, a, j) \in Int /\ Depth(b, a, m) \in Int
<1>1. j = m + 1 /\ m <= j
  OBVIOUS
<1> QED
  BY <1>1, DepthSplit

LEMMA DepthRest ==
  ASSUME NEW b, NEW a \in Int, NEW j \in Int, NEW n \in Int, n = a + 1, a <= j
  PROVE  /\ Depth(b, a, j) = Depth(b, a, a) + Depth(b, n, j)
         /\ Depth(b, a, j) \in Int /\ Depth(b, n, j) \in Int
<1>1. a <= n
  OBVIOUS
<1> QED
  BY <1>1, DepthSplit

\* What the end of a loop is, where there is one.
IsEndOf(b, a, j) == /\ j \in a..Len(b) /\ Depth(b, a, j) = 0
                    /\ \A k \in a..(j - 1) : Depth(b, a, k) > 0

LEMMA EndIs ==
  ASSUME NEW b, IsBody(b), NEW a \in DOMAIN b, Opens(b, a)
  PROVE  /\ IsEndOf(b, a, EndOf(b, a))
         /\ EndOf(b, a) \in (a + 1)..Len(b) /\ b[EndOf(b, a)].op = "end"
         /\ Len(b) \in Nat /\ DOMAIN b = 1..Len(b)
<1> DEFINE L == Len(b)
           T == {j \in a..L : Depth(b, a, j) <= 0}
<1>1. L \in Nat /\ DOMAIN b = 1..L
  BY DEF IsBody
<1>2. a \in 1..L
  BY <1>1
<1>3. Depth(b, a, a) = 1
  BY <1>2, DepthOne
<1>4. L \in T
  <2>1. Depth(b, 1, L) = 0 /\ (a # 1 => Depth(b, 1, a - 1) >= 0)
    <3>1. a # 1 => a - 1 \in DOMAIN b
      BY <1>1, <1>2
    <3> QED
      BY <3>1 DEF IsBody, WellFormed
  <2>2. Depth(b, 1, 1 - 1) = 0
    BY DepthOne
  <2>3. Depth(b, 1, a - 1) >= 0
    BY <2>1, <2>2
  <2>4. a - 1 \in Int /\ 1 <= a - 1 + 1 /\ a - 1 <= L /\ a - 1 + 1 = a
    BY <1>1, <1>2
  <2>5. /\ Depth(b, 1, L) = Depth(b, 1, a - 1) + Depth(b, a, L)
        /\ Depth(b, 1, a - 1) \in Int /\ Depth(b, a, L) \in Int
    <3>1. 1 \in Int /\ a - 1 \in Int /\ a \in Int /\ L \in Int /\ a = a - 1 + 1 /\ 1 <= a /\ a - 1 <= L
      BY <1>1, <1>2, <2>4
    <3> HIDE DEF L
    <3> QED
      BY <3>1, DepthSplit
  <2> QED
    BY <1>1, <1>2, <2>1, <2>3, <2>5
<1>5. T \in SUBSET Nat
  BY <1>1, <1>2
<1> HIDE DEF T
<1>6. PICK e \in T : \A y \in T : e <= y
  BY <1>4, <1>5, LeastNat
<1>7. e \in a..L /\ Depth(b, a, e) <= 0 /\ e \in Int
  BY <1>1, <1>2, <1>6 DEF T
<1>8. \A k \in a..(e - 1) : Depth(b, a, k) > 0
  <2> TAKE k \in a..(e - 1)
  <2>1. k \in a..L /\ ~(e <= k) /\ k \in Int /\ a <= k
    BY <1>1, <1>2, <1>7
  <2>2. k \notin T
    BY <1>6, <2>1
  <2>3. Depth(b, a, k) \in Int
    BY <1>2, <2>1, DepthNext
  <2> QED
    BY <2>1, <2>2, <2>3 DEF T
<1>9. e # a
  BY <1>3, <1>7
<1>10. e - 1 \in a..(e - 1) /\ a <= e /\ e \in Int
  BY <1>2, <1>7, <1>9
<1>11. Depth(b, a, e - 1) > 0
  BY <1>8, <1>10
<1>12. /\ Depth(b, a, e) = Depth(b, a, e - 1) + Depth(b, e, e)
       /\ Depth(b, a, e) \in Int /\ Depth(b, a, e - 1) \in Int
  BY <1>2, <1>10, DepthNext
<1>13. Depth(b, e, e) = IF Opens(b, e) THEN 1 ELSE IF b[e].op = "end" THEN -1 ELSE 0
  BY <1>10, DepthOne
<1>14. b[e].op = "end" /\ Depth(b, a, e) = 0
  BY <1>7, <1>11, <1>12, <1>13
<1>15. IsEndOf(b, a, e)
  BY <1>7, <1>8, <1>14 DEF IsEndOf
<1>16. IsEndOf(b, a, EndOf(b, a))
  BY <1>15 DEF EndOf, IsEndOf
<1>17. EndOf(b, a) = e
  <2> DEFINE f == EndOf(b, a)
  <2>1. f \in a..L /\ Depth(b, a, f) = 0 /\ \A k \in a..(f - 1) : Depth(b, a, k) > 0
    BY <1>16 DEF IsEndOf
  <2> HIDE DEF f
  <2>2. f \in T
    BY <2>1 DEF T
  <2>3. e <= f /\ f \in Int
    BY <1>2, <1>6, <2>1, <2>2
  <2>4. e < f => e \in a..(f - 1)
    BY <1>7, <2>3
  <2>5. ~(e < f)
    BY <1>14, <2>1, <2>4
  <2>6. f = e
    BY <1>7, <2>3, <2>5
  <2> QED
    BY <2>6 DEF f
<1> QED
  BY <1>1, <1>7, <1>2, <1>9, <1>14, <1>16, <1>17

\* A loop in a loop ends before it.
LEMMA LoopsNest ==
  ASSUME NEW b, IsBody(b), NEW a \in DOMAIN b, NEW k \in DOMAIN b, Opens(b, a), Opens(b, k),
         a < k, k <= EndOf(b, a)
  PROVE  EndOf(b, k) < EndOf(b, a)
<1> DEFINE e == EndOf(b, a)
           f == EndOf(b, k)
<1>1. /\ Len(b) \in Nat /\ DOMAIN b = 1..Len(b)
      /\ e \in (a + 1)..Len(b) /\ f \in (k + 1)..Len(b)
      /\ Depth(b, a, e) = 0 /\ \A x \in a..(e - 1) : Depth(b, a, x) > 0
      /\ Depth(b, k, f) = 0 /\ \A x \in k..(f - 1) : Depth(b, k, x) > 0
  BY EndIs DEF IsEndOf
<1> HIDE DEF e, f
<1>2. a \in Int /\ k \in Int /\ e \in Int /\ f \in Int /\ k <= e
  BY <1>1 DEF e
<1>3. k - 1 \in a..(e - 1) /\ k - 1 \in Int /\ a <= k - 1 + 1 /\ k - 1 <= e /\ k - 1 + 1 = k
  BY <1>2
<1>4. Depth(b, a, k - 1) > 0
  BY <1>1, <1>3
<1>5. /\ Depth(b, a, e) = Depth(b, a, k - 1) + Depth(b, k, e)
      /\ Depth(b, a, k - 1) \in Int /\ Depth(b, k, e) \in Int
  BY <1>2, <1>3, DepthSplit
<1>6. Depth(b, k, e) < 0
  BY <1>1, <1>4, <1>5
<1>7. SUFFICES ASSUME e <= f PROVE FALSE
  BY <1>2 DEF e, f
<1>8. e = f \/ e \in k..(f - 1)
  BY <1>2, <1>7
<1> QED
  BY <1>1, <1>5, <1>6, <1>8

\* What the loop around a statement is.
IsLoopOf(b, a, j) == /\ j \in 1..(a - 1) /\ Opens(b, j) /\ EndOf(b, j) >= a
                     /\ \A k \in (j + 1)..(a - 1) : Opens(b, k) => EndOf(b, k) < a

LEMMA LoopIs ==
  ASSUME NEW b, IsBody(b), NEW a \in DOMAIN b, b[a].op \in {"end", "break", "continue"}
  PROVE  IsLoopOf(b, a, LoopOf(b, a)) /\ LoopOf(b, a) \in DOMAIN b
<1> DEFINE L == Len(b)
           T == {k \in Nat : k \in 0..(a - 2) /\ Depth(b, a - 1 - k, a - 1) > 0}
<1>1. L \in Nat /\ DOMAIN b = 1..L
  BY DEF IsBody
<1>2. a \in 1..L /\ a \in Int /\ a - 1 \in Int
  BY <1>1
<1>3. Depth(b, 1, a - 1) > 0 /\ a > 1
  <2>1. /\ Depth(b, 1, a) = Depth(b, 1, a - 1) + Depth(b, a, a)
        /\ Depth(b, 1, a) \in Int /\ Depth(b, 1, a - 1) \in Int
    BY <1>2, DepthNext
  <2>2. Depth(b, a, a) = IF b[a].op = "end" THEN -1 ELSE 0
    BY <1>2, DepthOne DEF Opens
  <2>3. IF b[a].op = "end" THEN Depth(b, 1, a) >= 0 ELSE Depth(b, 1, a) > 0
    BY DEF IsBody, WellFormed
  <2>4. Depth(b, 1, a - 1) > 0
    BY <2>1, <2>2, <2>3
  <2>5. Depth(b, 1, 1 - 1) = 0
    BY DepthOne
  <2> QED
    BY <1>2, <2>4, <2>5
<1>4. a - 2 \in T
  <2>1. a - 2 \in Nat /\ a - 1 - (a - 2) = 1
    BY <1>2, <1>3
  <2> QED
    BY <1>3, <2>1
<1>5. T \in SUBSET Nat
  OBVIOUS
<1> HIDE DEF T
<1>6. PICK t \in T : \A y \in T : t <= y
  BY <1>4, <1>5, LeastNat
<1> DEFINE j == a - 1 - t
<1>7. t \in 0..(a - 2) /\ Depth(b, j, a - 1) > 0
  BY <1>6 DEF T
<1>8. j \in 1..(a - 1) /\ j \in DOMAIN b
  BY <1>1, <1>2, <1>7
\* The innermost: nothing behind it is open.
<1>9. \A k \in (j + 1)..a : ~(Depth(b, k, a - 1) > 0)
  <2> TAKE k \in (j + 1)..a
  <2>1. CASE k = a
    BY <1>2, <2>1, DepthOne
  <2>2. CASE k # a
    <3>0. t \in Int /\ k \in Int /\ a - t <= k /\ k <= a - 1 /\ 2 <= a - t
      BY <1>2, <1>7, <2>2
    <3>9. a \in Int
      BY <1>2
    <3>1. a - 1 - k \in 0..(a - 2) /\ a - 1 - k \in Nat /\ a - 1 - (a - 1 - k) = k /\ ~(t <= a - 1 - k)
      BY ONLY <3>9, <3>0
    <3>2. a - 1 - k \notin T
      BY <1>6, <3>1
    <3> QED
      BY <3>1, <3>2 DEF T
  <2> QED
    BY <2>1, <2>2
<1> HIDE DEF j
<1>10. /\ Depth(b, j, a - 1) = Depth(b, j, j) + Depth(b, j + 1, a - 1)
       /\ Depth(b, j, a - 1) \in Int /\ Depth(b, j + 1, a - 1) \in Int
  <2>1. j \in Int /\ a - 1 \in Int /\ j + 1 \in Int /\ j <= a - 1
    BY <1>2, <1>8
  <2> QED
    BY <2>1, DepthRest
<1>11. ~(Depth(b, j + 1, a - 1) > 0)
  BY <1>2, <1>8, <1>9
<1>12. Depth(b, j, j) = IF Opens(b, j) THEN 1 ELSE IF b[j].op = "end" THEN -1 ELSE 0
  BY <1>8, DepthOne
<1>13. Opens(b, j)
  BY <1>7, <1>10, <1>11, <1>12
\* An open loop that has ended before i leaves the depth as it was.
<1>14. ASSUME NEW k \in 1..(a - 1), Opens(b, k)
       PROVE  /\ EndOf(b, k) < a => EndOf(b, k) + 1 \in (k + 1)..a
                                    /\ Depth(b, EndOf(b, k) + 1, a - 1) = Depth(b, k, a - 1)
              /\ ~(EndOf(b, k) < a) => Depth(b, k, a - 1) > 0
  <2> DEFINE e == EndOf(b, k)
  <2>1. k \in DOMAIN b
    BY <1>1, <1>2
  <2>2. e \in (k + 1)..L /\ Depth(b, k, e) = 0 /\ \A x \in k..(e - 1) : Depth(b, k, x) > 0
    BY <1>14, <2>1, EndIs DEF IsEndOf
  <2> HIDE DEF e
  <2>3. e \in Int /\ k \in Int
    BY <1>1, <2>2
  <2>4. ASSUME e < a PROVE e + 1 \in (k + 1)..a /\ Depth(b, e + 1, a - 1) = Depth(b, k, a - 1)
    <3>1. e + 1 \in (k + 1)..a /\ k <= e + 1 /\ e <= a - 1
      BY <1>2, <2>2, <2>3, <2>4
    <3>2. /\ Depth(b, k, a - 1) = Depth(b, k, e) + Depth(b, e + 1, a - 1)
          /\ Depth(b, e + 1, a - 1) \in Int
      BY <1>2, <2>3, <3>1, DepthSplit
    <3> QED
      BY <2>2, <3>1, <3>2
  <2>5. ASSUME ~(e < a) PROVE Depth(b, k, a - 1) > 0
    <3>1. a - 1 \in k..(e - 1)
      BY <1>2, <2>3, <2>5
    <3> QED
      BY <2>2, <3>1
  <2> QED
    BY <2>4, <2>5 DEF e
<1>15. EndOf(b, j) >= a
  <2>1. EndOf(b, j) \in Int
    BY <1>1, <1>8, <1>13, EndIs
  <2>2. EndOf(b, j) < a => EndOf(b, j) + 1 \in (j + 1)..a
                           /\ Depth(b, EndOf(b, j) + 1, a - 1) = Depth(b, j, a - 1)
    BY <1>8, <1>13, <1>14
  <2>3. ~(EndOf(b, j) < a)
    BY <1>7, <1>9, <2>2 DEF j
  <2> QED
    BY <1>2, <2>1, <2>3
<1>16. \A k \in (j + 1)..(a - 1) : Opens(b, k) => EndOf(b, k) < a
  <2> SUFFICES ASSUME NEW k \in (j + 1)..(a - 1), Opens(b, k) PROVE EndOf(b, k) < a
    OBVIOUS
  <2>1. k \in 1..(a - 1) /\ k \in (j + 1)..a
    BY <1>2, <1>8
  <2> QED
    BY <1>9, <1>14, <2>1
<1>17. IsLoopOf(b, a, j)
  BY <1>8, <1>13, <1>15, <1>16 DEF IsLoopOf
<1>18. IsLoopOf(b, a, LoopOf(b, a))
  BY <1>17 DEF LoopOf, IsLoopOf
<1>19. LoopOf(b, a) \in 1..(a - 1)
  BY <1>18 DEF IsLoopOf
<1> QED
  BY <1>1, <1>2, <1>18, <1>19

-----------------------------------------------------------------------------
\* Which for loops are open at a statement.
Open(b, j, x) == b[j].op = "for" /\ j < x /\ x <= EndOf(b, j)

\* What the ends of two for loops, or of a for loop and a while, have to do
\* with each other.
LEMMA ForIs ==
  ASSUME NEW b, IsBody(b), NEW j \in DOMAIN b, b[j].op = "for"
  PROVE  Opens(b, j) /\ EndOf(b, j) \in (j + 1)..Len(b) /\ b[EndOf(b, j)].op = "end"
<1>1. Opens(b, j)
  BY DEF Opens
<1> QED
  BY <1>1, EndIs

LEMMA StepOpen ==
  ASSUME NEW b, IsBody(b), NEW a \in DOMAIN b, b[a].op \notin {"for", "end"},
         NEW j \in DOMAIN b
  PROVE  Open(b, j, a + 1) <=> Open(b, j, a)
<1>1. Len(b) \in Nat /\ DOMAIN b = 1..Len(b)
  BY DEF IsBody
<1>2. CASE b[j].op = "for"
  <2>1. EndOf(b, j) \in (j + 1)..Len(b) /\ b[EndOf(b, j)].op = "end"
    BY <1>2, ForIs
  <2>2. j # a /\ EndOf(b, j) # a
    BY <1>2, <2>1
  <2> QED
    BY <1>1, <2>1, <2>2 DEF Open
<1> QED
  BY <1>2 DEF Open

LEMMA EnterOpen ==
  ASSUME NEW b, IsBody(b), NEW a \in DOMAIN b, b[a].op = "for", NEW j \in DOMAIN b
  PROVE  Open(b, j, a + 1) <=> Open(b, j, a) \/ j = a
<1>1. Len(b) \in Nat /\ DOMAIN b = 1..Len(b)
  BY DEF IsBody
<1>2. CASE b[j].op = "for"
  <2>1. EndOf(b, j) \in (j + 1)..Len(b) /\ b[EndOf(b, j)].op = "end"
    BY <1>2, ForIs
  <2>2. EndOf(b, j) # a
    BY <2>1
  <2> QED
    BY <1>1, <1>2, <2>1, <2>2 DEF Open
<1> QED
  BY <1>2 DEF Open

\* Behind a loop the same are open as at its head.
LEMMA LeaveOpen ==
  ASSUME NEW b, IsBody(b), NEW a \in DOMAIN b, Opens(b, a), NEW j \in DOMAIN b
  PROVE  Open(b, j, EndOf(b, a) + 1) <=> Open(b, j, a)
<1> DEFINE e == EndOf(b, a)
           f == EndOf(b, j)
<1>1. Len(b) \in Nat /\ DOMAIN b = 1..Len(b) /\ e \in (a + 1)..Len(b) /\ b[e].op = "end"
  BY EndIs
<1>2. CASE b[j].op = "for"
  <2>1. Opens(b, j) /\ f \in (j + 1)..Len(b)
    BY <1>2, ForIs
  <2>2. a < j /\ j <= e => f < e
    BY <2>1, LoopsNest
  <2>3. j < a /\ a <= f => e < f
    BY <2>1, LoopsNest
  <2>4. j # e /\ (j = a => f = e) /\ a \in Int /\ j \in Int
    BY <1>1, <1>2
  <2> HIDE DEF e, f
  <2>5. j < e + 1 /\ e + 1 <= f <=> j < a /\ a <= f
    BY <1>1, <2>1, <2>2, <2>3, <2>4
  <2> QED
    BY <1>2, <2>5 DEF Open, e, f
<1> QED
  BY <1>2 DEF Open

\* Back at the head of a loop, it is open no more than any other.
LEMMA BackOpen ==
  ASSUME NEW b, IsBody(b), NEW a \in DOMAIN b, b[a].op \in {"end", "break", "continue"},
         NEW j \in DOMAIN b
  PROVE  /\ LoopOf(b, a) \in DOMAIN b /\ LoopOf(b, a) < a /\ Opens(b, LoopOf(b, a))
         /\ Open(b, j, a) <=> Open(b, j, LoopOf(b, a)) \/ (j = LoopOf(b, a) /\ b[j].op = "for")
<1> DEFINE l == LoopOf(b, a)
           e == EndOf(b, l)
           f == EndOf(b, j)
<1>1. /\ l \in DOMAIN b /\ l \in 1..(a - 1) /\ Opens(b, l) /\ e >= a
      /\ \A k \in (l + 1)..(a - 1) : Opens(b, k) => EndOf(b, k) < a
  BY LoopIs DEF IsLoopOf
<1>2. Len(b) \in Nat /\ DOMAIN b = 1..Len(b) /\ e \in (l + 1)..Len(b)
  BY <1>1, EndIs
<1>3. CASE b[j].op = "for"
  <2>1. Opens(b, j) /\ f \in (j + 1)..Len(b)
    BY <1>3, ForIs
  <2>2. j < l /\ l <= f => e < f
    BY <1>1, <2>1, LoopsNest
  <2>3. j \in (l + 1)..(a - 1) => f < a
    BY <1>1, <2>1
  <2>4. j = l => f = e
    OBVIOUS
  <2> HIDE DEF l, e, f
  <2>5. j < a /\ a <= f <=> (j < l /\ l <= f) \/ (j = l)
    BY <1>1, <1>2, <2>1, <2>2, <2>3, <2>4
  <2> QED
    BY <1>1, <1>2, <1>3, <2>5 DEF Open, l, f
<1> QED
  BY <1>1, <1>2, <1>3 DEF Open

-----------------------------------------------------------------------------
\* The sites of a body have numbers of their own.
LEMMA SitesCount ==
  ASSUME NEW n \in Nat, NEW T, T \in SUBSET (1..n), NEW a \in T
  PROVE  /\ SitesBefore(T, a) \in Nat /\ Cardinality(T) \in Nat
         /\ SitesBefore(T, a) < Cardinality(T)
<1> DEFINE B == {j \in T : j < a}
<1>1. IsFiniteSet(1..n)
  BY FS_Interval
<1>2. IsFiniteSet(T) /\ B \in SUBSET T /\ B # T
  <2>1. IsFiniteSet(T)
    BY <1>1, FS_Subset
  <2>2. a \in Int /\ ~(a < a)
    OBVIOUS
  <2> QED
    BY <2>1, <2>2
<1> HIDE DEF B
<1>3. /\ IsFiniteSet(B) /\ Cardinality(B) < Cardinality(T)
      /\ Cardinality(B) \in Nat /\ Cardinality(T) \in Nat
  <2>1. IsFiniteSet(B)
    BY <1>2, FS_Subset
  <2>2. Cardinality(B) \in Nat /\ Cardinality(T) \in Nat
    BY <1>2, <2>1, FS_CardinalityType
  <2>3. Cardinality(B) <= Cardinality(T) /\ (Cardinality(T) = Cardinality(B) => T = B)
    BY <1>2, FS_Subset
  <2> QED
    BY <1>2, <2>1, <2>2, <2>3
<1> QED
  BY <1>3 DEF SitesBefore, B

LEMMA SitesOrder ==
  ASSUME NEW n \in Nat, NEW T, T \in SUBSET (1..n), NEW a \in T, NEW c \in T, a < c
  PROVE  SitesBefore(T, a) < SitesBefore(T, c)
<1> DEFINE B == {j \in T : j < a}
           C == {j \in T : j < c}
<1>0. a \in Int /\ c \in Int /\ \A j \in T : j \in Int /\ (j < a => j < c)
  OBVIOUS
<1>1. IsFiniteSet(1..n) /\ C \in SUBSET (1..n)
  <2>1. IsFiniteSet(1..n)
    BY FS_Interval
  <2> QED
    BY <2>1
<1>2. B \in SUBSET C /\ a \in C /\ a \notin B
  <2>1. ~(a < a)
    BY <1>0
  <2> QED
    BY <1>0, <2>1
<1> HIDE DEF B, C
<1>3. IsFiniteSet(C)
  BY <1>1, FS_Subset
<1>4. Cardinality(B) < Cardinality(C)
  <2>1. IsFiniteSet(B)
    BY <1>2, <1>3, FS_Subset
  <2>2. Cardinality(B) \in Nat /\ Cardinality(C) \in Nat
    BY <1>3, <2>1, FS_CardinalityType
  <2>3. Cardinality(B) <= Cardinality(C) /\ (Cardinality(C) = Cardinality(B) => C = B)
    BY <1>2, <1>3, FS_Subset
  <2> QED
    BY <1>2, <2>2, <2>3
<1> QED
  BY <1>4 DEF SitesBefore, B, C

LEMMA SitesDiffer ==
  ASSUME NEW n \in Nat, NEW T, T \in SUBSET (1..n), NEW a \in T, NEW c \in T,
         SitesBefore(T, a) = SitesBefore(T, c)
  PROVE  a = c
<1>1. a \in Int /\ c \in Int
  OBVIOUS
<1>4. SitesBefore(T, a) \in Nat /\ SitesBefore(T, c) \in Nat
  BY SitesCount
<1>2. a < c => SitesBefore(T, a) < SitesBefore(T, c)
  BY SitesOrder
<1>3. c < a => SitesBefore(T, c) < SitesBefore(T, a)
  BY SitesOrder
<1> QED
  BY <1>1, <1>2, <1>3, <1>4

\* Where a yield's state resumes.
LEMMA ResumeIs ==
  ASSUME NEW b, IsBody(b), NEW a \in DOMAIN b, b[a].op \in {"yield", "from"}
  PROVE  /\ ResumeState(b, a) \in Nat /\ ResumeState(b, a) > 0
         /\ Resume(b, ResumeState(b, a)) = IF b[a].op = "yield" THEN [pc |-> a + 1, head |-> FALSE]
                                           ELSE [pc |-> a, head |-> TRUE]
<1> DEFINE T == YieldSites(b)
           r == ResumeState(b, a)
           c == CHOOSE j \in T : ResumeState(b, j) = r
<1>1. Len(b) \in Nat /\ T \in SUBSET (1..Len(b)) /\ a \in T
  BY DEF IsBody, YieldSites
<1>2. SitesBefore(T, a) \in Nat
  BY <1>1, SitesCount
<1>3. r = SitesBefore(T, a) + 1
  BY DEF ResumeState
<1>4. c \in T /\ ResumeState(b, c) = r
  BY <1>1
<1>5. SitesBefore(T, c) \in Nat /\ SitesBefore(T, c) + 1 = r
  BY <1>1, <1>4, SitesCount DEF ResumeState
<1>6. SitesBefore(T, c) = SitesBefore(T, a)
  BY <1>2, <1>3, <1>5
<1> HIDE DEF T
<1>7. c = a
  BY <1>1, <1>4, <1>6, SitesDiffer
<1>8. ResumeAt(b, r) = IF b[a].op = "yield" THEN [pc |-> a + 1, head |-> FALSE]
                       ELSE [pc |-> a, head |-> TRUE]
  BY <1>7 DEF ResumeAt, T
<1>9. r > 0 /\ r # 0 /\ r # -1 /\ r \in Nat
  BY <1>2, <1>3
<1> QED
  BY <1>8, <1>9 DEF Resume

\* Every loop has a slot of its own.
LEMMA SlotIs ==
  ASSUME NEW b, IsBody(b), NEW a \in DOMAIN b, b[a].op \in Loops
  PROVE  /\ IterSlot(b, a) \in 1..Cardinality(IterSites(b))
         /\ \A c \in DOMAIN b : b[c].op \in Loops /\ IterSlot(b, c) = IterSlot(b, a) => c = a
<1> DEFINE T == IterSites(b)
           F == ForSites(b)
           R == FromSites(b)
<1>1. Len(b) \in Nat /\ DOMAIN b = 1..Len(b)
  BY DEF IsBody
<1>2. /\ T \in SUBSET (1..Len(b)) /\ F \in SUBSET (1..Len(b)) /\ R \in SUBSET (1..Len(b))
      /\ T = R \cup F /\ R \cap F = {}
  BY <1>1 DEF IterSites, ForSites, FromSites, Loops
<1>3. \A c \in DOMAIN b : b[c].op \in Loops => c \in R \/ c \in F
  BY DEF IterSites, ForSites, FromSites
<1>4. \A c \in DOMAIN b : IterSlot(b, c) = IF c \in R THEN SitesBefore(R, c) + 1
                                           ELSE Cardinality(R) + SitesBefore(F, c) + 1
  BY DEF IterSlot
<1> HIDE DEF T, F, R
<1>5. IsFiniteSet(R) /\ IsFiniteSet(F)
  <2>1. IsFiniteSet(1..Len(b))
    BY <1>1, FS_Interval
  <2> QED
    BY <1>2, <2>1, FS_Subset
<1>6. Cardinality(R) \in Nat /\ Cardinality(F) \in Nat
  BY <1>5, FS_CardinalityType
<1>7. Cardinality(T) = Cardinality(R) + Cardinality(F)
  <2>1. Cardinality(R \cup F) = Cardinality(R) + Cardinality(F) - Cardinality(R \cap F)
    BY <1>5, FS_Union
  <2>2. Cardinality(R \cap F) = 0
    BY <1>2, FS_EmptySet
  <2> QED
    BY <1>2, <1>6, <2>1, <2>2
<1>8. \A c \in R : SitesBefore(R, c) \in Nat /\ SitesBefore(R, c) < Cardinality(R)
  BY <1>1, <1>2, SitesCount
<1>9. \A c \in F : SitesBefore(F, c) \in Nat /\ SitesBefore(F, c) < Cardinality(F)
  BY <1>1, <1>2, SitesCount
<1>10. IterSlot(b, a) \in 1..Cardinality(T)
  <2>1. CASE a \in R
    <3>1. IterSlot(b, a) = SitesBefore(R, a) + 1
      BY <1>4, <2>1
    <3> QED
      BY <1>6, <1>7, <1>8, <2>1, <3>1
  <2>2. CASE a \in F
    <3>1. IterSlot(b, a) = Cardinality(R) + SitesBefore(F, a) + 1
      BY <1>2, <1>4, <2>2
    <3> QED
      BY <1>6, <1>7, <1>9, <2>2, <3>1
  <2> QED
    BY <1>3, <2>1, <2>2
<1>11. ASSUME NEW c \in DOMAIN b, b[c].op \in Loops, IterSlot(b, c) = IterSlot(b, a) PROVE c = a
  <2>1. CASE a \in R /\ c \in R
    <3>1. SitesBefore(R, c) = SitesBefore(R, a)
      BY <1>4, <1>8, <1>11, <2>1
    <3> QED
      BY <1>1, <1>2, <2>1, <3>1, SitesDiffer
  <2>2. CASE a \in F /\ c \in F
    <3>1. a \notin R /\ c \notin R
      BY <1>2, <2>2
    <3>2. SitesBefore(F, c) = SitesBefore(F, a)
      BY <1>4, <1>6, <1>9, <1>11, <2>2, <3>1
    <3> QED
      BY <1>1, <1>2, <2>2, <3>2, SitesDiffer
  <2>3. \A p \in R, q \in F : IterSlot(b, p) # IterSlot(b, q)
    <3> TAKE p \in R, q \in F
    <3>1. q \notin R /\ p \in DOMAIN b /\ q \in DOMAIN b
      BY <1>2
    <3>2. /\ IterSlot(b, p) = SitesBefore(R, p) + 1
          /\ IterSlot(b, q) = Cardinality(R) + SitesBefore(F, q) + 1
      BY <1>4, <3>1
    <3> QED
      BY <1>6, <1>8, <1>9, <3>2
  <2>4. ~(a \in R /\ c \in F) /\ ~(c \in R /\ a \in F)
    BY <1>11, <2>3
  <2> QED
    BY <1>3, <1>11, <2>1, <2>2, <2>3, <2>4
<1> QED
  BY <1>10, <1>11 DEF T

-----------------------------------------------------------------------------
\* What Python has come to in a body: the types, and which loops are open.
Env == [p : Num, v : Num]
RunState(b) == [pc : 1..(Len(b) + 1), env : Env, out : Seq(Num), ended : {0, Stop, Error},
                at : [DOMAIN b -> Nat], arg : [DOMAIN b -> Num]]
Inners == [Num -> [out : Seq(Num), ended : {0, Stop, Error}]]

RunOK(b, s) ==
  /\ s \in RunState(b)
  /\ s.ended = 0 => \A j \in DOMAIN b :
       /\ s.at[j] > 0 => b[j].op \in Loops /\ (j = s.pc \/ Open(b, j, s.pc))
       /\ Open(b, j, s.pc) => s.at[j] > 0

\* One list of values begins with another.
Begins(u, w) == Len(u) <= Len(w) /\ \A j \in 1..Len(u) : w[j] = u[j]

LEMMA EnvSet ==
  ASSUME NEW e \in Env, NEW x \in {"p", "v"}, NEW n \in Num
  PROVE  [e EXCEPT ![x] = n] \in Env
<1>1. CASE x = "p"
  BY <1>1 DEF Env
<1>2. CASE x = "v"
  BY <1>2 DEF Env
<1> QED
  BY <1>1, <1>2

LEMMA EnvGet ==
  ASSUME NEW e \in Env, NEW x \in {"p", "v"}
  PROVE  e[x] \in Num /\ e.p \in Num
<1>1. CASE x = "p"
  BY <1>1 DEF Env
<1>2. CASE x = "v"
  BY <1>2 DEF Env
<1> QED
  BY <1>1, <1>2

LEMMA NumIs ==
  ASSUME Wrap \in Nat \ {0}
  PROVE  0 \in Num /\ (\A n \in Num : Add1(n) \in Num) /\ Num \in SUBSET Nat
  BY DEF Num, Add1

LEMMA BodyIs ==
  ASSUME NEW b, IsBody(b)
  PROVE  /\ Len(b) \in Nat /\ DOMAIN b = 1..Len(b)
         /\ \A j \in DOMAIN b : /\ b[j].var \in {"p", "v"}
                                /\ b[j].op \in Loops \cup {"yield", "add", "zero", "while", "end",
                                     "break", "continue", "return", "raise"}
<1>1. b \in Seq(Statements)
  BY DEF IsBody
<1>2. Len(b) \in Nat /\ DOMAIN b = 1..Len(b) /\ \A j \in DOMAIN b : b[j] \in Statements
  BY <1>1
<1> QED
  BY <1>2 DEF Statements

\* The states field by field.
State(j, e, u, d, a, g) == [pc |-> j, env |-> e, out |-> u, ended |-> d, at |-> a, arg |-> g]

LEMMA StateFields ==
  ASSUME NEW j, NEW e, NEW u, NEW d, NEW a, NEW g, NEW t, t = State(j, e, u, d, a, g)
  PROVE  t.pc = j /\ t.env = e /\ t.out = u /\ t.ended = d /\ t.at = a /\ t.arg = g
  BY DEF State

LEMMA StateType ==
  ASSUME NEW b, NEW j \in 1..(Len(b) + 1), NEW e \in Env, NEW u \in Seq(Num),
         NEW d \in {0, Stop, Error}, NEW a \in [DOMAIN b -> Nat], NEW g \in [DOMAIN b -> Num]
  PROVE  State(j, e, u, d, a, g) \in RunState(b)
  BY DEF State, RunState

LEMMA RunStateIs ==
  ASSUME NEW b, NEW s \in RunState(b)
  PROVE  /\ s = State(s.pc, s.env, s.out, s.ended, s.at, s.arg)
         /\ s.pc \in 1..(Len(b) + 1) /\ s.env \in Env /\ s.out \in Seq(Num) /\ s.ended \in {0, Stop, Error}
         /\ s.at \in [DOMAIN b -> Nat] /\ s.arg \in [DOMAIN b -> Num]
  BY DEF State, RunState

\* One statement, by what it is.
LEMMA StatementIs ==
  ASSUME NEW b, IsBody(b), NEW inner \in Inners, NEW s \in RunState(b), s.pc \in DOMAIN b
  PROVE  /\ b[s.pc].op = "yield" => Statement(b, inner, s) =
              State(s.pc + 1, s.env, Append(s.out, s.env[b[s.pc].var]), s.ended, s.at, s.arg)
         /\ b[s.pc].op = "zero" => Statement(b, inner, s) =
              State(s.pc + 1, [s.env EXCEPT ![b[s.pc].var] = 0], s.out, s.ended, s.at, s.arg)
         /\ b[s.pc].op = "add" => Statement(b, inner, s) =
              State(s.pc + 1, [s.env EXCEPT ![b[s.pc].var] = Add1(s.env[b[s.pc].var])],
                    s.out, s.ended, s.at, s.arg)
         /\ b[s.pc].op = "while" => Statement(b, inner, s) =
              State(IF s.env[b[s.pc].var] < 2 THEN s.pc + 1 ELSE EndOf(b, s.pc) + 1,
                    s.env, s.out, s.ended, s.at, s.arg)
         /\ b[s.pc].op \in {"end", "continue"} => Statement(b, inner, s) =
              State(LoopOf(b, s.pc), s.env, s.out, s.ended, s.at, s.arg)
         /\ b[s.pc].op = "break" => Statement(b, inner, s) =
              State(EndOf(b, LoopOf(b, s.pc)) + 1, s.env, s.out, s.ended,
                    [s.at EXCEPT ![LoopOf(b, s.pc)] = 0], s.arg)
         /\ b[s.pc].op = "return" => Statement(b, inner, s) =
              State(s.pc, s.env, s.out, Stop, s.at, s.arg)
         /\ b[s.pc].op = "raise" => Statement(b, inner, s) =
              State(s.pc, s.env, s.out, Error, s.at, s.arg)
<1> DEFINE x == b[s.pc].var
           does == b[s.pc].op
           l == LoopOf(b, s.pc)
           t == Statement(b, inner, s)
<1>1. ~(s.pc > Len(b))
  BY BodyIs
<1>2. s = State(s.pc, s.env, s.out, s.ended, s.at, s.arg)
  BY RunStateIs
<1>3. does = "yield" => t = State(s.pc + 1, s.env, Append(s.out, s.env[x]), s.ended, s.at, s.arg)
  BY <1>1, <1>2 DEF Statement, State
<1>4. does = "zero" => t = State(s.pc + 1, [s.env EXCEPT ![x] = 0], s.out, s.ended, s.at, s.arg)
  BY <1>1, <1>2 DEF Statement, State
<1>5. does = "add" => t = State(s.pc + 1, [s.env EXCEPT ![x] = Add1(s.env[x])], s.out, s.ended, s.at, s.arg)
  BY <1>1, <1>2 DEF Statement, State
<1>6. does = "while" => t = State(IF s.env[x] < 2 THEN s.pc + 1 ELSE EndOf(b, s.pc) + 1,
                                s.env, s.out, s.ended, s.at, s.arg)
  BY <1>1, <1>2 DEF Statement, State
<1>7. does \in {"end", "continue"} => t = State(l, s.env, s.out, s.ended, s.at, s.arg)
  BY <1>1, <1>2, Zenon DEF Statement, State
<1>8. does = "break" => t = State(EndOf(b, l) + 1, s.env, s.out, s.ended, [s.at EXCEPT ![l] = 0], s.arg)
  BY <1>1, <1>2 DEF Statement, State
<1>9. does = "return" => t = State(s.pc, s.env, s.out, Stop, s.at, s.arg)
  BY <1>1, <1>2 DEF Statement, State
<1>10. does = "raise" => t = State(s.pc, s.env, s.out, Error, s.at, s.arg)
  BY <1>1, <1>2 DEF Statement, State
<1> QED
  BY <1>3, <1>4, <1>5, <1>6, <1>7, <1>8, <1>9, <1>10

\* The same, one kind of statement at a time.
LEMMA YieldIs ==
  ASSUME NEW b, IsBody(b), NEW inner \in Inners, NEW s \in RunState(b), s.pc \in DOMAIN b, b[s.pc].op = "yield"
  PROVE  Statement(b, inner, s) =
                 State(s.pc + 1, s.env, Append(s.out, s.env[b[s.pc].var]), s.ended, s.at, s.arg)
  BY StatementIs

LEMMA ZeroIs ==
  ASSUME NEW b, IsBody(b), NEW inner \in Inners, NEW s \in RunState(b), s.pc \in DOMAIN b, b[s.pc].op = "zero"
  PROVE  Statement(b, inner, s) =
                 State(s.pc + 1, [s.env EXCEPT ![b[s.pc].var] = 0], s.out, s.ended, s.at, s.arg)
  BY StatementIs

LEMMA AddIs ==
  ASSUME NEW b, IsBody(b), NEW inner \in Inners, NEW s \in RunState(b), s.pc \in DOMAIN b, b[s.pc].op = "add"
  PROVE  Statement(b, inner, s) =
                 State(s.pc + 1, [s.env EXCEPT ![b[s.pc].var] = Add1(s.env[b[s.pc].var])],
                       s.out, s.ended, s.at, s.arg)
  BY StatementIs

LEMMA WhileIs ==
  ASSUME NEW b, IsBody(b), NEW inner \in Inners, NEW s \in RunState(b), s.pc \in DOMAIN b, b[s.pc].op = "while"
  PROVE  Statement(b, inner, s) =
                 State(IF s.env[b[s.pc].var] < 2 THEN s.pc + 1 ELSE EndOf(b, s.pc) + 1,
                       s.env, s.out, s.ended, s.at, s.arg)
  BY StatementIs

LEMMA BackIs ==
  ASSUME NEW b, IsBody(b), NEW inner \in Inners, NEW s \in RunState(b), s.pc \in DOMAIN b, b[s.pc].op \in {"end", "continue"}
  PROVE  Statement(b, inner, s) =
                 State(LoopOf(b, s.pc), s.env, s.out, s.ended, s.at, s.arg)
  BY StatementIs

LEMMA BreakIs ==
  ASSUME NEW b, IsBody(b), NEW inner \in Inners, NEW s \in RunState(b), s.pc \in DOMAIN b, b[s.pc].op = "break"
  PROVE  Statement(b, inner, s) =
                 State(EndOf(b, LoopOf(b, s.pc)) + 1, s.env, s.out, s.ended,
                       [s.at EXCEPT ![LoopOf(b, s.pc)] = 0], s.arg)
  BY StatementIs

LEMMA ReturnIs ==
  ASSUME NEW b, IsBody(b), NEW inner \in Inners, NEW s \in RunState(b), s.pc \in DOMAIN b, b[s.pc].op = "return"
  PROVE  Statement(b, inner, s) =
                 State(s.pc, s.env, s.out, Stop, s.at, s.arg)
  BY StatementIs

LEMMA RaiseIs ==
  ASSUME NEW b, IsBody(b), NEW inner \in Inners, NEW s \in RunState(b), s.pc \in DOMAIN b, b[s.pc].op = "raise"
  PROVE  Statement(b, inner, s) =
                 State(s.pc, s.env, s.out, Error, s.at, s.arg)
  BY StatementIs

LEMMA StartIs ==
  ASSUME NEW b, IsBody(b), NEW inner \in Inners, NEW s \in RunState(b), s.pc \in DOMAIN b, b[s.pc].op \in Loops, s.at[s.pc] = 0
  PROVE  Statement(b, inner, s) =
                 State(s.pc, s.env, s.out, s.ended, [s.at EXCEPT ![s.pc] = 1],
                       [s.arg EXCEPT ![s.pc] = s.env.p])
<1> DEFINE t == Statement(b, inner, s)
<1>1. ~(s.pc > Len(b))
  BY BodyIs
<1>2. s = State(s.pc, s.env, s.out, s.ended, s.at, s.arg)
  BY RunStateIs
<1>3. ~(s.at[s.pc] > 0) /\ s.at[s.pc] \notin DOMAIN inner[s.arg[s.pc]].out
  <2>1. inner[s.arg[s.pc]].out \in Seq(Num)
    BY DEF Inners, RunState
  <2>2. 0 \notin DOMAIN inner[s.arg[s.pc]].out
    BY <2>1
  <2> QED
    BY <2>2
<1>4. t = State(s.pc, s.env, s.out, s.ended, [s.at EXCEPT ![s.pc] = 1], [s.arg EXCEPT ![s.pc] = s.env.p])
  <2>1. CASE b[s.pc].op = "for"
    BY <1>1, <1>2, <1>3, <2>1 DEF Statement, State
  <2>2. CASE b[s.pc].op = "from"
    BY <1>1, <1>2, <1>3, <2>2 DEF Statement, State
  <2> QED
    BY <2>1, <2>2 DEF Loops
<1> QED
  BY <1>4

\* A loop over inner's values, at one of them or behind the last.
LEMMA LoopStatementIs ==
  ASSUME NEW b, IsBody(b), NEW inner \in Inners, NEW s \in RunState(b), s.pc \in DOMAIN b,
         b[s.pc].op \in Loops, s.at[s.pc] # 0
  PROVE  /\ s.at[s.pc] \notin DOMAIN inner[s.arg[s.pc]].out /\ inner[s.arg[s.pc]].ended # Stop =>
              Statement(b, inner, s) =
                State(s.pc, s.env, s.out, inner[s.arg[s.pc]].ended, s.at, s.arg)
         /\ s.at[s.pc] \notin DOMAIN inner[s.arg[s.pc]].out /\ inner[s.arg[s.pc]].ended = Stop =>
              Statement(b, inner, s) =
                State(IF b[s.pc].op = "for" THEN EndOf(b, s.pc) + 1 ELSE s.pc + 1,
                      s.env, s.out, s.ended, [s.at EXCEPT ![s.pc] = 0], s.arg)
         /\ s.at[s.pc] \in DOMAIN inner[s.arg[s.pc]].out /\ b[s.pc].op = "for" =>
              Statement(b, inner, s) =
                State(s.pc + 1, [s.env EXCEPT ![b[s.pc].var] = inner[s.arg[s.pc]].out[s.at[s.pc]]],
                      s.out, s.ended, [s.at EXCEPT ![s.pc] = s.at[s.pc] + 1], s.arg)
         /\ s.at[s.pc] \in DOMAIN inner[s.arg[s.pc]].out /\ b[s.pc].op = "from" =>
              Statement(b, inner, s) =
                State(s.pc, s.env, Append(s.out, inner[s.arg[s.pc]].out[s.at[s.pc]]), s.ended,
                      [s.at EXCEPT ![s.pc] = s.at[s.pc] + 1], s.arg)
<1> DEFINE n == s.at[s.pc]
           y == inner[s.arg[s.pc]]
           t == Statement(b, inner, s)
<1>1. ~(s.pc > Len(b)) /\ n \in Nat /\ n # 0 /\ n > 0
  BY BodyIs DEF RunState
<1>2. DOMAIN y.out = 1..Len(y.out) /\ Len(y.out) \in Nat
  BY DEF Inners, RunState
<1>3. n \in DOMAIN y.out <=> ~(n > Len(y.out))
  <2> DEFINE k == Len(y.out)
  <2>1. k \in Nat /\ (n \in DOMAIN y.out <=> n \in 1..k)
    BY <1>2
  <2> HIDE DEF k
  <2>2. n \in 1..k <=> ~(n > k)
    BY <1>1, <2>1
  <2> QED
    BY <2>1, <2>2 DEF k
<1>4. s = State(s.pc, s.env, s.out, s.ended, s.at, s.arg)
  BY RunStateIs
<1>5. n \notin DOMAIN y.out /\ y.ended # Stop => t = State(s.pc, s.env, s.out, y.ended, s.at, s.arg)
  BY <1>1, <1>2, <1>3, <1>4, Zenon DEF Statement, Loops, State
<1>6. n \notin DOMAIN y.out /\ y.ended = Stop =>
        t = State(IF b[s.pc].op = "for" THEN EndOf(b, s.pc) + 1 ELSE s.pc + 1,
                  s.env, s.out, s.ended, [s.at EXCEPT ![s.pc] = 0], s.arg)
  BY <1>1, <1>2, <1>3, <1>4, Zenon DEF Statement, Loops, State
<1>7. n \in DOMAIN y.out /\ b[s.pc].op = "for" =>
        t = State(s.pc + 1, [s.env EXCEPT ![b[s.pc].var] = y.out[n]], s.out, s.ended,
                  [s.at EXCEPT ![s.pc] = n + 1], s.arg)
  BY <1>1, <1>2, <1>3, <1>4 DEF Statement, Loops, State
<1>8. n \in DOMAIN y.out /\ b[s.pc].op = "from" =>
        t = State(s.pc, s.env, Append(s.out, y.out[n]), s.ended, [s.at EXCEPT ![s.pc] = n + 1], s.arg)
  BY <1>1, <1>2, <1>3, <1>4 DEF Statement, Loops, State
<1> QED
  BY <1>5, <1>6, <1>7, <1>8

\* The places of the open loops, after a statement that goes to q and leaves
\* the loop at w at n.
LEMMA OpenLoopsKept ==
  ASSUME NEW b, IsBody(b), NEW s, RunOK(b, s), s.ended = 0, NEW q \in 1..(Len(b) + 1), NEW e \in Env,
         NEW u \in Seq(Num), NEW w \in DOMAIN b, NEW n \in Nat, NEW g \in [DOMAIN b -> Num],
         \A j \in DOMAIN b : j # w => /\ j = s.pc => s.at[j] = 0
                                      /\ Open(b, j, q) <=> Open(b, j, s.pc),
         n > 0 => b[w].op \in Loops /\ (w = q \/ Open(b, w, q)),
         Open(b, w, q) => n > 0
  PROVE  RunOK(b, State(q, e, u, 0, [s.at EXCEPT ![w] = n], g))
<1> DEFINE a == [s.at EXCEPT ![w] = n]
           t == State(q, e, u, 0, a, g)
<1>1. s.at \in [DOMAIN b -> Nat]
  BY RunStateIs DEF RunOK
<1>2. a \in [DOMAIN b -> Nat] /\ a[w] = n /\ \A j \in DOMAIN b : j # w => a[j] = s.at[j]
  BY <1>1
<1> HIDE DEF a
<1>3. t \in RunState(b)
  BY <1>2, StateType
<1>4. t.pc = q /\ t.at = a
  BY StateFields
<1>5. ASSUME NEW j \in DOMAIN b
      PROVE  /\ a[j] > 0 => b[j].op \in Loops /\ (j = q \/ Open(b, j, q))
             /\ Open(b, j, q) => a[j] > 0
  <2>1. CASE j = w
    BY <1>2, <2>1
  <2>2. CASE j # w
    <3>1. /\ s.at[j] > 0 => b[j].op \in Loops /\ (j = s.pc \/ Open(b, j, s.pc))
          /\ Open(b, j, s.pc) => s.at[j] > 0
      BY DEF RunOK
    <3>2. s.at[j] \in Nat /\ (s.at[j] > 0 => s.at[j] # 0)
      BY <1>1
    <3> QED
      BY <1>2, <2>2, <3>1, <3>2
  <2> QED
    BY <2>1, <2>2
<1> HIDE DEF t
<1> QED
  BY <1>3, <1>4, <1>5 DEF RunOK, t, a

\* Only a loop has a place.
LEMMA NoPlace ==
  ASSUME NEW b, NEW s, RunOK(b, s), s.ended = 0, NEW j \in DOMAIN b, b[j].op \notin Loops
  PROVE  s.at[j] = 0
<1>1. s.at \in [DOMAIN b -> Nat]
  BY RunStateIs DEF RunOK
<1>2. ~(s.at[j] > 0) /\ s.at[j] \in Nat
  BY <1>1 DEF RunOK
<1> QED
  BY <1>2

\* A statement that is no loop and goes on where the same loops are open.
LEMMA GoesOn ==
  ASSUME NEW b, IsBody(b), NEW s, RunOK(b, s), s.ended = 0, s.pc \in DOMAIN b,
         b[s.pc].op \notin Loops, NEW q \in 1..(Len(b) + 1), NEW e \in Env, NEW u \in Seq(Num),
         \A j \in DOMAIN b : Open(b, j, q) <=> Open(b, j, s.pc)
  PROVE  RunOK(b, State(q, e, u, 0, s.at, s.arg))
<1>1. s.at \in [DOMAIN b -> Nat] /\ s.arg \in [DOMAIN b -> Num]
  BY RunStateIs DEF RunOK
<1>2. s.at[s.pc] = 0
  BY NoPlace
<1>3. s.at = [s.at EXCEPT ![s.pc] = 0]
  BY <1>1, <1>2
<1>4. ~Open(b, s.pc, q)
  BY DEF Open, Loops
<1>5. RunOK(b, State(q, e, u, 0, [s.at EXCEPT ![s.pc] = 0], s.arg))
  <2>1. PICK w, n : w = s.pc /\ n = 0
    OBVIOUS
  <2>2. /\ w \in DOMAIN b /\ n \in Nat /\ ~(n > 0) /\ ~Open(b, w, q)
        /\ \A j \in DOMAIN b : j # w => j # s.pc /\ (Open(b, j, q) <=> Open(b, j, s.pc))
    BY <1>4, <2>1
  <2>3. RunOK(b, State(q, e, u, 0, [s.at EXCEPT ![w] = n], s.arg))
    BY <1>1, <2>2, OpenLoopsKept
  <2> QED
    BY <2>1, <2>3
<1> QED
  BY <1>3, <1>5

LEMMA BeginsSelf == ASSUME NEW u \in Seq(Num) PROVE Begins(u, u)
  BY DEF Begins

LEMMA BeginsAppend ==
  ASSUME NEW u \in Seq(Num), NEW n \in Num
  PROVE  /\ Begins(u, Append(u, n)) /\ Append(u, n) \in Seq(Num)
         /\ Len(Append(u, n)) = Len(u) + 1 /\ Append(u, n)[Len(u) + 1] = n
<1>1. /\ Append(u, n) \in Seq(Num) /\ Len(Append(u, n)) = Len(u) + 1 /\ Len(u) \in Nat
      /\ \A j \in 1..Len(u) : Append(u, n)[j] = u[j]
      /\ Append(u, n)[Len(u) + 1] = n
  OBVIOUS
<1> QED
  BY <1>1 DEF Begins

\* A statement keeps the types, the loops in order, and the values given so far.
LEMMA StatementOK ==
  ASSUME Wrap \in Nat \ {0}, NEW b, IsBody(b), NEW inner \in Inners, NEW s, RunOK(b, s), s.ended = 0,
         NEW t, t = Statement(b, inner, s)
  PROVE  RunOK(b, t) /\ Begins(s.out, t.out)
<1>1. /\ s \in RunState(b) /\ s.pc \in 1..(Len(b) + 1) /\ s.env \in Env /\ s.out \in Seq(Num)
      /\ s.at \in [DOMAIN b -> Nat] /\ s.arg \in [DOMAIN b -> Num]
  <2>1. s \in RunState(b)
    BY DEF RunOK
  <2> QED
    BY <2>1, RunStateIs
<1>7. s \in RunState(b)
  BY DEF RunOK
<1>8. s.env \in Env
  BY <1>1
<1>9. s.env \in Env /\ s.out \in Seq(Num) /\ s.arg \in [DOMAIN b -> Num]
  BY <1>1
<1>12. s.out \in Seq(Num)
  BY <1>1
<1>0. s = State(s.pc, s.env, s.out, 0, s.at, s.arg)
  BY <1>1, RunStateIs
<1>2. Len(b) \in Nat /\ DOMAIN b = 1..Len(b)
  BY BodyIs
<1>3. Begins(s.out, s.out)
  BY <1>1, BeginsSelf
<1>4. ASSUME NEW d \in {Stop, Error}, t = State(s.pc, s.env, s.out, d, s.at, s.arg)
      PROVE  RunOK(b, t) /\ Begins(s.out, t.out)
  <2>1. t \in RunState(b)
    <3>1. /\ s.pc \in 1..(Len(b) + 1) /\ s.env \in Env /\ s.out \in Seq(Num)
          /\ s.at \in [DOMAIN b -> Nat] /\ s.arg \in [DOMAIN b -> Num]
      BY <1>1, RunStateIs
    <3>2. d \in {0, Stop, Error}
      BY <1>4
    <3>3. State(s.pc, s.env, s.out, d, s.at, s.arg) \in RunState(b)
      BY <3>1, <3>2, StateType, Zenon
    <3> QED
      BY <1>4, <3>3, Zenon
  <2>2. t.ended # 0 /\ t.out = s.out
    BY <1>4, StateFields DEF Stop, Error
  <2> QED
    BY <1>3, <2>1, <2>2 DEF RunOK
<1>5. CASE s.pc > Len(b)
  <2>1. t = State(s.pc, s.env, s.out, Stop, s.at, s.arg)
    BY <1>0, <1>5, Zenon DEF Statement, State
  <2> QED
    BY <1>4, <2>1
<1>6. CASE ~(s.pc > Len(b))
  <2>1. s.pc \in DOMAIN b
    BY <1>1, <1>2, <1>6
  <2>2. /\ b[s.pc].var \in {"p", "v"}
        /\ b[s.pc].op \in Loops \cup {"yield", "add", "zero", "while", "end",
                                     "break", "continue", "return", "raise"}
    BY <2>1, BodyIs
  <2>15. b[s.pc].var \in {"p", "v"}
    BY <2>2
  <2>3. ASSUME NEW q, NEW e, NEW u, NEW a, NEW g, t = State(q, e, u, 0, a, g),
               RunOK(b, State(q, e, u, 0, a, g)), Begins(s.out, u)
        PROVE  RunOK(b, t) /\ Begins(s.out, t.out)
    BY <2>3, StateFields
  <2>4. b[s.pc].op \notin {"for", "end"} => \A j \in DOMAIN b : Open(b, j, s.pc + 1) <=> Open(b, j, s.pc)
    BY <2>1, StepOpen
  <2>5. s.pc + 1 \in 1..(Len(b) + 1)
    BY <1>2, <2>1
  <2>6. CASE b[s.pc].op = "yield"
    <3> DEFINE u == Append(s.out, s.env[b[s.pc].var])
    <3>1. t = State(s.pc + 1, s.env, u, 0, s.at, s.arg)
      BY <1>7, <2>1, <2>6, YieldIs
    <3>2. s.env[b[s.pc].var] \in Num
      BY <1>8, <2>15, EnvGet
    <3>3. u \in Seq(Num) /\ Begins(s.out, u)
      BY <1>1, <3>2, BeginsAppend
    <3> HIDE DEF u
    <3>4. b[s.pc].op \notin Loops
      BY <2>6 DEF Loops
    <3>5. RunOK(b, State(s.pc + 1, s.env, u, 0, s.at, s.arg))
      BY <1>1, <2>1, <2>4, <2>5, <2>6, <3>3, <3>4, GoesOn
    <3> QED
      BY <2>3, <3>1, <3>3, <3>5
  <2>7. CASE b[s.pc].op \in {"zero", "add"}
    <3>1. PICK n \in Num : t = State(s.pc + 1, [s.env EXCEPT ![b[s.pc].var] = n], s.out, 0, s.at, s.arg)
      <4>1. s.env[b[s.pc].var] \in Num
        BY <1>8, <2>15, EnvGet
      <4>2. 0 \in Num /\ Add1(s.env[b[s.pc].var]) \in Num
        BY <4>1, NumIs
      <4>3. CASE b[s.pc].op = "zero"
        BY <1>7, <2>1, <4>2, <4>3, ZeroIs
      <4>4. CASE b[s.pc].op = "add"
        BY <1>7, <2>1, <4>2, <4>4, AddIs
      <4> QED
        BY <2>7, <4>3, <4>4
    <3> DEFINE e == [s.env EXCEPT ![b[s.pc].var] = n]
    <3>2. e \in Env
      BY <1>8, <2>15, EnvSet
    <3> HIDE DEF e
    <3>3. b[s.pc].op \notin Loops /\ b[s.pc].op \notin {"for", "end"}
      BY <2>7 DEF Loops
    <3>4. RunOK(b, State(s.pc + 1, e, s.out, 0, s.at, s.arg))
      BY <1>1, <2>1, <2>4, <2>5, <3>2, <3>3, GoesOn
    <3> QED
      BY <1>3, <2>3, <3>1, <3>4 DEF e
  <2>8. CASE b[s.pc].op = "while"
    <3> DEFINE q == IF s.env[b[s.pc].var] < 2 THEN s.pc + 1 ELSE EndOf(b, s.pc) + 1
    <3>1. t = State(q, s.env, s.out, 0, s.at, s.arg)
      BY <1>7, <2>1, <2>8, WhileIs
    <3>2. Opens(b, s.pc) /\ b[s.pc].op \notin Loops /\ b[s.pc].op \notin {"for", "end"}
      BY <2>8 DEF Opens, Loops
    <3>3. EndOf(b, s.pc) \in 1..Len(b)
      BY <2>1, <3>2, EndIs, <1>2
    <3>4. EndOf(b, s.pc) + 1 \in 1..(Len(b) + 1)
      BY <1>2, <3>3
    <3>5. q = s.pc + 1 \/ q = EndOf(b, s.pc) + 1
      OBVIOUS
    <3> HIDE DEF q
    <3>7. \A j \in DOMAIN b : Open(b, j, q) <=> Open(b, j, s.pc)
      BY <2>1, <2>4, <3>2, <3>5, LeaveOpen
    <3>8. q \in 1..(Len(b) + 1)
      BY <2>5, <3>4, <3>5
    <3>9. RunOK(b, State(q, s.env, s.out, 0, s.at, s.arg))
      BY <1>1, <2>1, <3>2, <3>7, <3>8, GoesOn
    <3> QED
      BY <1>3, <2>3, <3>1, <3>9
  <2>9. CASE b[s.pc].op \in {"end", "continue", "break"}
    <3> DEFINE l == LoopOf(b, s.pc)
    <3>1. /\ l \in DOMAIN b /\ Opens(b, l) /\ l < s.pc
          /\ \A j \in DOMAIN b : Open(b, j, s.pc) <=> Open(b, j, l) \/ (j = l /\ b[j].op = "for")
      BY <2>1, <2>9, BackOpen
    <3>7. l \in DOMAIN b
      BY <3>1
    <3>2. s.at[s.pc] = 0
      BY <2>1, <2>9, NoPlace DEF Loops
    <3>3. s.at[l] > 0 => b[l].op \in Loops
      BY <3>1 DEF RunOK
    <3>4. ~Open(b, l, l) /\ ~(0 > 0)
      BY <1>2, <3>1 DEF Open
    <3>8. ~Open(b, l, l)
      BY <3>4
    <3>5. CASE b[s.pc].op \in {"end", "continue"}
      <4>1. t = State(l, s.env, s.out, 0, s.at, s.arg)
        BY <1>7, <2>1, <3>5, BackIs
      <4> HIDE DEF l
      <4>2. s.at = [s.at EXCEPT ![l] = s.at[l]] /\ s.at[l] \in Nat /\ l \in 1..(Len(b) + 1)
        BY <1>1, <1>2, <3>1
      <4>3. \A j \in DOMAIN b : j # l => (j = s.pc => s.at[j] = 0) /\ (Open(b, j, l) <=> Open(b, j, s.pc))
        BY <3>1, <3>2
      <4> DEFINE n == s.at[l]
      <4>7. l \in 1..(Len(b) + 1)
        BY <4>2
      <4>6. n \in Nat /\ (n > 0 => b[l].op \in Loops)
        BY <3>3, <4>2
      <4>4. RunOK(b, State(l, s.env, s.out, 0, [s.at EXCEPT ![l] = n], s.arg))
        <5> DEFINE e == s.env
                   u == s.out
                   g == s.arg
        <5>1. e \in Env /\ u \in Seq(Num) /\ g \in [DOMAIN b -> Num]
          BY <1>9
        <5> HIDE DEF e, u, g, n
        <5>2. RunOK(b, State(l, e, u, 0, [s.at EXCEPT ![l] = n], g))
          BY <3>7, <3>8, <4>7, <4>3, <4>6, <5>1, OpenLoopsKept
        <5> QED
          BY <5>2 DEF e, u, g
      <4>5. RunOK(b, State(l, s.env, s.out, 0, s.at, s.arg))
        BY <4>2, <4>4
      <4> QED
        BY <1>3, <2>3, <4>1, <4>5
    <3>6. CASE b[s.pc].op = "break"
      <4> DEFINE q == EndOf(b, l) + 1
      <4>1. t = State(q, s.env, s.out, 0, [s.at EXCEPT ![l] = 0], s.arg)
        BY <1>7, <2>1, <3>6, BreakIs
      <4>2. EndOf(b, l) \in 1..Len(b)
        BY <3>1, EndIs, <1>2
      <4>3. q \in 1..(Len(b) + 1) /\ 0 \in Nat
        BY <1>2, <4>2
      <4>9. q \in 1..(Len(b) + 1)
        BY <4>3
      <4>5. \A j \in DOMAIN b : Open(b, j, q) <=> Open(b, j, l)
        BY <3>1, LeaveOpen
      <4> HIDE DEF q, l
      <4>6. \A j \in DOMAIN b : j # l => (j = s.pc => s.at[j] = 0) /\ (Open(b, j, q) <=> Open(b, j, s.pc))
        BY <3>1, <3>2, <4>5
      <4>7. ~Open(b, l, q)
        BY <3>1, <3>4, <4>5
      <4>8. RunOK(b, State(q, s.env, s.out, 0, [s.at EXCEPT ![l] = 0], s.arg))
        <5> DEFINE e == s.env
                   u == s.out
                   g == s.arg
        <5>1. e \in Env /\ u \in Seq(Num) /\ g \in [DOMAIN b -> Num]
          BY <1>9
        <5> HIDE DEF e, u, g
        <5>2. RunOK(b, State(q, e, u, 0, [s.at EXCEPT ![l] = 0], g))
          BY <3>7, <4>9, <4>6, <4>7, <5>1, OpenLoopsKept
        <5> QED
          BY <5>2 DEF e, u, g
      <4> QED
        BY <1>3, <2>3, <4>1, <4>8
    <3> QED
      BY <2>9, <3>5, <3>6
  <2>10. CASE b[s.pc].op \in {"return", "raise"}
    <3>1. b[s.pc].op = "return" => t = State(s.pc, s.env, s.out, Stop, s.at, s.arg)
      BY <1>7, <2>1, ReturnIs
    <3>2. b[s.pc].op = "raise" => t = State(s.pc, s.env, s.out, Error, s.at, s.arg)
      BY <1>7, <2>1, RaiseIs
    <3> QED
      BY <1>4, <2>10, <3>1, <3>2
  <2>13. \A j \in DOMAIN b : j # s.pc => (j = s.pc => s.at[j] = 0)
    OBVIOUS
  <2>14. ~Open(b, s.pc, s.pc)
    BY <1>2, <2>1 DEF Open
  <2>11. CASE b[s.pc].op \in Loops /\ s.at[s.pc] = 0
    <3> DEFINE g == [s.arg EXCEPT ![s.pc] = s.env.p]
    <3>1. t = State(s.pc, s.env, s.out, 0, [s.at EXCEPT ![s.pc] = 1], g)
      <4>1. b[s.pc].op \in Loops /\ s.at[s.pc] = 0 => Statement(b, inner, s) =
              State(s.pc, s.env, s.out, s.ended, [s.at EXCEPT ![s.pc] = 1],
                    [s.arg EXCEPT ![s.pc] = s.env.p])
        BY <1>7, <2>1, StartIs
      <4> QED
        BY <2>11, <4>1
    <3>2. s.env.p \in Num /\ 1 \in Nat /\ 1 > 0
      BY <1>8 DEF Env
    <3>3. g \in [DOMAIN b -> Num]
      BY <1>1, <3>2
    <3> HIDE DEF g
    <3>4. RunOK(b, State(s.pc, s.env, s.out, 0, [s.at EXCEPT ![s.pc] = 1], g))
      BY <1>1, <2>1, <2>11, <2>13, <3>2, <3>3, OpenLoopsKept
    <3> QED
      BY <1>3, <2>3, <3>1, <3>4
  <2>12. CASE b[s.pc].op \in Loops /\ s.at[s.pc] # 0
    <3> DEFINE n == s.at[s.pc]
               y == inner[s.arg[s.pc]]
    <3>1. /\ n \in Nat /\ n > 0 /\ y.out \in Seq(Num) /\ y.ended \in {0, Stop, Error}
          /\ Len(y.out) \in Nat
      <4>1. y \in [out : Seq(Num), ended : {0, Stop, Error}]
        BY <1>1, <2>1 DEF Inners
      <4>2. n \in Nat /\ n # 0
        BY <1>1, <2>1, <2>12
      <4> HIDE DEF y, n
      <4> QED
        BY <4>1, <4>2
    <3>12. s.at[s.pc] # 0
      BY <2>12
    <3>11. n = s.at[s.pc] /\ y = inner[s.arg[s.pc]]
      OBVIOUS
    <3> HIDE DEF n, y
    <3>13. b[s.pc].op \in Loops
      BY <2>12
    <3>7. /\ n \notin DOMAIN y.out /\ y.ended # Stop => t = State(s.pc, s.env, s.out, y.ended, s.at, s.arg)
          /\ n \notin DOMAIN y.out /\ y.ended = Stop =>
               t = State(IF b[s.pc].op = "for" THEN EndOf(b, s.pc) + 1 ELSE s.pc + 1,
                         s.env, s.out, s.ended, [s.at EXCEPT ![s.pc] = 0], s.arg)
          /\ n \in DOMAIN y.out /\ b[s.pc].op = "for" =>
               t = State(s.pc + 1, [s.env EXCEPT ![b[s.pc].var] = y.out[n]], s.out, s.ended,
                         [s.at EXCEPT ![s.pc] = n + 1], s.arg)
          /\ n \in DOMAIN y.out /\ b[s.pc].op = "from" =>
               t = State(s.pc, s.env, Append(s.out, y.out[n]), s.ended, [s.at EXCEPT ![s.pc] = n + 1], s.arg)
      BY <1>7, <2>1, <3>12, <3>13, LoopStatementIs DEF n, y
    <3>2. CASE n \notin DOMAIN y.out /\ y.ended # Stop
      <4>1. t = State(s.pc, s.env, s.out, y.ended, s.at, s.arg)
        BY <3>7, <3>2
      <4>3. CASE y.ended = 0
        <5>1. t = s
          BY <1>0, <4>1, <4>3
        <5> QED
          BY <1>3, <5>1
      <4>4. CASE y.ended = Error
        BY <1>4, <4>1, <4>4
      <4> QED
        BY <3>1, <3>2, <4>3, <4>4
    <3>3. CASE n \notin DOMAIN y.out /\ y.ended = Stop
      <4> DEFINE q == IF b[s.pc].op = "for" THEN EndOf(b, s.pc) + 1 ELSE s.pc + 1
      <4>1. t = State(q, s.env, s.out, 0, [s.at EXCEPT ![s.pc] = 0], s.arg)
        BY <3>7, <3>3
      <4>2. b[s.pc].op = "for" => Opens(b, s.pc) /\ EndOf(b, s.pc) \in 1..Len(b)
        BY <1>2, <2>1, ForIs
      <4>3. EndOf(b, s.pc) \in 1..Len(b) => EndOf(b, s.pc) + 1 \in 1..(Len(b) + 1)
        BY <1>2
      <4>4. q \in 1..(Len(b) + 1) /\ 0 \in Nat /\ ~(0 > 0)
        BY <2>5, <4>2, <4>3
      <4>6. \A j \in DOMAIN b : Open(b, j, q) <=> Open(b, j, s.pc)
        <5>1. CASE b[s.pc].op = "for"
          BY <2>1, <4>2, <5>1, LeaveOpen
        <5>2. CASE b[s.pc].op = "from"
          BY <2>4, <5>2
        <5> QED
          BY <2>12, <5>1, <5>2 DEF Loops
      <4> HIDE DEF q
      <4>8. RunOK(b, State(q, s.env, s.out, 0, [s.at EXCEPT ![s.pc] = 0], s.arg))
        BY <1>1, <2>1, <2>13, <2>14, <4>4, <4>6, OpenLoopsKept
      <4> QED
        BY <1>3, <2>3, <4>1, <4>8
    <3>6. n \in DOMAIN y.out => n \in 1..Len(y.out) /\ y.out[n] \in Num /\ n + 1 \in Nat /\ n + 1 > 0
      BY <3>1
    <3>4. CASE n \in DOMAIN y.out /\ b[s.pc].op = "for"
      <4> DEFINE e == [s.env EXCEPT ![b[s.pc].var] = y.out[n]]
      <4>1. t = State(s.pc + 1, e, s.out, 0, [s.at EXCEPT ![s.pc] = n + 1], s.arg)
        BY <3>7, <3>4, <3>6
      <4>2. e \in Env
        BY <1>8, <2>15, <3>4, <3>6, EnvSet
      <4> HIDE DEF e
      <4>6. \A j \in DOMAIN b : Open(b, j, s.pc + 1) <=> Open(b, j, s.pc) \/ j = s.pc
        BY <2>1, <3>4, EnterOpen
      <4>7. RunOK(b, State(s.pc + 1, e, s.out, 0, [s.at EXCEPT ![s.pc] = n + 1], s.arg))
        <5> DEFINE m == n + 1
        <5>1. m \in Nat /\ m > 0
          BY <3>4, <3>6
        <5> HIDE DEF m
        <5>2. RunOK(b, State(s.pc + 1, e, s.out, 0, [s.at EXCEPT ![s.pc] = m], s.arg))
          BY <1>1, <2>1, <2>5, <2>12, <4>2, <4>6, <5>1, OpenLoopsKept
        <5> QED
          BY <5>2 DEF m
      <4> QED
        BY <1>3, <2>3, <4>1, <4>7
    <3>5. CASE n \in DOMAIN y.out /\ b[s.pc].op = "from"
      <4> DEFINE u == Append(s.out, y.out[n])
      <4>1. t = State(s.pc, s.env, u, 0, [s.at EXCEPT ![s.pc] = n + 1], s.arg)
        BY <3>7, <3>5, <3>6
      <4>2. Begins(s.out, u) /\ u \in Seq(Num)
        BY <1>1, <3>5, <3>6, BeginsAppend
      <4> HIDE DEF u
      <4>7. RunOK(b, State(s.pc, s.env, u, 0, [s.at EXCEPT ![s.pc] = n + 1], s.arg))
        <5> DEFINE m == n + 1
        <5>1. m \in Nat /\ m > 0
          BY <3>5, <3>6
        <5> HIDE DEF m
        <5>2. RunOK(b, State(s.pc, s.env, u, 0, [s.at EXCEPT ![s.pc] = m], s.arg))
          BY <1>1, <2>1, <2>12, <2>13, <4>2, <5>1, OpenLoopsKept
        <5> QED
          BY <5>2 DEF m
      <4> QED
        BY <2>3, <4>1, <4>2, <4>7
    <3> QED
      BY <2>12, <3>2, <3>3, <3>4, <3>5 DEF Loops
  <2> QED
    BY <2>2, <2>6, <2>7, <2>8, <2>9, <2>10, <2>11, <2>12
<1> QED
  BY <1>5, <1>6

-----------------------------------------------------------------------------
\* A run through a body, statement by statement.
OneMore(b, inner, s) == IF s.ended # 0 THEN s ELSE Statement(b, inner, s)

IsRun(N, g, b, inner, p) ==
  /\ g = [k \in 0..N |-> g[k]] /\ g[0] = Started(b, p)
  /\ \A k \in 1..N : g[k] = OneMore(b, inner, g[k - 1])

LEMMA RunExists ==
  ASSUME NEW b, NEW inner, NEW p, NEW N \in Nat
  PROVE  \E g : IsRun(N, g, b, inner, p)
<1> DEFINE T == {n \in Nat : \E g : IsRun(n, g, b, inner, p)}
<1>1. 0 \in T
  <2>1. IsRun(0, [k \in 0..0 |-> Started(b, p)], b, inner, p)
    BY DEF IsRun
  <2> QED
    BY <2>1
<1>2. ASSUME NEW n \in 0..N - 1, n \in T PROVE n + 1 \in T
  <2>1. PICK g : IsRun(n, g, b, inner, p)
    BY <1>2
  <2> DEFINE h == [k \in 0..n + 1 |-> IF k = n + 1 THEN OneMore(b, inner, g[n]) ELSE g[k]]
  <2>2. /\ g = [k \in 0..n |-> g[k]] /\ g[0] = Started(b, p)
        /\ \A k \in 1..n : g[k] = OneMore(b, inner, g[k - 1])
    BY <2>1 DEF IsRun
  <2>3. h = [k \in 0..n + 1 |-> h[k]] /\ h[0] = Started(b, p)
    BY <2>2
  <2>4. ASSUME NEW k \in 1..n + 1 PROVE h[k] = OneMore(b, inner, h[k - 1])
    <3>1. CASE k = n + 1
      <4>1. k - 1 = n /\ n \in 0..n + 1 /\ n # n + 1 /\ k \in 0..n + 1
        BY <3>1
      <4>2. h[k] = OneMore(b, inner, g[n]) /\ h[k - 1] = g[n]
        BY <3>1, <4>1
      <4> HIDE DEF h
      <4> QED
        BY <4>2
    <3>2. CASE k # n + 1
      <4>1. k \in 1..n /\ k \in 0..n + 1 /\ k - 1 \in 0..n + 1 /\ k - 1 # n + 1
        BY <3>2
      <4>2. h[k] = g[k] /\ h[k - 1] = g[k - 1]
        BY <3>2, <4>1
      <4> HIDE DEF h
      <4> QED
        BY <2>2, <4>1, <4>2
    <3> QED
      BY <3>1, <3>2
  <2> HIDE DEF h
  <2>5. IsRun(n + 1, h, b, inner, p)
    BY <2>3, <2>4 DEF IsRun
  <2>6. n + 1 \in Nat
    OBVIOUS
  <2> QED
    BY <2>5, <2>6
<1> HIDE DEF T
<1>3. N \in T
  <2>1. 0..N \subseteq T
    BY <1>1, <1>2, LoopInduction
  <2> QED
    BY <2>1
<1> QED
  BY <1>3 DEF T

LEMMA RunIs ==
  ASSUME NEW b, NEW inner, NEW p, NEW N \in Nat
  PROVE  \E g : IsRun(N, g, b, inner, p) /\ RunThrough(b, inner, p, N) = g[N]
<1> DEFINE F(f) == [n \in 0..N |-> IF n = 0 THEN Started(b, p)
                    ELSE LET s == f[n - 1] IN IF s.ended # 0 THEN s ELSE Statement(b, inner, s)]
           a == CHOOSE f : f = F(f)
<1>1. PICK g : IsRun(N, g, b, inner, p)
  BY RunExists
<1>2. g = F(g)
  <2>1. /\ g = [k \in 0..N |-> g[k]] /\ g[0] = Started(b, p)
        /\ \A k \in 1..N : g[k] = OneMore(b, inner, g[k - 1])
    BY <1>1 DEF IsRun
  <2>2. ASSUME NEW n \in 0..N PROVE g[n] = F(g)[n]
    <3>1. n = 0 \/ n \in 1..N
      OBVIOUS
    <3> QED
      BY <2>1, <3>1 DEF OneMore
  <2> QED
    BY <2>1, <2>2
<1>3. RunThrough(b, inner, p, N) = a[N]
  BY DEF RunThrough
<1>4. a = F(a)
  BY <1>2, Zenon
<1> HIDE DEF a
<1>5. IsRun(N, a, b, inner, p)
  <2>1. \A n \in 0..N : a[n] = F(a)[n]
    BY <1>4
  <2>2. a = [k \in 0..N |-> a[k]]
    BY <1>4
  <2>3. a[0] = Started(b, p)
    BY <2>1
  <2>4. ASSUME NEW k \in 1..N PROVE a[k] = OneMore(b, inner, a[k - 1])
    <3>1. k \in 0..N /\ k # 0
      OBVIOUS
    <3> QED
      BY <2>1, <3>1 DEF OneMore
  <2> HIDE DEF F
  <2> QED
    BY <2>2, <2>3, <2>4 DEF IsRun
<1> QED
  BY <1>3, <1>5

LEMMA RunAgrees ==
  ASSUME NEW b, NEW inner, NEW p, NEW N \in Nat, NEW m \in 0..N,
         NEW g, IsRun(N, g, b, inner, p), NEW h, IsRun(m, h, b, inner, p)
  PROVE  g[m] = h[m]
<1> DEFINE T == {n \in Nat : g[n] = h[n]}
<1>1. /\ g[0] = Started(b, p) /\ h[0] = Started(b, p)
      /\ \A k \in 1..N : g[k] = OneMore(b, inner, g[k - 1])
      /\ \A k \in 1..m : h[k] = OneMore(b, inner, h[k - 1])
  BY DEF IsRun
<1>2. 0 \in T
  BY <1>1
<1>3. ASSUME NEW n \in 0..m - 1, n \in T PROVE n + 1 \in T
  <2>1. n + 1 \in 1..m /\ n + 1 \in 1..N /\ n + 1 - 1 = n /\ n + 1 \in Nat
    OBVIOUS
  <2>2. g[n + 1] = OneMore(b, inner, g[n]) /\ h[n + 1] = OneMore(b, inner, h[n])
    BY <1>1, <2>1
  <2>3. g[n] = h[n]
    BY <1>3
  <2> QED
    BY <2>1, <2>2, <2>3
<1> HIDE DEF T
<1>4. 0..m \subseteq T
  BY <1>2, <1>3, LoopInduction
<1> QED
  BY <1>4 DEF T

LEMMA RunSteps ==
  ASSUME NEW b, NEW inner, NEW p
  PROVE  /\ RunThrough(b, inner, p, 0) = Started(b, p)
         /\ \A n \in Nat : RunThrough(b, inner, p, n + 1) = OneMore(b, inner, RunThrough(b, inner, p, n))
<1>1. PICK g : IsRun(0, g, b, inner, p) /\ RunThrough(b, inner, p, 0) = g[0]
  BY RunIs
<1>2. ASSUME NEW n \in Nat
      PROVE  RunThrough(b, inner, p, n + 1) = OneMore(b, inner, RunThrough(b, inner, p, n))
  <2>1. PICK h : IsRun(n, h, b, inner, p) /\ RunThrough(b, inner, p, n) = h[n]
    BY RunIs
  <2> DEFINE m == n + 1
  <2>2. m \in Nat /\ n \in 0..m /\ m \in 1..m /\ m - 1 = n
    OBVIOUS
  <2> HIDE DEF m
  <2>3. PICK f : IsRun(m, f, b, inner, p) /\ RunThrough(b, inner, p, m) = f[m]
    BY <2>2, RunIs
  <2>4. f[n] = h[n]
    BY <2>1, <2>2, <2>3, RunAgrees
  <2>5. f[m] = OneMore(b, inner, f[n])
    BY <2>2, <2>3 DEF IsRun
  <2> QED
    BY <2>1, <2>3, <2>4, <2>5 DEF m
<1> QED
  BY <1>1, <1>2 DEF IsRun

\* Every state of a run is in order; what is given stays given, and an end is
\* for good.
LEMMA RunTyped ==
  ASSUME Wrap \in Nat \ {0}, NEW b, IsBody(b), NEW inner \in Inners, NEW p \in Num, NEW N \in Nat
  PROVE  RunOK(b, RunThrough(b, inner, p, N))
<1> DEFINE T == {n \in Nat : RunOK(b, RunThrough(b, inner, p, n))}
<1>1. 0 \in T
  <2> DEFINE s == Started(b, p)
             a == [j \in DOMAIN b |-> 0]
  <2>1. Locals(p) \in Env
    BY NumIs DEF Locals, Env
  <2>2. a \in [DOMAIN b -> Nat] /\ a \in [DOMAIN b -> Num] /\ <<>> \in Seq(Num) /\ 1 \in 1..(Len(b) + 1)
    BY NumIs, BodyIs
  <2>3. s = State(1, Locals(p), <<>>, 0, a, a)
    BY DEF Started, State
  <2>6. s.at = a /\ s.pc = 1
    BY DEF Started
  <2>7. \A j \in DOMAIN b : a[j] = 0
    OBVIOUS
  <2> HIDE DEF a
  <2>4. s \in RunState(b)
    <3>1. 0 \in {0, Stop, Error}
      OBVIOUS
    <3>2. State(1, Locals(p), <<>>, 0, a, a) \in RunState(b)
      BY <2>1, <2>2, <3>1, StateType, Zenon
    <3> QED
      BY <2>3, <3>2, Zenon
  <2>5. \A j \in DOMAIN b : ~Open(b, j, 1) /\ ~(a[j] > 0)
    BY <2>7, BodyIs DEF Open
  <2>8. RunOK(b, s)
    BY <2>4, <2>5, <2>6 DEF RunOK
  <2> QED
    BY <2>8, RunSteps
<1>2. ASSUME NEW n \in 0..N - 1, n \in T PROVE n + 1 \in T
  <2> DEFINE s == RunThrough(b, inner, p, n)
             t == RunThrough(b, inner, p, n + 1)
  <2>1. n \in Nat /\ n + 1 \in Nat /\ RunOK(b, s)
    BY <1>2
  <2>2. t = IF s.ended # 0 THEN s ELSE Statement(b, inner, s)
    BY <2>1, RunSteps DEF OneMore
  <2> HIDE DEF s, t
  <2>3. RunOK(b, t)
    BY <2>1, <2>2, StatementOK
  <2> QED
    BY <2>1, <2>3 DEF t
<1> HIDE DEF T
<1>3. 0..N \subseteq T
  BY <1>1, <1>2, LoopInduction
<1> QED
  BY <1>3 DEF T

LEMMA BeginsThen ==
  ASSUME NEW u, NEW v, NEW w, Len(u) \in Nat, Len(v) \in Nat, Len(w) \in Nat, Begins(u, v), Begins(v, w)
  PROVE  Begins(u, w)
  BY DEF Begins

LEMMA RunGrows ==
  ASSUME Wrap \in Nat \ {0}, NEW b, IsBody(b), NEW inner \in Inners, NEW p \in Num,
         NEW n \in Nat, NEW N \in Nat, n <= N
  PROVE  /\ Begins(RunThrough(b, inner, p, n).out, RunThrough(b, inner, p, N).out)
         /\ RunThrough(b, inner, p, n).ended # 0 =>
              RunThrough(b, inner, p, N) = RunThrough(b, inner, p, n)
<1> DEFINE R(k) == RunThrough(b, inner, p, k)
           T == {k \in Nat : /\ Begins(R(n).out, R(n + k).out)
                             /\ R(n).ended # 0 => R(n + k) = R(n)}
<1>0. \A k \in Nat : RunOK(b, R(k)) /\ R(k + 1) = OneMore(b, inner, R(k)) /\ R(k).out \in Seq(Num)
  <2> TAKE k \in Nat
  <2>1. RunOK(b, R(k))
    BY RunTyped
  <2>2. R(k).out \in Seq(Num)
    BY <2>1, RunStateIs DEF RunOK
  <2> QED
    BY <2>1, <2>2, RunSteps
<1>5. \A k \in Nat : Begins(R(k).out, R(k + 1).out)
  <2> SUFFICES ASSUME NEW k \in Nat PROVE Begins(R(k).out, R(k + 1).out)
    OBVIOUS
  <2> DEFINE s == R(k)
             t == R(k + 1)
  <2>1. RunOK(b, s) /\ t = OneMore(b, inner, s) /\ s.out \in Seq(Num)
    BY <1>0
  <2> HIDE DEF s, t
  <2>2. Begins(s.out, t.out)
    BY <2>1, BeginsSelf, StatementOK DEF OneMore
  <2> QED
    BY <2>2 DEF s, t
<1> HIDE DEF R
<1>1. 0 \in T
  <2>1. n + 0 = n
    OBVIOUS
  <2>2. Begins(R(n).out, R(n).out)
    BY <1>0, BeginsSelf
  <2> QED
    BY <2>1, <2>2
<1>2. ASSUME NEW k \in 0..(N - n) - 1, k \in T PROVE k + 1 \in T
  <2> DEFINE m == n + k
  <2>1. m \in Nat /\ n + (k + 1) = m + 1 /\ m + 1 \in Nat /\ k + 1 \in Nat
    OBVIOUS
  <2>2. Begins(R(n).out, R(m).out) /\ (R(n).ended # 0 => R(m) = R(n))
    BY <1>2
  <2> HIDE DEF m
  <2>3. Begins(R(m).out, R(m + 1).out) /\ R(m + 1) = OneMore(b, inner, R(m))
    BY <1>0, <1>5, <2>1
  <2>4. Len(R(n).out) \in Nat /\ Len(R(m).out) \in Nat /\ Len(R(m + 1).out) \in Nat
    <3>1. \A j \in Nat : Len(R(j).out) \in Nat
      BY <1>0
    <3> QED
      BY <2>1, <3>1
  <2>5. Begins(R(n).out, R(m + 1).out)
    BY <2>2, <2>3, <2>4, BeginsThen
  <2>6. R(n).ended # 0 => R(m + 1) = R(n)
    BY <2>2, <2>3 DEF OneMore
  <2> QED
    BY <2>1, <2>5, <2>6
<1>3. N - n \in Nat /\ n + (N - n) = N
  OBVIOUS
<1> DEFINE d == N - n
<1> HIDE DEF T, d
<1>4. d \in T
  <2>1. d \in Nat /\ \A k \in 0..d - 1 : k \in T => k + 1 \in T
    BY <1>2, <1>3 DEF d
  <2>2. 0..d \subseteq T
    BY <1>1, <2>1, LoopInduction
  <2> QED
    BY <2>1, <2>2
<1> QED
  BY <1>3, <1>4 DEF T, R, d

-----------------------------------------------------------------------------
\* What Python has come to in a body of a program, with the generators it calls
\* run for m statements: for every m from M on, within M statements.
ProgramOK(pr) ==
  /\ pr = [outer |-> pr.outer, inner |-> pr.inner]
  /\ IsBody(pr.outer) /\ IsBody(pr.inner)
  /\ \A j \in DOMAIN pr.inner : pr.inner[j].op \notin Loops

Gens == {"outer", "inner"}
InnerRuns(pr, gen, m) ==
  IF gen = "outer" THEN [p \in Num |-> Yields(pr.inner, NoInner, p, m)] ELSE NoInner
RunTo(pr, gen, p, m, n) == RunThrough(pr[gen], InnerRuns(pr, gen, m), p, n)
Reached(pr, gen, p, s, M) ==
  \A m \in Nat : m >= M => \E n \in 0..M : s = RunTo(pr, gen, p, m, n)

LEMMA BodiesOK ==
  ASSUME NEW pr, ProgramOK(pr), NEW gen \in Gens
  PROVE  IsBody(pr[gen]) /\ (gen = "inner" => \A j \in DOMAIN pr[gen] : pr[gen][j].op \notin Loops)
<1>1. CASE gen = "outer"
  BY <1>1 DEF ProgramOK
<1>2. CASE gen = "inner"
  BY <1>2 DEF ProgramOK
<1> QED
  BY <1>1, <1>2 DEF Gens

LEMMA NoInnerOK == NoInner \in Inners
<1>1. <<>> \in Seq(Num) /\ Stop \in {0, Stop, Error}
  OBVIOUS
<1> QED
  BY <1>1 DEF NoInner, Inners

LEMMA InnersOK ==
  ASSUME Wrap \in Nat \ {0}, NEW pr, ProgramOK(pr), NEW gen \in Gens, NEW m \in Nat
  PROVE  InnerRuns(pr, gen, m) \in Inners
<1>1. CASE gen = "outer"
  <2>1. ASSUME NEW p \in Num
        PROVE  Yields(pr.inner, NoInner, p, m) \in [out : Seq(Num), ended : {0, Stop, Error}]
    <3> DEFINE s == RunThrough(pr.inner, NoInner, p, m)
    <3>1. RunOK(pr.inner, s)
      BY NoInnerOK, RunTyped DEF ProgramOK
    <3> HIDE DEF s
    <3>2. s.out \in Seq(Num) /\ s.ended \in {0, Stop, Error}
      BY <3>1, RunStateIs DEF RunOK
    <3> QED
      BY <3>2 DEF Yields, s
  <2> QED
    BY <1>1, <2>1 DEF InnerRuns, Inners
<1>2. CASE gen # "outer"
  BY <1>2, NoInnerOK DEF InnerRuns
<1> QED
  BY <1>1, <1>2

LEMMA ReachedOK ==
  ASSUME Wrap \in Nat \ {0}, NEW pr, ProgramOK(pr), NEW gen \in Gens, NEW p \in Num,
         NEW M \in Nat, NEW s, Reached(pr, gen, p, s, M)
  PROVE  RunOK(pr[gen], s)
<1>1. PICK n \in 0..M : s = RunTo(pr, gen, p, M, n)
  BY DEF Reached
<1>2. n \in Nat /\ IsBody(pr[gen]) /\ InnerRuns(pr, gen, M) \in Inners
  BY BodiesOK, InnersOK
<1> QED
  BY <1>1, <1>2, RunTyped DEF RunTo

LEMMA ReachedLater ==
  ASSUME NEW pr, NEW gen, NEW p, NEW M \in Nat, NEW s, Reached(pr, gen, p, s, M),
         NEW K \in Nat, M <= K
  PROVE  Reached(pr, gen, p, s, K)
<1>1. ASSUME NEW m \in Nat, m >= K PROVE \E n \in 0..K : s = RunTo(pr, gen, p, m, n)
  <2>1. m >= M
    BY <1>1
  <2>2. PICK n \in 0..M : s = RunTo(pr, gen, p, m, n)
    BY <2>1 DEF Reached
  <2>3. n \in 0..K
    OBVIOUS
  <2> QED
    BY <2>2, <2>3
<1> QED
  BY <1>1 DEF Reached

LEMMA ReachedStart ==
  ASSUME NEW pr, NEW gen, NEW p, NEW M \in Nat
  PROVE  Reached(pr, gen, p, Started(pr[gen], p), M)
<1>1. \A m : RunTo(pr, gen, p, m, 0) = Started(pr[gen], p)
  BY RunSteps DEF RunTo
<1>2. 0 \in 0..M
  OBVIOUS
<1> QED
  BY <1>1, <1>2 DEF Reached

LEMMA ReachedStep ==
  ASSUME NEW pr, NEW gen, NEW p, NEW M \in Nat, NEW s, Reached(pr, gen, p, s, M), s.ended = 0,
         NEW t, NEW N, N = M + 1, \A m \in Nat : m >= M => Statement(pr[gen], InnerRuns(pr, gen, m), s) = t
  PROVE  Reached(pr, gen, p, t, N) /\ N \in Nat /\ M <= N
<1>1. ASSUME NEW m \in Nat, m >= N PROVE \E n \in 0..N : t = RunTo(pr, gen, p, m, n)
  <2>1. m >= M
    BY <1>1
  <2>2. PICK n \in 0..M : s = RunTo(pr, gen, p, m, n)
    BY <2>1 DEF Reached
  <2>3. n \in Nat /\ n + 1 \in 0..N
    OBVIOUS
  <2>4. RunTo(pr, gen, p, m, n + 1) = OneMore(pr[gen], InnerRuns(pr, gen, m), s)
    BY <2>2, <2>3, RunSteps DEF RunTo
  <2>5. RunTo(pr, gen, p, m, n + 1) = t
    BY <2>1, <2>4 DEF OneMore
  <2> QED
    BY <2>3, <2>5
<1> QED
  BY <1>1 DEF Reached

\* What was given when a state was reached is given by the whole run.
LEMMA ReachedAnswers ==
  ASSUME Wrap \in Nat \ {0}, NEW pr, ProgramOK(pr), NEW gen \in Gens, NEW p \in Num,
         NEW M \in Nat, NEW s, Reached(pr, gen, p, s, M), NEW m \in Nat, m >= M
  PROVE  /\ Begins(s.out, RunTo(pr, gen, p, m, m).out)
         /\ s.ended # 0 => RunTo(pr, gen, p, m, m) = s
<1>1. PICK n \in 0..M : s = RunTo(pr, gen, p, m, n)
  BY DEF Reached
<1>2. n \in Nat /\ n <= m /\ IsBody(pr[gen]) /\ InnerRuns(pr, gen, m) \in Inners
  BY BodiesOK, InnersOK
<1> QED
  BY <1>1, <1>2, RunGrows DEF RunTo

LEMMA InnerAnswers ==
  ASSUME Wrap \in Nat \ {0}, NEW pr, ProgramOK(pr), NEW p \in Num,
         NEW M \in Nat, NEW s, Reached(pr, "inner", p, s, M), NEW m \in Nat, m >= M,
         NEW y, y = InnerRuns(pr, "outer", m)[p]
  PROVE  /\ Begins(s.out, y.out)
         /\ s.ended # 0 => y.out = s.out /\ y.ended = s.ended
<1> DEFINE t == RunTo(pr, "inner", p, m, m)
<1>1. t = RunThrough(pr.inner, NoInner, p, m)
  BY DEF RunTo, InnerRuns
<1>2. y = Yields(pr.inner, NoInner, p, m)
  BY DEF InnerRuns
<1>3. y.out = t.out /\ y.ended = t.ended
  BY <1>1, <1>2 DEF Yields
<1>4. "inner" \in Gens
  BY DEF Gens
<1>5. Begins(s.out, t.out) /\ (s.ended # 0 => t = s)
  BY <1>4, ReachedAnswers
<1> HIDE DEF t
<1> QED
  BY <1>3, <1>5

-----------------------------------------------------------------------------
(* The objects, and what Python has come to in a body for each of them:      *)
(*   S[o]  the state, after some number of statements of o's body            *)
(*   A[o]  the argument                                                      *)
(*   O[o]  the object and the loop that called for o                         *)
(*   M     within how many statements the states are reached                 *)

\* In the state s of Python, c is where the compiled body is to go on.
PlaceOK(b, c, s) ==
  /\ s.ended = 0 => c.pc = s.pc /\ (c.head <=> s.pc \in DOMAIN b /\ s.at[s.pc] > 0)
  /\ s.ended = Stop => c.pc = Len(b) + 1 /\ ~c.head

Spot(o) == IF Len(calls) >= 1 /\ calls[1].obj = o THEN calls[1]
            ELSE IF Len(calls) >= 2 /\ calls[2].obj = o THEN calls[2]
            ELSE Resume(Body(o), heap[o].state)

ActShape(c) == c = [obj |-> c.obj, pc |-> c.pc, head |-> c.head]
ObjectShape(x, b) ==
  /\ x = [gen |-> x.gen, state |-> x.state, env |-> x.env, iters |-> x.iters]
  /\ x.iters = [n \in 1..Cardinality(IterSites(b)) |-> x.iters[n]]

ObjectOK(S, A, M, o) ==
  /\ heap[o].gen \in Gens /\ ObjectShape(heap[o], Body(o)) /\ heap[o].env = S[o].env
  /\ A[o] \in Num /\ Reached(program, heap[o].gen, A[o], S[o], M)
  /\ PlaceOK(Body(o), Spot(o), S[o])

Objects(S, A, M) == IsSeq(heap) /\ M \in Nat /\ \A o \in DOMAIN heap : ObjectOK(S, A, M, o)

Iterator(o, j) == heap[o].iters[IterSlot(Body(o), j)]

\* The activations: of an object of the module, and of the one it loops over.
Control(S) ==
  /\ ControlInv /\ Len(frames) <= 2
  /\ \A j \in DOMAIN calls : ActShape(calls[j])
  /\ Len(frames) >= 1 => frames[1].pc \in DOMAIN mains
  /\ Len(calls) >= 1 => calls[1].obj = mains[frames[1].pc]
  /\ Len(calls) = 2 => calls[2].obj = Iterator(calls[1].obj, calls[1].pc)
  /\ Len(frames) = 2 => frames[2].pc = calls[1].pc /\ calls[1].head /\ S[calls[1].obj].ended = 0
  /\ thrown # 0 => thrown = S[Me].ended
  /\ thrown = Stop => heap[Me].state = -1
  /\ calls # <<>> /\ S[Me].ended = Error => thrown = Error

\* A loop that is open has its object, and has had all it gave but the one
\* being handed over.
Handed(o, j) == result # <<>> /\ calls # <<>> /\ calls[1].obj = o /\ calls[1].pc = j

LoopOK(S, A, O, o, j) ==
  LET q == Iterator(o, j)
  IN  /\ q \in DOMAIN heap /\ heap[q].gen = "inner" /\ O[q] = <<o, j>> /\ A[q] = S[o].arg[j]
      /\ Len(S[q].out) = S[o].at[j] - 1 + (IF Handed(o, j) THEN 1 ELSE 0)
      /\ Handed(o, j) => result[1] = S[q].out[S[o].at[j]]
      /\ S[q].ended = Error => thrown = Error /\ calls # <<>> /\ Me = q

LoopsOK(S, A, O) ==
  \A o \in DOMAIN heap : S[o].ended = 0 =>
    \A j \in DOMAIN Body(o) : S[o].at[j] > 0 => LoopOK(S, A, O, o, j)

\* The module has got all that its objects gave, but the one value.
Busy(k)  == frames # <<>> /\ frames[1].pc = k
Waits(k) == Busy(k) /\ calls = <<>>

MainOK(S, A, k) ==
  LET s == S[mains[k]]
      g == Len(got[k])
  IN  /\ mains[k] \in DOMAIN heap /\ heap[mains[k]].gen = "outer" /\ A[mains[k]] = k - 1
      /\ IsSeq(got[k]) /\ g <= MaxNext /\ (Busy(k) => g < MaxNext)
      /\ s.ended = 0 => Len(s.out) = IF Waits(k) THEN g + 1 ELSE g
      /\ s.ended # 0 => Len(s.out) <= g
      /\ Waits(k) => s.ended = 0 /\ result[1] = s.out[g + 1]
      /\ \A n \in DOMAIN got[k] : got[k][n] = Answer(s, n)
      /\ s.ended = Error => \/ got[k] # <<>> /\ Last(got[k]) = Error
                            \/ thrown = Error /\ Busy(k) /\ Len(calls) = 1

Mains(S, A, O) ==
  /\ IsSeq(mains) /\ IsSeq(got) /\ Len(got) = Len(mains) /\ Len(mains) <= MaxMain
  /\ \A k \in DOMAIN mains : MainOK(S, A, k) /\ O[mains[k]] = <<0, k>>

Promise ==
  /\ program \in Programs
  /\ promised = [p \in 0..(MaxMain - 1) |-> YieldsOf(program.outer, program.inner, p, Fuel)]

Tracks(S, A, O, M) ==
  Promise /\ Objects(S, A, M) /\ Control(S) /\ LoopsOK(S, A, O) /\ Mains(S, A, O)

-----------------------------------------------------------------------------
\* What the invariant says of the object o.
LEMMA ProgramIs == program \in Programs => ProgramOK(program) /\ Wrap \in Nat \ {0}
  BY GeneratorAssumption DEF ProgramOK

LEMMA ObjectIs ==
  ASSUME NEW S, NEW A, NEW O, NEW M, Tracks(S, A, O, M), NEW o \in DOMAIN heap
  PROVE  /\ IsBody(Body(o)) /\ heap[o].gen \in Gens /\ Body(o) = program[heap[o].gen]
         /\ RunOK(Body(o), S[o])
         /\ heap[o].gen = "inner" => \A j \in DOMAIN Body(o) : Body(o)[j].op \notin Loops
         /\ PlaceOK(Body(o), Spot(o), S[o]) /\ ObjectShape(heap[o], Body(o))
         /\ heap[o].env = S[o].env /\ A[o] \in Num /\ M \in Nat
         /\ Reached(program, heap[o].gen, A[o], S[o], M)
<1>1. ProgramOK(program) /\ Wrap \in Nat \ {0}
  BY ProgramIs DEF Tracks, Promise
<1>2. ObjectOK(S, A, M, o) /\ M \in Nat
  BY DEF Tracks, Objects
<1>3. heap[o].gen \in Gens /\ A[o] \in Num /\ Reached(program, heap[o].gen, A[o], S[o], M)
  BY <1>2 DEF ObjectOK
<1>4. RunOK(program[heap[o].gen], S[o])
  BY <1>1, <1>2, <1>3, ReachedOK
<1>5. IsBody(program[heap[o].gen])
      /\ (heap[o].gen = "inner" => \A j \in DOMAIN program[heap[o].gen] :
            program[heap[o].gen][j].op \notin Loops)
  BY <1>1, <1>3, BodiesOK
<1> QED
  BY <1>2, <1>3, <1>4, <1>5 DEF Body, ObjectOK

\* The activations and what they are of.
LEMMA CountCalls ==
  ASSUME NEW S, Control(S)
  PROVE  /\ Len(calls) \in {0, 1, 2} /\ Len(frames) \in {0, 1, 2}
         /\ DOMAIN calls = 1..Len(calls) /\ DOMAIN frames = 1..Len(frames)
         /\ calls = <<>> <=> Len(calls) = 0
         /\ frames = <<>> <=> Len(frames) = 0
         /\ result = <<>> => Len(frames) = Len(calls)
         /\ result # <<>> => Len(frames) = Len(calls) + 1
         /\ thrown # 0 => calls # <<>> /\ result = <<>>
<1>1. ControlInv /\ Len(frames) <= 2
  BY DEF Control
<1>2. IsSeq(calls) /\ IsSeq(frames) /\ (thrown # 0 => calls # <<>> /\ result = <<>>)
  BY <1>1 DEF ControlInv
<1>3. DOMAIN calls = 1..Len(calls) /\ DOMAIN frames = 1..Len(frames)
  BY <1>2, SeqShape
<1>4. /\ Len(calls) \in Nat /\ Len(frames) \in Nat
      /\ (calls = <<>> <=> Len(calls) = 0) /\ (frames = <<>> <=> Len(frames) = 0)
      /\ result = <<>> => Len(frames) = Len(calls)
      /\ result # <<>> => Len(frames) = Len(calls) + 1
  BY <1>1, Lengths
<1>5. Len(calls) \in {0, 1, 2} /\ Len(frames) \in {0, 1, 2}
  <2> DEFINE n == Len(calls)
             m == Len(frames)
  <2>1. n \in Nat /\ m \in Nat /\ m <= 2 /\ (m = n \/ m = n + 1)
    BY <1>1, <1>4
  <2> HIDE DEF n, m
  <2>2. n \in {0, 1, 2} /\ m \in {0, 1, 2}
    BY <2>1
  <2> QED
    BY <2>2 DEF n, m
<1> QED
  BY <1>2, <1>3, <1>4, <1>5, Zenon

LEMMA OuterIs ==
  ASSUME NEW S, NEW A, NEW O, NEW M, Tracks(S, A, O, M), NEW k, Busy(k)
  PROVE  /\ k \in DOMAIN mains /\ MainOK(S, A, k) /\ mains[k] \in DOMAIN heap
         /\ calls # <<>> => calls[1].obj = mains[k] /\ Spot(mains[k]) = calls[1]
         /\ heap[mains[k]].gen = "outer"
<1>1. Control(S) /\ Mains(S, A, O)
  BY DEF Tracks
<1>2. Len(frames) >= 1 /\ frames[1].pc = k /\ (calls # <<>> => Len(calls) >= 1)
  BY <1>1, CountCalls DEF Busy
<1>3. k \in DOMAIN mains /\ (calls # <<>> => calls[1].obj = mains[k])
  BY <1>1, <1>2 DEF Control
<1>4. MainOK(S, A, k)
  BY <1>1, <1>3 DEF Mains
<1> QED
  BY <1>2, <1>3, <1>4 DEF MainOK, Spot

\* The loop that has called for a value, or is handed one.
LEMMA PullIs ==
  ASSUME NEW S, NEW A, NEW O, NEW M, Tracks(S, A, O, M), calls # <<>>,
         NEW o, o = calls[1].obj, NEW j, j = calls[1].pc, calls[1].head, S[o].ended = 0
  PROVE  /\ o \in DOMAIN heap /\ heap[o].gen = "outer" /\ S[o].pc = j
         /\ j \in DOMAIN Body(o) /\ S[o].at[j] > 0 /\ S[o].at[j] \in Nat
         /\ Body(o)[j].op \in Loops /\ LoopOK(S, A, O, o, j)
         /\ Iterator(o, j) \in DOMAIN heap /\ heap[Iterator(o, j)].gen = "inner" /\ Iterator(o, j) # o
<1>1. Control(S) /\ LoopsOK(S, A, O)
  BY DEF Tracks
<1>2. Busy(frames[1].pc)
  BY <1>1, CountCalls DEF Busy
<1>3. o \in DOMAIN heap /\ heap[o].gen = "outer" /\ Spot(o) = calls[1]
  BY <1>2, OuterIs
<1>4. PlaceOK(Body(o), calls[1], S[o]) /\ RunOK(Body(o), S[o])
  BY <1>3, ObjectIs
<1>5. S[o].pc = j /\ j \in DOMAIN Body(o) /\ S[o].at[j] > 0
  BY <1>4 DEF PlaceOK
<1>6. S[o].at \in [DOMAIN Body(o) -> Nat]
  BY <1>4, RunStateIs DEF RunOK
<1>7. Body(o)[j].op \in Loops
  BY <1>4, <1>5 DEF RunOK
<1>8. LoopOK(S, A, O, o, j)
  BY <1>1, <1>3, <1>5 DEF LoopsOK
<1>9. Iterator(o, j) \in DOMAIN heap /\ heap[Iterator(o, j)].gen = "inner"
  BY <1>8 DEF LoopOK
<1>10. "inner" # "outer"
  OBVIOUS
<1> QED
  BY <1>3, <1>5, <1>6, <1>7, <1>8, <1>9, <1>10

LEMMA TopIs ==
  ASSUME NEW S, NEW A, NEW O, NEW M, Tracks(S, A, O, M), calls # <<>>
  PROVE  /\ Me \in DOMAIN heap /\ Spot(Me) = calls[Top] /\ ActShape(calls[Top])
         /\ Top \in {1, 2} /\ Top = Len(calls) /\ DOMAIN calls = 1..Top
         /\ Top = 1 => heap[Me].gen = "outer" /\ Me = mains[frames[1].pc] /\ Busy(frames[1].pc)
         /\ Top = 2 => /\ result = <<>> /\ heap[Me].gen = "inner"
                       /\ Me = Iterator(calls[1].obj, calls[1].pc) /\ Me # calls[1].obj
                       /\ frames[2].pc = calls[1].pc /\ calls[1].head
                       /\ S[calls[1].obj].ended = 0
<1>1. Control(S)
  BY DEF Tracks
<1>2. Top \in {1, 2} /\ Top = Len(calls) /\ DOMAIN calls = 1..Top /\ Busy(frames[1].pc)
  BY <1>1, CountCalls DEF Busy, Top
<1>3. ActShape(calls[Top])
  BY <1>1, <1>2 DEF Control
<1>4. CASE Top = 1
  <2>1. Me = calls[1].obj
    BY <1>4 DEF Me
  <2> QED
    BY <1>2, <1>3, <1>4, <2>1, OuterIs
<1>5. CASE Top = 2
  <2>1. Me = calls[2].obj
    BY <1>5 DEF Me
  <2>2. Len(frames) = 2 /\ result = <<>>
    BY <1>1, <1>2, <1>5, CountCalls
  <2>3. Me = Iterator(calls[1].obj, calls[1].pc) /\ frames[2].pc = calls[1].pc /\ calls[1].head
        /\ S[calls[1].obj].ended = 0
    BY <1>1, <1>2, <1>5, <2>1, <2>2 DEF Control
  <2>4. Me \in DOMAIN heap /\ heap[Me].gen = "inner" /\ Me # calls[1].obj
    BY <2>3, PullIs
  <2>5. Spot(Me) = calls[2]
    BY <1>2, <1>5, <2>1, <2>4 DEF Spot
  <2> QED
    BY <1>2, <1>3, <1>5, <2>2, <2>3, <2>4, <2>5
<1> QED
  BY <1>2, <1>4, <1>5

-----------------------------------------------------------------------------
\* What keeps an object, a loop and an object of the module in order.
SameObject(x) == x \in DOMAIN heap' /\ heap'[x] = heap[x] /\ program' = program
SameKind(x) == /\ x \in DOMAIN heap' /\ program' = program
               /\ heap'[x].gen = heap[x].gen /\ heap'[x].iters = heap[x].iters

SameGen(x) == x \in DOMAIN heap' /\ heap'[x].gen = heap[x].gen

LEMMA SameKindIs ==
  ASSUME NEW x, SameKind(x)
  PROVE  SameGen(x) /\ Body(x)' = Body(x) /\ \A j : Iterator(x, j)' = Iterator(x, j)
  BY DEF SameKind, SameGen, Body, Iterator

LEMMA ObjectKept ==
  ASSUME NEW S, NEW A, NEW M, NEW x, ObjectOK(S, A, M, x), SameObject(x), Spot(x)' = Spot(x),
         NEW R, NEW B, R[x] = S[x], B[x] = A[x], NEW N, M \in Nat, N \in Nat, M <= N
  PROVE  ObjectOK(R, B, N, x)'
<1>1. Body(x)' = Body(x) /\ heap'[x] = heap[x] /\ program' = program
  BY DEF SameObject, Body
<1>2. Reached(program, heap[x].gen, A[x], S[x], N)
  BY ReachedLater DEF ObjectOK
<1> QED
  BY <1>1, <1>2 DEF ObjectOK

LEMMA LoopKept ==
  ASSUME NEW S, NEW A, NEW O, NEW x, NEW j, LoopOK(S, A, O, x, j), ~Handed(x, j), ~Handed(x, j)',
         NEW q, q = Iterator(x, j), q = Iterator(x, j)', SameGen(q),
         NEW R, NEW B, NEW P, B[q] = A[q], P[q] = O[q],
         R[x].at[j] = S[x].at[j], R[x].arg[j] = S[x].arg[j], R[q].out = S[q].out,
         R[q].ended = Error => (thrown = Error /\ calls # <<>> /\ Me = q)'
  PROVE  LoopOK(R, B, P, x, j)'
<1>1. Iterator(x, j)' = q /\ heap'[q].gen = heap[q].gen /\ q \in DOMAIN heap'
  BY DEF SameGen
<1>2. /\ heap[q].gen = "inner" /\ O[q] = <<x, j>> /\ A[q] = S[x].arg[j]
      /\ Len(S[q].out) = S[x].at[j] - 1 + 0
  BY DEF LoopOK
<1> QED
  BY <1>1, <1>2 DEF LoopOK

LEMMA MainKept ==
  ASSUME NEW S, NEW A, NEW k, MainOK(S, A, k), NEW o, o = mains[k],
         mains'[k] = o, got'[k] = got[k], SameGen(o), NEW R, NEW B, B[o] = A[o],
         R[o].out = S[o].out, R[o].ended = 0 => S[o].ended = 0,
         S[o].ended # 0 => R[o].ended = S[o].ended,
         Waits(k)' <=> Waits(k), Waits(k) => result' = result /\ R[o].ended = 0,
         Busy(k)' => Busy(k) \/ Len(got[k]) < MaxNext,
         R[o].ended = Error => \/ S[o].ended = Error /\ ~(thrown = Error /\ Busy(k) /\ Len(calls) = 1)
                               \/ (thrown = Error /\ Busy(k) /\ Len(calls) = 1)',
         Len(S[o].out) \in Nat, ~Waits(k)
  PROVE  MainOK(R, B, k)'
<1> DEFINE g == Len(got[k])
<1>1. /\ heap[o].gen = "outer" /\ A[o] = k - 1
      /\ IsSeq(got[k]) /\ g <= MaxNext /\ (Busy(k) => g < MaxNext)
      /\ S[o].ended = 0 => Len(S[o].out) = g
      /\ S[o].ended # 0 => Len(S[o].out) <= g
      /\ \A n \in DOMAIN got[k] : got[k][n] = Answer(S[o], n)
      /\ S[o].ended = Error => \/ got[k] # <<>> /\ Last(got[k]) = Error
                               \/ thrown = Error /\ Busy(k) /\ Len(calls) = 1
  BY DEF MainOK
<1>2. g \in Nat /\ DOMAIN got[k] = 1..g
  BY <1>1, SeqShape
<1>3. o \in DOMAIN heap' /\ heap'[o].gen = "outer"
  BY <1>1 DEF SameGen
<1>4. ASSUME NEW n \in DOMAIN got[k] PROVE got[k][n] = Answer(R[o], n)
  <2>1. CASE S[o].ended = 0
    <3>1. n <= Len(S[o].out)
      BY <1>1, <1>2, <2>1
    <3> QED
      BY <1>1, <3>1 DEF Answer
  <2>2. CASE S[o].ended # 0
    BY <1>1, <2>2 DEF Answer
  <2> QED
    BY <2>1, <2>2
<1>5. R[o].ended # 0 => Len(R[o].out) <= g
  BY <1>1, <1>2
<1>6. R[o].ended = Error => \/ got[k] # <<>> /\ Last(got[k]) = Error
                            \/ (thrown = Error /\ Busy(k) /\ Len(calls) = 1)'
  BY <1>1
<1>7. ~Waits(k)'
  OBVIOUS
<1>8. (Busy(k))' => g < MaxNext
  BY <1>1
<1>9. R[o].ended = 0 => Len(R[o].out) = g
  BY <1>1
<1> HIDE DEF g
<1> QED
  BY <1>1, <1>3, <1>4, <1>5, <1>6, <1>7, <1>8, <1>9 DEF MainOK, g

-----------------------------------------------------------------------------
\* A statement of the running body that hands nothing over: o, in the state s
\* of Python, comes to t.
Moves(S, A, R, o, t, N) ==
  /\ R[o] = t /\ \A x \in DOMAIN heap : x # o => R[x] = S[x]
  /\ N \in Nat /\ Reached(program, heap[o].gen, A[o], t, N)
  /\ t.out = S[o].out /\ (t.ended = 0 => S[o].ended = 0) /\ (S[o].ended # 0 => t.ended = S[o].ended)
  /\ t.ended = 0 => \A j \in DOMAIN Body(o) : t.at[j] > 0 =>
       S[o].at[j] > 0 /\ t.at[j] = S[o].at[j] /\ t.arg[j] = S[o].arg[j]
  /\ PlaceOK(Body(o), calls'[Top], t)
  /\ result = <<>> /\ UNCHANGED <<fixed, mains, got, result, frames>>
  /\ IsSeq(heap') /\ DOMAIN heap' = DOMAIN heap /\ \A x \in DOMAIN heap : x # o => heap'[x] = heap[x]
  /\ heap'[o].gen = heap[o].gen /\ heap'[o].iters = heap[o].iters /\ heap'[o].env = t.env
  /\ ObjectShape(heap'[o], Body(o))
  /\ Len(calls') = Len(calls) /\ \A j \in DOMAIN calls : j # Top => calls'[j] = calls[j]
  /\ calls'[Top].obj = o /\ ActShape(calls'[Top])
  /\ thrown' # 0 => thrown' = t.ended
  /\ t.ended = Error => thrown' = Error
  /\ thrown' = Stop => heap'[o].state = -1

LEMMA MovesKind ==
  ASSUME NEW S, NEW A, NEW O, NEW M, Tracks(S, A, O, M), calls # <<>>, NEW o, o = Me,
         NEW R, NEW t, NEW N, Moves(S, A, R, o, t, N)
  PROVE  /\ o \in DOMAIN heap /\ \A x \in DOMAIN heap : SameKind(x) /\ (x # o => SameObject(x))
         /\ Top \in {1, 2} /\ Len(calls) = Top /\ Len(calls') = Top /\ Top' = Top
         /\ DOMAIN calls = 1..Top
<1>1. o \in DOMAIN heap /\ Top \in {1, 2} /\ Top = Len(calls) /\ DOMAIN calls = 1..Top
  BY TopIs
<1>2. program' = program /\ DOMAIN heap' = DOMAIN heap /\ Len(calls') = Len(calls)
      /\ (\A x \in DOMAIN heap : x # o => heap'[x] = heap[x])
      /\ heap'[o].gen = heap[o].gen /\ heap'[o].iters = heap[o].iters
  BY DEF Moves, fixed
<1> QED
  BY <1>1, <1>2 DEF SameKind, SameObject, Top

LEMMA MovesObjects ==
  ASSUME NEW S, NEW A, NEW O, NEW M, Tracks(S, A, O, M), calls # <<>>, NEW o, o = Me,
         NEW R, NEW t, NEW N, M <= N, Moves(S, A, R, o, t, N)
  PROVE  Objects(R, A, N)'
<1>1. /\ o \in DOMAIN heap /\ \A x \in DOMAIN heap : SameKind(x) /\ (x # o => SameObject(x))
      /\ Top \in {1, 2} /\ Len(calls) = Top /\ Len(calls') = Top /\ Top' = Top /\ DOMAIN calls = 1..Top
  BY MovesKind
<1>2. Objects(S, A, M)
  BY DEF Tracks
<1>3. /\ \A j \in 1..Top : j # Top => calls'[j] = calls[j]
      /\ calls'[Top].obj = o /\ calls[Top].obj = o
  BY <1>1 DEF Moves, Me
<1>4. ASSUME NEW x \in DOMAIN heap, x # o PROVE ObjectOK(R, A, N, x)'
  <2>1. SameObject(x) /\ R[x] = S[x] /\ N \in Nat
    BY <1>1, <1>4 DEF Moves
  <2>2. Body(x)' = Body(x) /\ heap'[x] = heap[x]
    BY <2>1 DEF SameObject, Body
  <2>3. Spot(x)' = Spot(x)
    <3>1. CASE Top = 1
      BY <1>1, <1>3, <1>4, <2>2, <3>1 DEF Spot
    <3>2. CASE Top = 2
      BY <1>1, <1>3, <1>4, <2>2, <3>2 DEF Spot
    <3> QED
      BY <1>1, <3>1, <3>2
  <2> QED
    BY <1>2, <2>1, <2>3, ObjectKept DEF Objects
<1>5. ObjectOK(R, A, N, o)'
  <2>1. Body(o)' = Body(o) /\ heap'[o].gen = heap[o].gen /\ program' = program
    BY <1>1 DEF SameKind, Body
  <2>2. Spot(o)' = calls'[Top]
    <3>1. CASE Top = 1
      BY <1>1, <1>3, <3>1 DEF Spot
    <3>2. CASE Top = 2
      <4>1. calls'[1] = calls[1] /\ calls[1].obj # o
        BY <1>3, <3>2, TopIs
      <4> QED
        BY <1>1, <1>3, <3>2, <4>1 DEF Spot
    <3> QED
      BY <1>1, <3>1, <3>2
  <2>3. heap[o].gen \in Gens /\ A[o] \in Num
    BY <1>1, ObjectIs
  <2>4. /\ R[o] = t /\ Reached(program, heap[o].gen, A[o], t, N) /\ PlaceOK(Body(o), calls'[Top], t)
        /\ heap'[o].env = t.env /\ ObjectShape(heap'[o], Body(o))
    BY DEF Moves
  <2> QED
    BY <2>1, <2>2, <2>3, <2>4 DEF ObjectOK
<1>6. IsSeq(heap') /\ DOMAIN heap' = DOMAIN heap /\ N \in Nat
  BY DEF Moves
<1> QED
  BY <1>4, <1>5, <1>6 DEF Objects

LEMMA MovesControl ==
  ASSUME NEW S, NEW A, NEW O, NEW M, Tracks(S, A, O, M), calls # <<>>, NEW o, o = Me,
         NEW R, NEW t, NEW N, Moves(S, A, R, o, t, N), ControlInv'
  PROVE  Control(R)'
<1>1. /\ o \in DOMAIN heap /\ \A x \in DOMAIN heap : SameKind(x) /\ (x # o => SameObject(x))
      /\ Top \in {1, 2} /\ Len(calls) = Top /\ Len(calls') = Top /\ Top' = Top /\ DOMAIN calls = 1..Top
  BY MovesKind
<1>2. Control(S)
  BY DEF Tracks
<1>3. /\ \A j \in 1..Top : j # Top => calls'[j] = calls[j]
      /\ calls'[Top].obj = o /\ calls[Top].obj = o /\ ActShape(calls'[Top])
      /\ frames' = frames /\ mains' = mains /\ result' = result /\ R[o] = t
      /\ thrown' # 0 => thrown' = t.ended
      /\ t.ended = Error => thrown' = Error
      /\ thrown' = Stop => heap'[o].state = -1
  BY <1>1 DEF Moves, Me
<1>4. Me' = o
  BY <1>1, <1>3 DEF Me
<1>5. DOMAIN calls' = 1..Top
  BY <1>1, SeqShape DEF ControlInv
<1>6. \A j \in 1..Top : ActShape(calls'[j])
  BY <1>1, <1>2, <1>3 DEF Control
<1>7. calls'[1].obj = calls[1].obj
  BY <1>1, <1>3
<1>8. CASE Top = 1
  <2>1. Len(frames) = 1
    BY <1>1, <1>2, <1>8, CountCalls DEF Moves
  <2> QED
    BY <1>1, <1>2, <1>3, <1>4, <1>5, <1>6, <1>7, <1>8, <2>1 DEF Control
<1>9. CASE Top = 2
  <2>1. calls'[1] = calls[1]
    BY <1>3, <1>9
  <2>2. calls[1].obj \in DOMAIN heap /\ calls[1].obj # o
    <3>1. Busy(frames[1].pc)
      BY <1>1, <1>2, <1>9, CountCalls DEF Busy
    <3> QED
      BY <1>9, <3>1, OuterIs, TopIs
  <2>3. R[calls[1].obj] = S[calls[1].obj] /\ heap'[calls[1].obj] = heap[calls[1].obj] /\ program' = program
    BY <1>1, <2>2 DEF Moves, SameObject
  <2>4. Iterator(calls[1].obj, calls[1].pc)' = Iterator(calls[1].obj, calls[1].pc)
    BY <2>1, <2>3 DEF Iterator, Body
  <2> QED
    BY <1>1, <1>2, <1>3, <1>4, <1>5, <1>6, <1>7, <1>9, <2>1, <2>3, <2>4 DEF Control
<1> QED
  BY <1>1, <1>8, <1>9

LEMMA MovesLoops ==
  ASSUME NEW S, NEW A, NEW O, NEW M, Tracks(S, A, O, M), calls # <<>>, NEW o, o = Me,
         NEW R, NEW t, NEW N, Moves(S, A, R, o, t, N)
  PROVE  LoopsOK(R, A, O)'
<1>1. /\ \A x \in DOMAIN heap : SameKind(x)
      /\ Top \in {1, 2} /\ Len(calls') = Top /\ Top' = Top
  BY MovesKind
<1>2. LoopsOK(S, A, O)
  BY DEF Tracks
<1>3. /\ R[o] = t /\ \A x \in DOMAIN heap : x # o => R[x] = S[x]
      /\ t.out = S[o].out /\ (t.ended = 0 => S[o].ended = 0)
      /\ t.ended = 0 => \A j \in DOMAIN Body(o) : t.at[j] > 0 =>
           S[o].at[j] > 0 /\ t.at[j] = S[o].at[j] /\ t.arg[j] = S[o].arg[j]
      /\ result = <<>> /\ result' = <<>> /\ DOMAIN heap' = DOMAIN heap
      /\ calls'[Top].obj = o /\ (t.ended = Error => thrown' = Error)
  BY DEF Moves
<1>4. Me' = o /\ calls' # <<>>
  <2>1. Len(<<>>) = 0
    BY EmptySeq, LenProperties
  <2> QED
    BY <1>1, <1>3, <2>1 DEF Me
<1>5. SUFFICES ASSUME NEW x \in DOMAIN heap, R[x].ended = 0, NEW j \in DOMAIN Body(x), R[x].at[j] > 0
               PROVE  LoopOK(R, A, O, x, j)'
  <2>1. \A x \in DOMAIN heap : Body(x)' = Body(x)
    BY <1>1 DEF Body, SameKind
  <2> QED
    BY <1>3, <2>1 DEF LoopsOK
<1>6. S[x].ended = 0 /\ S[x].at[j] > 0 /\ R[x].at[j] = S[x].at[j] /\ R[x].arg[j] = S[x].arg[j]
  <2>1. CASE x = o
    BY <1>3, <1>5, <2>1
  <2>2. CASE x # o
    BY <1>3, <1>5, <2>2
  <2> QED
    BY <2>1, <2>2
<1>7. LoopOK(S, A, O, x, j)
  BY <1>2, <1>6 DEF LoopsOK
<1>8. PICK q : q = Iterator(x, j)
  OBVIOUS
<1>9. q \in DOMAIN heap /\ SameKind(q) /\ SameKind(x)
      /\ (S[q].ended = Error => thrown = Error /\ calls # <<>> /\ Me = q)
  BY <1>1, <1>7, <1>8 DEF LoopOK
<1>10. R[q].out = S[q].out
  BY <1>3, <1>9
<1>11. R[q].ended = Error => (thrown = Error /\ calls # <<>> /\ Me = q)'
  BY <1>3, <1>4, <1>9
<1>12. ~Handed(x, j) /\ ~Handed(x, j)'
  BY <1>3 DEF Handed
<1>13. SameGen(q) /\ q = Iterator(x, j)'
  BY <1>8, <1>9, SameKindIs
<1> QED
  BY <1>6, <1>7, <1>8, <1>10, <1>11, <1>12, <1>13, LoopKept

LEMMA MovesMains ==
  ASSUME NEW S, NEW A, NEW O, NEW M, Tracks(S, A, O, M), calls # <<>>, NEW o, o = Me,
         NEW R, NEW t, NEW N, Moves(S, A, R, o, t, N)
  PROVE  Mains(R, A, O)'
<1>1. /\ \A x \in DOMAIN heap : SameKind(x)
      /\ Top \in {1, 2} /\ Len(calls) = Top /\ Len(calls') = Top
  BY MovesKind
<1>2. Mains(S, A, O) /\ Control(S)
  BY DEF Tracks
<1>3. /\ R[o] = t /\ \A x \in DOMAIN heap : x # o => R[x] = S[x]
      /\ t.out = S[o].out /\ (t.ended = 0 => S[o].ended = 0)
      /\ S[o].ended # 0 => t.ended = S[o].ended
      /\ mains' = mains /\ got' = got /\ frames' = frames
      /\ (t.ended = Error => thrown' = Error)
  BY DEF Moves
<1>4. calls' # <<>>
  <2>1. Len(<<>>) = 0
    BY EmptySeq, LenProperties
  <2> QED
    BY <1>1, <2>1
<1>5. ASSUME NEW k \in DOMAIN mains PROVE MainOK(R, A, k)'
  <2> DEFINE x == mains[k]
  <2>1. MainOK(S, A, k) /\ x \in DOMAIN heap /\ heap[x].gen = "outer"
    BY <1>2 DEF Mains, MainOK
  <2>2. SameGen(x) /\ RunOK(Body(x), S[x])
    BY <1>1, <2>1, ObjectIs, SameKindIs
  <2>3. Len(S[x].out) \in Nat
    BY <2>2, RunStateIs DEF RunOK
  <2>4. R[x].out = S[x].out /\ (R[x].ended = 0 => S[x].ended = 0)
        /\ (S[x].ended # 0 => R[x].ended = S[x].ended)
    BY <1>3, <2>1
  <2>5. ~Waits(k) /\ ~Waits(k)' /\ (Busy(k)' <=> Busy(k))
    BY <1>3, <1>4 DEF Waits, Busy
  <2>6. R[x].ended = Error => \/ S[x].ended = Error /\ ~(thrown = Error /\ Busy(k) /\ Len(calls) = 1)
                              \/ (thrown = Error /\ Busy(k) /\ Len(calls) = 1)'
    <3>1. CASE x # o
      <4>1. Busy(k) /\ Len(calls) = 1 => x = o
        BY OuterIs DEF Me, Top
      <4> QED
        BY <1>3, <2>1, <3>1, <4>1
    <3>2. CASE x = o
      <4>1. Top = 1
        BY <1>1, <2>1, <3>2, TopIs
      <4>2. Busy(frames[1].pc) /\ o = mains[frames[1].pc] /\ frames[1].pc \in DOMAIN mains
        BY <4>1, TopIs, OuterIs
      <4>3. O[o] = <<0, k>> /\ O[o] = <<0, frames[1].pc>>
        BY <1>2, <3>2, <4>2 DEF Mains
      <4>4. frames[1].pc = k
        BY <4>3
      <4>5. (Busy(k) /\ Len(calls) = 1)'
        BY <1>1, <1>3, <4>1, <4>2, <4>4 DEF Busy
      <4> QED
        BY <1>3, <3>2, <4>5
    <3> QED
      BY <3>1, <3>2
  <2>7. mains'[k] = x /\ got'[k] = got[k]
    BY <1>3
  <2> QED
    BY <2>1, <2>2, <2>3, <2>4, <2>5, <2>6, <2>7, MainKept
<1> QED
  BY <1>2, <1>3, <1>5 DEF Mains

LEMMA MovesKept ==
  ASSUME NEW S, NEW A, NEW O, NEW M, Tracks(S, A, O, M), calls # <<>>, NEW o, o = Me,
         NEW R, NEW t, NEW N, M <= N, Moves(S, A, R, o, t, N), ControlInv'
  PROVE  Tracks(R, A, O, N)'
<1>1. Promise'
  BY DEF Tracks, Promise, Moves, fixed
<1>2. Objects(R, A, N)'
  BY MovesObjects
<1>3. Control(R)'
  BY MovesControl
<1>4. LoopsOK(R, A, O)'
  BY MovesLoops
<1>5. Mains(R, A, O)'
  BY MovesMains
<1> QED
  BY <1>1, <1>2, <1>3, <1>4, <1>5 DEF Tracks

-----------------------------------------------------------------------------
\* The running body, in and behind its statements.
LEMMA RunningIs ==
  ASSUME NEW S, NEW A, NEW O, NEW M, Tracks(S, A, O, M), Running, NEW o, o = Me
  PROVE  /\ o \in DOMAIN heap /\ IsBody(Body(o)) /\ RunOK(Body(o), S[o])
         /\ calls # <<>> /\ result = <<>> /\ thrown = 0 /\ ActShape(calls[Top])
         /\ DOMAIN calls = 1..Top /\ Top = Len(calls) /\ Top \in {1, 2} /\ calls[Top].obj = o
         /\ S[o].ended # Error /\ S[o].ended \in {0, Stop}
         /\ S[o].ended = 0 => /\ calls[Top].pc = S[o].pc
                              /\ calls[Top].head <=> S[o].pc \in DOMAIN Body(o) /\ S[o].at[S[o].pc] > 0
         /\ S[o].ended = Stop => calls[Top].pc = Len(Body(o)) + 1 /\ ~calls[Top].head
<1>1. calls # <<>> /\ result = <<>> /\ thrown = 0
  BY DEF Running
<1>2. /\ o \in DOMAIN heap /\ Spot(o) = calls[Top] /\ ActShape(calls[Top])
      /\ DOMAIN calls = 1..Top /\ Top = Len(calls) /\ Top \in {1, 2}
  BY <1>1, TopIs
<1>3. IsBody(Body(o)) /\ RunOK(Body(o), S[o]) /\ PlaceOK(Body(o), calls[Top], S[o])
  BY <1>2, ObjectIs
<1>4. S[o].ended # Error
  BY <1>1 DEF Tracks, Control, Error
<1>5. S[o].ended \in {0, Stop, Error}
  BY <1>3, RunStateIs DEF RunOK
<1> QED
  BY <1>1, <1>2, <1>3, <1>4, <1>5 DEF PlaceOK, Me

LEMMA AtIs ==
  ASSUME NEW S, NEW A, NEW O, NEW M, Tracks(S, A, O, M), Running, NEW o, o = Me,
         calls[Top].pc \in DOMAIN Body(o) \/ calls[Top].head
  PROVE  /\ S[o].ended = 0 /\ S[o].pc = calls[Top].pc /\ S[o].pc \in DOMAIN Body(o)
         /\ calls[Top].head <=> S[o].at[S[o].pc] > 0
         /\ calls[Top].head => Body(o)[S[o].pc].op \in Loops
         /\ S[o].at[S[o].pc] \in Nat
<1>1. /\ IsBody(Body(o)) /\ RunOK(Body(o), S[o]) /\ S[o].ended \in {0, Stop}
      /\ S[o].ended = 0 => /\ calls[Top].pc = S[o].pc
                           /\ calls[Top].head <=> S[o].pc \in DOMAIN Body(o) /\ S[o].at[S[o].pc] > 0
      /\ S[o].ended = Stop => calls[Top].pc = Len(Body(o)) + 1 /\ ~calls[Top].head
  BY RunningIs
<1>2. Len(Body(o)) + 1 \notin DOMAIN Body(o)
  BY <1>1, BodyIs
<1>3. S[o].ended = 0
  BY <1>1, <1>2
<1>4. S[o].pc = calls[Top].pc /\ S[o].pc \in DOMAIN Body(o)
      /\ (calls[Top].head <=> S[o].at[S[o].pc] > 0)
  BY <1>1, <1>3
<1>5. S[o].at \in [DOMAIN Body(o) -> Nat]
  BY <1>1, RunStateIs DEF RunOK
<1>6. calls[Top].head => Body(o)[S[o].pc].op \in Loops
  BY <1>1, <1>3, <1>4 DEF RunOK
<1> QED
  BY <1>3, <1>4, <1>5, <1>6

\* A state is reached by one statement more.
LEMMA OnReached ==
  ASSUME NEW S, NEW A, NEW O, NEW M, Tracks(S, A, O, M), NEW o \in DOMAIN heap, S[o].ended = 0,
         NEW t, \A m \in Nat : m >= M => Statement(Body(o), InnerRuns(program, heap[o].gen, m), S[o]) = t
  PROVE  Reached(program, heap[o].gen, A[o], t, M + 1) /\ M + 1 \in Nat /\ M <= M + 1
<1>1. M \in Nat /\ Reached(program, heap[o].gen, A[o], S[o], M) /\ Body(o) = program[heap[o].gen]
  BY ObjectIs
<1>2. PICK N : N = M + 1
  OBVIOUS
<1> QED
  BY <1>1, <1>2, ReachedStep

LEMMA InnerRunsOK ==
  ASSUME NEW S, NEW A, NEW O, NEW M, Tracks(S, A, O, M), NEW o \in DOMAIN heap, NEW m \in Nat
  PROVE  InnerRuns(program, heap[o].gen, m) \in Inners
<1>1. heap[o].gen \in Gens
  BY ObjectIs
<1>2. ProgramOK(program) /\ Wrap \in Nat \ {0}
  BY ProgramIs DEF Tracks, Promise
<1> QED
  BY <1>1, <1>2, InnersOK

\* The function that differs in one place.
Changed(D, S, o, t) == [x \in D \cup {o} |-> IF x = o THEN t ELSE S[x]]

LEMMA OneDiffers ==
  ASSUME NEW D, NEW S, NEW o, NEW t, NEW R, R = Changed(D, S, o, t)
  PROVE  R[o] = t /\ \A x \in D : x # o => R[x] = S[x]
  BY DEF Changed

LEMMA ActChanged ==
  ASSUME NEW c, ActShape(c), NEW q, NEW h
  PROVE  [c EXCEPT !.pc = q, !.head = h] = [obj |-> c.obj, pc |-> q, head |-> h]
<1>1. PICK d : d = [c EXCEPT !.pc = q]
  OBVIOUS
<1>2. d = [obj |-> c.obj, pc |-> q, head |-> c.head]
  BY <1>1 DEF ActShape
<1>3. [d EXCEPT !.head = h] = [obj |-> c.obj, pc |-> q, head |-> h]
  BY <1>2
<1>4. [c EXCEPT !.pc = q, !.head = h] = [d EXCEPT !.head = h]
  BY <1>1, Zenon
<1> QED
  BY <1>3, <1>4

LEMMA GoToTop ==
  ASSUME NEW S, NEW A, NEW O, NEW M, Tracks(S, A, O, M), calls # <<>>, NEW o, o = Me, NEW q, GoTo(q)
  PROVE  /\ calls'[Top] = [obj |-> o, pc |-> q, head |-> q \in ForSites(Body(o)) /\ q < calls[Top].pc]
         /\ Len(calls') = Len(calls) /\ \A j \in DOMAIN calls : j # Top => calls'[j] = calls[j]
<1> DEFINE h == q \in ForSites(Body(o)) /\ q < calls[Top].pc
<1>1. calls' = [calls EXCEPT ![Top].pc = q, ![Top].head = h]
  BY DEF GoTo
<1> HIDE DEF h
<1>2. ActShape(calls[Top]) /\ DOMAIN calls = 1..Top /\ Top \in {1, 2} /\ calls[Top].obj = o
  BY TopIs DEF Me
<1>3. Top \in DOMAIN calls
  BY <1>2
<1>4. calls'[Top] = [calls[Top] EXCEPT !.pc = q, !.head = h]
      /\ \A j \in DOMAIN calls : j # Top => calls'[j] = calls[j]
  BY <1>1, <1>3
<1>5. PICK c : c = calls[Top]
  OBVIOUS
<1>6. calls'[Top] = [obj |-> o, pc |-> q, head |-> h]
  <2>1. ActShape(c) /\ c.obj = o /\ calls'[Top] = [c EXCEPT !.pc = q, !.head = h]
    BY <1>2, <1>4, <1>5
  <2>2. [c EXCEPT !.pc = q, !.head = h] = [obj |-> c.obj, pc |-> q, head |-> h]
    BY <2>1, ActChanged, Zenon
  <2> QED
    BY <2>1, <2>2
<1>7. calls' = [j \in DOMAIN calls |-> calls'[j]]
  BY <1>1
<1>8. Len(calls') = Len(calls)
  BY <1>7, SeqChanged DEF Tracks, Control, ControlInv
<1> QED
  BY <1>4, <1>6, <1>8 DEF h

LEMMA GoToIs ==
  ASSUME NEW S, NEW A, NEW O, NEW M, Tracks(S, A, O, M), Running, NEW o, o = Me, NEW q, GoTo(q)
  PROVE  /\ calls'[Top] = [obj |-> o, pc |-> q, head |-> q \in ForSites(Body(o)) /\ q < calls[Top].pc]
         /\ Len(calls') = Len(calls) /\ \A j \in DOMAIN calls : j # Top => calls'[j] = calls[j]
  BY GoToTop DEF Running

\* Where the compiled body goes, Python does.
LEMMA PlaceAhead ==
  ASSUME NEW b, IsBody(b), NEW s, RunOK(b, s), s.ended = 0, NEW t \in RunState(b), s.pc < t.pc,
         t.pc \in DOMAIN b => t.at[t.pc] = s.at[t.pc], NEW o
  PROVE  PlaceOK(b, [obj |-> o, pc |-> t.pc, head |-> t.pc \in ForSites(b) /\ t.pc < s.pc], t) \/ t.ended # 0
<1>1. Len(b) \in Nat /\ DOMAIN b = 1..Len(b) /\ t.pc \in 1..(Len(b) + 1)
  BY BodyIs, RunStateIs
<1>2. s.pc \in 1..(Len(b) + 1) /\ s.at \in [DOMAIN b -> Nat]
  BY RunStateIs DEF RunOK
<1>3. ~(t.pc < s.pc)
  BY <1>1, <1>2
<1>4. ASSUME t.pc \in DOMAIN b PROVE ~(t.at[t.pc] > 0)
  <2>1. ~Open(b, t.pc, s.pc) /\ t.pc # s.pc
    BY <1>1, <1>2 DEF Open
  <2>2. ~(s.at[t.pc] > 0)
    BY <1>4, <2>1 DEF RunOK
  <2> QED
    BY <1>4, <2>2
<1>5. 0 # Stop
  BY DEF Stop
<1> QED
  BY <1>3, <1>4, <1>5 DEF PlaceOK

LEMMA PlaceBack ==
  ASSUME NEW b, IsBody(b), NEW s, RunOK(b, s), s.ended = 0, s.pc \in DOMAIN b,
         b[s.pc].op \in {"end", "continue"},
         NEW t, t.pc = LoopOf(b, s.pc), t.at = s.at, t.ended = 0, NEW o
  PROVE  PlaceOK(b, [obj |-> o, pc |-> t.pc, head |-> t.pc \in ForSites(b) /\ t.pc < s.pc], t)
<1> DEFINE l == LoopOf(b, s.pc)
<1>1. l \in DOMAIN b /\ l < s.pc /\ Opens(b, l)
      /\ (Open(b, l, s.pc) <=> Open(b, l, l) \/ (l = l /\ b[l].op = "for"))
  BY BackOpen
<1>4. t.ended # Stop
  BY DEF Stop
<1>2. CASE b[l].op = "for"
  <2>1. Open(b, l, s.pc)
    BY <1>1, <1>2
  <2>2. s.at[l] > 0
    BY <1>1, <2>1 DEF RunOK
  <2>3. l \in ForSites(b)
    BY <1>1, <1>2 DEF ForSites
  <2>4. t.pc \in ForSites(b) /\ t.pc < s.pc /\ t.pc \in DOMAIN b /\ t.at[t.pc] > 0
    BY <1>1, <2>2, <2>3
  <2> QED
    BY <2>4, <1>4 DEF PlaceOK
<1>3. CASE b[l].op # "for"
  <2>1. b[l].op \notin Loops
    BY <1>1, <1>3 DEF Opens, Loops
  <2>2. s.at[l] = 0
    BY <1>1, <2>1, NoPlace
  <2>3. l \notin ForSites(b) /\ ~(0 > 0)
    BY <1>3 DEF ForSites
  <2>4. t.pc \notin ForSites(b) /\ ~(t.at[t.pc] > 0)
    BY <2>2, <2>3
  <2> QED
    BY <2>4, <1>4 DEF PlaceOK
<1> QED
  BY <1>2, <1>3

-----------------------------------------------------------------------------
\* The heap with another environment, or another state, in o.
HeapHas(o, e, state) ==
  /\ IsSeq(heap') /\ DOMAIN heap' = DOMAIN heap /\ Len(heap') = Len(heap)
  /\ \A x \in DOMAIN heap : x # o => heap'[x] = heap[x]
  /\ heap'[o].gen = heap[o].gen /\ heap'[o].iters = heap[o].iters /\ heap'[o].env = e
  /\ heap'[o].state = state /\ ObjectShape(heap'[o], Body(o))

WithLocal(x, v, n) == [x EXCEPT !.env[v] = n]
WithState(x, n) == [x EXCEPT !.state = n]

LEMMA EnvChanged ==
  ASSUME NEW x, NEW b, ObjectShape(x, b), NEW v, NEW n, NEW y, y = WithLocal(x, v, n)
  PROVE  /\ y.gen = x.gen /\ y.iters = x.iters /\ y.env = [x.env EXCEPT ![v] = n]
         /\ y.state = x.state /\ ObjectShape(y, b)
<1>1. PICK e : e = [x.env EXCEPT ![v] = n]
  OBVIOUS
<1>2. y = [x EXCEPT !.env = e]
  BY <1>1 DEF WithLocal
<1>3. y = [gen |-> x.gen, state |-> x.state, env |-> e, iters |-> x.iters]
  BY <1>2 DEF ObjectShape
<1>4. y.gen = x.gen /\ y.iters = x.iters /\ y.env = e /\ y.state = x.state
  BY <1>3
<1>5. x.iters = [k \in 1..Cardinality(IterSites(b)) |-> x.iters[k]]
  BY DEF ObjectShape
<1> QED
  BY <1>1, <1>3, <1>4, <1>5 DEF ObjectShape

LEMMA StateChanged ==
  ASSUME NEW x, NEW b, ObjectShape(x, b), NEW n, NEW y, y = WithState(x, n)
  PROVE  y.gen = x.gen /\ y.iters = x.iters /\ y.env = x.env /\ y.state = n /\ ObjectShape(y, b)
<1>3. y = [gen |-> x.gen, state |-> n, env |-> x.env, iters |-> x.iters]
  BY DEF ObjectShape, WithState
<1>4. y.gen = x.gen /\ y.iters = x.iters /\ y.env = x.env /\ y.state = n
  BY <1>3
<1>5. x.iters = [k \in 1..Cardinality(IterSites(b)) |-> x.iters[k]]
  BY DEF ObjectShape
<1> QED
  BY <1>3, <1>4, <1>5 DEF ObjectShape

LEMMA HeapChanged ==
  ASSUME IsSeq(heap), NEW o, heap' = [x \in DOMAIN heap |-> heap'[x]]
  PROVE  IsSeq(heap') /\ DOMAIN heap' = DOMAIN heap /\ Len(heap') = Len(heap)
<1>1. IsSeq(heap') /\ Len(heap') = Len(heap)
  BY SeqChanged
<1>2. DOMAIN heap' = 1..Len(heap') /\ DOMAIN heap = 1..Len(heap)
  BY <1>1, SeqShape
<1> QED
  BY <1>1, <1>2

LEMMA SetLocalIs ==
  ASSUME NEW S, NEW A, NEW O, NEW M, Tracks(S, A, O, M), NEW o \in DOMAIN heap, o = Me,
         NEW v, NEW n, SetLocal(v, n)
  PROVE  HeapHas(o, [heap[o].env EXCEPT ![v] = n], heap[o].state)
<1>1. heap' = [heap EXCEPT ![o].env[v] = n]
  BY DEF SetLocal
<1>2. heap' = [x \in DOMAIN heap |-> heap'[x]]
  BY <1>1
<1>3. IsSeq(heap') /\ DOMAIN heap' = DOMAIN heap /\ Len(heap') = Len(heap)
  BY <1>2, HeapChanged DEF Tracks, Objects
<1>4. (\A x \in DOMAIN heap : x # o => heap'[x] = heap[x]) /\ heap'[o] = [heap[o] EXCEPT !.env[v] = n]
  BY <1>1
<1>5. ObjectShape(heap[o], Body(o))
  BY ObjectIs
<1>6. /\ heap'[o].gen = heap[o].gen /\ heap'[o].iters = heap[o].iters
      /\ heap'[o].env = [heap[o].env EXCEPT ![v] = n]
      /\ heap'[o].state = heap[o].state /\ ObjectShape(heap'[o], Body(o))
  <2>1. PICK x, y, b : x = heap[o] /\ y = heap'[o] /\ b = Body(o)
    OBVIOUS
  <2>2. ObjectShape(x, b) /\ y = WithLocal(x, v, n)
    BY <1>4, <1>5, <2>1 DEF WithLocal
  <2>3. /\ y.gen = x.gen /\ y.iters = x.iters /\ y.env = [x.env EXCEPT ![v] = n]
        /\ y.state = x.state /\ ObjectShape(y, b)
    BY <2>2, EnvChanged
  <2> QED
    BY <2>1, <2>3
<1> QED
  BY <1>3, <1>4, <1>6 DEF HeapHas

LEMMA SetStateIs ==
  ASSUME NEW S, NEW A, NEW O, NEW M, Tracks(S, A, O, M), NEW o \in DOMAIN heap,
         NEW n, heap' = [heap EXCEPT ![o].state = n]
  PROVE  HeapHas(o, heap[o].env, n)
<1>2. heap' = [x \in DOMAIN heap |-> heap'[x]]
  OBVIOUS
<1>3. IsSeq(heap') /\ DOMAIN heap' = DOMAIN heap /\ Len(heap') = Len(heap)
  BY <1>2, HeapChanged DEF Tracks, Objects
<1>4. (\A x \in DOMAIN heap : x # o => heap'[x] = heap[x]) /\ heap'[o] = [heap[o] EXCEPT !.state = n]
  OBVIOUS
<1>5. ObjectShape(heap[o], Body(o))
  BY ObjectIs
<1>6. /\ heap'[o].gen = heap[o].gen /\ heap'[o].iters = heap[o].iters
      /\ heap'[o].env = heap[o].env
      /\ heap'[o].state = n /\ ObjectShape(heap'[o], Body(o))
  <2>1. PICK x, y, b : x = heap[o] /\ y = heap'[o] /\ b = Body(o)
    OBVIOUS
  <2>2. ObjectShape(x, b) /\ y = WithState(x, n)
    BY <1>4, <1>5, <2>1 DEF WithState
  <2>3. y.gen = x.gen /\ y.iters = x.iters /\ y.env = x.env /\ y.state = n /\ ObjectShape(y, b)
    BY <2>2, StateChanged
  <2> QED
    BY <2>1, <2>3
<1> QED
  BY <1>3, <1>4, <1>6 DEF HeapHas

LEMMA HeapSame ==
  ASSUME NEW S, NEW A, NEW O, NEW M, Tracks(S, A, O, M), NEW o \in DOMAIN heap, heap' = heap
  PROVE  HeapHas(o, heap[o].env, heap[o].state)
<1>1. ObjectShape(heap[o], Body(o)) /\ IsSeq(heap)
  BY ObjectIs DEF Tracks, Objects
<1> QED
  BY <1>1 DEF HeapHas

-----------------------------------------------------------------------------
\* A statement of the running body that goes on at another place.
LEMMA GoesTo ==
  ASSUME NEW S, NEW A, NEW O, NEW M, Tracks(S, A, O, M), Running, NEW o, o = Me,
         calls[Top].pc \in DOMAIN Body(o), NEW t,
         \A inner \in Inners : Statement(Body(o), inner, S[o]) = t,
         t.out = S[o].out, t.arg = S[o].arg, t.ended \in {0, Stop},
         \A j \in DOMAIN Body(o) : t.at[j] > 0 => S[o].at[j] > 0 /\ t.at[j] = S[o].at[j],
         NEW q, GoTo(q),
         PlaceOK(Body(o), [obj |-> o, pc |-> q, head |-> q \in ForSites(Body(o)) /\ q < S[o].pc], t),
         HeapHas(o, t.env, heap[o].state), Quiet, ControlInv'
  PROVE  \E R, N : Tracks(R, A, O, N)'
<1>1. /\ o \in DOMAIN heap /\ calls # <<>> /\ result = <<>> /\ thrown = 0
      /\ S[o].ended = 0 /\ S[o].pc = calls[Top].pc
  BY RunningIs, AtIs
<1>2. M \in Nat
  BY <1>1, ObjectIs
<1>3. Reached(program, heap[o].gen, A[o], t, M + 1) /\ M + 1 \in Nat /\ M <= M + 1
  BY <1>1, InnerRunsOK, OnReached
<1>4. PICK R : R[o] = t /\ \A x \in DOMAIN heap : x # o => R[x] = S[x]
  <2>1. PICK R : R = Changed(DOMAIN heap, S, o, t)
    OBVIOUS
  <2> QED
    BY <2>1, OneDiffers
<1>5. PICK N : N = M + 1
  OBVIOUS
<1>6. /\ calls'[Top] = [obj |-> o, pc |-> q, head |-> q \in ForSites(Body(o)) /\ q < S[o].pc]
      /\ Len(calls') = Len(calls) /\ \A j \in DOMAIN calls : j # Top => calls'[j] = calls[j]
  BY <1>1, GoToIs
<1>7. calls'[Top].obj = o /\ ActShape(calls'[Top]) /\ PlaceOK(Body(o), calls'[Top], t)
  BY <1>6 DEF ActShape
<1>8. thrown' = 0 /\ t.ended # Error
  BY <1>1 DEF Quiet, Stop, Error
<1>9. /\ IsSeq(heap') /\ DOMAIN heap' = DOMAIN heap /\ \A x \in DOMAIN heap : x # o => heap'[x] = heap[x]
      /\ heap'[o].gen = heap[o].gen /\ heap'[o].iters = heap[o].iters /\ heap'[o].env = t.env
      /\ ObjectShape(heap'[o], Body(o))
  BY DEF HeapHas
<1>10. Moves(S, A, R, o, t, N)
  BY <1>1, <1>3, <1>4, <1>5, <1>6, <1>7, <1>8, <1>9 DEF Moves, Quiet, Stop
<1> QED
  BY <1>1, <1>3, <1>5, <1>10, MovesKept

\* A statement that is no loop, and goes on further down.
LEMMA GoesAhead ==
  ASSUME NEW S, NEW A, NEW O, NEW M, Tracks(S, A, O, M), Running, NEW o, o = Me,
         calls[Top].pc \in DOMAIN Body(o), NEW t,
         \A inner \in Inners : Statement(Body(o), inner, S[o]) = t,
         t.out = S[o].out, t.arg = S[o].arg, t.ended = 0,
         \A j \in DOMAIN Body(o) : t.at[j] > 0 => S[o].at[j] > 0 /\ t.at[j] = S[o].at[j],
         S[o].pc < t.pc, t.pc \in DOMAIN Body(o) => t.at[t.pc] = S[o].at[t.pc],
         GoTo(t.pc), HeapHas(o, t.env, heap[o].state), Quiet, ControlInv'
  PROVE  \E R, N : Tracks(R, A, O, N)'
<1>1. /\ S[o].ended = 0 /\ S[o].pc = calls[Top].pc
      /\ IsBody(Body(o)) /\ RunOK(Body(o), S[o])
  BY RunningIs, AtIs
<1>2. Wrap \in Nat \ {0} /\ NoInner \in Inners
  BY ProgramIs, NoInnerOK DEF Tracks, Promise
<1>3. RunOK(Body(o), t)
  BY <1>1, <1>2, StatementOK
<1>4. t \in RunState(Body(o))
  BY <1>3 DEF RunOK
<1>5. PlaceOK(Body(o), [obj |-> o, pc |-> t.pc, head |-> t.pc \in ForSites(Body(o)) /\ t.pc < S[o].pc], t)
  BY <1>1, <1>4, PlaceAhead
<1>6. t.ended \in {0, Stop}
  OBVIOUS
<1>7. PICK q : q = t.pc
  OBVIOUS
<1> QED
  BY <1>5, <1>6, <1>7, GoesTo

LEMMA AssignKept ==
  ASSUME NEW S, NEW A, NEW O, NEW M, Tracks(S, A, O, M), Assign, ControlInv'
  PROVE  \E R, N : Tracks(R, A, O, N)'
<1>1. PICK o : o = Me
  OBVIOUS
<1>2. Running /\ calls[Top].pc \in DOMAIN Body(o) /\ Here = Body(o)[calls[Top].pc]
      /\ ~calls[Top].head /\ GoOn /\ Quiet
      /\ \/ Here.op = "zero" /\ SetLocal(Here.var, 0)
         \/ Here.op = "add" /\ SetLocal(Here.var, Add1(heap[o].env[Here.var]))
  BY <1>1 DEF Assign, At, Here
<1>3. /\ o \in DOMAIN heap /\ IsBody(Body(o)) /\ RunOK(Body(o), S[o]) /\ S[o] \in RunState(Body(o))
      /\ S[o].ended = 0 /\ S[o].pc = calls[Top].pc /\ heap[o].env = S[o].env
  BY <1>1, <1>2, RunningIs, AtIs, ObjectIs DEF RunOK
<1>4. PICK b, s, x : b = Body(o) /\ s = S[o] /\ x = b[s.pc].var
  OBVIOUS
<1>5. PICK n : n = IF b[s.pc].op = "zero" THEN 0 ELSE Add1(s.env[x])
  OBVIOUS
<1>6. SetLocal(x, n) /\ b[s.pc].op \in {"zero", "add"}
  BY <1>2, <1>3, <1>4, <1>5
<1>7. PICK t : t = State(s.pc + 1, [s.env EXCEPT ![x] = n], s.out, s.ended, s.at, s.arg)
  OBVIOUS
<1>8. IsBody(b) /\ RunOK(b, s) /\ s \in RunState(b) /\ s.pc \in DOMAIN b /\ s.ended = 0
  BY <1>2, <1>3, <1>4
<1>9. ASSUME NEW inner \in Inners PROVE Statement(b, inner, s) = t
  <2>1. x = b[s.pc].var
    BY <1>4
  <2>2. CASE b[s.pc].op = "zero"
    <3>1. Statement(b, inner, s) = State(s.pc + 1, [s.env EXCEPT ![x] = 0], s.out, s.ended, s.at, s.arg)
      BY <1>8, <2>1, <2>2, ZeroIs
    <3> QED
      BY <1>5, <1>7, <2>2, <3>1
  <2>3. CASE b[s.pc].op = "add"
    <3>1. Statement(b, inner, s) =
            State(s.pc + 1, [s.env EXCEPT ![x] = Add1(s.env[x])], s.out, s.ended, s.at, s.arg)
      BY <1>8, <2>1, <2>3, AddIs
    <3>2. n = Add1(s.env[x])
      BY <1>5, <2>3
    <3> QED
      BY <1>7, <3>1, <3>2
  <2> QED
    BY <1>6, <2>2, <2>3
<1>10. t.pc = s.pc + 1 /\ t.env = [s.env EXCEPT ![x] = n] /\ t.out = s.out /\ t.ended = 0
       /\ t.at = s.at /\ t.arg = s.arg
  BY <1>7, <1>8, StateFields
<1>11. HeapHas(o, t.env, heap[o].state)
  BY <1>1, <1>3, <1>4, <1>6, <1>10, SetLocalIs
<1>12. GoTo(t.pc)
  BY <1>2, <1>3, <1>4, <1>10 DEF GoOn
<1>13. s.pc \in Nat /\ s.pc < t.pc
  <2>1. s.pc \in Nat
    BY <1>8, BodyIs
  <2> QED
    BY <2>1, <1>10
<1> QED
  BY <1>1, <1>2, <1>4, <1>9, <1>10, <1>11, <1>12, <1>13, GoesAhead

LEMMA RaiseKept ==
  ASSUME NEW S, NEW A, NEW O, NEW M, Tracks(S, A, O, M), Raise, ControlInv'
  PROVE  \E R, N : Tracks(R, A, O, N)'
<1>1. PICK o : o = Me
  OBVIOUS
<1>2. Running /\ calls[Top].pc \in DOMAIN Body(o) /\ Body(o)[calls[Top].pc].op = "raise"
      /\ thrown' = Error /\ UNCHANGED <<fixed, heap, mains, got, calls, result, frames>>
  BY <1>1 DEF Raise, At, Here
<1>3. /\ o \in DOMAIN heap /\ IsBody(Body(o)) /\ RunOK(Body(o), S[o]) /\ S[o] \in RunState(Body(o))
      /\ S[o].ended = 0 /\ S[o].pc = calls[Top].pc /\ heap[o].env = S[o].env
      /\ calls # <<>> /\ result = <<>> /\ M \in Nat
  BY <1>1, <1>2, RunningIs, AtIs, ObjectIs DEF RunOK
<1>4. PICK b, s : b = Body(o) /\ s = S[o]
  OBVIOUS
<1>5. PICK t : t = State(s.pc, s.env, s.out, Error, s.at, s.arg)
  OBVIOUS
<1>6. IsBody(b) /\ s \in RunState(b) /\ s.pc \in DOMAIN b /\ b[s.pc].op = "raise"
  BY <1>2, <1>3, <1>4
<1>7. \A inner \in Inners : Statement(b, inner, s) = t
  BY <1>5, <1>6, RaiseIs
<1>8. t.pc = s.pc /\ t.env = s.env /\ t.out = s.out /\ t.ended = Error
  BY <1>5, StateFields
<1>9. Reached(program, heap[o].gen, A[o], t, M + 1) /\ M + 1 \in Nat /\ M <= M + 1
  BY <1>3, <1>4, <1>7, InnerRunsOK, OnReached
<1>10. PICK R : R = Changed(DOMAIN heap, S, o, t)
  OBVIOUS
<1>11. R[o] = t /\ \A x \in DOMAIN heap : x # o => R[x] = S[x]
  BY <1>10, OneDiffers
<1>12. PICK N : N = M + 1
  OBVIOUS
<1>13. HeapHas(o, heap[o].env, heap[o].state)
  BY <1>2, <1>3, HeapSame
<1>14. PlaceOK(b, calls'[Top], t)
  BY <1>8 DEF PlaceOK, Stop, Error
<1>15. ActShape(calls[Top]) /\ calls[Top].obj = o
  BY <1>1, <1>2, RunningIs
<1>16. Moves(S, A, R, o, t, N)
  <2>1. /\ R[o] = t /\ (\A x \in DOMAIN heap : x # o => R[x] = S[x])
        /\ N \in Nat /\ Reached(program, heap[o].gen, A[o], t, N)
    BY <1>9, <1>11, <1>12
  <2>2. t.out = S[o].out /\ t.ended # 0 /\ S[o].ended = 0 /\ t.ended = Error /\ t.env = heap[o].env
    BY <1>3, <1>4, <1>8 DEF Error
  <2>3. Error # Stop
    BY DEF Error, Stop
  <2> QED
    BY <1>2, <1>3, <1>4, <1>13, <1>14, <1>15, <2>1, <2>2, <2>3 DEF Moves, HeapHas
<1> QED
  BY <1>1, <1>3, <1>9, <1>12, <1>16, MovesKept

LEMMA FinishKept ==
  ASSUME NEW S, NEW A, NEW O, NEW M, Tracks(S, A, O, M), Finish, ControlInv'
  PROVE  \E R, N : Tracks(R, A, O, N)'
<1>1. PICK o : o = Me
  OBVIOUS
<1>2. Running /\ calls[Top].pc > Len(Body(o)) /\ heap' = [heap EXCEPT ![o].state = -1]
      /\ thrown' = Stop /\ UNCHANGED <<fixed, mains, got, calls, result, frames>>
  BY <1>1 DEF Finish, Exhausted
<1>3. /\ o \in DOMAIN heap /\ IsBody(Body(o)) /\ RunOK(Body(o), S[o]) /\ S[o] \in RunState(Body(o))
      /\ S[o].ended \in {0, Stop} /\ heap[o].env = S[o].env
      /\ calls # <<>> /\ result = <<>> /\ M \in Nat
      /\ S[o].ended = 0 => calls[Top].pc = S[o].pc /\ (calls[Top].head <=> S[o].pc \in DOMAIN Body(o) /\ S[o].at[S[o].pc] > 0)
      /\ S[o].ended = Stop => calls[Top].pc = Len(Body(o)) + 1 /\ ~calls[Top].head
      /\ ActShape(calls[Top]) /\ calls[Top].obj = o
      /\ Reached(program, heap[o].gen, A[o], S[o], M)
  BY <1>1, <1>2, RunningIs, ObjectIs DEF RunOK
<1>4. PICK b, s : b = Body(o) /\ s = S[o]
  OBVIOUS
<1>5. PICK t : t = State(s.pc, s.env, s.out, Stop, s.at, s.arg)
  OBVIOUS
<1>6. Len(b) \in Nat /\ DOMAIN b = 1..Len(b) /\ s = State(s.pc, s.env, s.out, s.ended, s.at, s.arg)
      /\ s.pc \in 1..(Len(b) + 1)
  BY <1>3, <1>4, BodyIs, RunStateIs
<1>7. s.ended = Stop => t = s
  BY <1>5, <1>6
<1>8. t.env = s.env /\ t.out = s.out /\ t.ended = Stop
  BY <1>5, StateFields
<1>9. PICK N : N = M + 1
  OBVIOUS
<1>10. Reached(program, heap[o].gen, A[o], t, N) /\ N \in Nat /\ M <= N
  <2>1. CASE s.ended = 0
    <3>1. s.pc > Len(b)
      BY <1>2, <1>3, <1>4, <2>1
    <3>2. \A inner : Statement(b, inner, s) = t
      <4>1. \A inner : Statement(b, inner, s) = [s EXCEPT !.ended = Stop]
        BY <3>1, Zenon DEF Statement
      <4>2. [s EXCEPT !.ended = Stop] = t
        BY <1>5, <1>6 DEF State
      <4> QED
        BY <4>1, <4>2
    <3> QED
      BY <1>3, <1>4, <1>9, <2>1, <3>2, OnReached
  <2>2. CASE s.ended = Stop
    <3>1. N \in Nat /\ M <= N
      BY <1>3, <1>9
    <3> QED
      BY <1>3, <1>4, <1>7, <2>2, <3>1, ReachedLater
  <2> QED
    BY <1>3, <1>4, <2>1, <2>2
<1>11. PICK R : R = Changed(DOMAIN heap, S, o, t)
  OBVIOUS
<1>12. R[o] = t /\ \A x \in DOMAIN heap : x # o => R[x] = S[x]
  BY <1>11, OneDiffers
<1>13. HeapHas(o, heap[o].env, -1)
  BY <1>2, <1>3, SetStateIs
<1>14. PlaceOK(b, calls'[Top], t)
  <2>1. calls[Top].pc = Len(b) + 1 /\ ~calls[Top].head
    <3>1. CASE s.ended = 0
      BY <1>2, <1>3, <1>4, <1>6, <3>1
    <3>2. CASE s.ended = Stop
      BY <1>3, <1>4, <3>2
    <3> QED
      BY <1>3, <1>4, <3>1, <3>2
  <2>2. calls' = calls /\ Stop # 0
    BY <1>2 DEF Stop
  <2>3. calls'[Top].pc = Len(b) + 1 /\ ~calls'[Top].head
    BY <2>1, <2>2
  <2> QED
    BY <1>8, <2>2, <2>3 DEF PlaceOK
<1>15. Moves(S, A, R, o, t, N)
  <2>1. /\ R[o] = t /\ (\A x \in DOMAIN heap : x # o => R[x] = S[x])
        /\ N \in Nat /\ Reached(program, heap[o].gen, A[o], t, N)
    BY <1>10, <1>12
  <2>2. t.out = S[o].out /\ t.ended # 0 /\ t.ended # Error /\ t.env = heap[o].env /\ t.ended = Stop
        /\ (S[o].ended # 0 => t.ended = S[o].ended)
    BY <1>3, <1>4, <1>8 DEF Error, Stop
  <2> QED
    BY <1>2, <1>3, <1>4, <1>13, <1>14, <2>1, <2>2 DEF Moves, HeapHas
<1> QED
  BY <1>1, <1>3, <1>10, <1>15, MovesKept

LEMMA WhileKept ==
  ASSUME NEW S, NEW A, NEW O, NEW M, Tracks(S, A, O, M), At("while"),
         GoTo(IF heap[Me].env[Here.var] < 2 THEN calls[Top].pc + 1 ELSE After(calls[Top].pc)),
         Quiet, heap' = heap, ControlInv'
  PROVE  \E R, N : Tracks(R, A, O, N)'
<1>1. PICK o : o = Me
  OBVIOUS
<1>2. Running /\ calls[Top].pc \in DOMAIN Body(o) /\ Here = Body(o)[calls[Top].pc] /\ Here.op = "while"
  BY <1>1 DEF At, Here
<1>3. /\ o \in DOMAIN heap /\ IsBody(Body(o)) /\ RunOK(Body(o), S[o]) /\ S[o] \in RunState(Body(o))
      /\ S[o].ended = 0 /\ S[o].pc = calls[Top].pc /\ heap[o].env = S[o].env
  BY <1>1, <1>2, RunningIs, AtIs, ObjectIs DEF RunOK
<1>4. PICK b, s, q : b = Body(o) /\ s = S[o]
                     /\ q = IF s.env[b[s.pc].var] < 2 THEN s.pc + 1 ELSE EndOf(b, s.pc) + 1
  OBVIOUS
<1>5. GoTo(q)
  BY <1>1, <1>2, <1>3, <1>4 DEF After
<1>6. IsBody(b) /\ RunOK(b, s) /\ s \in RunState(b) /\ s.pc \in DOMAIN b /\ s.ended = 0
      /\ b[s.pc].op = "while"
  BY <1>2, <1>3, <1>4
<1>7. PICK t : t = State(q, s.env, s.out, s.ended, s.at, s.arg)
  OBVIOUS
<1>8. \A inner \in Inners : Statement(b, inner, s) = t
  BY <1>4, <1>6, <1>7, WhileIs
<1>9. t.pc = q /\ t.env = s.env /\ t.out = s.out /\ t.ended = 0 /\ t.at = s.at /\ t.arg = s.arg
  BY <1>6, <1>7, StateFields
<1>10. HeapHas(o, t.env, heap[o].state)
  BY <1>3, <1>4, <1>9, HeapSame
<1>11. s.pc < t.pc
  <2>1. Opens(b, s.pc)
    BY <1>6 DEF Opens
  <2>2. EndOf(b, s.pc) \in (s.pc + 1)..Len(b) /\ Len(b) \in Nat /\ DOMAIN b = 1..Len(b)
    BY <1>6, <2>1, EndIs
  <2>3. q = s.pc + 1 \/ q = EndOf(b, s.pc) + 1
    BY <1>4
  <2> QED
    BY <1>6, <1>9, <2>2, <2>3
<1> QED
  BY <1>1, <1>2, <1>4, <1>5, <1>8, <1>9, <1>10, <1>11, GoesAhead, Zenon

LEMMA BackKept ==
  ASSUME NEW S, NEW A, NEW O, NEW M, Tracks(S, A, O, M), At("end") \/ At("continue"),
         GoTo(LoopAround), Quiet, heap' = heap, ControlInv'
  PROVE  \E R, N : Tracks(R, A, O, N)'
<1>1. PICK o : o = Me
  OBVIOUS
<1>2. Running /\ calls[Top].pc \in DOMAIN Body(o) /\ Body(o)[calls[Top].pc].op \in {"end", "continue"}
  BY <1>1 DEF At, Here
<1>3. /\ o \in DOMAIN heap /\ IsBody(Body(o)) /\ RunOK(Body(o), S[o]) /\ S[o] \in RunState(Body(o))
      /\ S[o].ended = 0 /\ S[o].pc = calls[Top].pc /\ heap[o].env = S[o].env
  BY <1>1, <1>2, RunningIs, AtIs, ObjectIs DEF RunOK
<1>4. PICK b, s, q : b = Body(o) /\ s = S[o] /\ q = LoopOf(b, s.pc)
  OBVIOUS
<1>5. GoTo(q)
  BY <1>1, <1>3, <1>4 DEF LoopAround
<1>6. IsBody(b) /\ RunOK(b, s) /\ s \in RunState(b) /\ s.pc \in DOMAIN b /\ s.ended = 0
      /\ b[s.pc].op \in {"end", "continue"}
  BY <1>2, <1>3, <1>4
<1>7. PICK t : t = State(q, s.env, s.out, s.ended, s.at, s.arg)
  OBVIOUS
<1>8. \A inner \in Inners : Statement(b, inner, s) = t
  BY <1>4, <1>6, <1>7, BackIs
<1>9. t.pc = q /\ t.env = s.env /\ t.out = s.out /\ t.ended = 0 /\ t.at = s.at /\ t.arg = s.arg
  BY <1>6, <1>7, StateFields
<1>10. HeapHas(o, t.env, heap[o].state)
  BY <1>3, <1>4, <1>9, HeapSame
<1>11. PlaceOK(b, [obj |-> o, pc |-> q, head |-> q \in ForSites(b) /\ q < s.pc], t)
  BY <1>4, <1>6, <1>9, PlaceBack
<1>12. t.ended \in {0, Stop}
  BY <1>9
<1> QED
  BY <1>1, <1>2, <1>4, <1>5, <1>8, <1>9, <1>10, <1>11, <1>12, GoesTo

LEMMA BreakKept ==
  ASSUME NEW S, NEW A, NEW O, NEW M, Tracks(S, A, O, M), At("break"),
         GoTo(After(LoopAround)), Quiet, heap' = heap, ControlInv'
  PROVE  \E R, N : Tracks(R, A, O, N)'
<1>1. PICK o : o = Me
  OBVIOUS
<1>2. Running /\ calls[Top].pc \in DOMAIN Body(o) /\ Body(o)[calls[Top].pc].op = "break"
  BY <1>1 DEF At, Here
<1>3. /\ o \in DOMAIN heap /\ IsBody(Body(o)) /\ RunOK(Body(o), S[o]) /\ S[o] \in RunState(Body(o))
      /\ S[o].ended = 0 /\ S[o].pc = calls[Top].pc /\ heap[o].env = S[o].env
  BY <1>1, <1>2, RunningIs, AtIs, ObjectIs DEF RunOK
<1>4. PICK b, s, l, q : b = Body(o) /\ s = S[o] /\ l = LoopOf(b, s.pc) /\ q = EndOf(b, l) + 1
  OBVIOUS
<1>5. GoTo(q)
  BY <1>1, <1>3, <1>4 DEF LoopAround, After
<1>6. IsBody(b) /\ RunOK(b, s) /\ s \in RunState(b) /\ s.pc \in DOMAIN b /\ s.ended = 0
      /\ b[s.pc].op = "break"
  BY <1>2, <1>3, <1>4
<1>7. PICK t : t = State(q, s.env, s.out, s.ended, [s.at EXCEPT ![l] = 0], s.arg)
  OBVIOUS
<1>8. \A inner \in Inners : Statement(b, inner, s) = t
  BY <1>4, <1>6, <1>7, BreakIs
<1>9. t.pc = q /\ t.env = s.env /\ t.out = s.out /\ t.ended = 0 /\ t.at = [s.at EXCEPT ![l] = 0]
      /\ t.arg = s.arg
  BY <1>6, <1>7, StateFields
<1>10. HeapHas(o, t.env, heap[o].state)
  BY <1>3, <1>4, <1>9, HeapSame
<1>11. IsLoopOf(b, s.pc, l) /\ l \in DOMAIN b
  BY <1>4, <1>6, LoopIs
<1>12. EndOf(b, l) \in (l + 1)..Len(b) /\ Len(b) \in Nat /\ DOMAIN b = 1..Len(b)
  BY <1>6, <1>11, EndIs DEF IsLoopOf
<1>13. l < s.pc /\ s.pc < q
  <2>1. l \in 1..(s.pc - 1) /\ EndOf(b, l) >= s.pc
    BY <1>11 DEF IsLoopOf
  <2> QED
    BY <1>4, <1>6, <1>12, <2>1
<1>14. s.at \in [DOMAIN b -> Nat]
  BY <1>6, RunStateIs
<1>15. \A j \in DOMAIN b : t.at[j] > 0 => s.at[j] > 0 /\ t.at[j] = s.at[j]
  BY <1>9, <1>11, <1>14
<1>16. q # l
  BY <1>6, <1>11, <1>12, <1>13
<1>17. q \in DOMAIN b => t.at[q] = s.at[q]
  BY <1>9, <1>14, <1>16
<1>18. s.pc < t.pc /\ (t.pc \in DOMAIN b => t.at[t.pc] = s.at[t.pc]) /\ GoTo(t.pc)
       /\ t.out = s.out /\ t.arg = s.arg /\ t.ended = 0
  BY <1>5, <1>9, <1>13, <1>17
<1> QED
  BY <1>1, <1>2, <1>4, <1>8, <1>10, <1>15, <1>18, GoesAhead

LEMMA ReturnKept ==
  ASSUME NEW S, NEW A, NEW O, NEW M, Tracks(S, A, O, M), At("return"),
         GoTo(Len(Body(Me)) + 1), Quiet, heap' = heap, ControlInv'
  PROVE  \E R, N : Tracks(R, A, O, N)'
<1>1. PICK o : o = Me
  OBVIOUS
<1>2. Running /\ calls[Top].pc \in DOMAIN Body(o) /\ Body(o)[calls[Top].pc].op = "return"
  BY <1>1 DEF At, Here
<1>3. /\ o \in DOMAIN heap /\ IsBody(Body(o)) /\ RunOK(Body(o), S[o]) /\ S[o] \in RunState(Body(o))
      /\ S[o].ended = 0 /\ S[o].pc = calls[Top].pc /\ heap[o].env = S[o].env
  BY <1>1, <1>2, RunningIs, AtIs, ObjectIs DEF RunOK
<1>4. PICK b, s, q : b = Body(o) /\ s = S[o] /\ q = Len(b) + 1
  OBVIOUS
<1>5. GoTo(q)
  BY <1>1, <1>4
<1>6. IsBody(b) /\ RunOK(b, s) /\ s \in RunState(b) /\ s.pc \in DOMAIN b /\ s.ended = 0
      /\ b[s.pc].op = "return"
  BY <1>2, <1>3, <1>4
<1>7. PICK t : t = State(s.pc, s.env, s.out, Stop, s.at, s.arg)
  OBVIOUS
<1>8. \A inner \in Inners : Statement(b, inner, s) = t
  BY <1>6, <1>7, ReturnIs
<1>9. t.env = s.env /\ t.out = s.out /\ t.ended = Stop /\ t.at = s.at /\ t.arg = s.arg
  BY <1>7, StateFields
<1>10. HeapHas(o, t.env, heap[o].state)
  BY <1>3, <1>4, <1>9, HeapSame
<1>11. q \notin DOMAIN b
  BY <1>4, <1>6, BodyIs
<1>12. PlaceOK(b, [obj |-> o, pc |-> q, head |-> q \in ForSites(b) /\ q < s.pc], t)
  <2>1. q \notin ForSites(b) /\ Stop # 0
    BY <1>11 DEF ForSites, Stop
  <2> QED
    BY <1>4, <1>9, <2>1 DEF PlaceOK
<1>13. t.ended \in {0, Stop}
  BY <1>9
<1> QED
  BY <1>1, <1>2, <1>4, <1>5, <1>8, <1>9, <1>10, <1>12, <1>13, GoesTo

LEMMA BranchKept ==
  ASSUME NEW S, NEW A, NEW O, NEW M, Tracks(S, A, O, M), Branch, ControlInv'
  PROVE  \E R, N : Tracks(R, A, O, N)'
  BY WhileKept, BackKept, BreakKept, ReturnKept DEF Branch

-----------------------------------------------------------------------------
\* A call of __next__: nothing happens to the objects, one of them is resumed.
LEMMA CallNextIs ==
  ASSUME NEW S, Control(S), NEW q, NEW at, CallNext(q, at)
  PROVE  /\ Len(calls') = Len(calls) + 1 /\ Len(frames') = Len(frames) + 1
         /\ \A j \in 1..Len(calls) : calls'[j] = calls[j]
         /\ \A j \in 1..Len(frames) : frames'[j] = frames[j]
         /\ calls'[Len(calls) + 1] = Dispatch(q) /\ frames'[Len(frames) + 1].pc = at
         /\ result' = result /\ thrown' = thrown /\ calls' # <<>> /\ frames' # <<>>
<1>1. IsSeq(calls) /\ IsSeq(frames)
  BY DEF Control, ControlInv
<1>2. PICK c, f : c = Dispatch(q) /\ f = [depth |-> Top, pc |-> at]
  OBVIOUS
<1>3. calls' = Append(calls, c) /\ frames' = Append(frames, f) /\ result' = result /\ thrown' = thrown
  BY <1>2 DEF CallNext
<1>4. Len(calls') = Len(calls) + 1 /\ (\A j \in 1..Len(calls) : calls'[j] = calls[j])
      /\ calls'[Len(calls) + 1] = c /\ IsSeq(calls')
  BY <1>1, <1>3, SeqAppend
<1>5. Len(frames') = Len(frames) + 1 /\ (\A j \in 1..Len(frames) : frames'[j] = frames[j])
      /\ frames'[Len(frames) + 1] = f /\ IsSeq(frames')
  BY <1>1, <1>3, SeqAppend
<1>6. Len(calls) \in Nat /\ Len(frames) \in Nat
  BY <1>1, SeqShape
<1>7. calls' # <<>> /\ frames' # <<>>
  <2>1. Len(calls') # 0 /\ Len(frames') # 0
    BY <1>4, <1>5, <1>6
  <2> QED
    BY <1>4, <1>5, <2>1, SeqShape
<1> QED
  BY <1>2, <1>3, <1>4, <1>5, <1>7

LEMMA CalledObjects ==
  ASSUME NEW S, NEW A, NEW O, NEW M, Tracks(S, A, O, M), NEW q \in DOMAIN heap, NEW at, CallNext(q, at),
         Len(calls) <= 1, Len(calls) = 1 => calls[1].obj # q, UNCHANGED <<fixed, heap, mains, got>>
  PROVE  Objects(S, A, M)'
<1>1. Control(S) /\ Objects(S, A, M)
  BY DEF Tracks
<1>2. PICK n : n = Len(calls)
  OBVIOUS
<1>3. n \in {0, 1} /\ Len(calls') = n + 1 /\ (\A j \in 1..n : calls'[j] = calls[j])
      /\ calls'[n + 1] = Dispatch(q)
  <2>1. n \in {0, 1}
    BY <1>1, <1>2, CountCalls
  <2> QED
    BY <1>1, <1>2, <2>1, CallNextIs
<1>4. program' = program /\ heap' = heap /\ \A x : Body(x)' = Body(x)
  BY DEF fixed, Body
<1>5. PICK r : r = Resume(Body(q), heap[q].state)
  OBVIOUS
<1>6. calls'[n + 1].obj = q /\ calls'[n + 1].pc = r.pc /\ calls'[n + 1].head = r.head
  BY <1>3, <1>5 DEF Dispatch
<1>7. Spot(q) = r
  BY <1>2, <1>3, <1>5 DEF Spot
<1>8. PlaceOK(Body(q), r, S[q])
  BY <1>7, ObjectIs
<1>9. PlaceOK(Body(q), calls'[n + 1], S[q])
  BY <1>6, <1>8 DEF PlaceOK
<1>10. Spot(q)' = calls'[n + 1]
  <2>1. CASE n = 0
    BY <1>3, <1>6, <2>1 DEF Spot
  <2>2. CASE n = 1
    <3>1. calls'[1].obj # q
      BY <1>2, <1>3, <2>2
    <3> QED
      BY <1>3, <1>6, <2>2, <3>1 DEF Spot
  <2> QED
    BY <1>3, <2>1, <2>2
<1>11. ObjectOK(S, A, M, q)'
  <2>1. ObjectOK(S, A, M, q)
    BY <1>1 DEF Objects
  <2> QED
    BY <1>4, <1>9, <1>10, <2>1 DEF ObjectOK
<1>12. ASSUME NEW x \in DOMAIN heap, x # q PROVE ObjectOK(S, A, M, x)'
  <2>1. SameObject(x) /\ ObjectOK(S, A, M, x) /\ M \in Nat /\ M <= M
    BY <1>1, <1>4 DEF SameObject, Objects
  <2>2. Spot(x)' = Spot(x)
    <3>1. CASE n = 0
      BY <1>2, <1>3, <1>4, <1>6, <1>12, <3>1 DEF Spot
    <3>2. CASE n = 1
      <4>1. calls'[1] = calls[1] /\ calls'[2].obj # x /\ Len(calls') = 2 /\ Len(calls) = 1
        BY <1>2, <1>3, <1>6, <1>12, <3>2
      <4> QED
        BY <1>4, <4>1 DEF Spot
    <3> QED
      BY <1>3, <3>1, <3>2
  <2> QED
    BY <2>1, <2>2, ObjectKept
<1> QED
  BY <1>1, <1>4, <1>11, <1>12 DEF Objects

LEMMA CalledKept ==
  ASSUME NEW S, NEW A, NEW O, NEW M, Tracks(S, A, O, M), NEW q \in DOMAIN heap, NEW at, CallNext(q, at),
         result = <<>>, thrown = 0, UNCHANGED <<fixed, heap, mains, got>>, S[q].ended # Error,
         \/ /\ calls = <<>> /\ at \in DOMAIN mains /\ q = mains[at] /\ Len(got[at]) < MaxNext
         \/ /\ Len(calls) = 1 /\ calls[1].obj # q /\ q = Iterator(calls[1].obj, calls[1].pc)
            /\ at = calls[1].pc /\ calls[1].head /\ S[calls[1].obj].ended = 0,
         ControlInv'
  PROVE  Tracks(S, A, O, M)'
<1>1. Control(S) /\ LoopsOK(S, A, O) /\ Mains(S, A, O)
  BY DEF Tracks
<1>2. PICK n : n = Len(calls)
  OBVIOUS
<1>3. /\ n \in {0, 1} /\ Len(calls') = n + 1 /\ (\A j \in 1..n : calls'[j] = calls[j])
      /\ calls'[n + 1] = Dispatch(q) /\ Len(frames) = n /\ Len(frames') = n + 1
      /\ (\A j \in 1..n : frames'[j] = frames[j]) /\ frames'[n + 1].pc = at
      /\ result' = <<>> /\ thrown' = 0 /\ calls' # <<>> /\ frames' # <<>>
      /\ (n = 0 <=> calls = <<>>)
  <2>1. n \in {0, 1} /\ Len(frames) = n /\ (n = 0 <=> calls = <<>>)
    BY <1>1, <1>2, CountCalls
  <2> QED
    BY <1>1, <1>2, <2>1, CallNextIs
<1>4. /\ program' = program /\ heap' = heap /\ mains' = mains /\ got' = got
      /\ (\A x : Body(x)' = Body(x)) /\ \A x, j : Iterator(x, j)' = Iterator(x, j)
  BY DEF fixed, Body, Iterator
<1>5. Promise'
  BY DEF Tracks, Promise, fixed
<1>6. Objects(S, A, M)'
  BY <1>2, <1>3, CalledObjects
<1>7. Control(S)'
  <2>1. calls'[n + 1].obj = q /\ ActShape(calls'[n + 1])
    BY <1>3 DEF Dispatch, ActShape
  <2>2. Me' = q
    BY <1>3, <2>1 DEF Me, Top
  <2>3. IsSeq(calls')
    BY DEF ControlInv
  <2>4. DOMAIN calls' = 1..(n + 1) /\ DOMAIN calls = 1..n
    BY <1>1, <1>2, <1>3, <2>3, SeqShape, CountCalls
  <2>5. \A j \in DOMAIN calls' : ActShape(calls'[j])
    BY <1>1, <1>3, <2>1, <2>4 DEF Control
  <2>6. CASE n = 0
    <3>1. at \in DOMAIN mains /\ q = mains[at]
      BY <1>2, <1>3, <2>6
    <3> QED
      BY <1>3, <1>4, <2>1, <2>2, <2>5, <2>6, <3>1 DEF Control, Stop
  <2>7. CASE n = 1
    <3>1. calls'[1] = calls[1] /\ frames'[1] = frames[1] /\ q = Iterator(calls[1].obj, calls[1].pc)
          /\ at = calls[1].pc /\ calls[1].head /\ S[calls[1].obj].ended = 0
      BY <1>2, <1>3, <2>7
    <3>2. frames[1].pc \in DOMAIN mains /\ calls[1].obj = mains[frames[1].pc]
      BY <1>1, <1>2, <1>3, <2>7 DEF Control
    <3> QED
      BY <1>3, <1>4, <2>1, <2>2, <2>5, <2>7, <3>1, <3>2 DEF Control, Stop
  <2> QED
    BY <1>3, <2>6, <2>7
<1>8. LoopsOK(S, A, O)'
  <2>1. SUFFICES ASSUME NEW x \in DOMAIN heap, S[x].ended = 0, NEW j \in DOMAIN Body(x), S[x].at[j] > 0
                 PROVE  LoopOK(S, A, O, x, j)'
    BY <1>4 DEF LoopsOK
  <2>2. LoopOK(S, A, O, x, j)
    BY <1>1, <2>1 DEF LoopsOK
  <2>3. Iterator(x, j) \in DOMAIN heap /\ S[Iterator(x, j)].ended # Error
    BY <2>2 DEF LoopOK, Error
  <2>4. /\ SameGen(Iterator(x, j)) /\ Iterator(x, j) = Iterator(x, j)'
        /\ ~Handed(x, j) /\ ~Handed(x, j)'
    BY <1>3, <1>4, <2>3 DEF SameGen, Handed
  <2> QED
    BY <2>2, <2>3, <2>4, LoopKept
<1>9. Mains(S, A, O)'
  <2>1. ASSUME NEW k \in DOMAIN mains PROVE MainOK(S, A, k)'
    <3> DEFINE x == mains[k]
    <3>1. MainOK(S, A, k) /\ x \in DOMAIN heap
      BY <1>1 DEF Mains, MainOK
    <3>2. RunOK(Body(x), S[x])
      BY <3>1, ObjectIs
    <3>3. Len(S[x].out) \in Nat
      BY <3>2, RunStateIs DEF RunOK
    <3>4. SameGen(x)
      BY <1>4, <3>1 DEF SameGen
    <3>5. ~Waits(k) /\ ~Waits(k)'
      <4>1. frames # <<>> => calls # <<>>
        BY <1>1, <1>2, <1>3, CountCalls
      <4> QED
        BY <1>3, <4>1 DEF Waits, Busy
    <3>6. Busy(k)' => Busy(k) \/ Len(got[k]) < MaxNext
      <4>1. CASE n = 0
        BY <1>2, <1>3, <4>1 DEF Busy
      <4>2. CASE n = 1
        <5>1. frames'[1] = frames[1] /\ frames # <<>>
          BY <1>1, <1>2, <1>3, <4>2, CountCalls
        <5> QED
          BY <5>1 DEF Busy
      <4> QED
        BY <1>3, <4>1, <4>2
    <3>7. thrown # Error
      BY DEF Error
    <3> QED
      BY <1>4, <3>1, <3>3, <3>4, <3>5, <3>6, <3>7, MainKept
  <2> QED
    BY <1>1, <1>4, <2>1 DEF Mains
<1> QED
  BY <1>5, <1>6, <1>7, <1>8, <1>9 DEF Tracks

LEMMA NextOfKept ==
  ASSUME NEW S, NEW A, NEW O, NEW M, Tracks(S, A, O, M), NEW k \in DOMAIN mains, NextOf(k), ControlInv'
  PROVE  Tracks(S, A, O, M)'
<1>1. /\ calls = <<>> /\ result = <<>> /\ thrown = 0 /\ Len(got[k]) < MaxNext
      /\ (got[k] # <<>> => Last(got[k]) # Error) /\ CallNext(mains[k], k)
      /\ UNCHANGED <<fixed, heap, mains, got>>
  BY DEF NextOf, ModuleRuns
<1>2. MainOK(S, A, k)
  BY DEF Tracks, Mains
<1>3. mains[k] \in DOMAIN heap /\ S[mains[k]].ended # Error
  BY <1>1, <1>2 DEF MainOK, Error
<1>4. PICK q : q = mains[k]
  OBVIOUS
<1> QED
  BY <1>1, <1>3, <1>4, CalledKept

LEMMA PullKept ==
  ASSUME NEW S, NEW A, NEW O, NEW M, Tracks(S, A, O, M), Pull, ControlInv'
  PROVE  Tracks(S, A, O, M)'
<1>1. PICK o, j, q : o = Me /\ j = calls[Top].pc /\ q = heap[o].iters[IterSlot(Body(o), j)]
  OBVIOUS
<1>2. /\ Running /\ calls # <<>> /\ result = <<>> /\ thrown = 0 /\ calls[Top].head /\ CallNext(q, j)
      /\ UNCHANGED <<fixed, heap, mains, got>>
  BY <1>1 DEF Pull, LoopSlot, Running
<1>3. /\ S[o].ended = 0 /\ S[o].pc = j /\ j \in DOMAIN Body(o) /\ Body(o)[j].op \in Loops
      /\ S[o].at[j] > 0
  BY <1>1, <1>2, AtIs
<1>4. o \in DOMAIN heap /\ Top \in {1, 2} /\ Top = Len(calls) /\ (Top = 2 => heap[o].gen = "inner")
  BY <1>1, <1>2, TopIs
<1>5. heap[o].gen # "inner"
  BY <1>3, <1>4, ObjectIs
<1>6. Len(calls) = 1 /\ o = calls[1].obj /\ j = calls[1].pc /\ calls[1].head
  BY <1>1, <1>2, <1>4, <1>5 DEF Me
<1>7. q = Iterator(o, j)
  BY <1>1 DEF Iterator
<1>8. q \in DOMAIN heap /\ q # o /\ LoopOK(S, A, O, o, j)
  BY <1>2, <1>3, <1>6, <1>7, PullIs
<1>9. S[q].ended # Error
  BY <1>2, <1>7, <1>8 DEF LoopOK, Error
<1> QED
  BY <1>2, <1>3, <1>6, <1>7, <1>8, <1>9, CalledKept

-----------------------------------------------------------------------------
\* A new object, of which Python has run nothing.
LEMMA StartedIs ==
  ASSUME NEW b, NEW a, NEW s, s = Started(b, a)
  PROVE  /\ s.pc = 1 /\ s.env = Locals(a) /\ s.out = <<>> /\ s.ended = 0
         /\ Len(s.out) = 0 /\ \A j \in DOMAIN b : s.at[j] = 0 /\ ~(s.at[j] > 0)
<1>1. s.pc = 1 /\ s.env = Locals(a) /\ s.out = <<>> /\ s.ended = 0 /\ \A j \in DOMAIN b : s.at[j] = 0
  BY DEF Started
<1>2. Len(<<>>) = 0 /\ ~(0 > 0)
  BY EmptySeq, LenProperties
<1> QED
  BY <1>1, <1>2

LEMMA NewObjectIs ==
  ASSUME NEW gen, NEW a, NEW x, x = NewObject(gen, a)
  PROVE  x.gen = gen /\ x.state = 0 /\ x.env = Locals(a) /\ ObjectShape(x, program[gen])
  BY DEF NewObject, ObjectShape

LEMMA NewObjectOK ==
  ASSUME NEW p, NEW gen \in Gens, NEW a \in Num, heap'[p] = NewObject(gen, a), program' = program,
         NEW S, S[p] = Started(program[gen], a), NEW A, A[p] = a, NEW M \in Nat,
         Len(calls') >= 1 => calls'[1].obj # p, Len(calls') >= 2 => calls'[2].obj # p
  PROVE  ObjectOK(S, A, M, p)' /\ heap'[p].gen = gen /\ Body(p)' = program[gen]
<1>1. PICK x, s : x = NewObject(gen, a) /\ s = Started(program[gen], a)
  OBVIOUS
<1>2. x.gen = gen /\ x.state = 0 /\ x.env = Locals(a) /\ ObjectShape(x, program[gen])
  BY <1>1, NewObjectIs
<1>3. heap'[p].gen = gen /\ Body(p)' = program[gen]
  BY <1>1, <1>2 DEF Body
<1>4. /\ s.pc = 1 /\ s.env = Locals(a) /\ s.ended = 0
      /\ \A j \in DOMAIN program[gen] : s.at[j] = 0 /\ ~(s.at[j] > 0)
  BY <1>1, StartedIs
<1>5. Reached(program, gen, a, s, M)
  BY <1>1, ReachedStart
<1>6. Spot(p)' = Resume(program[gen], 0)
  BY <1>1, <1>2, <1>3 DEF Spot
<1>7. Resume(program[gen], 0) = [pc |-> 1, head |-> FALSE]
  BY DEF Resume
<1>8. PICK c : c = [pc |-> 1, head |-> FALSE]
  OBVIOUS
<1>9. c.pc = 1 /\ ~c.head
  BY <1>8
<1>10. PlaceOK(program[gen], c, s)
  BY <1>4, <1>9 DEF PlaceOK, Stop
<1> QED
  BY <1>1, <1>2, <1>3, <1>4, <1>5, <1>6, <1>7, <1>8, <1>10 DEF ObjectOK

LEMMA MakeKept ==
  ASSUME NEW S, NEW A, NEW O, NEW M, Tracks(S, A, O, M), Make, ControlInv'
  PROVE  \E R, B, P : Tracks(R, B, P, M)'
<1>1. PICK p, n : p = Len(heap) + 1 /\ n = Len(mains)
  OBVIOUS
<1>2. PICK w : w = NewObject("outer", n)
  OBVIOUS
<1>3. /\ calls = <<>> /\ result = <<>> /\ thrown = 0 /\ n < MaxMain
      /\ heap' = Append(heap, w) /\ mains' = Append(mains, p) /\ got' = Append(got, <<>>)
      /\ program' = program /\ promised' = promised /\ calls' = <<>> /\ result' = <<>>
      /\ frames' = frames /\ thrown' = 0
  BY <1>1, <1>2 DEF Make, ModuleRuns, control, fixed
<1>4. Control(S) /\ Objects(S, A, M) /\ LoopsOK(S, A, O) /\ Mains(S, A, O)
  BY DEF Tracks
<1>5. Len(calls) = 0 /\ Len(frames) = 0 /\ frames = <<>>
  BY <1>3, <1>4, CountCalls
<1>6. /\ IsSeq(heap') /\ Len(heap) \in Nat /\ DOMAIN heap = 1..Len(heap) /\ DOMAIN heap' = 1..p
      /\ (\A x \in DOMAIN heap : heap'[x] = heap[x]) /\ heap'[p] = w
  <2>1. IsSeq(heap)
    BY <1>4 DEF Objects
  <2>2. Len(heap) \in Nat /\ DOMAIN heap = 1..Len(heap)
    BY <2>1, SeqShape
  <2>3. IsSeq(heap') /\ Len(heap') = p /\ (\A x \in 1..Len(heap) : heap'[x] = heap[x]) /\ heap'[p] = w
    BY <1>1, <1>3, <2>1, SeqAppend
  <2>4. DOMAIN heap' = 1..p
    BY <2>3, SeqShape
  <2> QED
    BY <2>2, <2>3, <2>4
<1>7. p \notin DOMAIN heap /\ DOMAIN heap' = DOMAIN heap \cup {p}
  BY <1>1, <1>6
<1>8. /\ IsSeq(mains') /\ n \in Nat /\ DOMAIN mains = 1..n /\ DOMAIN mains' = 1..(n + 1) /\ Len(mains') = n + 1
      /\ (\A k \in DOMAIN mains : mains'[k] = mains[k]) /\ mains'[n + 1] = p
      /\ IsSeq(got') /\ Len(got') = n + 1 /\ (\A k \in DOMAIN mains : got'[k] = got[k]) /\ got'[n + 1] = <<>>
  <2>1. IsSeq(mains) /\ IsSeq(got) /\ Len(got) = n
    BY <1>1, <1>4 DEF Mains
  <2>2. n \in Nat /\ DOMAIN mains = 1..n
    BY <1>1, <2>1, SeqShape
  <2>3. IsSeq(mains') /\ Len(mains') = n + 1 /\ (\A k \in 1..n : mains'[k] = mains[k]) /\ mains'[n + 1] = p
    BY <1>1, <1>3, <2>1, SeqAppend
  <2>4. IsSeq(got') /\ Len(got') = n + 1 /\ (\A k \in 1..n : got'[k] = got[k]) /\ got'[n + 1] = <<>>
    BY <1>3, <2>1, SeqAppend
  <2>5. DOMAIN mains' = 1..(n + 1)
    BY <2>3, SeqShape
  <2> QED
    BY <2>2, <2>3, <2>4, <2>5
<1>9. n \in Num
  BY <1>3, <1>8, GeneratorAssumption DEF Num
<1>10. PICK R, B, P : /\ R = Changed(DOMAIN heap, S, p, Started(program.outer, n))
                      /\ B = Changed(DOMAIN heap, A, p, n) /\ P = Changed(DOMAIN heap, O, p, <<0, n + 1>>)
  OBVIOUS
<1>11. /\ R[p] = Started(program.outer, n) /\ B[p] = n /\ P[p] = <<0, n + 1>>
       /\ \A x \in DOMAIN heap : R[x] = S[x] /\ B[x] = A[x] /\ P[x] = O[x]
  BY <1>7, <1>10, OneDiffers
<1>12. \A x \in DOMAIN heap : SameObject(x) /\ SameKind(x) /\ Spot(x)' = Spot(x)
  <2>1. ASSUME NEW x \in DOMAIN heap PROVE SameObject(x) /\ SameKind(x)
    BY <1>3, <1>6, <1>7 DEF SameObject, SameKind
  <2>2. ASSUME NEW x \in DOMAIN heap PROVE Spot(x)' = Spot(x)
    BY <1>3, <1>5, <1>6 DEF Spot, Body
  <2> QED
    BY <2>1, <2>2
<1>13. M \in Nat
  BY <1>4 DEF Objects
<1>14. ObjectOK(R, B, M, p)' /\ heap'[p].gen = "outer" /\ Body(p)' = program.outer
  <2>1. "outer" \in Gens /\ program["outer"] = program.outer /\ Len(calls') = 0
    BY <1>3, <1>5 DEF Gens
  <2>2. PICK gen : gen = "outer"
    OBVIOUS
  <2>3. gen \in Gens /\ heap'[p] = NewObject(gen, n)
    BY <1>2, <1>6, <2>1, <2>2
  <2>5. R[p] = Started(program[gen], n)
    BY <1>11, <2>1, <2>2
  <2>6. ~(Len(calls') >= 1) /\ ~(Len(calls') >= 2)
    BY <2>1
  <2>7. program' = program /\ n \in Num /\ B[p] = n /\ M \in Nat
    BY <1>3, <1>9, <1>11, <1>13
  <2>4. ObjectOK(R, B, M, p)' /\ heap'[p].gen = gen /\ Body(p)' = program[gen]
    BY <2>3, <2>5, <2>6, <2>7, NewObjectOK
  <2> QED
    BY <2>1, <2>2, <2>4
<1>15. Objects(R, B, M)'
  <2>1. ASSUME NEW x \in DOMAIN heap PROVE ObjectOK(R, B, M, x)'
    <3>1. ObjectOK(S, A, M, x) /\ M <= M
      BY <1>4, <1>13 DEF Objects
    <3> QED
      BY <1>11, <1>12, <1>13, <3>1, ObjectKept
  <2> QED
    BY <1>6, <1>7, <1>13, <1>14, <2>1 DEF Objects
<1>16. Control(R)'
  <2>1. Len(calls') = 0 /\ Len(frames') = 0 /\ DOMAIN calls' = {}
    BY <1>3, <1>5, EmptySeq
  <2>2. 0 # Stop
    BY DEF Stop
  <2> QED
    BY <1>3, <2>1, <2>2 DEF Control
<1>17. LoopsOK(R, B, P)'
  <2>1. ASSUME NEW x \in DOMAIN heap, S[x].ended = 0, NEW j \in DOMAIN Body(x), S[x].at[j] > 0
        PROVE  LoopOK(R, B, P, x, j)'
    <3>1. PICK q : q = Iterator(x, j)
      OBVIOUS
    <3>2. LoopOK(S, A, O, x, j)
      BY <1>4, <2>1 DEF LoopsOK
    <3>3. q \in DOMAIN heap /\ S[q].ended # Error
      BY <1>3, <3>1, <3>2 DEF LoopOK
    <3>4. SameGen(q) /\ q = Iterator(x, j)'
      BY <1>12, <3>1, <3>3, SameKindIs
    <3>5. ~Handed(x, j) /\ ~Handed(x, j)'
      BY <1>3 DEF Handed
    <3>6. /\ R[x].at[j] = S[x].at[j] /\ R[x].arg[j] = S[x].arg[j] /\ R[q].out = S[q].out
          /\ R[q].ended # Error /\ B[q] = A[q] /\ P[q] = O[q]
      BY <1>11, <2>1, <3>3
    <3> QED
      BY <3>1, <3>2, <3>4, <3>5, <3>6, LoopKept
  <2>2. ASSUME NEW j \in DOMAIN program.outer PROVE ~(R[p].at[j] > 0)
    BY <1>11, StartedIs
  <2>3. \A x \in DOMAIN heap : Body(x)' = Body(x) /\ R[x] = S[x]
    BY <1>11, <1>12, SameKindIs
  <2> QED
    BY <1>7, <1>14, <2>1, <2>2, <2>3 DEF LoopsOK
<1>18. Mains(R, B, P)'
  <2>1. ASSUME NEW k \in DOMAIN mains PROVE MainOK(R, B, k)' /\ P[mains'[k]] = <<0, k>>
    <3>1. PICK x : x = mains[k]
      OBVIOUS
    <3>2. MainOK(S, A, k) /\ x \in DOMAIN heap /\ O[x] = <<0, k>>
      BY <1>4, <3>1 DEF Mains, MainOK
    <3>3. RunOK(Body(x), S[x]) /\ SameGen(x)
      BY <1>12, <3>2, ObjectIs, SameKindIs
    <3>4. Len(S[x].out) \in Nat
      BY <3>3, RunStateIs DEF RunOK
    <3>5. ~Waits(k) /\ ~Waits(k)' /\ ~Busy(k)'
      BY <1>3, <1>5 DEF Waits, Busy
    <3>6. mains'[k] = x /\ got'[k] = got[k]
      BY <1>8, <3>1
    <3>7. thrown # Error
      BY <1>3 DEF Error
    <3>8. MainOK(R, B, k)'
      BY <1>11, <3>1, <3>2, <3>3, <3>4, <3>5, <3>6, <3>7, MainKept
    <3> QED
      BY <1>11, <3>2, <3>6, <3>8
  <2>2. MainOK(R, B, n + 1)'
    <3>1. PICK s : s = R[p]
      OBVIOUS
    <3>2. s.ended = 0 /\ Len(s.out) = 0
      BY <1>11, <3>1, StartedIs
    <3>3. got'[n + 1] = <<>> /\ Len(<<>>) = 0 /\ IsSeq(<<>>) /\ DOMAIN <<>> = {}
      BY <1>8, EmptySeq DEF IsSeq
    <3>4. ~Waits(n + 1)' /\ ~Busy(n + 1)'
      BY <1>3, <1>5 DEF Waits, Busy
    <3>5. 0 <= MaxNext /\ 0 # Error
      BY GeneratorAssumption DEF Error
    <3>6. mains'[n + 1] = p /\ p \in DOMAIN heap' /\ heap'[p].gen = "outer" /\ B[p] = (n + 1) - 1
      BY <1>7, <1>8, <1>11, <1>14
    <3> QED
      BY <3>1, <3>2, <3>3, <3>4, <3>5, <3>6 DEF MainOK
  <2>3. n + 1 <= MaxMain
    BY <1>3, <1>8, GeneratorAssumption
  <2>4. DOMAIN mains' = DOMAIN mains \cup {n + 1}
    BY <1>8
  <2>5. P[mains'[n + 1]] = <<0, n + 1>>
    BY <1>8, <1>11
  <2> QED
    BY <1>8, <2>1, <2>2, <2>3, <2>4, <2>5 DEF Mains
<1>19. Promise'
  BY <1>3 DEF Tracks, Promise
<1> QED
  BY <1>15, <1>16, <1>17, <1>18, <1>19 DEF Tracks

-----------------------------------------------------------------------------
\* A loop begins: it has an object of its own.
WithIter(x, n, p) == [x EXCEPT !.iters[n] = p]

LEMMA IterChanged ==
  ASSUME NEW x, NEW b, ObjectShape(x, b), NEW n \in 1..Cardinality(IterSites(b)), NEW p,
         NEW y, y = WithIter(x, n, p)
  PROVE  /\ y.gen = x.gen /\ y.state = x.state /\ y.env = x.env /\ ObjectShape(y, b)
         /\ y.iters[n] = p
         /\ \A k \in 1..Cardinality(IterSites(b)) : k # n => y.iters[k] = x.iters[k]
<1> DEFINE D == 1..Cardinality(IterSites(b))
<1>1. PICK g : g = [x.iters EXCEPT ![n] = p]
  OBVIOUS
<1>2. y = [x EXCEPT !.iters = g]
  BY <1>1 DEF WithIter
<1>3. y = [gen |-> x.gen, state |-> x.state, env |-> x.env, iters |-> g]
  BY <1>2 DEF ObjectShape
<1>4. y.gen = x.gen /\ y.state = x.state /\ y.env = x.env /\ y.iters = g
  BY <1>3
<1>5. PICK f : f = x.iters
  OBVIOUS
<1>6. f = [k \in D |-> f[k]] /\ g = [f EXCEPT ![n] = p] /\ n \in D
  BY <1>1, <1>5 DEF ObjectShape
<1> HIDE DEF D
<1>7. g = [k \in D |-> g[k]] /\ g[n] = p /\ \A k \in D : k # n => g[k] = f[k]
  BY <1>6
<1> QED
  BY <1>3, <1>4, <1>5, <1>7 DEF ObjectShape, D

Starts(o, j, p, w) == p = Len(heap) + 1 /\ heap' = Append([heap EXCEPT ![o].iters[IterSlot(Body(o), j)] = p], w)

LEMMA StartsHeap ==
  ASSUME NEW S, NEW A, NEW O, NEW M, NEW o, NEW j, NEW w, NEW p,
         Tracks(S, A, O, M), Starts(o, j, p, w), o \in DOMAIN heap, j \in IterSites(Body(o)),
         program' = program
  PROVE  /\ IsSeq(heap') /\ DOMAIN heap' = DOMAIN heap \cup {p} /\ p \notin DOMAIN heap
         /\ heap'[p] = w /\ \A x \in DOMAIN heap : x # o => heap'[x] = heap[x]
         /\ heap'[o].gen = heap[o].gen /\ heap'[o].state = heap[o].state /\ heap'[o].env = heap[o].env
         /\ ObjectShape(heap'[o], Body(o))
         /\ Iterator(o, j)' = p
         /\ \A k \in DOMAIN Body(o) : k # j /\ Body(o)[k].op \in Loops => Iterator(o, k)' = Iterator(o, k)
<1> DEFINE n == IterSlot(Body(o), j)
<1>0. p = Len(heap) + 1
  BY DEF Starts
<1>a. j \in DOMAIN Body(o) /\ Body(o)[j].op \in Loops
  BY DEF IterSites
<1>1. IsSeq(heap) /\ IsBody(Body(o)) /\ ObjectShape(heap[o], Body(o))
  BY ObjectIs DEF Tracks, Objects
<1>2. Len(heap) \in Nat /\ DOMAIN heap = 1..Len(heap)
  BY <1>1, SeqShape
<1>3. PICK g : g = [heap EXCEPT ![o].iters[n] = p]
  OBVIOUS
<1>4. g = [x \in DOMAIN heap |-> g[x]] /\ (\A x \in DOMAIN heap : x # o => g[x] = heap[x])
      /\ g[o] = WithIter(heap[o], n, p)
  BY <1>3 DEF WithIter
<1>5. IsSeq(g) /\ Len(g) = Len(heap)
  BY <1>1, <1>4, SeqChanged
<1>6. heap' = Append(g, w)
  BY <1>3 DEF Starts
<1>7. /\ IsSeq(heap') /\ Len(heap') = p /\ (\A x \in 1..Len(heap) : heap'[x] = g[x]) /\ heap'[p] = w
  <2>1. PICK h : h = heap'
    OBVIOUS
  <2>2. h = Append(g, w)
    BY <1>6, <2>1
  <2>3. /\ IsSeq(h) /\ Len(h) = Len(g) + 1 /\ (\A x \in 1..Len(g) : h[x] = g[x])
        /\ h[Len(g) + 1] = w
    BY <1>5, <2>2, SeqAppend
  <2> QED
    BY <1>0, <1>5, <2>1, <2>3
<1>8. DOMAIN heap' = 1..p
  BY <1>7, SeqShape
<1>9. n \in 1..Cardinality(IterSites(Body(o)))
      /\ \A k \in DOMAIN Body(o) : Body(o)[k].op \in Loops /\ IterSlot(Body(o), k) = n => k = j
  BY <1>a, <1>1, SlotIs
<1>10. PICK x, y, b : x = heap[o] /\ y = heap'[o] /\ b = Body(o)
  OBVIOUS
<1>11. y = WithIter(x, n, p) /\ ObjectShape(x, b) /\ n \in 1..Cardinality(IterSites(b))
  BY <1>0, <1>1, <1>2, <1>4, <1>7, <1>9, <1>10
<1> HIDE DEF n
<1>12. /\ y.gen = x.gen /\ y.state = x.state /\ y.env = x.env /\ ObjectShape(y, b) /\ y.iters[n] = p
       /\ \A k \in 1..Cardinality(IterSites(b)) : k # n => y.iters[k] = x.iters[k]
  BY <1>11, IterChanged
<1>13. Body(o)' = Body(o)
  BY <1>10, <1>12 DEF Body
<1>14. Iterator(o, j)' = p
  BY <1>10, <1>12, <1>13 DEF Iterator, n
<1>15. ASSUME NEW k \in DOMAIN Body(o), k # j, Body(o)[k].op \in Loops
       PROVE  Iterator(o, k)' = Iterator(o, k)
  <2>1. IterSlot(Body(o), k) \in 1..Cardinality(IterSites(Body(o)))
    BY <1>1, <1>15, SlotIs
  <2>2. IterSlot(Body(o), k) # n
    BY <1>9, <1>15
  <2>3. y.iters[IterSlot(Body(o), k)] = x.iters[IterSlot(Body(o), k)]
    BY <1>10, <1>12, <2>1, <2>2
  <2> QED
    BY <1>10, <1>13, <2>3 DEF Iterator
<1>16. p \notin DOMAIN heap /\ DOMAIN heap' = DOMAIN heap \cup {p}
  BY <1>0, <1>2, <1>8
<1>17. \A z \in DOMAIN heap : z # o => heap'[z] = heap[z]
  BY <1>0, <1>2, <1>4, <1>7
<1> QED
  BY <1>7, <1>10, <1>12, <1>14, <1>15, <1>16, <1>17

LEMMA HeadChanged ==
  ASSUME NEW c, ActShape(c), NEW h
  PROVE  [c EXCEPT !.head = h] = [obj |-> c.obj, pc |-> c.pc, head |-> h]
  BY DEF ActShape

LEMMA StartLoopKept ==
  ASSUME NEW S, NEW A, NEW O, NEW M, Tracks(S, A, O, M), StartLoop, ControlInv'
  PROVE  \E R, B, P, N : Tracks(R, B, P, N)'
<1>1. PICK o, p, j, b, s : o = Me /\ p = Len(heap) + 1 /\ j = calls[Top].pc /\ b = Body(o) /\ s = S[o]
  OBVIOUS
<1>2. PICK w : w = NewObject("inner", heap[o].env.p)
  OBVIOUS
<1>3. /\ Running /\ j \in DOMAIN b /\ b[j].op \in Loops /\ ~calls[Top].head
      /\ heap' = Append([heap EXCEPT ![o].iters[IterSlot(b, j)] = p], w)
      /\ calls' = [calls EXCEPT ![Top].head = TRUE] /\ Quiet
      /\ program' = program /\ mains' = mains /\ got' = got /\ result' = result
      /\ frames' = frames /\ thrown' = thrown
  BY <1>1, <1>2 DEF StartLoop, At, Here, LoopSlot, Loops, Quiet, fixed
<1>4. /\ o \in DOMAIN heap /\ IsBody(b) /\ RunOK(b, s) /\ s \in RunState(b)
      /\ s.ended = 0 /\ s.pc = j /\ heap[o].env = s.env /\ s.at[j] \in Nat /\ ~(s.at[j] > 0)
      /\ calls # <<>> /\ result = <<>> /\ thrown = 0 /\ M \in Nat /\ heap[o].gen \in Gens
  BY <1>1, <1>3, RunningIs, AtIs, ObjectIs DEF RunOK
<1>5. /\ Control(S) /\ Objects(S, A, M) /\ LoopsOK(S, A, O) /\ Mains(S, A, O)
  BY DEF Tracks
<1>6. heap[o].gen = "outer" /\ Top = 1 /\ Len(calls) = 1 /\ DOMAIN calls = 1..1 /\ calls[1].obj = o
      /\ Busy(frames[1].pc) /\ ActShape(calls[1]) /\ calls[1].pc = j
  <2>1. heap[o].gen # "inner"
    BY <1>1, <1>3, <1>4, ObjectIs
  <2>2. Top = 1 /\ heap[o].gen = "outer" /\ Busy(frames[1].pc) /\ Len(calls) = Top
        /\ DOMAIN calls = 1..Top /\ ActShape(calls[Top])
    BY <1>1, <1>4, <2>1, TopIs
  <2> QED
    BY <1>1, <2>2 DEF Me
<1>7. /\ IsSeq(heap') /\ DOMAIN heap' = DOMAIN heap \cup {p} /\ p \notin DOMAIN heap
      /\ heap'[p] = w /\ \A x \in DOMAIN heap : x # o => heap'[x] = heap[x]
      /\ heap'[o].gen = heap[o].gen /\ heap'[o].state = heap[o].state /\ heap'[o].env = heap[o].env
      /\ ObjectShape(heap'[o], b) /\ Iterator(o, j)' = p
      /\ \A k \in DOMAIN b : k # j /\ b[k].op \in Loops => Iterator(o, k)' = Iterator(o, k)
  <2>1. j \in IterSites(Body(o)) /\ o \in DOMAIN heap
    BY <1>1, <1>3, <1>4 DEF IterSites
  <2>2. Starts(o, j, p, w) /\ program' = program
    BY <1>1, <1>3 DEF Starts
  <2>3. /\ IsSeq(heap') /\ DOMAIN heap' = DOMAIN heap \cup {p} /\ p \notin DOMAIN heap
        /\ heap'[p] = w /\ \A x \in DOMAIN heap : x # o => heap'[x] = heap[x]
        /\ heap'[o].gen = heap[o].gen /\ heap'[o].state = heap[o].state /\ heap'[o].env = heap[o].env
        /\ ObjectShape(heap'[o], Body(o)) /\ Iterator(o, j)' = p
        /\ \A k \in DOMAIN Body(o) : k # j /\ Body(o)[k].op \in Loops => Iterator(o, k)' = Iterator(o, k)
    BY <2>1, <2>2, StartsHeap
  <2> QED
    BY <1>1, <2>3
<1>8. PICK t, a : /\ a = s.env.p
                  /\ t = State(s.pc, s.env, s.out, s.ended, [s.at EXCEPT ![j] = 1], [s.arg EXCEPT ![j] = a])
  OBVIOUS
<1>9. s.at[j] = 0 /\ a \in Num
  <2>1. s.env \in Env
    BY <1>4, RunStateIs
  <2> QED
    BY <1>4, <1>8, <2>1, EnvGet
<1>10. \A inner \in Inners : Statement(b, inner, s) = t
  BY <1>3, <1>4, <1>8, <1>9, StartIs
<1>11. PICK N : N = M + 1
  OBVIOUS
<1>12. Reached(program, heap[o].gen, A[o], t, N) /\ N \in Nat /\ M <= N
  BY <1>1, <1>4, <1>10, <1>11, InnerRunsOK, OnReached
<1>13. /\ t.pc = j /\ t.env = s.env /\ t.out = s.out /\ t.ended = 0
       /\ t.at = [s.at EXCEPT ![j] = 1] /\ t.arg = [s.arg EXCEPT ![j] = a]
  BY <1>4, <1>8, StateFields
<1>14. s.at \in [DOMAIN b -> Nat] /\ s.arg \in [DOMAIN b -> Num]
  BY <1>4, RunStateIs
<1>15. /\ t.at[j] = 1 /\ t.arg[j] = a
       /\ \A k \in DOMAIN b : k # j => t.at[k] = s.at[k] /\ t.arg[k] = s.arg[k]
  BY <1>3, <1>13, <1>14
<1>16. PICK u, R, B, P : /\ u = Changed(DOMAIN heap, S, o, t)
                         /\ R = Changed(DOMAIN heap, u, p, Started(program.inner, a))
                         /\ B = Changed(DOMAIN heap, A, p, a) /\ P = Changed(DOMAIN heap, O, p, <<o, j>>)
  OBVIOUS
<1>17. /\ R[o] = t /\ R[p] = Started(program.inner, a) /\ B[p] = a /\ P[p] = <<o, j>>
       /\ \A x \in DOMAIN heap : (x # o => R[x] = S[x]) /\ B[x] = A[x] /\ P[x] = O[x]
  <2>1. u[o] = t /\ \A x \in DOMAIN heap : x # o => u[x] = S[x]
    BY <1>16, OneDiffers
  <2>2. R[p] = Started(program.inner, a) /\ \A x \in DOMAIN heap : x # p => R[x] = u[x]
    BY <1>16, OneDiffers
  <2>3. B[p] = a /\ \A x \in DOMAIN heap : x # p => B[x] = A[x]
    BY <1>16, OneDiffers
  <2>4. P[p] = <<o, j>> /\ \A x \in DOMAIN heap : x # p => P[x] = O[x]
    BY <1>16, OneDiffers
  <2> QED
    BY <1>4, <1>7, <2>1, <2>2, <2>3, <2>4
<1>18. \A x \in DOMAIN heap : SameGen(x) /\ Body(x)' = Body(x) /\ x # p
  BY <1>3, <1>7 DEF SameGen, Body
<1>19. /\ calls'[1] = [obj |-> o, pc |-> j, head |-> TRUE] /\ DOMAIN calls' = 1..1 /\ Len(calls') = 1
       /\ calls' # <<>>
  <2>1. PICK c : c = calls[1]
    OBVIOUS
  <2>2. c = [obj |-> o, pc |-> j, head |-> c.head] /\ calls'[1] = [c EXCEPT !.head = TRUE]
    BY <1>3, <1>6, <2>1 DEF ActShape
  <2>3. calls' = [k \in DOMAIN calls |-> calls'[k]]
    BY <1>3
  <2>4. IsSeq(calls') /\ Len(calls') = Len(calls)
    BY <1>5, <2>3, SeqChanged DEF Control, ControlInv
  <2>5. DOMAIN calls' = 1..Len(calls') /\ (calls' = <<>> <=> Len(calls') = 0)
    BY <2>4, SeqShape
  <2>6. Len(calls') = 1 /\ DOMAIN calls' = 1..1 /\ calls' # <<>>
    BY <1>6, <2>4, <2>5
  <2>7. calls'[1] = [obj |-> o, pc |-> j, head |-> TRUE]
    <3>1. [c EXCEPT !.head = TRUE] = [obj |-> c.obj, pc |-> c.pc, head |-> TRUE]
      BY <1>6, <2>1, HeadChanged, Zenon
    <3>2. calls'[1] = [obj |-> c.obj, pc |-> c.pc, head |-> TRUE] /\ c.obj = o /\ c.pc = j
      BY <1>6, <2>1, <2>2, <3>1
    <3> QED
      BY <3>2
  <2> QED
    BY <2>6, <2>7
<1>20. Objects(R, B, N)'
  <2>1. ASSUME NEW x \in DOMAIN heap, x # o PROVE ObjectOK(R, B, N, x)'
    <3>1. ObjectOK(S, A, M, x) /\ SameObject(x)
      BY <1>3, <1>5, <1>7, <2>1 DEF Objects, SameObject
    <3>2. Spot(x)' = Spot(x)
      <4>1. calls'[1].obj = o
        BY <1>19
      <4>2. Body(x)' = Body(x) /\ heap'[x] = heap[x]
        BY <1>7, <1>18, <2>1
      <4> QED
        BY <1>6, <1>19, <2>1, <4>1, <4>2 DEF Spot
    <3>3. R[x] = S[x] /\ B[x] = A[x]
      BY <1>17, <2>1
    <3> QED
      BY <1>4, <1>12, <3>1, <3>2, <3>3, ObjectKept
  <2>2. ObjectOK(R, B, N, o)'
    <3>1. Spot(o)' = [obj |-> o, pc |-> j, head |-> TRUE]
      BY <1>19 DEF Spot
    <3>2. PICK c : c = [obj |-> o, pc |-> j, head |-> TRUE]
      OBVIOUS
    <3>3. c.pc = j /\ c.head
      BY <3>2
    <3>4. PlaceOK(b, c, t)
      BY <1>3, <1>13, <1>15, <3>3 DEF PlaceOK, Stop
    <3>5. A[o] \in Num /\ Body(o)' = b /\ B[o] = A[o]
      BY <1>1, <1>4, <1>17, <1>18, ObjectIs
    <3> QED
      BY <1>3, <1>4, <1>7, <1>12, <1>13, <1>17, <3>1, <3>2, <3>4, <3>5 DEF ObjectOK
  <2>3. ObjectOK(R, B, N, p)'
    <3>1. PICK gen : gen = "inner"
      OBVIOUS
    <3>2. gen \in Gens /\ heap'[p] = NewObject(gen, a)
      BY <1>2, <1>4, <1>7, <1>8, <3>1 DEF Gens
    <3>3. R[p] = Started(program[gen], a)
      BY <1>17, <3>1
    <3>4. (Len(calls') >= 1 => calls'[1].obj # p) /\ ~(Len(calls') >= 2)
      BY <1>4, <1>7, <1>19
    <3> QED
      BY <1>3, <1>9, <1>12, <1>17, <3>2, <3>3, <3>4, NewObjectOK
  <2> QED
    BY <1>7, <1>12, <2>1, <2>2, <2>3 DEF Objects
<1>21. heap'[p].gen = "inner" /\ Body(p)' = program.inner
  <2>1. w.gen = "inner"
    BY <1>2, NewObjectIs
  <2> QED
    BY <1>3, <1>7, <2>1 DEF Body
<1>22. Me' = o
  BY <1>19 DEF Me, Top
<1>23. Control(R)'
  <2>1. Len(frames) = 1 /\ frames[1].pc \in DOMAIN mains /\ o = mains[frames[1].pc]
    <3>1. Len(frames) = 1
      BY <1>4, <1>5, <1>6, CountCalls
    <3> QED
      BY <1>5, <1>6, <3>1 DEF Control
  <2>2. calls'[1].obj = o /\ ActShape(calls'[1])
    BY <1>19 DEF ActShape
  <2>3. R[o].ended # Error /\ 0 # Stop
    BY <1>13, <1>17 DEF Error, Stop
  <2>4. /\ ControlInv' /\ Len(frames') = 1 /\ DOMAIN calls' = 1..1 /\ Len(calls') = 1
        /\ thrown' = 0 /\ frames' = frames /\ mains' = mains
    BY <1>3, <1>4, <1>19, <2>1
  <2>5. /\ \A k \in DOMAIN calls' : ActShape(calls'[k])
        /\ frames'[1].pc \in DOMAIN mains' /\ calls'[1].obj = mains'[frames'[1].pc]
    BY <2>1, <2>2, <2>4
  <2> QED
    BY <1>22, <2>3, <2>4, <2>5 DEF Control
<1>24. ~Handed(o, j)' /\ \A x, k : ~Handed(x, k) /\ ~Handed(x, k)'
  BY <1>3, <1>4 DEF Handed
<1>25. LoopsOK(R, B, P)'
  <2>1. ASSUME NEW x \in DOMAIN heap, R[x].ended = 0, NEW k \in DOMAIN Body(x), R[x].at[k] > 0,
               x # o \/ k # j
        PROVE  LoopOK(R, B, P, x, k)'
    <3>1. S[x].ended = 0 /\ R[x].at[k] = S[x].at[k] /\ R[x].arg[k] = S[x].arg[k] /\ S[x].at[k] > 0
      <4>1. CASE x = o
        BY <1>1, <1>4, <1>15, <1>17, <2>1, <4>1
      <4>2. CASE x # o
        BY <1>17, <2>1, <4>2
      <4> QED
        BY <4>1, <4>2
    <3>2. LoopOK(S, A, O, x, k)
      BY <1>5, <2>1, <3>1 DEF LoopsOK
    <3>3. PICK q : q = Iterator(x, k)
      OBVIOUS
    <3>4. q \in DOMAIN heap /\ heap[q].gen = "inner" /\ S[q].ended # Error
      BY <1>4, <3>2, <3>3 DEF LoopOK, Error
    <3>5. q # o
      BY <1>6, <3>4
    <3>6. q = Iterator(x, k)'
      <4>1. CASE x = o
        <5>1. RunOK(Body(x), S[x])
          BY <2>1, ObjectIs
        <5>2. Body(x)[k].op \in Loops
          BY <2>1, <3>1, <5>1 DEF RunOK
        <5> QED
          BY <1>1, <1>7, <2>1, <3>3, <4>1, <5>2
      <4>2. CASE x # o
        BY <1>7, <1>18, <2>1, <3>3, <4>2 DEF Iterator
      <4> QED
        BY <4>1, <4>2
    <3>7. SameGen(q) /\ B[q] = A[q] /\ P[q] = O[q] /\ R[q].out = S[q].out /\ R[q].ended # Error
      BY <1>17, <1>18, <3>4, <3>5
    <3>8. ~Handed(x, k) /\ ~Handed(x, k)'
      BY <1>24
    <3> QED
      BY <3>1, <3>2, <3>3, <3>6, <3>7, <3>8, LoopKept
  <2>2. LoopOK(R, B, P, o, j)'
    <3>1. PICK r : r = R[p]
      OBVIOUS
    <3>2. Len(r.out) = 0 /\ r.ended = 0 /\ 0 # Error
      BY <1>17, <3>1, StartedIs DEF Error
    <3>3. /\ p \in DOMAIN heap' /\ P[p] = <<o, j>> /\ B[p] = R[o].arg[j] /\ R[o].at[j] = 1
      BY <1>7, <1>15, <1>17
    <3> QED
      BY <1>7, <1>21, <1>24, <3>1, <3>2, <3>3 DEF LoopOK
  <2>3. ASSUME NEW k \in DOMAIN program.inner PROVE ~(R[p].at[k] > 0)
    BY <1>17, StartedIs
  <2>4. \A x \in DOMAIN heap' : R[x].ended = 0 => \A k \in (DOMAIN Body(x))' : R[x].at[k] > 0 => LoopOK(R, B, P, x, k)'
    BY <1>7, <1>18, <1>21, <2>1, <2>2, <2>3
  <2> QED
    BY <2>4 DEF LoopsOK
<1>26. Mains(R, B, P)'
  <2>1. ASSUME NEW k \in DOMAIN mains PROVE MainOK(R, B, k)' /\ P[mains[k]] = <<0, k>>
    <3>1. PICK x : x = mains[k]
      OBVIOUS
    <3>2. MainOK(S, A, k) /\ x \in DOMAIN heap /\ O[x] = <<0, k>>
      BY <1>5, <3>1 DEF Mains, MainOK
    <3>3. RunOK(Body(x), S[x]) /\ SameGen(x)
      BY <1>18, <3>2, ObjectIs
    <3>4. Len(S[x].out) \in Nat
      BY <3>3, RunStateIs DEF RunOK
    <3>5. ~Waits(k) /\ ~Waits(k)' /\ (Busy(k)' <=> Busy(k))
      BY <1>3, <1>4, <1>19 DEF Waits, Busy
    <3>6. mains'[k] = x /\ got'[k] = got[k] /\ thrown # Error
      BY <1>3, <1>4, <3>1 DEF Error
    <3>7. R[x].out = S[x].out /\ R[x].ended = S[x].ended /\ B[x] = A[x] /\ P[x] = O[x]
      <4>1. CASE x = o
        BY <1>1, <1>4, <1>13, <1>17, <4>1
      <4>2. CASE x # o
        BY <1>17, <3>2, <4>2
      <4> QED
        BY <1>17, <3>2, <4>1, <4>2
    <3>8. MainOK(R, B, k)'
      BY <3>1, <3>2, <3>3, <3>4, <3>5, <3>6, <3>7, MainKept
    <3> QED
      BY <3>1, <3>2, <3>7, <3>8
  <2> QED
    BY <1>3, <1>5, <2>1 DEF Mains
<1>27. Promise'
  BY <1>3 DEF Tracks, Promise, Quiet, fixed
<1> QED
  BY <1>20, <1>23, <1>25, <1>26, <1>27 DEF Tracks

-----------------------------------------------------------------------------
\* An answer reaches the module: nothing is running any more.
Over == calls = <<>> /\ frames = <<>> /\ result = <<>> /\ thrown = 0

LEMMA OverIs ==
  ASSUME Over'
  PROVE  /\ Len(calls') = 0 /\ Len(frames') = 0 /\ DOMAIN calls' = {} /\ calls' = <<>> /\ thrown' = 0
         /\ \A o, j : ~Handed(o, j)' /\ ~Busy(j)' /\ ~Waits(j)'
  BY DEF Over, Handed, Busy, Waits

LEMMA OverControl ==
  ASSUME Over', ControlInv', NEW S
  PROVE  Control(S)'
<1>1. Len(calls') = 0 /\ Len(frames') = 0 /\ DOMAIN calls' = {} /\ calls' = <<>> /\ thrown' = 0
  BY OverIs
<1>2. 0 # Stop
  BY DEF Stop
<1> QED
  BY <1>1, <1>2 DEF Control

LEMMA MainGets ==
  ASSUME NEW S, NEW A, NEW k \in DOMAIN mains, k \in DOMAIN got, MainOK(S, A, k), Busy(k), ~Busy(k)',
         NEW o, o = mains[k], mains'[k] = o, SameGen(o), NEW n, Gets(k, n),
         NEW g, g = Len(got[k]), n = Answer(S[o], g + 1), Len(S[o].out) \in Nat,
         S[o].ended = 0 => Len(S[o].out) = g + 1, S[o].ended = Error => n = Error
  PROVE  MainOK(S, A, k)'
<1>1. /\ heap[o].gen = "outer" /\ A[o] = k - 1 /\ IsSeq(got[k]) /\ g < MaxNext
      /\ S[o].ended # 0 => Len(S[o].out) <= g
      /\ \A m \in DOMAIN got[k] : got[k][m] = Answer(S[o], m)
  BY DEF MainOK
<1>2. o \in DOMAIN heap' /\ heap'[o].gen = "outer"
  BY <1>1 DEF SameGen
<1>3. MaxNext \in Nat
  BY GeneratorAssumption
<1>4. PICK v, w : v = got[k] /\ w = got'[k]
  OBVIOUS
<1>5. w = Append(v, n)
  BY <1>4 DEF Gets
<1>6. /\ IsSeq(w) /\ Len(w) = g + 1 /\ (\A m \in 1..g : w[m] = v[m]) /\ w[g + 1] = n
      /\ g \in Nat /\ DOMAIN v = 1..g
  BY <1>1, <1>4, <1>5, SeqAppend, SeqShape
<1>7. DOMAIN w = 1..(g + 1) /\ w # <<>>
  BY <1>6, SeqShape
<1>8. Last(w) = n
  BY <1>6 DEF Last
<1>9. \A m \in DOMAIN w : w[m] = Answer(S[o], m)
  <2>1. ASSUME NEW m \in 1..(g + 1) PROVE w[m] = Answer(S[o], m)
    <3>1. CASE m = g + 1
      BY <1>6, <3>1
    <3>2. CASE m # g + 1
      <4>1. m \in 1..g
        BY <1>6, <2>1, <3>2
      <4> QED
        BY <1>1, <1>4, <1>6, <4>1
    <3> QED
      BY <3>1, <3>2
  <2> QED
    BY <1>7, <2>1
<1>10. ~Waits(k)'
  BY DEF Waits
<1>11. /\ g + 1 <= MaxNext
       /\ S[o].ended = 0 => Len(S[o].out) = g + 1
       /\ S[o].ended # 0 => Len(S[o].out) <= g + 1
  BY <1>1, <1>3, <1>6
<1>12. got'[k] = w /\ mains'[k] = o
  BY <1>4
<1> QED
  BY <1>1, <1>2, <1>6, <1>7, <1>8, <1>9, <1>10, <1>11, <1>12 DEF MainOK

LEMMA ModuleGets ==
  ASSUME NEW S, NEW A, NEW O, NEW M, Tracks(S, A, O, M), NEW k, Busy(k), NEW n, Gets(k, n), Over',
         UNCHANGED <<fixed, heap, mains>>, ControlInv', thrown # 0 => heap[Me].gen = "outer",
         result = <<>> \/ calls = <<>>,
         \A x \in DOMAIN heap : PlaceOK(Body(x), Resume(Body(x), heap[x].state), S[x]),
         NEW g, g = Len(got[k]), n = Answer(S[mains[k]], g + 1),
         S[mains[k]].ended = 0 => Len(S[mains[k]].out) = g + 1, S[mains[k]].ended = Error => n = Error
  PROVE  Tracks(S, A, O, M)'
<1>1. Control(S) /\ Objects(S, A, M) /\ LoopsOK(S, A, O) /\ Mains(S, A, O)
  BY DEF Tracks
<1>2. /\ program' = program /\ heap' = heap /\ mains' = mains
      /\ (\A x : Body(x)' = Body(x)) /\ \A x, j : Iterator(x, j)' = Iterator(x, j)
  BY DEF fixed, Body, Iterator
<1>3. Promise'
  BY DEF Tracks, Promise, fixed
<1>4. Control(S)'
  BY OverControl
<1>5. /\ Len(calls') = 0 /\ thrown' = 0
      /\ \A x, j : ~Handed(x, j)' /\ ~Busy(j)' /\ ~Waits(j)'
  BY OverIs
<1>6. Objects(S, A, M)'
  <2>1. ASSUME NEW x \in DOMAIN heap PROVE ObjectOK(S, A, M, x)'
    <3>1. ObjectOK(S, A, M, x)
      BY <1>1 DEF Objects
    <3>2. Spot(x)' = Resume(Body(x), heap[x].state)
      BY <1>2, <1>5 DEF Spot
    <3>3. PlaceOK(Body(x), Resume(Body(x), heap[x].state), S[x])
      BY <2>1
    <3> QED
      BY <1>2, <3>1, <3>2, <3>3 DEF ObjectOK
  <2> QED
    BY <1>1, <1>2, <2>1 DEF Objects
<1>7. \A x, j : ~Handed(x, j)
  BY DEF Handed
<1>8. LoopsOK(S, A, O)'
  <2>1. SUFFICES ASSUME NEW x \in DOMAIN heap, S[x].ended = 0, NEW j \in DOMAIN Body(x), S[x].at[j] > 0
                 PROVE  LoopOK(S, A, O, x, j)'
    BY <1>2 DEF LoopsOK
  <2>2. LoopOK(S, A, O, x, j)
    BY <1>1, <2>1 DEF LoopsOK
  <2>3. Iterator(x, j) \in DOMAIN heap /\ S[Iterator(x, j)].ended # Error
    BY <2>2 DEF LoopOK, Error
  <2>4. /\ SameGen(Iterator(x, j)) /\ Iterator(x, j) = Iterator(x, j)'
        /\ ~Handed(x, j) /\ ~Handed(x, j)'
    BY <1>2, <1>5, <1>7, <2>3 DEF SameGen
  <2> QED
    BY <2>2, <2>3, <2>4, LoopKept
<1>9. Mains(S, A, O)'
  <2>1. k \in DOMAIN mains
    BY OuterIs
  <2>2. IsSeq(got) /\ IsSeq(mains) /\ Len(got) = Len(mains)
    BY <1>1 DEF Mains
  <2>3. DOMAIN got = DOMAIN mains /\ k \in DOMAIN got
    BY <2>1, <2>2, SeqShape
  <2>4. got' = [m \in DOMAIN got |-> got'[m]] /\ \A m \in DOMAIN got : m # k => got'[m] = got[m]
    BY DEF Gets
  <2>5. IsSeq(got') /\ Len(got') = Len(got)
    BY <2>2, <2>4, SeqChanged
  <2>6. ASSUME NEW m \in DOMAIN mains PROVE MainOK(S, A, m)'
    <3>1. PICK x : x = mains[m]
      OBVIOUS
    <3>2. MainOK(S, A, m) /\ x \in DOMAIN heap
      BY <1>1, <3>1 DEF Mains, MainOK
    <3>3. RunOK(Body(x), S[x])
      BY <3>2, ObjectIs
    <3>4. Len(S[x].out) \in Nat
      BY <3>3, RunStateIs DEF RunOK
    <3>5. SameGen(x) /\ mains'[m] = x
      BY <1>2, <3>1, <3>2 DEF SameGen
    <3>6. CASE m = k
      <4>1. m \in DOMAIN got /\ Busy(m) /\ ~Busy(m)' /\ Gets(m, n) /\ g = Len(got[m])
        BY <1>5, <2>3, <3>6
      <4>2. /\ n = Answer(S[x], g + 1) /\ (S[x].ended = 0 => Len(S[x].out) = g + 1)
            /\ S[x].ended = Error => n = Error
        BY <3>1, <3>6
      <4> QED
        BY <3>1, <3>2, <3>4, <3>5, <4>1, <4>2, MainGets
    <3>7. CASE m # k
      <4>1. ~Busy(m) /\ ~Waits(m) /\ ~Waits(m)' /\ ~Busy(m)' /\ got'[m] = got[m]
        BY <1>5, <2>3, <2>4, <3>7 DEF Busy, Waits
      <4> QED
        BY <3>1, <3>2, <3>4, <3>5, <4>1, MainKept
    <3> QED
      BY <3>6, <3>7
  <2> QED
    BY <1>1, <1>2, <2>2, <2>5, <2>6 DEF Mains
<1> QED
  BY <1>3, <1>4, <1>6, <1>8, <1>9 DEF Tracks

LEMMA TakeResultKept ==
  ASSUME NEW S, NEW A, NEW O, NEW M, Tracks(S, A, O, M), TakeResult, ControlInv'
  PROVE  Tracks(S, A, O, M)'
<1>1. Control(S)
  BY DEF Tracks
<1>2. /\ calls = <<>> /\ result # <<>> /\ Gets(Last(frames).pc, result[1]) /\ frames' = Front(frames)
      /\ result' = <<>> /\ UNCHANGED <<fixed, heap, mains, calls, thrown>>
  BY DEF TakeResult
<1>3. Len(calls) = 0 /\ Len(frames) = 1 /\ thrown = 0 /\ frames # <<>>
  BY <1>1, <1>2, CountCalls
<1>4. PICK k, n : k = frames[1].pc /\ n = result[1]
  OBVIOUS
<1>5. Last(frames).pc = k
  BY <1>3, <1>4 DEF Last
<1>6. Busy(k) /\ Waits(k) /\ Gets(k, n)
  BY <1>2, <1>3, <1>4, <1>5 DEF Busy, Waits
<1>7. frames' = <<>>
  <2>1. IsSeq(frames) /\ IsSeq(frames')
    BY <1>1 DEF Control, ControlInv
  <2>2. Len(frames') = 0
    <3>1. Len(frames') = Len(frames) - 1
      BY <1>2, <1>3, <2>1, SeqFront
    <3> QED
      BY <1>3, <3>1
  <2> QED
    BY <2>1, <2>2, SeqShape
<1>8. Over'
  BY <1>2, <1>3, <1>7 DEF Over
<1>9. MainOK(S, A, k)
  BY <1>6, OuterIs
<1>10. PICK s, g : s = S[mains[k]] /\ g = Len(got[k])
  OBVIOUS
<1>11. s.ended = 0 /\ Len(s.out) = g + 1 /\ n = s.out[g + 1] /\ IsSeq(got[k])
  BY <1>4, <1>6, <1>9, <1>10 DEF MainOK
<1>12. n = Answer(s, g + 1)
  <2>1. g \in Nat
    BY <1>10, <1>11, SeqShape
  <2>2. g + 1 <= Len(s.out)
    BY <1>11, <2>1
  <2> QED
    BY <1>11, <2>2 DEF Answer
<1>13. ASSUME NEW x \in DOMAIN heap PROVE PlaceOK(Body(x), Resume(Body(x), heap[x].state), S[x])
  <2>1. Spot(x) = Resume(Body(x), heap[x].state)
    BY <1>3 DEF Spot
  <2> QED
    BY <2>1, ObjectIs
<1>14. s.ended # Error
  BY <1>11 DEF Error
<1>15. UNCHANGED <<fixed, heap, mains>>
  BY <1>2
<1> QED
  BY <1>2, <1>3, <1>6, <1>8, <1>10, <1>11, <1>12, <1>13, <1>14, <1>15, ModuleGets

-----------------------------------------------------------------------------
\* The running body gives the value n, and rests in state: o, in the state s of
\* Python, comes to t.
Gives(S, A, R, o, t, N, n, state) ==
  /\ R[o] = t /\ \A x \in DOMAIN heap : x # o => R[x] = S[x]
  /\ N \in Nat /\ Reached(program, heap[o].gen, A[o], t, N)
  /\ S[o].ended = 0 /\ t.ended = 0 /\ n \in Num /\ t.out = Append(S[o].out, n)
  /\ \A j \in DOMAIN Body(o) : t.at[j] > 0 =>
       /\ S[o].at[j] > 0 /\ S[o].at[j] \in Nat /\ t.arg[j] = S[o].arg[j]
       /\ t.at[j] = S[o].at[j] + (IF Handed(o, j) THEN 1 ELSE 0)
  /\ PlaceOK(Body(o), Resume(Body(o), state), t) /\ HeapHas(o, t.env, state)
  /\ UNCHANGED <<fixed, mains, got>> /\ thrown = 0 /\ thrown' = 0
  /\ Len(calls') = Len(calls) - 1 /\ \A j \in 1..Len(calls') : calls'[j] = calls[j]
  /\ Len(frames') = Len(calls) /\ \A j \in 1..Len(frames') : frames'[j] = frames[j]
  /\ result' # <<>> /\ result'[1] = n

LEMMA GivesKind ==
  ASSUME NEW S, NEW A, NEW O, NEW M, Tracks(S, A, O, M), calls # <<>>, NEW o, o = Me,
         NEW R, NEW t, NEW N, NEW n, NEW state, Gives(S, A, R, o, t, N, n, state), ControlInv'
  PROVE  /\ o \in DOMAIN heap /\ DOMAIN heap' = DOMAIN heap
         /\ \A x \in DOMAIN heap : SameKind(x) /\ SameGen(x) /\ Body(x)' = Body(x) /\ (x # o => SameObject(x))
         /\ \A x \in DOMAIN heap : \A j : Iterator(x, j)' = Iterator(x, j)
         /\ Top \in {1, 2} /\ Len(calls) = Top /\ Len(calls') = Top - 1 /\ DOMAIN calls' = 1..(Top - 1)
         /\ Len(frames') = Top /\ frames' # <<>> /\ frames'[1] = frames[1] /\ frames # <<>>
         /\ (calls' = <<>> <=> Top = 1)
         /\ Len(t.out) = Len(S[o].out) + 1 /\ t.out[Len(S[o].out) + 1] = n /\ Len(S[o].out) \in Nat
         /\ \A j \in 1..Len(S[o].out) : t.out[j] = S[o].out[j]
<1>1. Top \in {1, 2} /\ Len(calls) = Top /\ o \in DOMAIN heap
  BY TopIs
<1>2. /\ HeapHas(o, t.env, state) /\ program' = program /\ Len(calls') = Len(calls) - 1
      /\ Len(frames') = Len(calls) /\ \A j \in 1..Len(frames') : frames'[j] = frames[j]
      /\ t.out = Append(S[o].out, n) /\ n \in Num
  BY DEF Gives, fixed
<1>3. \A x \in DOMAIN heap : SameKind(x) /\ (x # o => SameObject(x))
  BY <1>2 DEF HeapHas, SameKind, SameObject
<1>4. IsSeq(calls') /\ IsSeq(frames')
  BY DEF ControlInv
<1>5. DOMAIN calls' = 1..Len(calls') /\ (calls' = <<>> <=> Len(calls') = 0)
      /\ (frames' = <<>> <=> Len(frames') = 0)
  BY <1>4, SeqShape
<1>6. frames # <<>>
  BY <1>1, CountCalls DEF Tracks
<1>7. RunOK(Body(o), S[o])
  BY <1>1, ObjectIs
<1>8. S[o].out \in Seq(Num)
  BY <1>7, RunStateIs DEF RunOK
<1>9. PICK u : u = S[o].out
  OBVIOUS
<1>10. Begins(u, t.out) /\ Len(t.out) = Len(u) + 1 /\ t.out[Len(u) + 1] = n /\ Len(u) \in Nat
  BY <1>2, <1>8, <1>9, BeginsAppend
<1>11. /\ Len(t.out) = Len(S[o].out) + 1 /\ t.out[Len(S[o].out) + 1] = n /\ Len(S[o].out) \in Nat
       /\ \A j \in 1..Len(S[o].out) : t.out[j] = S[o].out[j]
  BY <1>9, <1>10 DEF Begins
<1>12. Top = 1 \/ Top = 2
  BY <1>1
<1>13. Len(calls') = Top - 1 /\ Len(frames') = Top /\ frames'[1] = frames[1]
  BY <1>1, <1>2, <1>12
<1>14. (calls' = <<>> <=> Top = 1) /\ frames' # <<>>
  BY <1>5, <1>12, <1>13
<1>15. DOMAIN heap' = DOMAIN heap
  BY <1>2 DEF HeapHas
<1>16. \A x \in DOMAIN heap : SameGen(x) /\ Body(x)' = Body(x) /\ \A j : Iterator(x, j)' = Iterator(x, j)
  BY <1>3, SameKindIs
<1> QED
  BY <1>1, <1>3, <1>5, <1>6, <1>11, <1>13, <1>14, <1>15, <1>16

LEMMA GivesObjects ==
  ASSUME NEW S, NEW A, NEW O, NEW M, Tracks(S, A, O, M), calls # <<>>, NEW o, o = Me,
         NEW R, NEW t, NEW N, M <= N, NEW n, NEW state, Gives(S, A, R, o, t, N, n, state), ControlInv'
  PROVE  Objects(R, A, N)'
<1>1. /\ o \in DOMAIN heap /\ DOMAIN heap' = DOMAIN heap
      /\ \A x \in DOMAIN heap : Body(x)' = Body(x) /\ (x # o => SameObject(x))
      /\ Top \in {1, 2} /\ Len(calls) = Top /\ Len(calls') = Top - 1 /\ (calls' = <<>> <=> Top = 1)
  BY GivesKind
<1>2. Objects(S, A, M)
  BY DEF Tracks
<1>3. /\ R[o] = t /\ (\A x \in DOMAIN heap : x # o => R[x] = S[x]) /\ N \in Nat
      /\ Reached(program, heap[o].gen, A[o], t, N) /\ PlaceOK(Body(o), Resume(Body(o), state), t)
      /\ HeapHas(o, t.env, state) /\ \A j \in 1..Len(calls') : calls'[j] = calls[j]
      /\ program' = program
  BY DEF Gives, fixed
<1>4. Top = 2 => calls'[1] = calls[1] /\ calls[1].obj # o
  BY <1>1, <1>3, TopIs
<1>5. calls[Top].obj = o
  BY DEF Me
<1>6. ObjectOK(R, A, N, o)'
  <2>1. heap[o].gen \in Gens /\ A[o] \in Num
    BY <1>1, ObjectIs
  <2>2. heap'[o].gen = heap[o].gen /\ heap'[o].env = t.env /\ heap'[o].state = state
        /\ ObjectShape(heap'[o], Body(o))
    BY <1>3 DEF HeapHas
  <2>3. Spot(o)' = Resume(Body(o), state)
    <3>1. CASE Top = 1
      BY <1>1, <2>2, <3>1 DEF Spot
    <3>2. CASE Top = 2
      BY <1>1, <1>4, <2>2, <3>2 DEF Spot
    <3> QED
      BY <1>1, <3>1, <3>2
  <2> QED
    BY <1>1, <1>3, <2>1, <2>2, <2>3 DEF ObjectOK
<1>7. ASSUME NEW x \in DOMAIN heap, x # o PROVE ObjectOK(R, A, N, x)'
  <2>1. ObjectOK(S, A, M, x) /\ SameObject(x) /\ R[x] = S[x] /\ M \in Nat
    BY <1>1, <1>2, <1>3, <1>7 DEF Objects
  <2>2. Spot(x)' = Spot(x)
    <3>1. heap'[x] = heap[x] /\ Body(x)' = Body(x)
      BY <1>1, <2>1 DEF SameObject
    <3>2. CASE Top = 1
      BY <1>1, <1>5, <1>7, <3>1, <3>2 DEF Spot
    <3>3. CASE Top = 2
      BY <1>1, <1>4, <1>5, <1>7, <3>1, <3>3 DEF Spot
    <3> QED
      BY <1>1, <3>2, <3>3
  <2> QED
    BY <1>3, <2>1, <2>2, ObjectKept
<1> QED
  BY <1>1, <1>3, <1>6, <1>7 DEF Objects, HeapHas

LEMMA GivesControl ==
  ASSUME NEW S, NEW A, NEW O, NEW M, Tracks(S, A, O, M), calls # <<>>, NEW o, o = Me,
         NEW R, NEW t, NEW N, NEW n, NEW state, Gives(S, A, R, o, t, N, n, state), ControlInv'
  PROVE  Control(R)'
<1>1. /\ Top \in {1, 2} /\ Len(calls) = Top /\ Len(calls') = Top - 1 /\ DOMAIN calls' = 1..(Top - 1)
      /\ Len(frames') = Top /\ frames'[1] = frames[1] /\ (calls' = <<>> <=> Top = 1)
  BY GivesKind
<1>2. /\ (\A x \in DOMAIN heap : x # o => R[x] = S[x]) /\ mains' = mains /\ thrown' = 0
      /\ (\A j \in 1..Len(calls') : calls'[j] = calls[j]) /\ (\A j \in 1..Len(frames') : frames'[j] = frames[j])
  BY DEF Gives
<1>3. frames[1].pc \in DOMAIN mains /\ calls[1].obj = mains[frames[1].pc] /\ ActShape(calls[1])
      /\ mains[frames[1].pc] \in DOMAIN heap /\ S[calls[1].obj].ended # Error
  <2>1. Control(S) /\ Busy(frames[1].pc)
    BY GivesKind DEF Tracks, Busy
  <2>2. Len(calls) >= 1 /\ 1 \in DOMAIN calls
    BY <1>1, <2>1, CountCalls
  <2>3. frames[1].pc \in DOMAIN mains /\ calls[1].obj = mains[frames[1].pc]
        /\ mains[frames[1].pc] \in DOMAIN heap
    BY <2>1, OuterIs
  <2>4. S[calls[1].obj].ended # Error
    <3>1. CASE Top = 1
      BY <3>1 DEF Me, Gives, Error
    <3>2. CASE Top = 2
      BY <3>2, TopIs DEF Error
    <3> QED
      BY <1>1, <3>1, <3>2
  <2> QED
    BY <2>1, <2>2, <2>3, <2>4 DEF Control
<1>4. 0 # Stop
  BY DEF Stop
<1>5. CASE Top = 1
  BY <1>1, <1>2, <1>3, <1>4, <1>5 DEF Control
<1>6. CASE Top = 2
  <2>1. frames[2].pc = calls[1].pc /\ calls[1].head /\ S[calls[1].obj].ended = 0 /\ o # calls[1].obj
    BY <1>6, TopIs
  <2>2. calls'[1] = calls[1] /\ frames'[2] = frames[2] /\ R[calls[1].obj] = S[calls[1].obj]
    BY <1>1, <1>2, <1>3, <1>6, <2>1
  <2>3. Me' = calls[1].obj
    BY <1>1, <1>6, <2>2 DEF Me, Top
  <2> QED
    BY <1>1, <1>2, <1>3, <1>4, <1>6, <2>1, <2>2, <2>3 DEF Control
<1> QED
  BY <1>1, <1>5, <1>6

LEMMA GivesLoops ==
  ASSUME NEW S, NEW A, NEW O, NEW M, Tracks(S, A, O, M), calls # <<>>, NEW o, o = Me,
         NEW R, NEW t, NEW N, NEW n, NEW state, Gives(S, A, R, o, t, N, n, state), ControlInv'
  PROVE  LoopsOK(R, A, O)'
<1>1. /\ o \in DOMAIN heap /\ DOMAIN heap' = DOMAIN heap
      /\ \A x \in DOMAIN heap : SameGen(x) /\ Body(x)' = Body(x) /\ \A j : Iterator(x, j)' = Iterator(x, j)
      /\ Top \in {1, 2} /\ Len(calls) = Top /\ Len(calls') = Top - 1 /\ (calls' = <<>> <=> Top = 1)
  BY GivesKind
<1>2. /\ Len(t.out) = Len(S[o].out) + 1 /\ t.out[Len(S[o].out) + 1] = n /\ Len(S[o].out) \in Nat
  BY GivesKind
<1>3. /\ R[o] = t /\ (\A x \in DOMAIN heap : x # o => R[x] = S[x])
      /\ S[o].ended = 0 /\ t.ended = 0 /\ thrown = 0 /\ result' # <<>> /\ result'[1] = n
      /\ \A j \in DOMAIN Body(o) : t.at[j] > 0 =>
           /\ S[o].at[j] > 0 /\ S[o].at[j] \in Nat /\ t.arg[j] = S[o].arg[j]
           /\ t.at[j] = S[o].at[j] + (IF Handed(o, j) THEN 1 ELSE 0)
      /\ \A j \in 1..Len(calls') : calls'[j] = calls[j]
  BY DEF Gives
<1>4. calls[Top].obj = o
  BY DEF Me
<1>5. SUFFICES ASSUME NEW x \in DOMAIN heap, R[x].ended = 0, NEW j \in DOMAIN Body(x), R[x].at[j] > 0
               PROVE  LoopOK(R, A, O, x, j)'
  BY <1>1 DEF LoopsOK
<1>6. S[x].ended = 0 /\ S[x].at[j] > 0 /\ R[x].arg[j] = S[x].arg[j]
  <2>1. CASE x = o
    BY <1>3, <1>5, <2>1
  <2>2. CASE x # o
    BY <1>3, <1>5, <2>2
  <2> QED
    BY <2>1, <2>2
<1>7. LoopOK(S, A, O, x, j)
  BY <1>6 DEF Tracks, LoopsOK
<1>8. PICK q : q = Iterator(x, j)
  OBVIOUS
<1>9. /\ q \in DOMAIN heap /\ heap[q].gen = "inner" /\ O[q] = <<x, j>> /\ A[q] = S[x].arg[j]
      /\ Len(S[q].out) = S[x].at[j] - 1 + (IF Handed(x, j) THEN 1 ELSE 0)
      /\ S[q].ended # Error
  BY <1>3, <1>7, <1>8 DEF LoopOK, Error
<1>10. R[q].ended # Error
  BY <1>3, <1>9 DEF Error
<1>11. SameGen(q) /\ q = Iterator(x, j)'
  BY <1>1, <1>8, <1>9
<1>12. q \in DOMAIN heap' /\ heap'[q].gen = "inner"
  BY <1>9, <1>11 DEF SameGen
<1>13. CASE Top = 1
  <2>1. heap[o].gen = "outer" /\ q # o
    <3>1. heap[o].gen = "outer"
      BY <1>13, TopIs
    <3> QED
      BY <1>9, <3>1
  <2>2. ~Handed(x, j)'
    BY <1>1, <1>13 DEF Handed
  <2>3. R[q] = S[q]
    BY <1>3, <1>9, <2>1
  <2>4. CASE x = o
    <3>1. R[x].at[j] = S[x].at[j] + (IF Handed(x, j) THEN 1 ELSE 0) /\ S[x].at[j] \in Nat
      BY <1>3, <1>5, <2>4
    <3>2. Len(R[q].out) = R[x].at[j] - 1 + 0
      <4>1. CASE Handed(x, j)
        BY <1>9, <2>3, <3>1, <4>1
      <4>2. CASE ~Handed(x, j)
        BY <1>9, <2>3, <3>1, <4>2
      <4> QED
        BY <4>1, <4>2
    <3> QED
      BY <1>6, <1>9, <1>10, <1>11, <1>12, <2>2, <3>2 DEF LoopOK
  <2>5. CASE x # o
    <3>1. ~Handed(x, j)
      BY <1>4, <1>13, <2>5 DEF Handed
    <3>2. R[x].at[j] = S[x].at[j]
      BY <1>3, <2>5
    <3> QED
      BY <1>6, <1>7, <1>8, <1>10, <1>11, <2>2, <2>3, <3>1, <3>2, LoopKept
  <2> QED
    BY <2>4, <2>5
<1>14. CASE Top = 2
  <2>1. PICK y, k : y = calls[1].obj /\ k = calls[1].pc
    OBVIOUS
  <2>2. result = <<>> /\ o = Iterator(y, k) /\ calls[1].head /\ S[y].ended = 0 /\ y # o
    BY <1>14, <2>1, TopIs
  <2>3. LoopOK(S, A, O, y, k) /\ S[y].at[k] \in Nat
    BY <2>1, <2>2, PullIs
  <2>4. O[o] = <<y, k>>
    BY <2>2, <2>3 DEF LoopOK
  <2>5. ~Handed(x, j)
    BY <2>2 DEF Handed
  <2>6. R[x].at[j] = S[x].at[j]
    <3>1. CASE x = o
      <4>1. R[x].at[j] = S[x].at[j] + 0 /\ S[x].at[j] \in Nat
        BY <1>3, <1>5, <2>5, <3>1
      <4> QED
        BY <4>1
    <3>2. CASE x # o
      BY <1>3, <3>2
    <3> QED
      BY <3>1, <3>2
  <2>7. calls' # <<>> /\ calls'[1] = calls[1]
    BY <1>1, <1>3, <1>14
  <2>8. CASE q = o
    <3>1. x = y /\ j = k
      BY <1>9, <2>4, <2>8
    <3>2. Handed(x, j)'
      BY <1>3, <2>1, <2>7, <3>1 DEF Handed
    <3>3. Len(S[o].out) = S[x].at[j] - 1 + 0 /\ S[x].at[j] \in Nat
      BY <1>9, <2>3, <2>5, <2>8, <3>1
    <3>4. Len(R[q].out) = R[x].at[j] - 1 + 1 /\ R[q].out[R[x].at[j]] = n
      <4>1. Len(S[o].out) + 1 = S[x].at[j]
        BY <1>2, <3>3
      <4> QED
        BY <1>2, <1>3, <2>6, <2>8, <3>3, <4>1
    <3> QED
      BY <1>3, <1>6, <1>9, <1>10, <1>11, <1>12, <3>2, <3>4 DEF LoopOK
  <2>9. CASE q # o
    <3>1. ~Handed(x, j)'
      BY <1>8, <2>1, <2>2, <2>7, <2>9 DEF Handed
    <3>2. R[q] = S[q]
      BY <1>3, <1>9, <2>9
    <3> QED
      BY <1>6, <1>7, <1>8, <1>10, <1>11, <2>5, <2>6, <3>1, <3>2, LoopKept
  <2> QED
    BY <2>8, <2>9
<1> QED
  BY <1>1, <1>13, <1>14

LEMMA GivesMains ==
  ASSUME NEW S, NEW A, NEW O, NEW M, Tracks(S, A, O, M), calls # <<>>, NEW o, o = Me,
         NEW R, NEW t, NEW N, NEW n, NEW state, Gives(S, A, R, o, t, N, n, state), ControlInv'
  PROVE  Mains(R, A, O)'
<1>1. /\ o \in DOMAIN heap /\ \A x \in DOMAIN heap : SameGen(x)
      /\ Top \in {1, 2} /\ Len(calls) = Top /\ (calls' = <<>> <=> Top = 1)
      /\ frames' # <<>> /\ frames'[1] = frames[1] /\ frames # <<>>
  BY GivesKind
<1>2. /\ Len(t.out) = Len(S[o].out) + 1 /\ t.out[Len(S[o].out) + 1] = n /\ Len(S[o].out) \in Nat
      /\ \A j \in 1..Len(S[o].out) : t.out[j] = S[o].out[j]
  BY GivesKind
<1>3. /\ R[o] = t /\ (\A x \in DOMAIN heap : x # o => R[x] = S[x])
      /\ S[o].ended = 0 /\ t.ended = 0 /\ thrown = 0 /\ result'[1] = n
      /\ mains' = mains /\ got' = got
  BY DEF Gives
<1>4. Mains(S, A, O)
  BY DEF Tracks
<1>5. ASSUME NEW k \in DOMAIN mains PROVE MainOK(R, A, k)'
  <2>1. PICK x : x = mains[k]
    OBVIOUS
  <2>2. MainOK(S, A, k) /\ x \in DOMAIN heap /\ heap[x].gen = "outer" /\ O[x] = <<0, k>>
    BY <1>4, <2>1 DEF Mains, MainOK
  <2>3. SameGen(x) /\ RunOK(Body(x), S[x]) /\ mains'[k] = x /\ got'[k] = got[k]
    BY <1>1, <1>3, <2>1, <2>2, ObjectIs
  <2>4. Len(S[x].out) \in Nat
    BY <2>3, RunStateIs DEF RunOK
  <2>5. ~Waits(k) /\ (Busy(k)' <=> Busy(k))
    BY <1>1 DEF Waits, Busy
  <2>6. CASE x # o
    <3>1. ~Waits(k)'
      <4>1. CASE Top = 1
        <5>1. o = mains[frames[1].pc]
          BY <4>1, TopIs
        <5>2. ~Busy(k)
          BY <2>1, <2>6, <5>1 DEF Busy
        <5> QED
          BY <2>5, <5>2 DEF Waits
      <4>2. CASE Top = 2
        BY <1>1, <4>2 DEF Waits
      <4> QED
        BY <1>1, <4>1, <4>2
    <3>2. R[x] = S[x] /\ thrown # Error
      BY <1>3, <2>2, <2>6 DEF Error
    <3> QED
      BY <2>1, <2>2, <2>3, <2>4, <2>5, <3>1, <3>2, MainKept
  <2>7. CASE x = o
    <3>1. Top = 1
      BY <1>1, <2>2, <2>7, TopIs
    <3>2. Busy(frames[1].pc) /\ o = mains[frames[1].pc] /\ frames[1].pc \in DOMAIN mains
      BY <3>1, TopIs, OuterIs
    <3>3. O[o] = <<0, frames[1].pc>>
      BY <1>4, <3>2 DEF Mains
    <3>4. frames[1].pc = k
      BY <2>2, <2>7, <3>3
    <3>5. Busy(k) /\ Busy(k)' /\ Waits(k)'
      BY <1>1, <2>5, <3>1, <3>2, <3>4 DEF Waits
    <3>6. PICK g : g = Len(got[k])
      OBVIOUS
    <3>7. /\ A[o] = k - 1 /\ IsSeq(got[k]) /\ g < MaxNext /\ g <= MaxNext /\ Len(S[o].out) = g
          /\ \A m \in DOMAIN got[k] : got[k][m] = Answer(S[o], m)
      BY <1>3, <2>1, <2>2, <2>5, <2>7, <3>5, <3>6 DEF MainOK
    <3>8. g \in Nat /\ DOMAIN got[k] = 1..g
      BY <3>6, <3>7, SeqShape
    <3>9. Len(t.out) = g + 1 /\ t.out[g + 1] = n
      BY <1>2, <3>7
    <3>10. ASSUME NEW m \in DOMAIN got[k] PROVE got[k][m] = Answer(t, m)
      <4>1. m \in 1..g /\ m <= Len(S[o].out) /\ m <= Len(t.out)
        BY <3>7, <3>8, <3>9, <3>10
      <4>2. t.out[m] = S[o].out[m]
        BY <1>2, <3>7, <4>1
      <4> QED
        BY <3>7, <4>1, <4>2 DEF Answer
    <3>11. heap'[o].gen = "outer" /\ o \in DOMAIN heap'
      BY <2>2, <2>3, <2>7 DEF SameGen
    <3>12. R[o] = t /\ t.ended = 0 /\ 0 # Error /\ result'[1] = t.out[g + 1]
      BY <1>3, <3>9 DEF Error
    <3> QED
      BY <2>3, <2>7, <3>5, <3>6, <3>7, <3>9, <3>10, <3>11, <3>12 DEF MainOK
  <2> QED
    BY <2>6, <2>7
<1> QED
  BY <1>3, <1>4, <1>5 DEF Mains

LEMMA GivesKept ==
  ASSUME NEW S, NEW A, NEW O, NEW M, Tracks(S, A, O, M), calls # <<>>, NEW o, o = Me, NEW R, NEW t,
         NEW N, M <= N, NEW n, NEW state, Gives(S, A, R, o, t, N, n, state), ControlInv'
  PROVE  Tracks(R, A, O, N)'
<1>1. Promise'
  BY DEF Tracks, Promise, Gives, fixed
<1>2. Objects(R, A, N)'
  BY GivesObjects
<1>3. Control(R)'
  BY GivesControl
<1>4. LoopsOK(R, A, O)'
  BY GivesLoops
<1>5. Mains(R, A, O)'
  BY GivesMains
<1> QED
  BY <1>1, <1>2, <1>3, <1>4, <1>5 DEF Tracks

LEMMA FrontIs ==
  ASSUME NEW S, Control(S), calls # <<>>, calls' = Front(calls)
  PROVE  Len(calls') = Len(calls) - 1 /\ \A j \in 1..Len(calls') : calls'[j] = calls[j]
<1>1. IsSeq(calls)
  BY DEF Control, ControlInv
<1> QED
  BY <1>1, SeqFront

\* Where a body rests after a yield.
LEMMA RestsAt ==
  ASSUME NEW b, IsBody(b), NEW s, RunOK(b, s), s.ended = 0, s.pc \in DOMAIN b, b[s.pc].op = "yield",
         NEW t, t.pc = s.pc + 1, t.at = s.at, t.ended = 0
  PROVE  PlaceOK(b, Resume(b, ResumeState(b, s.pc)), t)
<1>1. Resume(b, ResumeState(b, s.pc)) = [pc |-> s.pc + 1, head |-> FALSE]
  BY ResumeIs
<1>2. PICK c : c = [pc |-> s.pc + 1, head |-> FALSE]
  OBVIOUS
<1>3. c.pc = s.pc + 1 /\ ~c.head
  BY <1>2
<1>4. s \in RunState(b) /\ s.pc \in Int /\ s.at \in [DOMAIN b -> Nat]
  <2>1. Len(b) \in Nat /\ DOMAIN b = 1..Len(b)
    BY BodyIs
  <2> QED
    BY <2>1, RunStateIs DEF RunOK
<1>5. ASSUME t.pc \in DOMAIN b PROVE ~(t.at[t.pc] > 0)
  <2>1. ~Open(b, t.pc, s.pc) /\ t.pc # s.pc
    BY <1>4 DEF Open
  <2>2. ~(s.at[t.pc] > 0)
    BY <1>5, <2>1 DEF RunOK
  <2> QED
    BY <2>2
<1>6. 0 # Stop
  BY DEF Stop
<1> QED
  BY <1>1, <1>2, <1>3, <1>5, <1>6 DEF PlaceOK

LEMMA YieldKept ==
  ASSUME NEW S, NEW A, NEW O, NEW M, Tracks(S, A, O, M), Yield, ControlInv'
  PROVE  \E R, N : Tracks(R, A, O, N)'
<1>1. PICK o, b, s : o = Me /\ b = Body(o) /\ s = S[o]
  OBVIOUS
<1>2. PICK n, state : n = heap[o].env[b[calls[Top].pc].var] /\ state = ResumeState(b, calls[Top].pc)
  OBVIOUS
<1>3. /\ Running /\ calls[Top].pc \in DOMAIN b /\ b[calls[Top].pc].op = "yield"
      /\ heap' = [heap EXCEPT ![o].state = state] /\ calls' = Front(calls) /\ result' = <<n>>
      /\ UNCHANGED <<fixed, mains, got, frames, thrown>>
  BY <1>1, <1>2 DEF Yield, At, Here, Return
<1>4. /\ s.ended = 0 /\ s.pc = calls[Top].pc /\ s.pc \in DOMAIN b /\ b[s.pc].op = "yield"
      /\ o \in DOMAIN heap /\ IsBody(b) /\ RunOK(b, s) /\ heap[o].env = s.env
      /\ s \in RunState(b) /\ calls # <<>> /\ result = <<>> /\ thrown = 0 /\ M \in Nat
  BY <1>1, <1>3, RunningIs, AtIs, ObjectIs DEF RunOK
<1>5. n \in Num
  <2>1. s.env \in Env /\ b[s.pc].var \in {"p", "v"}
    BY <1>4, RunStateIs, BodyIs
  <2> QED
    BY <1>2, <1>4, <2>1, EnvGet
<1>20. PICK u : u = Append(s.out, n)
  OBVIOUS
<1>6. PICK t : t = State(s.pc + 1, s.env, u, s.ended, s.at, s.arg)
  OBVIOUS
<1>7. \A inner \in Inners : Statement(b, inner, s) = t
  <2>1. n = s.env[b[s.pc].var]
    BY <1>2, <1>4
  <2>2. ASSUME NEW inner \in Inners
        PROVE  Statement(b, inner, s) =
                 State(s.pc + 1, s.env, Append(s.out, s.env[b[s.pc].var]), s.ended, s.at, s.arg)
    BY <1>4, YieldIs
  <2> QED
    BY <1>6, <1>20, <2>1, <2>2
<1>8. t.pc = s.pc + 1 /\ t.env = s.env /\ t.out = u /\ t.ended = 0
      /\ t.at = s.at /\ t.arg = s.arg
  BY <1>4, <1>6, StateFields
<1>9. PICK N : N = M + 1
  OBVIOUS
<1>10. Reached(program, heap[o].gen, A[o], t, N) /\ N \in Nat /\ M <= N
  BY <1>1, <1>4, <1>7, <1>9, InnerRunsOK, OnReached
<1>11. PICK R : R = Changed(DOMAIN heap, S, o, t)
  OBVIOUS
<1>12. R[o] = t /\ \A x \in DOMAIN heap : x # o => R[x] = S[x]
  BY <1>11, OneDiffers
<1>13. HeapHas(o, t.env, state)
  BY <1>3, <1>4, <1>8, SetStateIs
<1>14. PlaceOK(b, Resume(b, state), t)
  BY <1>2, <1>4, <1>8, RestsAt
<1>15. Control(S)
  BY DEF Tracks
<1>16. /\ Len(calls') = Len(calls) - 1 /\ (\A j \in 1..Len(calls') : calls'[j] = calls[j])
       /\ Len(frames') = Len(calls) /\ \A j \in 1..Len(frames') : frames'[j] = frames[j]
  <2>1. Len(frames) = Len(calls)
    BY <1>4, <1>15, CountCalls
  <2>2. frames' = frames
    BY <1>3
  <2> QED
    BY <1>3, <1>4, <1>15, <2>1, <2>2, FrontIs
<1>17. \A j \in DOMAIN b : t.at[j] > 0 =>
         /\ s.at[j] > 0 /\ s.at[j] \in Nat /\ t.arg[j] = s.arg[j]
         /\ t.at[j] = s.at[j] + (IF Handed(o, j) THEN 1 ELSE 0)
  <2>1. s.at \in [DOMAIN b -> Nat]
    BY <1>4, RunStateIs
  <2>2. \A j : ~Handed(o, j)
    BY <1>4 DEF Handed
  <2>3. ASSUME NEW j \in DOMAIN b PROVE s.at[j] \in Nat /\ s.at[j] = s.at[j] + 0
    BY <2>1
  <2> QED
    BY <1>8, <2>2, <2>3
<1>18. result' # <<>> /\ result'[1] = n /\ thrown' = 0 /\ UNCHANGED <<fixed, mains, got>>
  BY <1>3, <1>4
<1>19. Gives(S, A, R, o, t, N, n, state)
  BY <1>1, <1>4, <1>5, <1>8, <1>10, <1>12, <1>13, <1>14, <1>16, <1>17, <1>18,
     <1>20 DEF Gives
<1> QED
  BY <1>1, <1>4, <1>10, <1>19, GivesKept

-----------------------------------------------------------------------------
\* A loop that is handed a value: Python's loop is at this value of the inner
\* generator, however far that is run.
LEMMA HandedIs ==
  ASSUME NEW S, NEW A, NEW O, NEW M, Tracks(S, A, O, M), calls # <<>>, result # <<>>
  PROVE  /\ Top = 1 /\ Len(frames) = 2 /\ Me = calls[1].obj /\ calls[1].head /\ thrown = 0
         /\ S[Me].ended = 0
<1>1. Control(S)
  BY DEF Tracks
<1>2. Top \in {1, 2} /\ Top = Len(calls) /\ (Top = 2 => result = <<>>)
  BY TopIs
<1>3. Top = 1
  BY <1>2
<1>4. Len(frames) = 2 /\ thrown = 0
  BY <1>1, <1>2, <1>3, CountCalls
<1>5. Me = calls[1].obj
  BY <1>3 DEF Me
<1> QED
  BY <1>1, <1>3, <1>4, <1>5 DEF Control

\* The loop at place j of o has the value n, which the inner generator of
\* Python's run has at this place in every run of M steps or more.
ValueGiven(S, o, j, n, M) ==
  /\ o \in DOMAIN heap /\ S[o].pc = j /\ j \in DOMAIN Body(o) /\ Body(o)[j].op \in Loops
  /\ S[o].at[j] > 0 /\ S[o].at[j] \in Nat /\ Handed(o, j) /\ n \in Num /\ M \in Nat
  /\ heap[o].gen = "outer"
  /\ \A m \in Nat : m >= M =>
       /\ S[o].at[j] \in DOMAIN InnerRuns(program, heap[o].gen, m)[S[o].arg[j]].out
       /\ InnerRuns(program, heap[o].gen, m)[S[o].arg[j]].out[S[o].at[j]] = n

LEMMA ValueIs ==
  ASSUME NEW S, NEW A, NEW O, NEW M, Tracks(S, A, O, M), calls # <<>>, result # <<>>,
         NEW o, o = Me, NEW j, j = calls[1].pc, NEW n, n = result[1]
  PROVE  ValueGiven(S, o, j, n, M)
<1>1. o = calls[1].obj /\ calls[1].head /\ S[o].ended = 0
  BY HandedIs
<1>2. PICK q, a, g : q = Iterator(o, j) /\ a = S[o].at[j] /\ g = S[o].arg[j]
  OBVIOUS
<1>3. /\ o \in DOMAIN heap /\ heap[o].gen = "outer" /\ S[o].pc = j /\ j \in DOMAIN Body(o)
      /\ a > 0 /\ a \in Nat /\ Body(o)[j].op \in Loops /\ LoopOK(S, A, O, o, j)
  BY <1>1, <1>2, PullIs
<1>4. Handed(o, j)
  BY <1>1 DEF Handed
<1>5. /\ q \in DOMAIN heap /\ heap[q].gen = "inner" /\ A[q] = g
      /\ Len(S[q].out) = a - 1 + 1 /\ n = S[q].out[a]
  BY <1>2, <1>3, <1>4 DEF LoopOK
<1>6. RunOK(Body(q), S[q]) /\ g \in Num /\ Reached(program, "inner", g, S[q], M) /\ M \in Nat
  BY <1>5, ObjectIs
<1>7. S[q].out \in Seq(Num)
  BY <1>6, RunStateIs DEF RunOK
<1>8. a \in 1..Len(S[q].out)
  BY <1>3, <1>5
<1>9. n \in Num
  BY <1>5, <1>7, <1>8
<1>10. ProgramOK(program) /\ Wrap \in Nat \ {0}
  BY ProgramIs DEF Tracks, Promise
<1>11. ASSUME NEW m \in Nat, m >= M
       PROVE  /\ a \in DOMAIN InnerRuns(program, "outer", m)[g].out
              /\ InnerRuns(program, "outer", m)[g].out[a] = n
  <2>1. PICK y : y = InnerRuns(program, "outer", m)[g]
    OBVIOUS
  <2>2. Begins(S[q].out, y.out)
    BY <1>6, <1>10, <1>11, <2>1, InnerAnswers
  <2>3. InnerRuns(program, "outer", m) \in Inners
    <3>1. "outer" \in Gens
      BY DEF Gens
    <3> QED
      BY <1>10, <3>1, InnersOK
  <2>4. y.out \in Seq(Num)
    BY <1>6, <2>1, <2>3 DEF Inners
  <2>5. DOMAIN y.out = 1..Len(y.out) /\ Len(y.out) \in Nat
    BY <2>4
  <2>6. a \in 1..Len(y.out) /\ y.out[a] = S[q].out[a]
    BY <1>3, <1>5, <1>8, <2>2, <2>5 DEF Begins
  <2> QED
    BY <1>5, <2>1, <2>5, <2>6
<1> QED
  BY <1>2, <1>3, <1>4, <1>6, <1>9, <1>11, Zenon DEF ValueGiven

\* A yield from passes the value on.
LEMMA PassOnKept ==
  ASSUME NEW S, NEW A, NEW O, NEW M, Tracks(S, A, O, M), calls # <<>>, result # <<>>,
         Here.op = "from", Return(result[1], ResumeState(Body(Me), calls[Top].pc)),
         frames' = Front(frames), UNCHANGED <<fixed, mains, got, thrown>>, ControlInv'
  PROVE  \E R, N : Tracks(R, A, O, N)'
<1>1. PICK o, b, s, j : o = Me /\ b = Body(o) /\ s = S[o] /\ j = calls[1].pc
  OBVIOUS
<1>2. PICK n, state : n = result[1] /\ state = ResumeState(b, j)
  OBVIOUS
<1>3. Top = 1 /\ Len(frames) = 2 /\ o = calls[1].obj /\ calls[1].head /\ s.ended = 0 /\ thrown = 0
  BY <1>1, HandedIs
<1>4. /\ heap' = [heap EXCEPT ![o].state = state] /\ calls' = Front(calls) /\ result' = <<n>>
      /\ b[j].op = "from"
  BY <1>1, <1>2, <1>3 DEF Return, Here
<1>5. PICK a : a = s.at[j]
  OBVIOUS
<1>6. /\ o \in DOMAIN heap /\ s.pc = j /\ j \in DOMAIN b /\ b[j].op \in Loops
      /\ a > 0 /\ a \in Nat /\ Handed(o, j) /\ n \in Num /\ M \in Nat
      /\ \A m \in Nat : m >= M =>
           /\ a \in DOMAIN InnerRuns(program, heap[o].gen, m)[s.arg[j]].out
           /\ InnerRuns(program, heap[o].gen, m)[s.arg[j]].out[a] = n
  <2>1. ValueGiven(S, o, j, n, M)
    <3>1. o = Me /\ j = calls[1].pc /\ n = result[1]
      BY <1>1, <1>2
    <3> QED
      BY <3>1, ValueIs
  <2> QED
    BY <1>1, <1>5, <2>1, Zenon DEF ValueGiven
<1>7. IsBody(b) /\ RunOK(b, s) /\ heap[o].env = s.env /\ s \in RunState(b)
  <2>1. o \in DOMAIN heap
    BY <1>6
  <2>2. IsBody(Body(o)) /\ RunOK(Body(o), S[o]) /\ heap[o].env = S[o].env
    BY <2>1, ObjectIs
  <2>3. IsBody(b) /\ RunOK(b, s) /\ heap[o].env = s.env
    BY <1>1, <2>2, Zenon
  <2> QED
    BY <2>3 DEF RunOK
<1>8. PICK u : u = Append(s.out, n)
  OBVIOUS
<1>9. PICK w : w = [s.at EXCEPT ![j] = a + 1]
  OBVIOUS
<1>10. PICK t : t = State(j, s.env, u, s.ended, w, s.arg)
  OBVIOUS
<1>11. ASSUME NEW m \in Nat, m >= M
       PROVE  Statement(b, InnerRuns(program, heap[o].gen, m), s) = t
  <2>1. PICK inner : inner = InnerRuns(program, heap[o].gen, m)
    OBVIOUS
  <2>2. inner \in Inners
    BY <1>6, <2>1, InnerRunsOK
  <2>3. a \in DOMAIN inner[s.arg[j]].out /\ inner[s.arg[j]].out[a] = n
    BY <1>6, <1>11, <2>1
  <2>4. a # 0
    BY <1>6
  <2>5. Statement(b, inner, s) = State(s.pc, s.env, Append(s.out, inner[s.arg[s.pc]].out[s.at[s.pc]]), s.ended,
                      [s.at EXCEPT ![s.pc] = s.at[s.pc] + 1], s.arg)
    BY <1>4, <1>5, <1>6, <1>7, <2>2, <2>3, <2>4, LoopStatementIs, Zenon
  <2>6. s.pc = j /\ s.at[s.pc] = a /\ inner[s.arg[s.pc]].out[s.at[s.pc]] = n
    BY <1>5, <1>6, <2>3
  <2> QED
    BY <1>8, <1>9, <1>10, <2>1, <2>5, <2>6
<1>12. t.pc = j /\ t.env = s.env /\ t.out = u /\ t.ended = 0 /\ t.at = w /\ t.arg = s.arg
  BY <1>3, <1>10, StateFields
<1>13. PICK N : N = M + 1
  OBVIOUS
<1>14. Reached(program, heap[o].gen, A[o], t, N) /\ N \in Nat /\ M <= N
  <2>1. S[o].ended = 0 /\ \A m \in Nat : m >= M =>
          Statement(Body(o), InnerRuns(program, heap[o].gen, m), S[o]) = t
    BY <1>1, <1>3, <1>11
  <2> QED
    BY <1>6, <1>13, <2>1, OnReached
<1>15. PICK R : R = Changed(DOMAIN heap, S, o, t)
  OBVIOUS
<1>16. R[o] = t /\ \A x \in DOMAIN heap : x # o => R[x] = S[x]
  BY <1>15, OneDiffers
<1>17. HeapHas(o, t.env, state)
  BY <1>4, <1>6, <1>7, <1>12, SetStateIs
<1>18. s.at \in [DOMAIN b -> Nat]
  BY <1>7, RunStateIs
<1>19. t.at[j] = a + 1 /\ \A k \in DOMAIN b : k # j => t.at[k] = s.at[k]
  BY <1>6, <1>9, <1>12, <1>18
<1>20. PlaceOK(b, Resume(b, state), t)
  <2>1. Resume(b, state) = [pc |-> j, head |-> TRUE]
    BY <1>2, <1>4, <1>6, <1>7, ResumeIs
  <2>2. PICK c : c = [pc |-> j, head |-> TRUE]
    OBVIOUS
  <2>3. c.pc = j /\ c.head
    BY <2>2
  <2>4. t.at[j] > 0 /\ 0 # Stop
    BY <1>6, <1>19 DEF Stop
  <2> QED
    BY <1>6, <1>12, <2>1, <2>2, <2>3, <2>4 DEF PlaceOK
<1>21. /\ Len(calls') = Len(calls) - 1 /\ (\A k \in 1..Len(calls') : calls'[k] = calls[k])
       /\ Len(frames') = Len(calls) /\ \A k \in 1..Len(frames') : frames'[k] = frames[k]
  <2>1. Control(S) /\ Len(calls) = 1
    BY <1>3 DEF Tracks, Top
  <2>2. IsSeq(frames) /\ frames # <<>>
    BY <1>3, <2>1, CountCalls DEF Control, ControlInv
  <2>3. Len(frames') = Len(frames) - 1 /\ \A k \in 1..(Len(frames) - 1) : frames'[k] = frames[k]
    BY <2>2, SeqFront
  <2> QED
    BY <1>3, <1>4, <2>1, <2>3, FrontIs
<1>22. \A k \in DOMAIN b : t.at[k] > 0 =>
         /\ s.at[k] > 0 /\ s.at[k] \in Nat /\ t.arg[k] = s.arg[k]
         /\ t.at[k] = s.at[k] + (IF Handed(o, k) THEN 1 ELSE 0)
  <2>1. ASSUME NEW k \in DOMAIN b, k # j
        PROVE  ~Handed(o, k) /\ s.at[k] \in Nat /\ s.at[k] = s.at[k] + 0 /\ t.at[k] = s.at[k]
    BY <1>1, <1>18, <1>19, <2>1 DEF Handed
  <2> QED
    BY <1>5, <1>6, <1>12, <1>19, <2>1
<1>23. result' # <<>> /\ result'[1] = n /\ thrown' = 0 /\ UNCHANGED <<fixed, mains, got>>
  BY <1>3, <1>4
<1>24. Gives(S, A, R, o, t, N, n, state)
  <2>1. t.out = Append(S[o].out, n) /\ S[o].ended = 0 /\ t.ended = 0
    BY <1>1, <1>3, <1>8, <1>12, Zenon
  <2>2. \A k \in DOMAIN Body(o) : t.at[k] > 0 =>
          /\ S[o].at[k] > 0 /\ S[o].at[k] \in Nat /\ t.arg[k] = S[o].arg[k]
          /\ t.at[k] = S[o].at[k] + (IF Handed(o, k) THEN 1 ELSE 0)
    BY <1>1, <1>22
  <2>3. PlaceOK(Body(o), Resume(Body(o), state), t) /\ n \in Num /\ thrown = 0
    BY <1>1, <1>3, <1>6, <1>20, Zenon
  <2> QED
    BY <1>14, <1>16, <1>17, <1>21, <1>23, <2>1, <2>2, <2>3 DEF Gives
<1> QED
  BY <1>1, <1>14, <1>24, GivesKept

-----------------------------------------------------------------------------
\* The body that loops goes on, behind the call of its iterator: o, in the
\* state s of Python, comes to t.
Resumes(S, A, R, o, t, N) ==
  /\ R[o] = t /\ \A x \in DOMAIN heap : x # o => R[x] = S[x]
  /\ N \in Nat /\ Reached(program, heap[o].gen, A[o], t, N)
  /\ S[o].ended = 0 /\ t.ended \in {0, Error} /\ thrown' = t.ended /\ t.out = S[o].out
  /\ t.ended = 0 => thrown # Error /\ \A j \in DOMAIN Body(o) : t.at[j] > 0 =>
       /\ S[o].at[j] > 0 /\ S[o].at[j] \in Nat /\ t.arg[j] = S[o].arg[j]
       /\ t.at[j] = S[o].at[j] + (IF Handed(o, j) THEN 1 ELSE 0)
  /\ PlaceOK(Body(o), calls'[1], t) /\ calls'[1].obj = o /\ ActShape(calls'[1]) /\ Len(calls') = 1
  /\ Len(frames') = 1 /\ frames'[1] = frames[1] /\ result' = <<>>
  /\ HeapHas(o, t.env, heap[o].state) /\ UNCHANGED <<fixed, mains, got>>
  /\ \A x \in DOMAIN heap : x # o => PlaceOK(Body(x), Resume(Body(x), heap[x].state), S[x])

LEMMA ResumesKind ==
  ASSUME NEW S, NEW A, NEW O, NEW M, Tracks(S, A, O, M), calls # <<>>, NEW o, o = calls[1].obj,
         NEW R, NEW t, NEW N, Resumes(S, A, R, o, t, N), ControlInv'
  PROVE  /\ o \in DOMAIN heap /\ DOMAIN heap' = DOMAIN heap /\ heap[o].gen = "outer"
         /\ frames[1].pc \in DOMAIN mains /\ o = mains[frames[1].pc] /\ O[o] = <<0, frames[1].pc>>
         /\ \A x \in DOMAIN heap : SameKind(x) /\ SameGen(x) /\ Body(x)' = Body(x) /\ (x # o => SameObject(x))
         /\ \A x \in DOMAIN heap : \A j : Iterator(x, j)' = Iterator(x, j)
         /\ Top \in {1, 2} /\ Len(calls) = Top /\ DOMAIN calls' = 1..1 /\ calls' # <<>> /\ Me' = o
         /\ frames' # <<>> /\ frames # <<>>
<1>1. Top \in {1, 2} /\ Len(calls) = Top
  BY TopIs
<1>2. /\ HeapHas(o, t.env, heap[o].state) /\ program' = program /\ Len(calls') = 1 /\ Len(frames') = 1
      /\ calls'[1].obj = o
  BY DEF Resumes, fixed
<1>3. \A x \in DOMAIN heap : SameKind(x) /\ (x # o => SameObject(x))
  BY <1>2 DEF HeapHas, SameKind, SameObject
<1>4. IsSeq(calls') /\ IsSeq(frames')
  BY DEF ControlInv
<1>5. DOMAIN calls' = 1..1 /\ calls' # <<>> /\ frames' # <<>>
  <2>1. DOMAIN calls' = 1..Len(calls') /\ (calls' = <<>> <=> Len(calls') = 0)
        /\ (frames' = <<>> <=> Len(frames') = 0)
    BY <1>4, SeqShape
  <2> QED
    BY <1>2, <2>1
<1>6. frames # <<>>
  BY <1>1, CountCalls DEF Tracks
<1>7. Busy(frames[1].pc)
  BY <1>6 DEF Busy
<1>8. /\ frames[1].pc \in DOMAIN mains /\ o = mains[frames[1].pc] /\ o \in DOMAIN heap
      /\ heap[o].gen = "outer"
  BY <1>7, OuterIs
<1>9. O[o] = <<0, frames[1].pc>>
  BY <1>8 DEF Tracks, Mains
<1>10. Me' = o
  BY <1>2 DEF Me, Top
<1>11. \A x \in DOMAIN heap : SameGen(x) /\ Body(x)' = Body(x) /\ \A j : Iterator(x, j)' = Iterator(x, j)
  BY <1>3, SameKindIs
<1>12. DOMAIN heap' = DOMAIN heap
  BY <1>2 DEF HeapHas
<1> QED
  BY <1>1, <1>3, <1>5, <1>6, <1>8, <1>9, <1>10, <1>11, <1>12

LEMMA ResumesObjects ==
  ASSUME NEW S, NEW A, NEW O, NEW M, Tracks(S, A, O, M), calls # <<>>, NEW o, o = calls[1].obj,
         NEW R, NEW t, NEW N, M <= N, Resumes(S, A, R, o, t, N), ControlInv'
  PROVE  Objects(R, A, N)'
<1>1. /\ o \in DOMAIN heap /\ DOMAIN heap' = DOMAIN heap
      /\ \A x \in DOMAIN heap : Body(x)' = Body(x) /\ (x # o => SameObject(x))
  BY ResumesKind
<1>2. Objects(S, A, M)
  BY DEF Tracks
<1>3. /\ R[o] = t /\ (\A x \in DOMAIN heap : x # o => R[x] = S[x]) /\ N \in Nat
      /\ Reached(program, heap[o].gen, A[o], t, N) /\ PlaceOK(Body(o), calls'[1], t)
      /\ HeapHas(o, t.env, heap[o].state) /\ calls'[1].obj = o /\ Len(calls') = 1 /\ program' = program
      /\ \A x \in DOMAIN heap : x # o => PlaceOK(Body(x), Resume(Body(x), heap[x].state), S[x])
  BY DEF Resumes, fixed
<1>4. ObjectOK(R, A, N, o)'
  <2>1. heap[o].gen \in Gens /\ A[o] \in Num
    BY <1>1, ObjectIs
  <2>2. heap'[o].gen = heap[o].gen /\ heap'[o].env = t.env /\ ObjectShape(heap'[o], Body(o))
    BY <1>3 DEF HeapHas
  <2>3. Spot(o)' = calls'[1]
    BY <1>3 DEF Spot
  <2> QED
    BY <1>1, <1>3, <2>1, <2>2, <2>3 DEF ObjectOK
<1>5. ASSUME NEW x \in DOMAIN heap, x # o PROVE ObjectOK(R, A, N, x)'
  <2>1. ObjectOK(S, A, M, x) /\ R[x] = S[x] /\ M \in Nat /\ heap'[x] = heap[x] /\ Body(x)' = Body(x)
    BY <1>1, <1>2, <1>3, <1>5 DEF Objects, SameObject
  <2>2. Spot(x)' = Resume(Body(x), heap[x].state)
    BY <1>3, <1>5, <2>1 DEF Spot
  <2>3. PlaceOK(Body(x), Resume(Body(x), heap[x].state), S[x])
    BY <1>3, <1>5
  <2>4. Reached(program, heap[x].gen, A[x], S[x], N)
    BY <1>3, <2>1, ReachedLater DEF ObjectOK
  <2> QED
    BY <1>3, <2>1, <2>2, <2>3, <2>4 DEF ObjectOK
<1> QED
  BY <1>1, <1>3, <1>4, <1>5 DEF Objects, HeapHas

LEMMA ResumesControl ==
  ASSUME NEW S, NEW A, NEW O, NEW M, Tracks(S, A, O, M), calls # <<>>, NEW o, o = calls[1].obj,
         NEW R, NEW t, NEW N, Resumes(S, A, R, o, t, N), ControlInv'
  PROVE  Control(R)'
<1>1. /\ frames[1].pc \in DOMAIN mains /\ o = mains[frames[1].pc] /\ DOMAIN calls' = 1..1 /\ Me' = o
  BY ResumesKind
<1>2. /\ R[o] = t /\ thrown' = t.ended /\ t.ended \in {0, Error} /\ mains' = mains
      /\ calls'[1].obj = o /\ ActShape(calls'[1]) /\ Len(calls') = 1
      /\ Len(frames') = 1 /\ frames'[1] = frames[1]
  BY DEF Resumes
<1>3. thrown' # Stop
  BY <1>2 DEF Stop, Error
<1> QED
  BY <1>1, <1>2, <1>3 DEF Control

LEMMA ResumesLoops ==
  ASSUME NEW S, NEW A, NEW O, NEW M, Tracks(S, A, O, M), calls # <<>>, NEW o, o = calls[1].obj,
         NEW R, NEW t, NEW N, Resumes(S, A, R, o, t, N), ControlInv'
  PROVE  LoopsOK(R, A, O)'
<1>1. /\ o \in DOMAIN heap /\ DOMAIN heap' = DOMAIN heap /\ heap[o].gen = "outer" /\ Top \in {1, 2}
      /\ \A x \in DOMAIN heap : SameGen(x) /\ Body(x)' = Body(x) /\ \A j : Iterator(x, j)' = Iterator(x, j)
  BY ResumesKind
<1>2. /\ R[o] = t /\ (\A x \in DOMAIN heap : x # o => R[x] = S[x]) /\ result' = <<>> /\ S[o].ended = 0
      /\ t.ended = 0 => thrown # Error /\ \A j \in DOMAIN Body(o) : t.at[j] > 0 =>
           /\ S[o].at[j] > 0 /\ S[o].at[j] \in Nat /\ t.arg[j] = S[o].arg[j]
           /\ t.at[j] = S[o].at[j] + (IF Handed(o, j) THEN 1 ELSE 0)
  BY DEF Resumes
<1>3. SUFFICES ASSUME NEW x \in DOMAIN heap, R[x].ended = 0, NEW j \in DOMAIN Body(x), R[x].at[j] > 0
               PROVE  LoopOK(R, A, O, x, j)'
  BY <1>1 DEF LoopsOK
<1>4. S[x].ended = 0 /\ S[x].at[j] > 0 /\ R[x].arg[j] = S[x].arg[j]
  <2>1. CASE x = o
    BY <1>2, <1>3, <2>1
  <2>2. CASE x # o
    BY <1>2, <1>3, <2>2
  <2> QED
    BY <2>1, <2>2
<1>5. LoopOK(S, A, O, x, j)
  BY <1>4 DEF Tracks, LoopsOK
<1>6. PICK q : q = Iterator(x, j)
  OBVIOUS
<1>7. /\ q \in DOMAIN heap /\ heap[q].gen = "inner" /\ O[q] = <<x, j>> /\ A[q] = S[x].arg[j]
      /\ Len(S[q].out) = S[x].at[j] - 1 + (IF Handed(x, j) THEN 1 ELSE 0)
      /\ S[q].ended = Error => thrown = Error /\ Me = q
  BY <1>5, <1>6 DEF LoopOK
<1>8. q # o /\ R[q] = S[q]
  <2>1. q # o
    BY <1>1, <1>7
  <2> QED
    BY <1>2, <1>7, <2>1
<1>9. S[q].ended # Error
  <2>1. SUFFICES ASSUME S[q].ended = Error PROVE FALSE
    OBVIOUS
  <2>2. thrown = Error /\ Me = q
    BY <1>7, <2>1
  <2>3. x # o
    BY <1>2, <1>3, <2>2
  <2>4. PICK k : k = calls[1].pc
    OBVIOUS
  <2>5. Top = 2 /\ q = Iterator(o, k) /\ calls[1].head
    <3>1. Top # 1
      BY <1>7, <2>2, TopIs
    <3> QED
      BY <1>1, <2>2, <2>4, <3>1, TopIs
  <2>6. LoopOK(S, A, O, o, k)
    BY <1>2, <2>4, <2>5, PullIs
  <2>7. O[q] = <<o, k>>
    BY <2>5, <2>6 DEF LoopOK
  <2> QED
    BY <1>7, <2>3, <2>7
<1>10. SameGen(q) /\ q = Iterator(x, j)' /\ q \in DOMAIN heap' /\ heap'[q].gen = "inner"
  BY <1>1, <1>6, <1>7 DEF SameGen
<1>11. ~Handed(x, j)'
  BY <1>2 DEF Handed
<1>12. CASE x = o
  <2>1. R[x].at[j] = S[x].at[j] + (IF Handed(x, j) THEN 1 ELSE 0) /\ S[x].at[j] \in Nat
    BY <1>2, <1>3, <1>12
  <2>2. Len(R[q].out) = R[x].at[j] - 1 + 0
    <3>1. CASE Handed(x, j)
      BY <1>7, <1>8, <2>1, <3>1
    <3>2. CASE ~Handed(x, j)
      BY <1>7, <1>8, <2>1, <3>2
    <3> QED
      BY <3>1, <3>2
  <2> QED
    BY <1>4, <1>7, <1>8, <1>9, <1>10, <1>11, <2>2 DEF LoopOK
<1>13. CASE x # o
  <2>1. ~Handed(x, j)
    BY <1>13 DEF Handed
  <2>2. R[x].at[j] = S[x].at[j]
    BY <1>2, <1>13
  <2> QED
    BY <1>4, <1>5, <1>6, <1>8, <1>9, <1>10, <1>11, <2>1, <2>2, LoopKept
<1> QED
  BY <1>12, <1>13

LEMMA ResumesMains ==
  ASSUME NEW S, NEW A, NEW O, NEW M, Tracks(S, A, O, M), calls # <<>>, NEW o, o = calls[1].obj,
         NEW R, NEW t, NEW N, Resumes(S, A, R, o, t, N), ControlInv'
  PROVE  Mains(R, A, O)'
<1>1. /\ frames[1].pc \in DOMAIN mains /\ o = mains[frames[1].pc] /\ O[o] = <<0, frames[1].pc>>
      /\ calls' # <<>> /\ frames' # <<>> /\ frames # <<>> /\ \A x \in DOMAIN heap : SameGen(x)
  BY ResumesKind
<1>2. /\ R[o] = t /\ (\A x \in DOMAIN heap : x # o => R[x] = S[x]) /\ S[o].ended = 0
      /\ thrown' = t.ended /\ t.out = S[o].out /\ Len(calls') = 1 /\ frames'[1] = frames[1]
      /\ mains' = mains /\ got' = got
  BY DEF Resumes
<1>3. Mains(S, A, O)
  BY DEF Tracks
<1>4. ASSUME NEW k \in DOMAIN mains PROVE MainOK(R, A, k)'
  <2>1. PICK x : x = mains[k]
    OBVIOUS
  <2>2. MainOK(S, A, k) /\ x \in DOMAIN heap /\ O[x] = <<0, k>>
    BY <1>3, <2>1 DEF Mains, MainOK
  <2>3. SameGen(x) /\ RunOK(Body(x), S[x]) /\ mains'[k] = x /\ got'[k] = got[k]
    BY <1>1, <1>2, <2>1, <2>2, ObjectIs
  <2>4. Len(S[x].out) \in Nat
    BY <2>3, RunStateIs DEF RunOK
  <2>5. ~Waits(k) /\ ~Waits(k)' /\ (Busy(k)' <=> Busy(k))
    BY <1>1, <1>2 DEF Waits, Busy
  <2>6. CASE x = o
    <3>1. frames[1].pc = k
      BY <1>1, <2>2, <2>6
    <3>2. Busy(k)'
      BY <1>1, <1>2, <3>1 DEF Busy
    <3>3. R[x].out = S[x].out /\ S[x].ended = 0
          /\ (R[x].ended = Error => (thrown = Error /\ Busy(k) /\ Len(calls) = 1)')
      BY <1>2, <2>6, <3>2
    <3> QED
      BY <2>1, <2>2, <2>3, <2>4, <2>5, <3>3, MainKept
  <2>7. CASE x # o
    <3>1. ~Busy(k)
      BY <1>1, <2>1, <2>7 DEF Busy
    <3>2. R[x] = S[x]
      BY <1>2, <2>2, <2>7
    <3> QED
      BY <2>1, <2>2, <2>3, <2>4, <2>5, <3>1, <3>2, MainKept
  <2> QED
    BY <2>6, <2>7
<1> QED
  BY <1>2, <1>3, <1>4 DEF Mains

LEMMA ResumesKept ==
  ASSUME NEW S, NEW A, NEW O, NEW M, Tracks(S, A, O, M), calls # <<>>, NEW o, o = calls[1].obj,
         NEW R, NEW t, NEW N, M <= N, Resumes(S, A, R, o, t, N), ControlInv'
  PROVE  Tracks(R, A, O, N)'
<1>1. Promise'
  BY DEF Tracks, Promise, Resumes, fixed
<1>2. Objects(R, A, N)'
  BY ResumesObjects
<1>3. Control(R)'
  BY ResumesControl
<1>4. LoopsOK(R, A, O)'
  BY ResumesLoops
<1>5. Mains(R, A, O)'
  BY ResumesMains
<1> QED
  BY <1>1, <1>2, <1>3, <1>4, <1>5 DEF Tracks

\* A for loop is handed a value, and its body runs.
LEMMA BodyRunsKept ==
  ASSUME NEW S, NEW A, NEW O, NEW M, Tracks(S, A, O, M), calls # <<>>, result # <<>>,
         Here.op = "for", SetLocal(Here.var, result[1]), GoOn, result' = <<>>,
         frames' = Front(frames), UNCHANGED <<fixed, mains, got, thrown>>, ControlInv'
  PROVE  \E R, N : Tracks(R, A, O, N)'
<1>1. PICK o, b, s, j : o = Me /\ b = Body(o) /\ s = S[o] /\ j = calls[1].pc
  OBVIOUS
<1>2. PICK n, x : n = result[1] /\ x = b[j].var
  OBVIOUS
<1>3. Top = 1 /\ Len(frames) = 2 /\ o = calls[1].obj /\ calls[1].head /\ s.ended = 0 /\ thrown = 0
  BY <1>1, HandedIs
<1>4. SetLocal(x, n) /\ GoTo(j + 1) /\ b[j].op = "for"
  BY <1>1, <1>2, <1>3 DEF Here, GoOn
<1>5. PICK a : a = s.at[j]
  OBVIOUS
<1>6. /\ o \in DOMAIN heap /\ s.pc = j /\ j \in DOMAIN b /\ b[j].op \in Loops
      /\ a > 0 /\ a \in Nat /\ Handed(o, j) /\ n \in Num /\ M \in Nat
      /\ \A m \in Nat : m >= M =>
           /\ a \in DOMAIN InnerRuns(program, heap[o].gen, m)[s.arg[j]].out
           /\ InnerRuns(program, heap[o].gen, m)[s.arg[j]].out[a] = n
  <2>1. ValueGiven(S, o, j, n, M)
    <3>1. o = Me /\ j = calls[1].pc /\ n = result[1]
      BY <1>1, <1>2
    <3> QED
      BY <3>1, ValueIs
  <2> QED
    BY <1>1, <1>5, <2>1, Zenon DEF ValueGiven
<1>7. IsBody(b) /\ RunOK(b, s) /\ heap[o].env = s.env /\ s \in RunState(b)
  <2>1. o \in DOMAIN heap
    BY <1>6
  <2>2. IsBody(Body(o)) /\ RunOK(Body(o), S[o]) /\ heap[o].env = S[o].env
    BY <2>1, ObjectIs
  <2>3. IsBody(b) /\ RunOK(b, s) /\ heap[o].env = s.env
    BY <1>1, <2>2, Zenon
  <2> QED
    BY <2>3 DEF RunOK
<1>8. PICK e, w : e = [s.env EXCEPT ![x] = n] /\ w = [s.at EXCEPT ![j] = a + 1]
  OBVIOUS
<1>9. PICK t : t = State(j + 1, e, s.out, s.ended, w, s.arg)
  OBVIOUS
<1>10. ASSUME NEW m \in Nat, m >= M
       PROVE  Statement(b, InnerRuns(program, heap[o].gen, m), s) = t
  <2>1. PICK inner : inner = InnerRuns(program, heap[o].gen, m)
    OBVIOUS
  <2>2. inner \in Inners
    BY <1>6, <2>1, InnerRunsOK
  <2>3. a \in DOMAIN inner[s.arg[j]].out /\ inner[s.arg[j]].out[a] = n
    BY <1>6, <1>10, <2>1
  <2>4. a # 0
    BY <1>6
  <2>5. Statement(b, inner, s) = State(s.pc + 1,
          [s.env EXCEPT ![b[s.pc].var] = inner[s.arg[s.pc]].out[s.at[s.pc]]], s.out, s.ended,
          [s.at EXCEPT ![s.pc] = s.at[s.pc] + 1], s.arg)
    BY <1>4, <1>5, <1>6, <1>7, <2>2, <2>3, <2>4, LoopStatementIs, Zenon
  <2>6. s.pc = j /\ s.at[s.pc] = a /\ inner[s.arg[s.pc]].out[s.at[s.pc]] = n /\ b[s.pc].var = x
    BY <1>2, <1>5, <1>6, <2>3
  <2> QED
    BY <1>8, <1>9, <2>1, <2>5, <2>6
<1>11. t.pc = j + 1 /\ t.env = e /\ t.out = s.out /\ t.ended = 0 /\ t.at = w /\ t.arg = s.arg
  BY <1>3, <1>9, StateFields
<1>12. PICK N : N = M + 1
  OBVIOUS
<1>13. Reached(program, heap[o].gen, A[o], t, N) /\ N \in Nat /\ M <= N
  <2>1. S[o].ended = 0 /\ \A m \in Nat : m >= M =>
          Statement(Body(o), InnerRuns(program, heap[o].gen, m), S[o]) = t
    BY <1>1, <1>3, <1>10
  <2> QED
    BY <1>6, <1>12, <2>1, OnReached
<1>14. PICK R : R = Changed(DOMAIN heap, S, o, t)
  OBVIOUS
<1>15. R[o] = t /\ \A y \in DOMAIN heap : y # o => R[y] = S[y]
  BY <1>14, OneDiffers
<1>16. HeapHas(o, t.env, heap[o].state)
  <2>1. HeapHas(o, [heap[o].env EXCEPT ![x] = n], heap[o].state)
    BY <1>1, <1>4, <1>6, SetLocalIs, Zenon
  <2> QED
    BY <1>7, <1>8, <1>11, <2>1
<1>17. s.at \in [DOMAIN b -> Nat]
  BY <1>7, RunStateIs
<1>18. t.at[j] = a + 1 /\ \A k \in DOMAIN b : k # j => t.at[k] = s.at[k]
  BY <1>6, <1>8, <1>11, <1>17
<1>19. /\ calls'[1] = [obj |-> o, pc |-> j + 1, head |-> j + 1 \in ForSites(b) /\ j + 1 < j]
       /\ Len(calls') = 1
  <2>1. Len(calls) = Top
    BY DEF Top
  <2> QED
    BY <1>1, <1>3, <1>4, <2>1, GoToTop
<1>20. PlaceOK(b, calls'[1], t)
  <2>1. t \in RunState(b)
    <3>1. RunOK(b, t)
      <4>1. \A m \in Nat : m >= N => \E k \in 0..N : t = RunTo(program, heap[o].gen, A[o], m, k)
        BY <1>13 DEF Reached
      <4>2. ProgramOK(program) /\ Wrap \in Nat \ {0} /\ heap[o].gen \in Gens /\ A[o] \in Num
            /\ b = program[heap[o].gen]
        BY <1>1, <1>6, ProgramIs, ObjectIs, Zenon DEF Tracks, Promise
      <4> QED
        BY <1>13, <4>2, ReachedOK
    <3> QED
      BY <3>1 DEF RunOK
  <2>2. j \in Nat /\ s.pc < t.pc
    <3>1. Len(b) \in Nat /\ DOMAIN b = 1..Len(b)
      BY <1>7, BodyIs
    <3> QED
      BY <1>6, <1>11, <3>1
  <2>3. t.pc \in DOMAIN b => t.at[t.pc] = s.at[t.pc]
    BY <1>6, <1>18, <2>2
  <2>4. PlaceOK(b, [obj |-> o, pc |-> t.pc, head |-> t.pc \in ForSites(b) /\ t.pc < s.pc], t)
    BY <1>3, <1>7, <1>11, <2>1, <2>2, <2>3, PlaceAhead
  <2> QED
    BY <1>6, <1>11, <1>19, <2>4
<1>21. Len(frames') = 1 /\ frames'[1] = frames[1]
  <2>1. Control(S) /\ Len(calls) = 1
    BY <1>3 DEF Tracks, Top
  <2>2. IsSeq(frames) /\ frames # <<>>
    BY <1>3, <2>1, CountCalls DEF Control, ControlInv
  <2>3. Len(frames') = Len(frames) - 1 /\ \A k \in 1..(Len(frames) - 1) : frames'[k] = frames[k]
    BY <2>2, SeqFront
  <2> QED
    BY <1>3, <2>3
<1>22. \A k \in DOMAIN b : t.at[k] > 0 =>
         /\ s.at[k] > 0 /\ s.at[k] \in Nat /\ t.arg[k] = s.arg[k]
         /\ t.at[k] = s.at[k] + (IF Handed(o, k) THEN 1 ELSE 0)
  <2>1. ASSUME NEW k \in DOMAIN b, k # j
        PROVE  ~Handed(o, k) /\ s.at[k] \in Nat /\ s.at[k] = s.at[k] + 0 /\ t.at[k] = s.at[k]
    BY <1>1, <1>17, <1>18, <2>1 DEF Handed
  <2> QED
    BY <1>5, <1>6, <1>11, <1>18, <2>1
<1>23. ASSUME NEW y \in DOMAIN heap, y # o PROVE PlaceOK(Body(y), Resume(Body(y), heap[y].state), S[y])
  <2>1. Len(calls) = 1
    BY <1>3 DEF Top
  <2>2. Spot(y) = Resume(Body(y), heap[y].state)
    BY <1>3, <1>23, <2>1 DEF Spot
  <2> QED
    BY <2>2, ObjectIs
<1>24. Resumes(S, A, R, o, t, N)
  <2>1. t.out = S[o].out /\ S[o].ended = 0 /\ t.ended = 0 /\ thrown' = 0 /\ thrown # Error
    <3>1. 0 # Error
      BY DEF Error
    <3>2. thrown' = thrown
      OBVIOUS
    <3> QED
      BY <1>1, <1>3, <1>11, <3>1, <3>2
  <2>2. \A k \in DOMAIN Body(o) : t.at[k] > 0 =>
          /\ S[o].at[k] > 0 /\ S[o].at[k] \in Nat /\ t.arg[k] = S[o].arg[k]
          /\ t.at[k] = S[o].at[k] + (IF Handed(o, k) THEN 1 ELSE 0)
    BY <1>1, <1>22
  <2>3. PlaceOK(Body(o), calls'[1], t) /\ calls'[1].obj = o /\ ActShape(calls'[1]) /\ Len(calls') = 1
    BY <1>1, <1>19, <1>20 DEF ActShape
  <2>4. UNCHANGED <<fixed, mains, got>>
    OBVIOUS
  <2> QED
    BY <1>13, <1>15, <1>16, <1>21, <1>23, <2>1, <2>2, <2>3, <2>4 DEF Resumes
<1> QED
  BY <1>3, <1>13, <1>24, ResumesKept

LEMMA TakeValueKept ==
  ASSUME NEW S, NEW A, NEW O, NEW M, Tracks(S, A, O, M), TakeValue, ControlInv'
  PROVE  \E R, N : Tracks(R, A, O, N)'
<1>1. /\ calls # <<>> /\ result # <<>> /\ frames' = Front(frames)
      /\ UNCHANGED <<fixed, mains, got, thrown>>
      /\ \/ Here.op = "for" /\ SetLocal(Here.var, result[1]) /\ GoOn /\ result' = <<>>
         \/ Here.op = "from" /\ Return(result[1], ResumeState(Body(Me), calls[Top].pc))
  BY DEF TakeValue, AfterReturn
<1> QED
  BY <1>1, BodyRunsKept, PassOnKept

-----------------------------------------------------------------------------
\* An exception lands in the innermost frame.
LEMMA LandIs ==
  ASSUME NEW S, NEW A, NEW O, NEW M, Tracks(S, A, O, M), Land
  PROVE  /\ thrown # 0 /\ calls # <<>> /\ result = <<>> /\ Top \in {1, 2} /\ Len(calls) = Top
         /\ Len(frames) = Top /\ Last(frames) = frames[Top] /\ frames[Top].depth = Top - 1
         /\ frames' = Front(frames) /\ Len(frames') = Top - 1 /\ (Top = 2 => frames'[1] = frames[1])
         /\ (Top = 1 => frames' = <<>>)
         /\ S[Me].ended = thrown /\ (thrown = Stop => heap[Me].state = -1) /\ thrown \in {Stop, Error}
<1>1. Control(S) /\ thrown # 0 /\ frames' = Front(frames)
  BY DEF Tracks, Land
<1>2. calls # <<>> /\ result = <<>> /\ Len(frames) = Len(calls)
  BY <1>1, CountCalls
<1>3. Top \in {1, 2} /\ Len(calls) = Top /\ Len(frames) = Top /\ Me \in DOMAIN heap
  BY <1>2, TopIs
<1>4. DOMAIN frames = 1..Top /\ IsSeq(frames) /\ DepthsMatch(frames) /\ frames # <<>>
  BY <1>1, <1>3, CountCalls, Lengths DEF Control, ControlInv
<1>5. frames[Top].depth = Top - 1 /\ Last(frames) = frames[Top]
  BY <1>3, <1>4 DEF DepthsMatch, Last
<1>6. IsSeq(frames') /\ Len(frames') = Len(frames) - 1
      /\ \A j \in 1..(Len(frames) - 1) : frames'[j] = frames[j]
  BY <1>1, <1>4, SeqFront
<1>7. frames' = <<>> <=> Len(frames') = 0
  BY <1>6, SeqShape
<1>8. Len(frames') = Top - 1 /\ (Top = 2 => frames'[1] = frames[1]) /\ (Top = 1 => frames' = <<>>)
  BY <1>3, <1>6, <1>7
<1>9. S[Me].ended = thrown /\ (thrown = Stop => heap[Me].state = -1)
  BY <1>1 DEF Control
<1>10. RunOK(Body(Me), S[Me])
  BY <1>3, ObjectIs
<1>11. thrown \in {Stop, Error}
  BY <1>1, <1>9, <1>10, RunStateIs DEF RunOK
<1> QED
  BY <1>1, <1>2, <1>3, <1>5, <1>8, <1>9, <1>11

\* Where the bodies rest of which none is running any more.
LEMMA RestsEnded ==
  ASSUME NEW S, NEW o, S[o].ended \in {Stop, Error}, S[o].ended = Stop => heap[o].state = -1
  PROVE  PlaceOK(Body(o), Resume(Body(o), heap[o].state), S[o])
<1>1. 0 # Stop /\ 0 # Error /\ Stop # Error
  BY DEF Stop, Error
<1>2. CASE S[o].ended = Error
  BY <1>1, <1>2 DEF PlaceOK
<1>3. CASE S[o].ended = Stop
  <2>1. PICK b, c : b = Body(o) /\ c = [pc |-> Len(b) + 1, head |-> FALSE]
    OBVIOUS
  <2>2. Resume(b, heap[o].state) = c
    BY <1>3, <2>1 DEF Resume
  <2>3. c.pc = Len(b) + 1 /\ ~c.head
    BY <2>1
  <2> QED
    BY <1>1, <1>3, <2>1, <2>2, <2>3 DEF PlaceOK
<1> QED
  BY <1>2, <1>3

LEMMA LandRests ==
  ASSUME NEW S, NEW A, NEW O, NEW M, Tracks(S, A, O, M), Land, NEW x \in DOMAIN heap,
         x # calls[1].obj \/ Top = 1
  PROVE  PlaceOK(Body(x), Resume(Body(x), heap[x].state), S[x])
<1>1. /\ Top \in {1, 2} /\ Len(calls) = Top /\ S[Me].ended = thrown
      /\ (thrown = Stop => heap[Me].state = -1) /\ thrown \in {Stop, Error}
  BY LandIs
<1>2. CASE x = Me
  BY <1>1, <1>2, RestsEnded
<1>3. CASE x # Me
  <2>1. Spot(x) = Resume(Body(x), heap[x].state)
    BY <1>1, <1>3 DEF Spot, Me
  <2> QED
    BY <2>1, ObjectIs
<1> QED
  BY <1>2, <1>3

LEMMA LandOuter ==
  ASSUME NEW S, NEW A, NEW O, NEW M, Tracks(S, A, O, M), Land, Top = 1, ControlInv'
  PROVE  Tracks(S, A, O, M)'
<1>1. PICK k, o, n : k = frames[1].pc /\ o = Me /\ n = thrown
  OBVIOUS
<1>2. /\ calls # <<>> /\ result = <<>> /\ Last(frames) = frames[1] /\ frames[1].depth = 0
      /\ frames' = <<>> /\ S[o].ended = n /\ n \in {Stop, Error}
  <2>1. frames[Top].depth = Top - 1 /\ Top - 1 = 0
    BY LandIs
  <2> QED
    BY <1>1, <2>1, LandIs
<1>3. Gets(k, n) /\ calls' = <<>> /\ thrown' = 0 /\ UNCHANGED <<fixed, heap, mains, result>>
  BY <1>1, <1>2 DEF Land
<1>4. Over'
  BY <1>2, <1>3 DEF Over
<1>5. Busy(k) /\ heap[o].gen = "outer" /\ o = mains[k]
  BY <1>1, <1>2, TopIs
<1>6. MainOK(S, A, k)
  BY <1>5, OuterIs
<1>7. PICK s, g : s = S[o] /\ g = Len(got[k])
  OBVIOUS
<1>8. Stop # 0 /\ Error # 0
  BY DEF Stop, Error
<1>9. Len(s.out) <= g /\ IsSeq(got[k]) /\ s.ended = n /\ s.ended # 0
  BY <1>2, <1>5, <1>6, <1>7, <1>8 DEF MainOK
<1>10. RunOK(Body(o), s)
  <2>1. o \in DOMAIN heap
    BY <1>5, <1>6 DEF MainOK
  <2> QED
    BY <1>7, <2>1, ObjectIs
<1>11. Len(s.out) \in Nat /\ g \in Nat
  BY <1>7, <1>9, <1>10, RunStateIs, SeqShape DEF RunOK
<1>12. n = Answer(s, g + 1)
  <2>1. ~(g + 1 <= Len(s.out))
    BY <1>9, <1>11
  <2> QED
    BY <1>9, <2>1 DEF Answer
<1>13. \A x \in DOMAIN heap : PlaceOK(Body(x), Resume(Body(x), heap[x].state), S[x])
  BY LandRests
<1>14. UNCHANGED <<fixed, heap, mains>>
  BY <1>3
<1>15. S[mains[k]] = s /\ heap[Me].gen = "outer"
  BY <1>1, <1>5, <1>7
<1> QED
  BY <1>2, <1>3, <1>4, <1>5, <1>7, <1>9, <1>12, <1>13, <1>14, <1>15, ModuleGets

\* The loop at place j of o is behind the last value of its inner generator,
\* which ended the way the iterator did.
EndReached(S, o, j, M) ==
  /\ o \in DOMAIN heap /\ S[o].pc = j /\ j \in DOMAIN Body(o) /\ Body(o)[j].op \in Loops
  /\ S[o].ended = 0 /\ S[o].at[j] > 0 /\ S[o].at[j] \in Nat /\ M \in Nat /\ frames[2].pc = j
  /\ \A m \in Nat : m >= M =>
       /\ S[o].at[j] \notin DOMAIN InnerRuns(program, heap[o].gen, m)[S[o].arg[j]].out
       /\ InnerRuns(program, heap[o].gen, m)[S[o].arg[j]].ended = thrown

\* A loop whose iterator has ended: Python's loop is behind the last value of
\* the inner generator, however far that is run.
LEMMA InnerEnds ==
  ASSUME NEW S, NEW A, NEW O, NEW M, Tracks(S, A, O, M), Land, Top = 2,
         NEW o, o = calls[1].obj, NEW j, j = calls[1].pc
  PROVE  EndReached(S, o, j, M)
<1>1. /\ calls # <<>> /\ result = <<>> /\ S[Me].ended = thrown /\ thrown # 0
  BY LandIs
<1>2. PICK q, a, g : q = Iterator(o, j) /\ a = S[o].at[j] /\ g = S[o].arg[j]
  OBVIOUS
<1>3. Me = q /\ calls[1].head /\ S[o].ended = 0 /\ frames[2].pc = j
  BY <1>1, <1>2, TopIs
<1>4. /\ o \in DOMAIN heap /\ heap[o].gen = "outer" /\ S[o].pc = j /\ j \in DOMAIN Body(o)
      /\ a > 0 /\ a \in Nat /\ Body(o)[j].op \in Loops /\ LoopOK(S, A, O, o, j)
  BY <1>1, <1>2, <1>3, PullIs
<1>5. ~Handed(o, j)
  BY <1>1 DEF Handed
<1>6. q \in DOMAIN heap /\ heap[q].gen = "inner" /\ A[q] = g /\ Len(S[q].out) = a - 1 + 0
  BY <1>2, <1>4, <1>5 DEF LoopOK
<1>7. RunOK(Body(q), S[q]) /\ g \in Num /\ Reached(program, "inner", g, S[q], M) /\ M \in Nat
  BY <1>6, ObjectIs
<1>8. ProgramOK(program) /\ Wrap \in Nat \ {0}
  BY ProgramIs DEF Tracks, Promise
<1>9. ASSUME NEW m \in Nat, m >= M
      PROVE  /\ a \notin DOMAIN InnerRuns(program, "outer", m)[g].out
             /\ InnerRuns(program, "outer", m)[g].ended = thrown
  <2>1. PICK y : y = InnerRuns(program, "outer", m)[g]
    OBVIOUS
  <2>2. y.out = S[q].out /\ y.ended = S[q].ended
    <3>1. S[q].ended # 0
      BY <1>1, <1>3
    <3> QED
      BY <1>7, <1>8, <1>9, <2>1, <3>1, InnerAnswers
  <2>3. S[q].out \in Seq(Num)
    BY <1>7, RunStateIs DEF RunOK
  <2>4. DOMAIN S[q].out = 1..Len(S[q].out)
    BY <2>3
  <2>5. a \notin 1..Len(S[q].out)
    BY <1>4, <1>6
  <2> QED
    BY <1>1, <1>3, <2>1, <2>2, <2>4, <2>5
<1> QED
  BY <1>2, <1>3, <1>4, <1>7, <1>9, Zenon DEF EndReached

\* An error in the iterator is thrown on from the loop.
LEMMA ThrownOn ==
  ASSUME NEW S, NEW A, NEW O, NEW M, Tracks(S, A, O, M), Land, Top = 2, thrown # Stop, ControlInv'
  PROVE  \E R, N : Tracks(R, A, O, N)'
<1>1. PICK o, b, s, j : o = calls[1].obj /\ b = Body(o) /\ s = S[o] /\ j = calls[1].pc
  OBVIOUS
<1>2. /\ calls # <<>> /\ result = <<>> /\ Len(calls) = 2 /\ Last(frames) = frames[2] /\ frames[2].depth = 1
      /\ Len(frames') = 1 /\ frames'[1] = frames[1] /\ thrown = Error
  <2>1. frames[Top].depth = Top - 1 /\ Top - 1 = 1 /\ Len(frames') = Top - 1
    BY LandIs
  <2> QED
    BY <2>1, LandIs
<1>3. calls' = SubSeq(calls, 1, 1) /\ thrown' = Error /\ UNCHANGED <<fixed, heap, mains, result, got>>
  BY <1>2 DEF Land
<1>4. PICK a : a = s.at[j]
  OBVIOUS
<1>5. /\ o \in DOMAIN heap /\ s.pc = j /\ j \in DOMAIN b /\ b[j].op \in Loops /\ s.ended = 0
      /\ a > 0 /\ a \in Nat /\ M \in Nat
      /\ \A m \in Nat : m >= M =>
           /\ a \notin DOMAIN InnerRuns(program, heap[o].gen, m)[s.arg[j]].out
           /\ InnerRuns(program, heap[o].gen, m)[s.arg[j]].ended = Error
  <2>1. EndReached(S, o, j, M)
    <3>1. o = calls[1].obj /\ j = calls[1].pc
      BY <1>1
    <3> QED
      BY <3>1, InnerEnds
  <2>2. thrown = Error
    BY <1>2
  <2> QED
    BY <1>1, <1>4, <2>1, <2>2, Zenon DEF EndReached
<1>6. IsBody(b) /\ RunOK(b, s) /\ heap[o].env = s.env /\ s \in RunState(b)
  <2>1. o \in DOMAIN heap
    BY <1>5
  <2>2. IsBody(Body(o)) /\ RunOK(Body(o), S[o]) /\ heap[o].env = S[o].env
    BY <2>1, ObjectIs
  <2>3. IsBody(b) /\ RunOK(b, s) /\ heap[o].env = s.env
    BY <1>1, <2>2, Zenon
  <2> QED
    BY <2>3 DEF RunOK
<1>7. PICK t : t = State(j, s.env, s.out, Error, s.at, s.arg)
  OBVIOUS
<1>8. Stop # 0 /\ Error # 0 /\ Error # Stop
  BY DEF Stop, Error
<1>9. ASSUME NEW m \in Nat, m >= M
      PROVE  Statement(b, InnerRuns(program, heap[o].gen, m), s) = t
  <2>1. PICK inner : inner = InnerRuns(program, heap[o].gen, m)
    OBVIOUS
  <2>2. inner \in Inners
    BY <1>5, <2>1, InnerRunsOK
  <2>3. a \notin DOMAIN inner[s.arg[j]].out /\ inner[s.arg[j]].ended = Error /\ a # 0
    BY <1>5, <1>9, <2>1
  <2>4. Statement(b, inner, s) = State(s.pc, s.env, s.out, inner[s.arg[s.pc]].ended, s.at, s.arg)
    <3>1. /\ s.pc \in DOMAIN b /\ b[s.pc].op \in Loops /\ s.at[s.pc] # 0
          /\ s.at[s.pc] \notin DOMAIN inner[s.arg[s.pc]].out /\ inner[s.arg[s.pc]].ended # Stop
      BY <1>4, <1>5, <1>8, <2>3
    <3> QED
      BY <1>6, <2>2, <3>1, LoopStatementIs, Zenon
  <2>5. s.pc = j /\ inner[s.arg[s.pc]].ended = Error
    BY <1>5, <2>3
  <2> QED
    BY <1>7, <2>1, <2>4, <2>5
<1>10. t.pc = j /\ t.env = s.env /\ t.out = s.out /\ t.ended = Error
  BY <1>7, StateFields
<1>11. PICK N : N = M + 1
  OBVIOUS
<1>12. Reached(program, heap[o].gen, A[o], t, N) /\ N \in Nat /\ M <= N
  <2>1. S[o].ended = 0 /\ \A m \in Nat : m >= M =>
          Statement(Body(o), InnerRuns(program, heap[o].gen, m), S[o]) = t
    BY <1>1, <1>5, <1>9, Zenon
  <2> QED
    BY <1>5, <1>11, <2>1, OnReached
<1>13. PICK R : R = Changed(DOMAIN heap, S, o, t)
  OBVIOUS
<1>14. R[o] = t /\ \A x \in DOMAIN heap : x # o => R[x] = S[x]
  BY <1>13, OneDiffers
<1>15. HeapHas(o, t.env, heap[o].state)
  <2>1. HeapHas(o, heap[o].env, heap[o].state)
    BY <1>3, <1>5, HeapSame
  <2> QED
    BY <1>6, <1>10, <2>1
<1>16. Len(calls') = 1 /\ calls'[1] = calls[1] /\ ActShape(calls[1])
  <2>1. IsSeq(calls) /\ \A k \in DOMAIN calls : ActShape(calls[k])
    BY DEF Tracks, Control, ControlInv
  <2>2. 1 \in 0..Len(calls) /\ 1 \in DOMAIN calls
    BY <1>2, <2>1, SeqShape
  <2>3. Len(SubSeq(calls, 1, 1)) = 1 /\ \A k \in 1..1 : SubSeq(calls, 1, 1)[k] = calls[k]
    BY <2>1, <2>2, SeqPrefix
  <2> QED
    BY <1>3, <2>1, <2>2, <2>3
<1>17. PlaceOK(b, calls'[1], t)
  BY <1>8, <1>10 DEF PlaceOK
<1>18. \A x \in DOMAIN heap : x # o => PlaceOK(Body(x), Resume(Body(x), heap[x].state), S[x])
  BY <1>1, LandRests
<1>19. Resumes(S, A, R, o, t, N)
  <2>1. t.out = S[o].out /\ S[o].ended = 0 /\ t.ended = Error /\ thrown' = Error /\ Error # 0
    BY <1>1, <1>3, <1>5, <1>8, <1>10, Zenon
  <2>2. PlaceOK(Body(o), calls'[1], t) /\ calls'[1].obj = o /\ ActShape(calls'[1]) /\ Len(calls') = 1
    BY <1>1, <1>16, <1>17
  <2>3. UNCHANGED <<fixed, mains, got>> /\ result' = <<>>
    BY <1>2, <1>3
  <2> QED
    BY <1>2, <1>12, <1>14, <1>15, <1>18, <2>1, <2>2, <2>3 DEF Resumes
<1> QED
  BY <1>1, <1>2, <1>12, <1>19, ResumesKept

LEMMA ActLeft ==
  ASSUME NEW c, ActShape(c), NEW q, NEW h
  PROVE  [c EXCEPT !.head = h, !.pc = q] = [obj |-> c.obj, pc |-> q, head |-> h]
<1>1. PICK d : d = [c EXCEPT !.head = h]
  OBVIOUS
<1>2. d = [obj |-> c.obj, pc |-> c.pc, head |-> h]
  BY <1>1 DEF ActShape
<1>3. [d EXCEPT !.pc = q] = [obj |-> c.obj, pc |-> q, head |-> h]
  BY <1>2
<1>4. [c EXCEPT !.head = h, !.pc = q] = [d EXCEPT !.pc = q]
  BY <1>1, Zenon
<1> QED
  BY <1>3, <1>4

\* The end of the iterator is the end of the loop.
LEMMA LoopEnds ==
  ASSUME NEW S, NEW A, NEW O, NEW M, Tracks(S, A, O, M), Land, Top = 2, thrown = Stop, ControlInv'
  PROVE  \E R, N : Tracks(R, A, O, N)'
<1>1. PICK o, b, s, j : o = calls[1].obj /\ b = Body(o) /\ s = S[o] /\ j = calls[1].pc
  OBVIOUS
<1>2. /\ calls # <<>> /\ result = <<>> /\ Len(calls) = 2 /\ Last(frames) = frames[2] /\ frames[2].depth = 1
      /\ Len(frames') = 1 /\ frames'[1] = frames[1]
  <2>1. frames[Top].depth = Top - 1 /\ Top - 1 = 1 /\ Len(frames') = Top - 1
    BY LandIs
  <2> QED
    BY <2>1, LandIs
<1>3. PICK a : a = s.at[j]
  OBVIOUS
<1>4. /\ o \in DOMAIN heap /\ s.pc = j /\ j \in DOMAIN b /\ b[j].op \in Loops /\ s.ended = 0
      /\ a > 0 /\ a \in Nat /\ M \in Nat /\ frames[2].pc = j
      /\ \A m \in Nat : m >= M =>
           /\ a \notin DOMAIN InnerRuns(program, heap[o].gen, m)[s.arg[j]].out
           /\ InnerRuns(program, heap[o].gen, m)[s.arg[j]].ended = Stop
  <2>1. EndReached(S, o, j, M)
    <3>1. o = calls[1].obj /\ j = calls[1].pc
      BY <1>1
    <3> QED
      BY <3>1, InnerEnds
  <2> QED
    BY <1>1, <1>3, <2>1, Zenon DEF EndReached
<1>5. PICK v : v = IF b[j].op = "for" THEN EndOf(b, j) + 1 ELSE j + 1
  OBVIOUS
<1>6. PICK left : left = SubSeq(calls, 1, 1)
  OBVIOUS
<1>7. /\ calls' = [left EXCEPT ![1].head = FALSE, ![1].pc = v]
      /\ thrown' = 0 /\ UNCHANGED <<fixed, heap, mains, result, got>>
  <2>1. PICK f : f = Last(frames)
    OBVIOUS
  <2>2. f.depth = 1 /\ f.depth # 0 /\ f.pc = j
    BY <1>2, <1>4, <2>1
  <2>3. thrown' = 0 /\ UNCHANGED <<fixed, heap, mains, result, got>>
    BY <2>1, <2>2, Zenon DEF Land
  <2>4. calls' = [SubSeq(calls, 1, f.depth) EXCEPT ![f.depth].head = FALSE,
                    ![f.depth].pc = IF Body(calls[f.depth].obj)[f.pc].op = "for"
                                    THEN EndOf(Body(calls[f.depth].obj), f.pc) + 1 ELSE f.pc + 1]
    BY <2>1, <2>2, Zenon DEF Land
  <2>5. Body(calls[f.depth].obj) = b /\ SubSeq(calls, 1, f.depth) = left
    BY <1>1, <1>6, <2>2
  <2> QED
    BY <1>5, <2>2, <2>3, <2>4, <2>5, Zenon
<1>8. Len(left) = 1 /\ left[1] = calls[1] /\ ActShape(calls[1]) /\ IsSeq(left) /\ DOMAIN left = 1..1
  <2>1. IsSeq(calls) /\ \A k \in DOMAIN calls : ActShape(calls[k])
    BY DEF Tracks, Control, ControlInv
  <2>2. 1 \in 0..Len(calls) /\ 1 \in DOMAIN calls
    BY <1>2, <2>1, SeqShape
  <2>3. IsSeq(left) /\ Len(left) = 1 /\ \A k \in 1..1 : left[k] = calls[k]
    BY <1>6, <2>1, <2>2, SeqPrefix
  <2>4. DOMAIN left = 1..1
    BY <2>3, SeqShape
  <2> QED
    BY <2>1, <2>2, <2>3, <2>4
<1>9. calls'[1] = [obj |-> o, pc |-> v, head |-> FALSE] /\ Len(calls') = 1
  <2>1. PICK c : c = calls[1]
    OBVIOUS
  <2>2. 1 \in DOMAIN left
    BY <1>8
  <2>3. calls'[1] = [left[1] EXCEPT !.head = FALSE, !.pc = v]
    BY <1>7, <2>2
  <2>4. [c EXCEPT !.head = FALSE, !.pc = v] = [obj |-> c.obj, pc |-> v, head |-> FALSE]
    <3>1. ActShape(c)
      BY <1>8, <2>1
    <3> QED
      BY <3>1, ActLeft
  <2>5. calls' = [k \in DOMAIN left |-> calls'[k]]
    BY <1>7
  <2>6. Len(calls') = 1
    BY <1>8, <2>5, SeqChanged
  <2>7. left[1] = c /\ c.obj = o
    BY <1>1, <1>8, <2>1
  <2> QED
    BY <2>3, <2>4, <2>6, <2>7
<1>10. IsBody(b) /\ RunOK(b, s) /\ heap[o].env = s.env /\ s \in RunState(b)
  <2>1. o \in DOMAIN heap
    BY <1>4
  <2>2. IsBody(Body(o)) /\ RunOK(Body(o), S[o]) /\ heap[o].env = S[o].env
    BY <2>1, ObjectIs
  <2>3. IsBody(b) /\ RunOK(b, s) /\ heap[o].env = s.env
    BY <1>1, <2>2, Zenon
  <2> QED
    BY <2>3 DEF RunOK
<1>11. PICK w : w = [s.at EXCEPT ![j] = 0]
  OBVIOUS
<1>12. PICK t : t = State(v, s.env, s.out, s.ended, w, s.arg)
  OBVIOUS
<1>13. ASSUME NEW m \in Nat, m >= M
       PROVE  Statement(b, InnerRuns(program, heap[o].gen, m), s) = t
  <2>1. PICK inner : inner = InnerRuns(program, heap[o].gen, m)
    OBVIOUS
  <2>2. inner \in Inners
    BY <1>4, <2>1, InnerRunsOK
  <2>3. a \notin DOMAIN inner[s.arg[j]].out /\ inner[s.arg[j]].ended = Stop /\ a # 0
    BY <1>4, <1>13, <2>1
  <2>4. /\ s.pc \in DOMAIN b /\ b[s.pc].op \in Loops /\ s.at[s.pc] # 0
        /\ s.at[s.pc] \notin DOMAIN inner[s.arg[s.pc]].out /\ inner[s.arg[s.pc]].ended = Stop
    BY <1>3, <1>4, <2>3
  <2>5. Statement(b, inner, s) =
          State(IF b[s.pc].op = "for" THEN EndOf(b, s.pc) + 1 ELSE s.pc + 1,
                s.env, s.out, s.ended, [s.at EXCEPT ![s.pc] = 0], s.arg)
    BY <1>10, <2>2, <2>4, LoopStatementIs, Zenon
  <2> QED
    BY <1>4, <1>5, <1>11, <1>12, <2>1, <2>5
<1>14. t.pc = v /\ t.env = s.env /\ t.out = s.out /\ t.ended = 0 /\ t.at = w /\ t.arg = s.arg
  BY <1>4, <1>12, StateFields
<1>15. PICK N : N = M + 1
  OBVIOUS
<1>16. Reached(program, heap[o].gen, A[o], t, N) /\ N \in Nat /\ M <= N
  <2>1. S[o].ended = 0 /\ \A m \in Nat : m >= M =>
          Statement(Body(o), InnerRuns(program, heap[o].gen, m), S[o]) = t
    BY <1>1, <1>4, <1>13, Zenon
  <2> QED
    BY <1>4, <1>15, <2>1, OnReached
<1>17. PICK R : R = Changed(DOMAIN heap, S, o, t)
  OBVIOUS
<1>18. R[o] = t /\ \A x \in DOMAIN heap : x # o => R[x] = S[x]
  BY <1>17, OneDiffers
<1>19. HeapHas(o, t.env, heap[o].state)
  <2>1. HeapHas(o, heap[o].env, heap[o].state)
    BY <1>4, <1>7, HeapSame
  <2> QED
    BY <1>10, <1>14, <2>1
<1>20. s.at \in [DOMAIN b -> Nat]
  BY <1>10, RunStateIs
<1>21. t.at[j] = 0 /\ \A k \in DOMAIN b : k # j => t.at[k] = s.at[k]
  BY <1>4, <1>11, <1>14, <1>20
<1>22. PlaceOK(b, calls'[1], t)
  <2>1. t \in RunState(b)
    <3>1. RunOK(b, t)
      <4>1. ProgramOK(program) /\ Wrap \in Nat \ {0} /\ heap[o].gen \in Gens /\ A[o] \in Num
            /\ b = program[heap[o].gen]
        BY <1>1, <1>4, ProgramIs, ObjectIs, Zenon DEF Tracks, Promise
      <4> QED
        BY <1>16, <4>1, ReachedOK
    <3> QED
      BY <3>1 DEF RunOK
  <2>2. s.pc < t.pc /\ t.pc # j /\ j \in Nat /\ v \in Nat /\ ~(v < j)
    <3>1. Len(b) \in Nat /\ DOMAIN b = 1..Len(b)
      BY <1>10, BodyIs
    <3>2. b[j].op = "for" => EndOf(b, j) \in (j + 1)..Len(b)
      BY <1>4, <1>10, ForIs
    <3>3. v \in Nat /\ j < v
      BY <1>4, <1>5, <3>1, <3>2
    <3> QED
      BY <1>4, <1>14, <3>1, <3>3
  <2>3. t.pc \in DOMAIN b => t.at[t.pc] = s.at[t.pc]
    BY <1>21, <2>2
  <2>4. PlaceOK(b, [obj |-> o, pc |-> t.pc, head |-> t.pc \in ForSites(b) /\ t.pc < s.pc], t)
    BY <1>4, <1>10, <1>14, <2>1, <2>2, <2>3, PlaceAhead
  <2>5. (t.pc \in ForSites(b) /\ t.pc < s.pc) = FALSE
    BY <1>4, <1>14, <2>2
  <2>6. calls'[1] = [obj |-> o, pc |-> t.pc, head |-> t.pc \in ForSites(b) /\ t.pc < s.pc]
    BY <1>9, <1>14, <2>5
  <2> QED
    BY <2>4, <2>6, Zenon
<1>23. \A k \in DOMAIN b : t.at[k] > 0 =>
         /\ s.at[k] > 0 /\ s.at[k] \in Nat /\ t.arg[k] = s.arg[k]
         /\ t.at[k] = s.at[k] + (IF Handed(o, k) THEN 1 ELSE 0)
  <2>1. ASSUME NEW k \in DOMAIN b, k # j
        PROVE  ~Handed(o, k) /\ s.at[k] \in Nat /\ s.at[k] = s.at[k] + 0 /\ t.at[k] = s.at[k]
    BY <1>2, <1>20, <1>21, <2>1 DEF Handed
  <2> QED
    BY <1>14, <1>21, <2>1
<1>24. \A x \in DOMAIN heap : x # o => PlaceOK(Body(x), Resume(Body(x), heap[x].state), S[x])
  BY <1>1, LandRests
<1>25. Resumes(S, A, R, o, t, N)
  <2>1. t.out = S[o].out /\ S[o].ended = 0 /\ t.ended = 0 /\ thrown' = 0 /\ thrown # Error
    <3>1. Stop # Error
      BY DEF Stop, Error
    <3> QED
      BY <1>1, <1>4, <1>7, <1>14, <3>1, Zenon
  <2>2. \A k \in DOMAIN Body(o) : t.at[k] > 0 =>
          /\ S[o].at[k] > 0 /\ S[o].at[k] \in Nat /\ t.arg[k] = S[o].arg[k]
          /\ t.at[k] = S[o].at[k] + (IF Handed(o, k) THEN 1 ELSE 0)
    BY <1>1, <1>23
  <2>3. PlaceOK(Body(o), calls'[1], t) /\ calls'[1].obj = o /\ ActShape(calls'[1]) /\ Len(calls') = 1
    BY <1>1, <1>9, <1>22 DEF ActShape
  <2>4. UNCHANGED <<fixed, mains, got>> /\ result' = <<>>
    BY <1>2, <1>7
  <2> QED
    BY <1>2, <1>16, <1>18, <1>19, <1>24, <2>1, <2>2, <2>3, <2>4 DEF Resumes
<1> QED
  BY <1>1, <1>2, <1>16, <1>25, ResumesKept

LEMMA LandTracks ==
  ASSUME NEW S, NEW A, NEW O, NEW M, Tracks(S, A, O, M), Land, ControlInv'
  PROVE  \E R, N : Tracks(R, A, O, N)'
<1>1. Top = 1 \/ Top = 2
  BY LandIs
<1> QED
  BY <1>1, LandOuter, LoopEnds, ThrownOn

-----------------------------------------------------------------------------
\* The invariant: Python's runs are ahead of, and behind, everything there is.
Tracked == \E S, A, O, M : Tracks(S, A, O, M)

LEMMA TrackedInit == GenInit => Tracked
<1> SUFFICES ASSUME GenInit PROVE Tracks(<<>>, <<>>, <<>>, 0)
  BY DEF Tracked
<1>1. /\ heap = <<>> /\ mains = <<>> /\ got = <<>> /\ calls = <<>> /\ result = <<>> /\ frames = <<>>
      /\ thrown = 0 /\ Promise
  BY DEF GenInit, Promise
<1>2. IsSeq(<<>>) /\ Len(<<>>) = 0 /\ DOMAIN <<>> = {}
  <2>1. <<>> \in Seq({})
    BY EmptySeq
  <2> QED
    BY <2>1, LenProperties DEF IsSeq
<1>3. ControlInv
  BY ControlInit
<1>4. Objects(<<>>, <<>>, 0)
  BY <1>1, <1>2 DEF Objects
<1>5. LoopsOK(<<>>, <<>>, <<>>)
  BY <1>1, <1>2 DEF LoopsOK
<1>6. 0 <= MaxMain
  BY GeneratorAssumption
<1>7. Mains(<<>>, <<>>, <<>>)
  BY <1>1, <1>2, <1>6 DEF Mains
<1>8. Control(<<>>)
  <2>1. thrown # Stop
    BY <1>1 DEF Stop
  <2>2. Len(frames) = 0 /\ Len(calls) = 0 /\ DOMAIN calls = {}
    BY <1>1, <1>2
  <2> QED
    BY <1>1, <1>3, <2>1, <2>2 DEF Control
<1> QED
  BY <1>1, <1>4, <1>5, <1>7, <1>8 DEF Tracks

LEMMA TracksStill ==
  ASSUME NEW S, NEW A, NEW O, NEW M, Tracks(S, A, O, M), UNCHANGED genVars
  PROVE  Tracks(S, A, O, M)'
<1>1. UNCHANGED <<program, promised, heap, mains, got, calls, result, frames, thrown>>
  BY DEF genVars
<1>2. Promise'
  BY <1>1 DEF Tracks, Promise
<1>3. Me' = Me /\ Top' = Top /\ \A o : Body(o)' = Body(o)
  BY <1>1 DEF Me, Top, Body
<1>4. \A o, j : Iterator(o, j)' = Iterator(o, j) /\ (Handed(o, j)' <=> Handed(o, j))
  BY <1>1, <1>3 DEF Iterator, Handed
<1>5. \A o : Spot(o)' = Spot(o)
  BY <1>1, <1>3 DEF Spot
<1>6. \A k : (Busy(k)' <=> Busy(k)) /\ (Waits(k)' <=> Waits(k))
  BY <1>1 DEF Busy, Waits
<1>7. \A o : ObjectOK(S, A, M, o) => ObjectOK(S, A, M, o)'
  BY <1>1, <1>3, <1>5 DEF ObjectOK
<1>8. Objects(S, A, M)'
  BY <1>1, <1>7 DEF Tracks, Objects
<1>9. \A o, j : LoopOK(S, A, O, o, j) => LoopOK(S, A, O, o, j)'
  BY <1>1, <1>3, <1>4 DEF LoopOK
<1>10. LoopsOK(S, A, O)'
  BY <1>1, <1>3, <1>9 DEF Tracks, LoopsOK
<1>11. \A k : MainOK(S, A, k) => MainOK(S, A, k)'
  BY <1>1, <1>6 DEF MainOK
<1>12. Mains(S, A, O)'
  BY <1>1, <1>11 DEF Tracks, Mains
<1>13. ControlInv'
  <2>1. ControlInv
    BY DEF Tracks, Control
  <2> QED
    BY <1>1, <2>1 DEF ControlInv, FramesMatchCalls
<1>14. Control(S)'
  BY <1>1, <1>3, <1>4, <1>13 DEF Tracks, Control
<1> QED
  BY <1>2, <1>8, <1>10, <1>12, <1>14 DEF Tracks

LEMMA TrackedStep == Tracked /\ [GenNext]_genVars => Tracked'
<1> SUFFICES ASSUME Tracked, [GenNext]_genVars PROVE Tracked'
  OBVIOUS
<1>1. PICK S, A, O, M : Tracks(S, A, O, M)
  BY DEF Tracked
<1>2. ControlInv'
  <2>1. ControlInv
    BY <1>1 DEF Tracks, Control
  <2> QED
    BY <2>1, ControlStep
<1>3. CASE UNCHANGED genVars
  BY <1>1, <1>3, TracksStill DEF Tracked
<1>4. CASE Make
  BY <1>1, <1>2, <1>4, MakeKept DEF Tracked
<1>5. CASE TakeResult
  BY <1>1, <1>2, <1>5, TakeResultKept DEF Tracked
<1>6. ASSUME NEW k \in DOMAIN mains, NextOf(k) PROVE Tracked'
  BY <1>1, <1>2, <1>6, NextOfKept DEF Tracked
<1>7. CASE Assign
  BY <1>1, <1>2, <1>7, AssignKept DEF Tracked
<1>8. CASE Branch
  BY <1>1, <1>2, <1>8, BranchKept DEF Tracked
<1>9. CASE Yield
  BY <1>1, <1>2, <1>9, YieldKept DEF Tracked
<1>10. CASE StartLoop
  BY <1>1, <1>2, <1>10, StartLoopKept DEF Tracked
<1>11. CASE Pull
  BY <1>1, <1>2, <1>11, PullKept DEF Tracked
<1>12. CASE TakeValue
  BY <1>1, <1>2, <1>12, TakeValueKept DEF Tracked
<1>13. CASE Finish
  BY <1>1, <1>2, <1>13, FinishKept DEF Tracked
<1>14. CASE Raise
  BY <1>1, <1>2, <1>14, RaiseKept DEF Tracked
<1>15. CASE Land
  BY <1>1, <1>2, <1>15, LandTracks DEF Tracked
<1> QED
  BY <1>3, <1>4, <1>5, <1>6, <1>7, <1>8, <1>9, <1>10, <1>11, <1>12, <1>13, <1>14, <1>15 DEF GenNext

\* What the module has got for the object k, from a run of Python's that is
\* long enough; Len(got[k]) is how many it asked for.
RunFor(k, m) == YieldsOf(program.outer, program.inner, k - 1, m)
InTheEnd(k) == \E M \in Nat : \A m \in Nat : m >= M =>
                 \A n \in DOMAIN got[k] : got[k][n] = Answer(RunFor(k, m), n)

LEMMA TrackedDelivers == Tracked => \A k \in DOMAIN mains : InTheEnd(k)
<1> SUFFICES ASSUME Tracked, NEW k \in DOMAIN mains PROVE InTheEnd(k)
  OBVIOUS
<1>1. PICK S, A, O, M : Tracks(S, A, O, M)
  BY DEF Tracked
<1>2. PICK o, s, g : o = mains[k] /\ s = S[o] /\ g = Len(got[k])
  OBVIOUS
<1>3. /\ o \in DOMAIN heap /\ heap[o].gen = "outer" /\ A[o] = k - 1 /\ IsSeq(got[k])
      /\ s.ended = 0 => Len(s.out) = IF Waits(k) THEN g + 1 ELSE g
      /\ \A n \in DOMAIN got[k] : got[k][n] = Answer(s, n)
  BY <1>1, <1>2 DEF Tracks, Mains, MainOK
<1>4. DOMAIN got[k] = 1..g /\ g \in Nat
  BY <1>2, <1>3, SeqShape
<1>5. /\ M \in Nat /\ A[o] \in Num /\ Reached(program, "outer", A[o], s, M) /\ RunOK(Body(o), s)
  BY <1>1, <1>2, <1>3, ObjectIs
<1>6. ProgramOK(program) /\ Wrap \in Nat \ {0} /\ "outer" \in Gens
  BY <1>1, ProgramIs DEF Tracks, Promise, Gens
<1>7. Len(s.out) \in Nat /\ s.ended \in {0, Stop, Error}
  <2>1. s.out \in Seq(Num) /\ s.ended \in {0, Stop, Error}
    BY <1>5, RunStateIs DEF RunOK
  <2> QED
    BY <2>1, LenProperties
<1>8. ASSUME NEW m \in Nat, m >= M, NEW n \in DOMAIN got[k]
      PROVE  got[k][n] = Answer(RunFor(k, m), n)
  <2>1. PICK z : z = RunTo(program, "outer", A[o], m, m)
    OBVIOUS
  <2>2. RunFor(k, m).out = z.out /\ RunFor(k, m).ended = z.ended
    BY <1>3, <2>1 DEF RunFor, YieldsOf, Yields, RunTo, InnerRuns
  <2>3. Begins(s.out, z.out) /\ (s.ended # 0 => z = s)
    <3>1. PICK p, gen : p = A[o] /\ gen = "outer"
      OBVIOUS
    <3>2. gen \in Gens /\ p \in Num /\ Reached(program, gen, p, s, M)
      BY <1>5, <1>6, <3>1
    <3>3. /\ Begins(s.out, RunTo(program, gen, p, m, m).out)
          /\ s.ended # 0 => RunTo(program, gen, p, m, m) = s
      BY <1>5, <1>6, <1>8, <3>2, ReachedAnswers
    <3> QED
      BY <2>1, <3>1, <3>3
  <2>4. Answer(s, n) = Answer(z, n)
    <3>1. CASE s.ended # 0
      BY <2>3, <3>1
    <3>2. CASE s.ended = 0
      <4>1. n \in 1..Len(s.out)
        BY <1>3, <1>4, <1>7, <3>2
      <4>2. n <= Len(s.out) /\ n <= Len(z.out) /\ z.out[n] = s.out[n]
        <5>1. Len(z.out) \in Nat
          <6>1. RunOK(program["outer"], z)
            <7>1. IsBody(program["outer"]) /\ InnerRuns(program, "outer", m) \in Inners
              BY <1>6, BodiesOK, InnersOK
            <7> QED
              BY <1>5, <1>6, <2>1, <7>1, RunTyped DEF RunTo
          <6>2. z.out \in Seq(Num)
            BY <6>1, RunStateIs DEF RunOK
          <6> QED
            BY <6>2, LenProperties
        <5> QED
          BY <1>7, <2>3, <4>1, <5>1 DEF Begins
      <4> QED
        BY <4>2 DEF Answer
    <3> QED
      BY <3>1, <3>2
  <2>5. Answer(RunFor(k, m), n) = Answer(z, n)
    BY <2>2 DEF Answer
  <2> QED
    BY <1>3, <2>4, <2>5
<1> QED
  BY <1>5, <1>8 DEF InTheEnd

\* The calls of next on a generator give the values that a run of its body in
\* Python gives, if the run is long enough: for each object and whatever was
\* called between, there is a length from which on every run agrees with all
\* that the module has got (emitGeneratorNext, emitYieldStmt, emitForIterator).
THEOREM GeneratorsDeliver == GenSpec => [](\A k \in DOMAIN mains : InTheEnd(k))
<1>1. GenSpec => []Tracked
  BY TrackedInit, TrackedStep, PTL DEF GenSpec
<1> QED
  BY <1>1, TrackedDelivers, PTL

\* Fuel statements are enough: what next is asked for is not answered
\* differently by a longer run.
FuelSuffices ==
  \A pr \in Programs, p \in 0..(MaxMain - 1), m \in Nat : m >= Fuel =>
    \A n \in 1..MaxNext : Answer(YieldsOf(pr.outer, pr.inner, p, m), n)
                            = Answer(YieldsOf(pr.outer, pr.inner, p, Fuel), n)

\* The same of the run the specification compares with, of Fuel statements: the
\* calls of next give the values of Python's generator, in order, and then its
\* error, or StopIteration for ever.
THEOREM GeneratorsAsPython ==
  ASSUME FuelSuffices
  PROVE  GenSpec => []DeliversAsPython
<1>1. GenSpec => []Tracked
  BY TrackedInit, TrackedStep, PTL DEF GenSpec
<1>2. Tracked => DeliversAsPython
  <2> SUFFICES ASSUME Tracked, NEW k \in DOMAIN mains, NEW n \in DOMAIN got[k]
               PROVE  got[k][n] = Answer(promised[k - 1], n)
    BY DEF DeliversAsPython
  <2>1. PICK S, A, O, M : Tracks(S, A, O, M)
    BY DEF Tracked
  <2>2. /\ program \in Programs /\ IsSeq(mains) /\ Len(mains) <= MaxMain
        /\ promised = [p \in 0..(MaxMain - 1) |-> YieldsOf(program.outer, program.inner, p, Fuel)]
    BY <2>1 DEF Tracks, Promise, Mains
  <2>3. IsSeq(got[k]) /\ Len(got[k]) <= MaxNext
    BY <2>1 DEF Tracks, Mains, MainOK
  <2>4. k \in 1..Len(mains) /\ Len(mains) \in Nat /\ n \in 1..Len(got[k]) /\ Len(got[k]) \in Nat
    BY <2>2, <2>3, SeqShape
  <2>5. MaxMain \in Nat /\ MaxNext \in Nat /\ Fuel \in Nat
    BY GeneratorAssumption
  <2>6. k - 1 \in 0..(MaxMain - 1) /\ n \in 1..MaxNext
    BY <2>2, <2>3, <2>4, <2>5
  <2>7. promised[k - 1] = RunFor(k, Fuel)
    BY <2>2, <2>6 DEF RunFor
  <2>8. PICK L \in Nat : \A m \in Nat : m >= L =>
          \A j \in DOMAIN got[k] : got[k][j] = Answer(RunFor(k, m), j)
    BY TrackedDelivers DEF InTheEnd
  <2>9. PICK m \in Nat : m >= L /\ m >= Fuel
    <3>1. L + Fuel \in Nat /\ L + Fuel >= L /\ L + Fuel >= Fuel
      BY <2>5, <2>8
    <3> QED
      BY <3>1
  <2>10. got[k][n] = Answer(RunFor(k, m), n)
    BY <2>8, <2>9
  <2>11. Answer(RunFor(k, m), n) = Answer(RunFor(k, Fuel), n)
    BY <2>2, <2>6, <2>9 DEF FuelSuffices, RunFor
  <2> QED
    BY <2>7, <2>10, <2>11
<1> QED
  BY <1>1, <1>2, PTL
=============================================================================
