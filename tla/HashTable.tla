----------------------------- MODULE HashTable -----------------------------
(***************************************************************************)
(* SpyMap and SpySet of runtime/runtime.c: open addressing with linear     *)
(* probing, growth by re-insertion into a table of twice the size, and a   *)
(* discard without tombstones that re-inserts the rest of the probe run.   *)
(* A set is a table whose entries all have the same value.                 *)
(*                                                                         *)
(* Growth and discard are taken apart into their re-insertions, because    *)
(* what goes wrong in a table goes wrong between two of them.              *)
(***************************************************************************)
EXTENDS Integers, FiniteSets

CONSTANTS Key, Val,
          Empty,      \* the content of a slot that is not occupied
          Hashes,     \* the values map_hash and set_hash take
          InitCap     \* MAP_INIT_CAP

Entry == [key : Key, val : Val]

ASSUME HashTableAssumption ==
  /\ Val # {} /\ Empty \notin Entry
  /\ Hashes \subseteq Nat
  /\ InitCap \in Nat /\ InitCap >= 2

VARIABLES kind,    \* "map" or "set"
          hash,    \* the hash of each key
          slots, cap, len,
          op,      \* "idle", or the loop the table is in: "grow", "discard"
          old,     \* old_entries, in "grow"
          i,       \* the index of that loop
          arg      \* the entry to be put after growth, or taken out

vars == <<kind, hash, slots, cap, len, op, old, i, arg>>

-----------------------------------------------------------------------------
Pos == 0 .. cap - 1

Home(k) == hash[k] % cap

\* The slot of the n-th probe from slot a: (a + n) % cap.
Probe(a, n) == IF a + n < cap THEN a + n ELSE a + n - cap

\* How many probes lead from slot a to slot b.
Dist(a, b) == IF a <= b THEN b - a ELSE b - a + cap

\* The slots where the search for k in table t can end.
Stops(t, k) == {p \in Pos : t[p] = Empty \/ t[p].key = k}

\* Where it ends.
StopSlot(t, k) == CHOOSE p \in Stops(t, k) :
                \A s \in Stops(t, k) : Dist(Home(k), p) <= Dist(Home(k), s)

Found(k) == Stops(slots, k) # {} /\ slots[StopSlot(slots, k)] # Empty

\* The load factor: (len + 1) / cap > 0.75.
Full(n) == 4 * (n + 1) > 3 * cap

\* The probe loop of spy_map_set and spy_set_add on table t of n entries.
Insert(t, n, e) ==
  LET p == StopSlot(t, e.key) IN
    IF Stops(t, e.key) = {}
    THEN slots' = t /\ len' = n
    ELSE /\ slots' = [t EXCEPT ![p] = e]
         /\ len' = IF t[p] = Empty THEN n + 1 ELSE n

Idle == op = "idle"

Rest == /\ op' = "idle" /\ old' = <<>> /\ i' = 0 /\ arg' = Empty

-----------------------------------------------------------------------------
\* spy_map_new, spy_set_new.
Init == /\ kind \in {"map", "set"}
        /\ hash \in [Key -> Hashes]
        /\ cap = InitCap /\ len = 0
        /\ slots = [p \in Pos |-> Empty]
        /\ op = "idle" /\ old = <<>> /\ i = 0 /\ arg = Empty

\* Mutant: the table never grows.
PutFull(e) == /\ Idle
              /\ Insert(slots, len, e)
              /\ UNCHANGED <<kind, hash, cap, op, old, i, arg>>

\* spy_map_set(k, v), spy_set_add(k) below the load factor.
Put(e) == /\ Idle /\ ~Full(len)
          /\ Insert(slots, len, e)
          /\ UNCHANGED <<kind, hash, cap, op, old, i, arg>>

\* Mutant: the loop over the old entries begins at 1.
GrowSkipsFirst(e) == /\ Idle /\ Full(len)
                     /\ cap' = 2 * cap
                     /\ slots' = [p \in 0 .. 2 * cap - 1 |-> Empty]
                     /\ len' = 0
                     /\ op' = "grow" /\ old' = slots /\ i' = 1 /\ arg' = e
                     /\ UNCHANGED <<kind, hash>>

\* At the load factor they call map_resize, set_resize first, also when the key
\* is there already.
Grow(e) == /\ Idle /\ Full(len)
           /\ cap' = 2 * cap
           /\ slots' = [p \in 0 .. 2 * cap - 1 |-> Empty]
           /\ len' = 0
           /\ op' = "grow" /\ old' = slots /\ i' = 0 /\ arg' = e
           /\ UNCHANGED <<kind, hash>>

\* One turn of the loop in map_resize, set_resize.
Move == /\ op = "grow" /\ i \in DOMAIN old
        /\ IF old[i] = Empty THEN UNCHANGED <<slots, len>>
                             ELSE Insert(slots, len, old[i])
        /\ i' = i + 1
        /\ UNCHANGED <<kind, hash, cap, op, old, arg>>

\* The probe loop that growth had put off.
PutAfterGrow == /\ op = "grow" /\ i \notin DOMAIN old
                /\ Insert(slots, len, arg)
                /\ Rest
                /\ UNCHANGED <<kind, hash, cap>>

\* spy_set_discard up to its inner loop.
Discard(k) == /\ Idle /\ kind = "set" /\ Found(k)
              /\ LET p == StopSlot(slots, k) IN
                   /\ slots' = [slots EXCEPT ![p] = Empty]
                   /\ i' = Dist(Home(k), p) + 1
                   /\ arg' = slots[p]
              /\ len' = len - 1
              /\ op' = "discard"
              /\ UNCHANGED <<kind, hash, cap, old>>

next == Probe(Home(arg.key), i)

\* Mutant: the rest of the run stays where it is, as the comment on discard says.
Leave == /\ op = "discard" /\ i < cap /\ slots[next] # Empty
         /\ i' = i + 1
         /\ UNCHANGED <<kind, hash, slots, cap, len, op, old, arg>>

\* One turn of the inner loop: take out the entry and add it again.
Reinsert == /\ op = "discard" /\ i < cap /\ slots[next] # Empty
            /\ Insert([slots EXCEPT ![next] = Empty], len - 1, slots[next])
            /\ i' = i + 1
            /\ UNCHANGED <<kind, hash, cap, op, old, arg>>

DiscardEnd == /\ op = "discard" /\ (i >= cap \/ slots[next] = Empty)
              /\ Rest
              /\ UNCHANGED <<kind, hash, slots, cap, len>>

\* spy_map_clear.
Clear == /\ Idle /\ kind = "map"
         /\ slots' = [p \in Pos |-> Empty] /\ len' = 0
         /\ UNCHANGED <<kind, hash, cap, op, old, i, arg>>

\* spy_map_set and spy_set_add, called by the program.
Call(e) == Put(e) \/ Grow(e)

Inner == Move \/ PutAfterGrow \/ Reinsert \/ DiscardEnd

\* A set has one value.
Values == IF kind = "map" THEN Val ELSE {CHOOSE v \in Val : TRUE}

Next == \/ \E k \in Key, v \in Values : Call([key |-> k, val |-> v])
        \/ \E k \in Key : Discard(k)
        \/ Clear \/ Inner

Spec == Init /\ [][Next]_vars

-----------------------------------------------------------------------------
Occupied == {p \in Pos : slots[p] # Empty}

\* The entries the table stands for, those growth has still to move included.
Content == ({slots[p] : p \in Pos} \cup {old[j] : j \in {n \in DOMAIN old : n >= i}}) \ {Empty}

TypeOK == /\ kind \in {"map", "set"}
          /\ hash \in [Key -> Hashes]
          /\ cap \in Nat /\ cap >= 2
          /\ slots \in [Pos -> Entry \cup {Empty}]
          /\ len = Cardinality(Occupied)
          /\ op \in {"idle", "grow", "discard"}
          /\ i \in Nat
          /\ arg \in Entry \cup {Empty}

\* spy_map_get, spy_map_contains, spy_set_contains and the len of the table: a
\* key is found exactly when it was put and not taken out since, with its last
\* value; no probe run is cut, and none is without end.
LookupIsExact ==
  Idle => \A k \in Key :
    /\ Stops(slots, k) # {}
    /\ {e \in Content : e.key = k} = {slots[StopSlot(slots, k)]} \ {Empty}

\* A slot stays free for every insertion, and no insertion made by growth or by
\* discard can start a growth of its own, which would pull the table away from
\* under the loop.
NeverFull == /\ len < cap
             /\ op = "grow" /\ i \in DOMAIN old => ~Full(len)
             /\ op = "discard" => ~Full(len)
             /\ op # "idle" => Stops(slots, arg.key) # {}

Store == INSTANCE KeyValueStore
           WITH store   <- Content,
                pending <- IF op = "grow" THEN {arg} ELSE {},
                leaving <- op = "discard"

\* The table implements the store: re-insertions change nothing, and every call
\* changes the entry of its key, once, and no other.
IsStore == Store!Spec
=============================================================================
