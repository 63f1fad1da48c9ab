----------------------------- MODULE ListsProofs -----------------------------
(***************************************************************************)
(* Whatever a program does to a list while a loop, an extend or a sort     *)
(* with a key works on it: what is read of a block lies in it and has been *)
(* written.  For lists of any length and any nest of loops and sorts.      *)
(*                                                                         *)
(* No operation makes a block smaller or a written cell unwritten          *)
(* (Keeps).  So the first cells of a list, which a sort has counted before *)
(* the first call of its key function, stay readable whatever the calls    *)
(* do; the length may well have become smaller.                            *)
(*                                                                         *)
(* And for a program that keeps to what is promised, every step is one of  *)
(* PyLists.  A block is seen as the sequence of its elements (Own), and    *)
(* each operation on blocks as Python's on sequences (the lemmas Own...).  *)
(* An extend is seen at once, though it takes a turn for each element: the *)
(* rest of the source counts as there already.  That needs an invariant of *)
(* how lists are used (UseOK): while a list is sorted its length stays     *)
(* what it was, and the source of an extend is another list that nothing   *)
(* changes, for an extend is always the innermost of what goes on.         *)
(***************************************************************************)
EXTENDS Lists, SequenceTheorems, FiniteSetTheorems, FunctionTheorems, WellFoundedInduction, TLAPS

\* The block r, in the place of o, holds what has been written in o.
Keeps(o, r) == /\ o.cap <= r.cap
               /\ \A c \in 0 .. o.cap - 1 : o.data[c] \in Value => r.data[c] \in Value

-----------------------------------------------------------------------------
\* A record is given by its fields.
LEMMA Block ==
  ASSUME NEW len \in Nat, NEW cap \in Nat, NEW data \in [0 .. cap - 1 -> Value \cup {Junk}],
         len <= cap, \A c \in 0 .. len - 1 : data[c] \in Value
  PROVE  BlockOK([len |-> len, cap |-> cap, data |-> data])
BY DEF BlockOK, Written

LEMMA Fields ==
  ASSUME NEW o, BlockOK(o)
  PROVE  /\ o.len \in Nat /\ o.cap \in Nat /\ o.len <= o.cap
         /\ o.data \in [0 .. o.cap - 1 -> Value \cup {Junk}]
         /\ \A c \in 0 .. o.len - 1 : o.data[c] \in Value
         /\ o = [len |-> o.len, cap |-> o.cap, data |-> o.data]
         /\ DOMAIN o.data = 0 .. o.cap - 1
BY DEF BlockOK, Written

LEMMA KeepsWritten ==
  ASSUME NEW o, NEW r, NEW n \in Nat, BlockOK(o), BlockOK(r), Keeps(o, r), Written(o, n)
  PROVE  Written(r, n)
BY DEF BlockOK, Keeps, Written

LEMMA NewOK == BlockOK(spy_list_new) /\ BlockOK(Nothing) /\ spy_list_new.cap > 0
<1>1. InitCap \in Nat /\ InitCap > 0 BY ListAssumption
<1>2. BlockOK(spy_list_new) BY <1>1, Block DEF spy_list_new
<1>3. /\ Nothing.len = 0 /\ Nothing.cap = 0 /\ Nothing.data \in [0 .. -1 -> Value \cup {Junk}]
  BY DEF Nothing
<1>4. BlockOK(Nothing) BY <1>3 DEF BlockOK, Written, Nothing
<1> QED BY <1>1, <1>2, <1>4 DEF spy_list_new

\* There is room behind the end.
LEMMA RoomyOK ==
  ASSUME NEW o, BlockOK(o), o.cap > 0
  PROVE  /\ BlockOK(Roomy(o)) /\ Keeps(o, Roomy(o))
         /\ Roomy(o).len = o.len /\ o.len < Roomy(o).cap
<1>1. CASE o.len < o.cap
  <2>1. Roomy(o) = o BY <1>1 DEF Roomy
  <2>2. o.cap \in Nat BY Fields
  <2> QED BY <1>1, <2>1, <2>2 DEF Keeps
<1>2. CASE ~(o.len < o.cap)
  <2> DEFINE cells == [c \in 0 .. 2 * o.cap - 1 |-> IF c < o.cap THEN o.data[c] ELSE Junk]
  <2>1. /\ o.len \in Nat /\ o.cap \in Nat /\ o.len = o.cap
        /\ o.data \in [0 .. o.cap - 1 -> Value \cup {Junk}]
        /\ \A c \in 0 .. o.len - 1 : o.data[c] \in Value
    BY <1>2, Fields
  <2>2. Roomy(o) = [len |-> o.len, cap |-> 2 * o.cap, data |-> cells]
    BY <1>2 DEF Roomy, BlockOK
  <2>3. /\ cells \in [0 .. 2 * o.cap - 1 -> Value \cup {Junk}]
        /\ \A c \in 0 .. o.cap - 1 : cells[c] = o.data[c]
    BY <2>1
  <2> HIDE DEF cells
  <2>4. 2 * o.cap \in Nat /\ o.len <= 2 * o.cap BY <2>1
  <2>7. \A c \in 0 .. o.len - 1 : cells[c] \in Value BY <2>1, <2>3
  <2>5. BlockOK([len |-> o.len, cap |-> 2 * o.cap, data |-> cells]) BY <2>1, <2>3, <2>4, <2>7, Block
  <2>6. Keeps(o, [len |-> o.len, cap |-> 2 * o.cap, data |-> cells]) BY <2>1, <2>3 DEF Keeps
  <2> QED BY <2>1, <2>2, <2>5, <2>6
<1> QED BY <1>1, <1>2

LEMMA KeepsOn ==
  ASSUME NEW o, NEW r, NEW a, BlockOK(o), BlockOK(r), BlockOK(a), Keeps(o, r), Keeps(r, a)
  PROVE  Keeps(o, a)
BY Fields DEF Keeps

\* One more element, in a block with room for it.
LEMMA LongerOK ==
  ASSUME NEW r, BlockOK(r), r.len < r.cap,
         NEW cells \in [0 .. r.cap - 1 -> Value \cup {Junk}],
         \A c \in 0 .. r.len : cells[c] \in Value,
         \A c \in 0 .. r.cap - 1 : r.data[c] \in Value => cells[c] \in Value
  PROVE  LET a == [r EXCEPT !.len = r.len + 1, !.data = cells]
         IN  BlockOK(a) /\ Keeps(r, a)
<1> DEFINE a == [r EXCEPT !.len = r.len + 1, !.data = cells]
<1>1. /\ r = [len |-> r.len, cap |-> r.cap, data |-> r.data]
      /\ r.len \in Nat /\ r.cap \in Nat
  BY Fields
<1>2. a = [len |-> r.len + 1, cap |-> r.cap, data |-> cells]
  <2> DEFINE b == [r EXCEPT !.len = r.len + 1, !.data = cells]
  <2>1. b = [r EXCEPT !.len = r.len + 1, !.data = cells] OBVIOUS
  <2> HIDE DEF b
  <2>2. b = [len |-> r.len + 1, cap |-> r.cap, data |-> cells] BY <1>1, <2>1
  <2> QED BY <2>2 DEF b
<1>3. r.len + 1 \in Nat /\ r.len + 1 <= r.cap /\ \A c \in 0 .. r.len + 1 - 1 : cells[c] \in Value
  BY <1>1
<1> HIDE DEF a
<1>4. BlockOK(a) BY <1>1, <1>2, <1>3, Block
<1>5. Keeps(r, a) BY <1>1, <1>2 DEF Keeps
<1> QED BY <1>4, <1>5 DEF a

LEMMA AppendOK ==
  ASSUME NEW o, NEW v \in Value, BlockOK(o), o.cap > 0
  PROVE  BlockOK(spy_list_append(o, v)) /\ Keeps(o, spy_list_append(o, v))
<1> DEFINE r == Roomy(o)
           cells == [r.data EXCEPT ![r.len] = v]
           a == [r EXCEPT !.len = r.len + 1, !.data = cells]
<1>1. spy_list_append(o, v) = a BY DEF spy_list_append
<1>2. BlockOK(r) /\ Keeps(o, r) /\ r.len = o.len /\ o.len < r.cap BY RoomyOK
<1> HIDE DEF r
<1>3. /\ r.len \in Nat /\ r.cap \in Nat /\ r.data \in [0 .. r.cap - 1 -> Value \cup {Junk}]
      /\ \A c \in 0 .. r.len - 1 : r.data[c] \in Value
  BY <1>2, Fields
<1>4. /\ cells \in [0 .. r.cap - 1 -> Value \cup {Junk}]
      /\ \A c \in 0 .. r.len : cells[c] \in Value
      /\ \A c \in 0 .. r.cap - 1 : r.data[c] \in Value => cells[c] \in Value
  BY <1>2, <1>3
<1> HIDE DEF cells
<1>5. BlockOK(a) /\ Keeps(r, a) BY <1>2, <1>4, LongerOK
<1> QED BY <1>1, <1>2, <1>5, KeepsOn

LEMMA InsertOK ==
  ASSUME NEW o, NEW v \in Value, NEW i \in Nat, BlockOK(o), o.cap > 0
  PROVE  BlockOK(spy_list_insert(o, i, v)) /\ Keeps(o, spy_list_insert(o, i, v))
<1> DEFINE r == Roomy(o)
           at == IF i < 0 THEN 0 ELSE IF i > o.len THEN o.len ELSE i
           cells == [c \in DOMAIN r.data |-> CASE c = at -> v
                                                [] c > at /\ c <= o.len -> r.data[c - 1]
                                                [] OTHER -> r.data[c]]
           a == [r EXCEPT !.len = r.len + 1, !.data = cells]
<1>1. spy_list_insert(o, i, v) = a BY DEF spy_list_insert
<1>2. BlockOK(r) /\ Keeps(o, r) /\ r.len = o.len /\ o.len < r.cap BY RoomyOK
<1>3. o.len \in Nat /\ at \in 0 .. o.len BY DEF BlockOK
<1> HIDE DEF r, at
<1>4. /\ r.len \in Nat /\ r.cap \in Nat /\ r.data \in [0 .. r.cap - 1 -> Value \cup {Junk}]
      /\ \A c \in 0 .. r.len - 1 : r.data[c] \in Value
      /\ DOMAIN r.data = 0 .. r.cap - 1
  BY <1>2, Fields
<1>11. ASSUME NEW c \in 0 .. r.cap - 1
       PROVE  /\ cells[c] \in Value \cup {Junk}
              /\ c <= r.len => cells[c] \in Value
              /\ r.data[c] \in Value => cells[c] \in Value
  <2>1. CASE c = at BY <1>4, <2>1
  <2>2. CASE c > at /\ c <= o.len
    <3>1. c - 1 \in 0 .. r.len - 1 BY <1>2, <1>3, <1>4, <2>2
    <3> QED BY <1>3, <1>4, <2>2, <3>1
  <2>3. CASE ~(c = at) /\ ~(c > at /\ c <= o.len) BY <1>2, <1>3, <1>4, <2>3
  <2> QED BY <2>1, <2>2, <2>3
<1>12. cells = [c \in 0 .. r.cap - 1 |-> cells[c]] BY <1>4
<1> HIDE DEF cells
<1>5. /\ cells \in [0 .. r.cap - 1 -> Value \cup {Junk}]
      /\ \A c \in 0 .. r.len : cells[c] \in Value
      /\ \A c \in 0 .. r.cap - 1 : r.data[c] \in Value => cells[c] \in Value
  <2>1. cells \in [0 .. r.cap - 1 -> Value \cup {Junk}] BY <1>11, <1>12
  <2>2. \A c \in 0 .. r.len : c \in 0 .. r.cap - 1 BY <1>2, <1>3, <1>4
  <2> QED BY <1>11, <2>1, <2>2
<1>6. BlockOK(a) /\ Keeps(r, a) BY <1>2, <1>5, LongerOK
<1> QED BY <1>1, <1>2, <1>6, KeepsOn

\* Operations that only move elements, or shorten the list.
LEMMA SameBlock ==
  ASSUME NEW o, BlockOK(o), NEW len \in Nat, len <= o.len,
         NEW data \in [0 .. o.cap - 1 -> Value \cup {Junk}],
         \A c \in 0 .. o.cap - 1 : o.data[c] \in Value => data[c] \in Value
  PROVE  LET r == [len |-> len, cap |-> o.cap, data |-> data]
         IN  BlockOK(r) /\ Keeps(o, r)
<1>1. /\ o.cap \in Nat /\ len <= o.cap /\ o.len \in Nat
      /\ \A c \in 0 .. len - 1 : data[c] \in Value
  BY DEF BlockOK, Written
<1> QED BY <1>1, Block DEF Keeps

LEMMA ShorterOK ==
  ASSUME NEW o, BlockOK(o)
  PROVE  /\ BlockOK(spy_list_clear(o)) /\ Keeps(o, spy_list_clear(o))
         /\ o.len > 0 => BlockOK(spy_list_pop(o)) /\ Keeps(o, spy_list_pop(o))
<1>1. o.len \in Nat /\ o.data \in [0 .. o.cap - 1 -> Value \cup {Junk}] BY DEF BlockOK
<1>2. spy_list_clear(o) = [len |-> 0, cap |-> o.cap, data |-> o.data]
  BY DEF spy_list_clear, BlockOK
<1>3. spy_list_pop(o) = [len |-> o.len - 1, cap |-> o.cap, data |-> o.data]
  BY DEF spy_list_pop, BlockOK
<1>4. BlockOK(spy_list_clear(o)) /\ Keeps(o, spy_list_clear(o)) BY <1>1, <1>2, SameBlock
<1>5. ASSUME o.len > 0 PROVE BlockOK(spy_list_pop(o)) /\ Keeps(o, spy_list_pop(o))
  <2>1. o.len - 1 \in Nat /\ o.len - 1 <= o.len BY <1>1, <1>5
  <2> QED BY <1>1, <1>3, <2>1, SameBlock
<1> QED BY <1>4, <1>5

LEMMA RemoveOK ==
  ASSUME NEW o, BlockOK(o), NEW c, o.len > 0
  PROVE  BlockOK(spy_list_remove(o, c)) /\ Keeps(o, spy_list_remove(o, c))
<1> DEFINE cells == [d \in DOMAIN o.data |-> IF d >= c /\ d < o.len - 1 THEN o.data[d + 1]
                                              ELSE o.data[d]]
<1>1. /\ o.len \in Nat /\ o.cap \in Nat /\ o.len <= o.cap
      /\ o.data \in [0 .. o.cap - 1 -> Value \cup {Junk}]
      /\ \A d \in 0 .. o.len - 1 : o.data[d] \in Value
      /\ DOMAIN o.data = 0 .. o.cap - 1
      /\ o = [len |-> o.len, cap |-> o.cap, data |-> o.data]
  BY Fields
<1>4. spy_list_remove(o, c) = [o EXCEPT !.len = o.len - 1, !.data = cells]
  BY DEF spy_list_remove
<1>5. ASSUME NEW d \in 0 .. o.cap - 1
      PROVE  cells[d] \in Value \cup {Junk} /\ (o.data[d] \in Value => cells[d] \in Value)
  <2>1. CASE d >= c /\ d < o.len - 1
    <3>1. d + 1 \in 0 .. o.len - 1 BY <1>1, <2>1
    <3> QED BY <1>1, <2>1, <3>1
  <2>2. CASE ~(d >= c /\ d < o.len - 1) BY <1>1, <2>2
  <2> QED BY <2>1, <2>2
<1>6. cells = [d \in 0 .. o.cap - 1 |-> cells[d]] BY <1>1
<1> HIDE DEF cells
<1>3. /\ cells \in [0 .. o.cap - 1 -> Value \cup {Junk}]
      /\ \A d \in 0 .. o.cap - 1 : o.data[d] \in Value => cells[d] \in Value
  BY <1>5, <1>6
<1>7. o.len - 1 \in Nat /\ o.len - 1 <= o.len BY <1>1
<1>2. spy_list_remove(o, c) = [len |-> o.len - 1, cap |-> o.cap, data |-> cells] BY <1>1, <1>4
<1> QED BY <1>2, <1>3, <1>7, SameBlock

LEMMA SetOK ==
  ASSUME NEW o, BlockOK(o), NEW c \in 0 .. o.len - 1, NEW v \in Value
  PROVE  BlockOK(spy_list_set(o, c, v)) /\ Keeps(o, spy_list_set(o, c, v))
<1> DEFINE cells == [o.data EXCEPT ![c] = v]
<1>1. /\ o.len \in Nat /\ o.cap \in Nat
      /\ o.data \in [0 .. o.cap - 1 -> Value \cup {Junk}]
  BY DEF BlockOK
<1>2. spy_list_set(o, c, v) = [len |-> o.len, cap |-> o.cap, data |-> cells]
  BY DEF spy_list_set, BlockOK
<1>3. /\ cells \in [0 .. o.cap - 1 -> Value \cup {Junk}]
      /\ \A d \in 0 .. o.cap - 1 : o.data[d] \in Value => cells[d] \in Value
  BY <1>1
<1> HIDE DEF cells
<1> QED BY <1>1, <1>2, <1>3, SameBlock

LEMMA ReverseOK ==
  ASSUME NEW o, BlockOK(o)
  PROVE  BlockOK(spy_list_reverse(o)) /\ Keeps(o, spy_list_reverse(o))
<1> DEFINE cells == [d \in DOMAIN o.data |-> IF d < o.len THEN o.data[o.len - 1 - d]
                                              ELSE o.data[d]]
<1>1. /\ o.len \in Nat /\ o.cap \in Nat /\ o.len <= o.cap
      /\ o.data \in [0 .. o.cap - 1 -> Value \cup {Junk}]
      /\ \A d \in 0 .. o.len - 1 : o.data[d] \in Value
      /\ DOMAIN o.data = 0 .. o.cap - 1
      /\ o = [len |-> o.len, cap |-> o.cap, data |-> o.data]
  BY Fields
<1>4. spy_list_reverse(o) = [o EXCEPT !.data = cells]
  BY DEF spy_list_reverse
<1>5. ASSUME NEW d \in 0 .. o.cap - 1
      PROVE  cells[d] \in Value \cup {Junk} /\ (o.data[d] \in Value => cells[d] \in Value)
  <2>1. CASE d < o.len
    <3>1. o.len - 1 - d \in 0 .. o.len - 1 BY <1>1, <2>1
    <3> QED BY <1>1, <2>1, <3>1
  <2>2. CASE ~(d < o.len) BY <1>1, <2>2
  <2> QED BY <2>1, <2>2
<1>6. cells = [d \in 0 .. o.cap - 1 |-> cells[d]] BY <1>1
<1> HIDE DEF cells
<1>3. /\ cells \in [0 .. o.cap - 1 -> Value \cup {Junk}]
      /\ \A d \in 0 .. o.cap - 1 : o.data[d] \in Value => cells[d] \in Value
  BY <1>5, <1>6
<1>2. spy_list_reverse(o) = [len |-> o.len, cap |-> o.cap, data |-> cells] BY <1>1, <1>4
<1> QED BY <1>1, <1>2, <1>3, SameBlock

\* A sort reads n cells, which need not be those the list has by then.
LEMMA SortOK ==
  ASSUME NEW o, BlockOK(o), NEW n \in Nat, Written(o, n), NEW p \in [0 .. n - 1 -> 0 .. n - 1]
  PROVE  BlockOK(Permuted(o, n, p)) /\ Keeps(o, Permuted(o, n, p))
<1> DEFINE cells == [c \in DOMAIN o.data |-> IF c < n THEN o.data[p[c]] ELSE o.data[c]]
<1>1. /\ o.len \in Nat /\ o.cap \in Nat /\ n <= o.cap
      /\ o.data \in [0 .. o.cap - 1 -> Value \cup {Junk}]
      /\ \A d \in 0 .. n - 1 : o.data[d] \in Value
      /\ DOMAIN o.data = 0 .. o.cap - 1
      /\ o = [len |-> o.len, cap |-> o.cap, data |-> o.data]
  BY Fields DEF Written
<1>4. Permuted(o, n, p) = [o EXCEPT !.data = cells]
  BY DEF Permuted
<1>5. ASSUME NEW d \in 0 .. o.cap - 1
      PROVE  cells[d] \in Value \cup {Junk} /\ (o.data[d] \in Value => cells[d] \in Value)
  <2>1. CASE d < n
    <3>1. d \in 0 .. n - 1 /\ p[d] \in 0 .. n - 1 BY <2>1
    <3> QED BY <1>1, <2>1, <3>1
  <2>2. CASE ~(d < n) BY <1>1, <2>2
  <2> QED BY <2>1, <2>2
<1>6. cells = [d \in 0 .. o.cap - 1 |-> cells[d]] BY <1>1
<1> HIDE DEF cells
<1>3. /\ cells \in [0 .. o.cap - 1 -> Value \cup {Junk}]
      /\ \A d \in 0 .. o.cap - 1 : o.data[d] \in Value => cells[d] \in Value
  BY <1>5, <1>6
<1>2. Permuted(o, n, p) = [len |-> o.len, cap |-> o.cap, data |-> cells] BY <1>1, <1>4
<1> QED BY <1>1, <1>2, <1>3, SameBlock

\* A step of size p, taken c times, stays within the x places it was counted for.
LEMMA Strides ==
  ASSUME NEW x \in Nat, x > 0, NEW p \in Nat, p > 0
  PROVE  /\ (x + p - 1) \div p \in Nat
         /\ \A c \in 0 .. (x + p - 1) \div p - 1 : c * p \in 0 .. x - 1
<1> DEFINE q == (x + p - 1) \div p
<1>1. q \in Nat /\ q * p <= x + p - 1 
  <2>1. q \in Int /\ q * p <= x + p - 1 /\ x + p - 1 < q * p + p OBVIOUS
  <2>2. q >= 0 BY <2>1
  <2> QED BY <2>1, <2>2
<1> HIDE DEF q
<1>2. ASSUME NEW c \in 0 .. q - 1 PROVE c * p \in 0 .. x - 1
  <2>1. c \in Int /\ c >= 0 /\ c + 1 <= q BY <1>1
  <2>2. (c + 1) * p <= q * p BY <1>1, <2>1
  <2>3. (c + 1) * p = c * p + p /\ c * p \in Int /\ c * p >= 0 BY <2>1
  <2>4. q * p \in Int BY <1>1
  <2> QED BY <1>1, <2>2, <2>3, <2>4
<1> QED BY <1>1, <1>2 DEF q

LEMMA ClampedIs ==
  ASSUME NEW b \in Int, NEW n \in Nat, NEW least \in Int, NEW most \in Int, least <= most
  PROVE  Clamped(b, n, least, most) \in least .. most
BY DEF Clamped

\* A slice takes elements of the list.
LEMMA SliceCells ==
  ASSUME NEW n \in Nat, NEW low \in Bound, NEW high \in Bound, NEW step \in Step, step # 0
  PROVE  LET s == spy_slice_resolve(n, low, high, step)
         IN  s.len \in Nat /\ \A c \in 0 .. s.len - 1 : s.lo + c * s.by \in 0 .. n - 1
<1> DEFINE by    == IF step = None THEN 1 ELSE step
           least == IF by > 0 THEN 0 ELSE -1
           most  == IF by > 0 THEN n ELSE n - 1
           lo == IF low # None THEN Clamped(low, n, least, most)
                 ELSE IF by > 0 THEN 0 ELSE n - 1
           hi == IF high # None THEN Clamped(high, n, least, most)
                 ELSE IF by > 0 THEN n ELSE -1
           pos  == Size(by)
           span == IF by > 0 THEN hi - lo ELSE lo - hi
           len  == IF span > 0 THEN (span + pos - 1) \div pos ELSE 0
<1>1. spy_slice_resolve(n, low, high, step) =
        [lo |-> lo, by |-> by, len |-> len,
         defined |-> Fits(pos) /\ (span > 0 => Fits(span + pos))]
  BY DEF spy_slice_resolve
<1>2. by \in Int /\ by # 0 BY ListAssumption
<1>3. pos \in Nat /\ pos > 0 /\ (by > 0 => by = pos) /\ (~(by > 0) => by = -pos)
  <2> HIDE DEF by
  <2> QED BY <1>2 DEF Size
<1>4. least \in Int /\ most \in Int /\ least <= most
  <2> HIDE DEF by
  <2> QED BY <1>2
<1>5. lo \in least .. most /\ hi \in least .. most
  <2>1. low # None => Clamped(low, n, least, most) \in least .. most
    <3> HIDE DEF least, most
    <3> QED BY <1>4, ClampedIs, ListAssumption
  <2>2. high # None => Clamped(high, n, least, most) \in least .. most
    <3> HIDE DEF least, most
    <3> QED BY <1>4, ClampedIs, ListAssumption
  <2> HIDE DEF by
  <2> QED BY <1>2, <2>1, <2>2
<1>6. lo \in Int /\ hi \in Int /\ (by > 0 => lo \in 0 .. n /\ hi \in 0 .. n)
      /\ (~(by > 0) => lo \in -1 .. n - 1 /\ hi \in -1 .. n - 1)
  <2> HIDE DEF by, lo, hi
  <2> QED BY <1>2, <1>5
<1> HIDE DEF by, lo, hi, pos, least, most
<1>7. span \in Int BY <1>6
<1>8. CASE span > 0
  <2>1. len = (span + pos - 1) \div pos BY <1>8
  <2>2. /\ (span + pos - 1) \div pos \in Nat
        /\ \A c \in 0 .. (span + pos - 1) \div pos - 1 : c * pos \in 0 .. span - 1
    <3> HIDE DEF span
    <3> QED BY <1>3, <1>7, <1>8, Strides
  <2>3. len \in Nat /\ \A c \in 0 .. len - 1 : c * pos \in 0 .. span - 1
    BY <2>1, <2>2
  <2> HIDE DEF len
  <2>4. ASSUME NEW c \in 0 .. len - 1 PROVE lo + c * by \in 0 .. n - 1
    <3>1. c * pos \in 0 .. span - 1 BY <2>3
    <3>2. CASE by > 0
      <4>1. c * by = c * pos BY <1>3, <3>2
      <4> QED BY <1>6, <3>1, <3>2, <4>1
    <3>3. CASE ~(by > 0)
      <4>1. c * by = -(c * pos) BY <1>3, <2>3, <3>3
      <4> QED BY <1>6, <3>1, <3>3, <4>1
    <3> QED BY <3>2, <3>3
  <2>5. spy_slice_resolve(n, low, high, step).len = len
        /\ spy_slice_resolve(n, low, high, step).lo = lo
        /\ spy_slice_resolve(n, low, high, step).by = by BY <1>1
  <2> QED BY <2>3, <2>4, <2>5
<1>9. CASE ~(span > 0)
  <2>1. len = 0 BY <1>9
  <2> HIDE DEF len
  <2>2. spy_slice_resolve(n, low, high, step).len = 0 BY <1>1, <2>1
  <2> QED BY <2>2
<1> QED BY <1>8, <1>9

LEMMA SliceOK ==
  ASSUME NEW o, BlockOK(o), NEW low \in Bound, NEW high \in Bound, NEW step \in Step, step # 0
  PROVE  LET r == spy_list_slice(o, spy_slice_resolve(o.len, low, high, step))
         IN  BlockOK(r) /\ r.cap > 0
<1> DEFINE s == spy_slice_resolve(o.len, low, high, step)
           cap == IF s.len > InitCap THEN s.len ELSE InitCap
           cells == [c \in 0 .. cap - 1 |-> IF c < s.len THEN o.data[s.lo + c * s.by] ELSE Junk]
<1>1. /\ o.len \in Nat /\ o.cap \in Nat /\ o.len <= o.cap
      /\ \A d \in 0 .. o.len - 1 : o.data[d] \in Value
  BY Fields
<1>2. /\ s.len \in Nat
      /\ \A c \in 0 .. s.len - 1 : s.lo + c * s.by \in 0 .. o.len - 1
  BY <1>1, SliceCells
<1>3. spy_list_slice(o, s) = [len |-> s.len, cap |-> cap, data |-> cells]
  BY DEF spy_list_slice
<1> HIDE DEF s
<1>4. cap \in Nat /\ cap > 0 /\ s.len <= cap BY <1>2, ListAssumption
<1>5. ASSUME NEW c \in 0 .. s.len - 1 PROVE o.data[s.lo + c * s.by] \in Value
  BY <1>1, <1>2
<1> HIDE DEF cap
<1>6. cells \in [0 .. cap - 1 -> Value \cup {Junk}] /\ \A c \in 0 .. s.len - 1 : cells[c] \in Value
  BY <1>2, <1>4, <1>5
<1> HIDE DEF cells
<1>7. BlockOK([len |-> s.len, cap |-> cap, data |-> cells]) BY <1>2, <1>4, <1>6, Block
<1> QED BY <1>3, <1>4, <1>7 DEF s

-----------------------------------------------------------------------------
(***************************************************************************)
(* The invariant of a heap h and the frames fs, which steps change apart.  *)
(***************************************************************************)
FrameIn(h, f) == /\ h[f.of].cap > 0 /\ h[f.from].cap > 0
                 /\ f.kind = "sort" => /\ f.at < f.n /\ Len(f.keys) = f.at
                                       /\ Written(h[f.of], f.n)

MemoryIn(h, fs) == /\ h = [l \in List |-> h[l]] /\ fs \in Seq(Frame)
                   /\ \A l \in List : BlockOK(h[l])
                   /\ \A i \in DOMAIN fs : FrameIn(h, fs[i])

LEMMA MemoryIs == /\ MemoryOK <=> MemoryIn(heap, frames)
                  /\ MemoryOK' <=> MemoryIn(heap', frames')
BY DEF MemoryOK, MemoryIn, FrameOK, FrameIn, Live

\* A list that a frame works on may only be replaced by one that keeps it.
LEMMA HeapStep ==
  ASSUME NEW h, NEW fs, MemoryIn(h, fs), NEW l \in List, NEW o, BlockOK(o),
         \A i \in DOMAIN fs : l \in {fs[i].of, fs[i].from} => Keeps(h[l], o)
  PROVE  MemoryIn([h EXCEPT ![l] = o], fs)
<1> DEFINE g == [h EXCEPT ![l] = o]
<1>1. DOMAIN h = List /\ fs \in Seq(Frame) /\ \A m \in List : BlockOK(h[m]) BY DEF MemoryIn
<1>2. /\ g = [m \in List |-> g[m]] /\ g[l] = o /\ \A m \in List : m # l => g[m] = h[m]
      /\ \A m \in List : BlockOK(g[m])
  BY <1>1
<1> HIDE DEF g
<1>3. ASSUME NEW i \in DOMAIN fs PROVE FrameIn(g, fs[i])
  <2>1. fs[i] \in Frame BY <1>1, ElementOfSeq
  <2>2. fs[i].of \in List /\ fs[i].from \in List /\ fs[i].n \in Nat BY <2>1 DEF Frame
  <2>3. FrameIn(h, fs[i]) BY DEF MemoryIn
  <2>4. ASSUME NEW m \in {fs[i].of, fs[i].from}
        PROVE  Keeps(h[m], g[m]) /\ (h[m].cap > 0 => g[m].cap > 0)
    <3>1. m \in List /\ BlockOK(h[m]) /\ BlockOK(g[m]) BY <1>1, <1>2, <2>2
    <3>2. h[m].cap \in Nat /\ g[m].cap \in Nat BY <3>1, Fields
    <3>3. CASE m = l
      <4>1. Keeps(h[m], g[m]) BY <1>2, <3>3
      <4> QED BY <3>2, <4>1 DEF Keeps
    <3>4. CASE m # l
      <4>1. g[m] = h[m] BY <1>2, <3>1, <3>4
      <4> QED BY <3>2, <4>1 DEF Keeps
    <3> QED BY <3>3, <3>4
  <2>5. \A m \in {fs[i].of, fs[i].from} : h[m].cap > 0 => g[m].cap > 0
    BY <2>4
  <2>6. Written(h[fs[i].of], fs[i].n) => Written(g[fs[i].of], fs[i].n)
    BY <1>1, <1>2, <2>2, <2>4, KeepsWritten
  <2> QED BY <2>3, <2>5, <2>6 DEF FrameIn
<1> QED BY <1>1, <1>2, <1>3 DEF MemoryIn, g

LEMMA PushStep ==
  ASSUME NEW h, NEW fs, MemoryIn(h, fs), NEW f \in Frame, FrameIn(h, f)
  PROVE  MemoryIn(h, Append(fs, f))
<1>1. fs \in Seq(Frame) BY DEF MemoryIn
<1>2. /\ Append(fs, f) \in Seq(Frame) /\ Len(Append(fs, f)) = Len(fs) + 1
      /\ DOMAIN fs = 1 .. Len(fs) /\ DOMAIN Append(fs, f) = 1 .. Len(fs) + 1
      /\ \A i \in 1 .. Len(fs) : Append(fs, f)[i] = fs[i]
      /\ Append(fs, f)[Len(fs) + 1] = f /\ Len(fs) \in Nat
  BY <1>1, AppendProperties, LenProperties
<1> QED BY <1>1, <1>2 DEF MemoryIn

LEMMA CutStep ==
  ASSUME NEW h, NEW fs, MemoryIn(h, fs), NEW k \in 0 .. Len(fs)
  PROVE  MemoryIn(h, SubSeq(fs, 1, k))
<1>1. fs \in Seq(Frame) /\ Len(fs) \in Nat /\ DOMAIN fs = 1 .. Len(fs)
  BY LenProperties DEF MemoryIn
<1>2. k \in Nat /\ \A i \in 1 .. k : i \in DOMAIN fs /\ fs[i] \in Frame
  BY <1>1, ElementOfSeq
<1> DEFINE cut == SubSeq(fs, 1, k)
<1>3. /\ cut \in Seq(Frame) /\ Len(cut) = IF 1 <= k THEN k - 1 + 1 ELSE 0
      /\ \A i \in 1 .. k - 1 + 1 : cut[i] = fs[1 + i - 1]
  BY <1>2, SubSeqProperties
<1> HIDE DEF cut
<1>4. DOMAIN cut = 1 .. Len(cut) BY <1>3, LenProperties
<1>5. DOMAIN cut = 1 .. k
  <2>1. CASE 1 <= k
    <3>1. Len(cut) = k BY <1>2, <1>3, <2>1
    <3> QED BY <1>4, <3>1
  <2>2. CASE ~(1 <= k)
    <3>1. Len(cut) = k BY <1>2, <1>3, <2>2
    <3> QED BY <1>4, <3>1
  <2> QED BY <2>1, <2>2
<1>6. ASSUME NEW i \in 1 .. k PROVE cut[i] = fs[i]
  <2>1. i \in 1 .. k - 1 + 1 /\ 1 + i - 1 = i BY <1>2
  <2>2. cut[i] = fs[1 + i - 1] BY <1>3, <2>1
  <2> QED BY <2>1, <2>2
<1>7. ASSUME NEW i \in DOMAIN cut PROVE FrameIn(h, cut[i])
  BY <1>2, <1>5, <1>6 DEF MemoryIn
<1> QED BY <1>3, <1>7 DEF MemoryIn, cut

LEMMA TopStep ==
  ASSUME NEW h, NEW fs, MemoryIn(h, fs), fs # <<>>, NEW f \in Frame, FrameIn(h, f)
  PROVE  MemoryIn(h, [fs EXCEPT ![Len(fs)] = f])
<1>1. fs \in Seq(Frame) /\ Len(fs) \in Nat /\ DOMAIN fs = 1 .. Len(fs)
  BY LenProperties DEF MemoryIn
<1>2. Len(fs) \in 1 .. Len(fs) BY <1>1, EmptySeq
<1>3. [fs EXCEPT ![Len(fs)] = f] \in Seq(Frame) BY <1>1, <1>2, ExceptSeq
<1> QED BY <1>1, <1>2, <1>3 DEF MemoryIn

-----------------------------------------------------------------------------
(***************************************************************************)
(* The steps.                                                              *)
(***************************************************************************)
LEMMA Same == MemoryOK /\ UNCHANGED <<heap, frames>> => MemoryOK'
BY MemoryIs

\* An operation on l is right if its block is, and keeps what the old one held.
LEMMA StoreStep ==
  ASSUME MemoryOK, NEW l \in List, NEW o, NEW r, Store(l, o, r), BlockOK(o),
         Live(l) => Keeps(heap[l], o)
  PROVE  MemoryOK'
<1>1. MemoryIn(heap, frames) BY MemoryIs
<1>2. ASSUME NEW i \in DOMAIN frames, l \in {frames[i].of, frames[i].from}
      PROVE  Keeps(heap[l], o)
  BY <1>1, <1>2 DEF MemoryIn, FrameIn, Live
<1>3. MemoryIn([heap EXCEPT ![l] = o], frames) BY <1>1, <1>2, HeapStep
<1> QED BY <1>3, MemoryIs DEF Store

LEMMA BlocksNow == ASSUME MemoryOK, NEW l \in List
                   PROVE  BlockOK(heap[l]) /\ heap[l].len \in Nat /\ heap[l].cap \in Nat
BY Fields DEF MemoryOK

LEMMA KeepsItself == ASSUME NEW o, BlockOK(o) PROVE Keeps(o, o)
BY Fields DEF Keeps

\* index answers with -1 where there is no place.
LEMMA IndexIs ==
  ASSUME NEW o, BlockOK(o), NEW v, ~(spy_list_index(o, v) < 0)
  PROVE  o.len > 0
<1>1. o.len \in Nat BY Fields
<1>2. {c \in 0 .. o.len - 1 : o.data[c] = v} # {} BY DEF spy_list_index
<1> QED BY <1>1, <1>2

\* What qsort leaves is a list of indices.
LEMMA OrdersAre ==
  ASSUME NEW n, NEW keys, NEW reverse, NEW p \in Orders(n, keys, reverse)
  PROVE  p \in [0 .. n - 1 -> 0 .. n - 1]
BY DEF Orders

\* The topmost frame, and what is known of it.
LEMMA TopIs ==
  ASSUME MemoryOK, frames # <<>>
  PROVE  /\ Len(frames) \in Nat \ {0} /\ Len(frames) \in DOMAIN frames
         /\ Top \in Frame /\ FrameIn(heap, Top) /\ BlockOK(heap[Top.of]) /\ BlockOK(heap[Top.from])
         /\ Top.of \in List /\ Top.from \in List /\ Live(Top.of)
         /\ Top.n \in Nat /\ Top.at \in Nat /\ Top.keys \in Seq(Key)
         /\ Top = [kind |-> Top.kind, of |-> Top.of, from |-> Top.from, n |-> Top.n,
                   at |-> Top.at, keys |-> Top.keys, reverse |-> Top.reverse]
<1>1. frames \in Seq(Frame) BY DEF MemoryOK
<1>2. Len(frames) \in Nat \ {0} /\ DOMAIN frames = 1 .. Len(frames)
  BY <1>1, LenProperties, EmptySeq
<1>3. Len(frames) \in DOMAIN frames BY <1>2
<1>4. Top \in Frame BY <1>1, <1>2, ElementOfSeq DEF Top
<1>5. FrameOK(Top) BY <1>3 DEF MemoryOK, Top
<1>6. FrameIn(heap, Top) BY <1>5 DEF FrameOK, FrameIn, Live
<1> HIDE DEF Top
<1>7. Top.of \in List /\ Top.from \in List BY <1>4 DEF Frame
<1>8. BlockOK(heap[Top.of]) /\ BlockOK(heap[Top.from]) BY <1>7 DEF MemoryOK
<1> QED BY <1>2, <1>3, <1>4, <1>5, <1>6, <1>7, <1>8 DEF FrameOK, Frame

\* A new frame on top.
LEMMA Entered ==
  ASSUME MemoryOK, NEW f \in Frame, FrameIn(heap, f),
         frames' = Append(frames, f), heap' = heap
  PROVE  MemoryOK'
BY MemoryIs, PushStep

LEMMA Left ==
  ASSUME MemoryOK, NEW k \in 0 .. Len(frames), frames' = Cut(k), heap' = heap
  PROVE  MemoryOK'
BY MemoryIs, CutStep DEF Cut

LEMMA Moved ==
  ASSUME MemoryOK, frames # <<>>, NEW f \in Frame, FrameIn(heap, f), SetTop(f), heap' = heap
  PROVE  MemoryOK'
BY MemoryIs, TopStep DEF SetTop

-----------------------------------------------------------------------------
LEMMA FirstState == Init => MemoryOK
<1> SUFFICES ASSUME Init PROVE MemoryOK OBVIOUS
<1>1. heap = [l \in List |-> Nothing] /\ frames = <<>> BY DEF Init
<1>2. \A l \in List : heap[l] = Nothing BY <1>1
<1>3. heap = [l \in List |-> heap[l]] BY <1>1
<1>4. frames \in Seq(Frame) /\ DOMAIN frames = {} BY <1>1
<1> QED BY <1>2, <1>3, <1>4, NewOK DEF MemoryOK

\* Operations that change one list, or only look at it.
LEMMA ListSteps ==
  ASSUME MemoryOK, NEW l \in List,
         \/ NewList(l) \/ Forget(l) \/ AppendTo(l) \/ Insert(l) \/ Pop(l)
         \/ Remove(l) \/ ReverseList(l) \/ Clear(l) \/ SetItem(l)
         \/ GetItem(l) \/ Index(l) \/ Count(l) \/ Sort(l)
  PROVE  MemoryOK'
<1> DEFINE o == heap[l]
<1>0. BlockOK(o) /\ o.len \in Nat /\ o.cap \in Nat /\ Keeps(o, o) BY BlocksNow, KeepsItself
<1>a. Live(l) <=> o.cap > 0 BY DEF Live
<1> HIDE DEF o
<1>1. CASE NewList(l)
  <2>1. ~Live(l) /\ Store(l, spy_list_new, Silent) BY <1>1 DEF NewList
  <2> QED BY <2>1, NewOK, StoreStep
<1>2. CASE Forget(l)
  <2>1. ~InUse(l) /\ heap' = [heap EXCEPT ![l] = Nothing] /\ frames' = frames
    BY <1>2 DEF Forget, Store
  <2>2. MemoryIn([heap EXCEPT ![l] = Nothing], frames)
    BY <2>1, MemoryIs, NewOK, HeapStep DEF InUse
  <2> QED BY <2>1, <2>2, MemoryIs
<1>3. CASE AppendTo(l)
  <2>1. PICK v \in Value : Live(l) /\ Store(l, spy_list_append(o, v), <<"appended", v>>)
    BY <1>3 DEF AppendTo, On, o
  <2>2. BlockOK(spy_list_append(o, v)) /\ Keeps(o, spy_list_append(o, v))
    BY <1>0, <1>a, <2>1, AppendOK
  <2> QED BY <2>1, <2>2, StoreStep DEF o
<1>4. CASE Insert(l)
  <2>1. PICK i \in 0 .. MaxLen, v \in Value : Live(l) /\ Store(l, spy_list_insert(o, i, v), <<"inserted", i, v>>)
    BY <1>4 DEF Insert, On, o
  <2>2. BlockOK(spy_list_insert(o, i, v)) /\ Keeps(o, spy_list_insert(o, i, v))
    BY <1>0, <1>a, <2>1, InsertOK
  <2> QED BY <2>1, <2>2, StoreStep DEF o
<1>5. CASE Pop(l)
  <2>1. CASE o.len = 0
    <3>1. UNCHANGED <<heap, frames>> BY <1>5, <2>1 DEF Pop, Abort, o
    <3> QED BY <3>1, Same
  <2>2. CASE o.len # 0
    <3>1. Store(l, spy_list_pop(o), <<"popped", o.data[o.len - 1]>>) BY <1>5, <2>2 DEF Pop, o
    <3>2. BlockOK(spy_list_pop(o)) /\ Keeps(o, spy_list_pop(o)) BY <1>0, <2>2, ShorterOK
    <3> QED BY <3>1, <3>2, StoreStep DEF o
  <2> QED BY <2>1, <2>2
<1>6. CASE Remove(l)
  <2>1. PICK v \in Value :
          LET c == spy_list_index(o, v)
          IN  IF c < 0 THEN Abort(<<"absent", v>>) ELSE Store(l, spy_list_remove(o, c), <<"removed", v>>)
    BY <1>6 DEF Remove, o
  <2> DEFINE c == spy_list_index(o, v)
  <2>2. CASE c < 0
    <3>1. UNCHANGED <<heap, frames>> BY <2>1, <2>2 DEF Abort
    <3> QED BY <3>1, Same
  <2>3. CASE ~(c < 0)
    <3>1. Store(l, spy_list_remove(o, c), <<"removed", v>>) BY <2>1, <2>3
    <3>2. BlockOK(spy_list_remove(o, c)) /\ Keeps(o, spy_list_remove(o, c))
      BY <1>0, <2>3, IndexIs, RemoveOK
    <3> QED BY <3>1, <3>2, StoreStep DEF o
  <2> QED BY <2>2, <2>3
<1>7. CASE ReverseList(l)
  <2>1. Store(l, spy_list_reverse(o), <<"reversed">>) BY <1>7 DEF ReverseList, o
  <2>2. BlockOK(spy_list_reverse(o)) /\ Keeps(o, spy_list_reverse(o)) BY <1>0, ReverseOK
  <2> QED BY <2>1, <2>2, StoreStep DEF o
<1>8. CASE Clear(l)
  <2>1. Store(l, spy_list_clear(o), <<"cleared">>) BY <1>8 DEF Clear, o
  <2>2. BlockOK(spy_list_clear(o)) /\ Keeps(o, spy_list_clear(o)) BY <1>0, ShorterOK
  <2> QED BY <2>1, <2>2, StoreStep DEF o
<1>9. CASE SetItem(l)
  <2>1. PICK i \in 0 .. MaxLen, v \in Value :
          IF i >= o.len THEN Abort(<<"range", i>>) ELSE Store(l, spy_list_set(o, i, v), <<"set", i, v>>)
    BY <1>9 DEF SetItem, o
  <2>2. CASE i >= o.len
    <3>1. UNCHANGED <<heap, frames>> BY <2>1, <2>2 DEF Abort
    <3> QED BY <3>1, Same
  <2>3. CASE ~(i >= o.len)
    <3>1. i \in 0 .. o.len - 1 BY <1>0, <2>3
    <3>2. BlockOK(spy_list_set(o, i, v)) /\ Keeps(o, spy_list_set(o, i, v)) BY <1>0, <3>1, SetOK
    <3> QED BY <2>1, <2>3, <3>2, StoreStep DEF o
  <2> QED BY <2>2, <2>3
<1>10. CASE GetItem(l)
  <2>1. PICK i \in 0 .. MaxLen :
          IF i >= o.len THEN Abort(<<"range", i>>) ELSE Store(l, o, <<"item", i, o.data[i]>>)
    BY <1>10 DEF GetItem, o
  <2>2. CASE i >= o.len
    <3>1. UNCHANGED <<heap, frames>> BY <2>1, <2>2 DEF Abort
    <3> QED BY <3>1, Same
  <2>3. CASE ~(i >= o.len) BY <1>0, <2>1, <2>3, StoreStep DEF o
  <2> QED BY <2>2, <2>3
<1>11. CASE Index(l)
  <2>1. PICK v \in Value : Store(l, o, <<"index", v, spy_list_index(o, v)>>) BY <1>11 DEF Index, o
  <2> QED BY <1>0, <2>1, StoreStep DEF o
<1>12. CASE Count(l)
  <2>1. PICK v \in Value : Store(l, o, <<"count", v, spy_list_count_elem(o, v)>>)
    BY <1>12 DEF Count, o
  <2> QED BY <1>0, <2>1, StoreStep DEF o
<1>13. CASE Sort(l)
  <2>0. PICK reverse \in BOOLEAN :
          \E p \in Orders(o.len, o.data, reverse) : Store(l, Permuted(o, o.len, p), <<"sorted", reverse>>)
    BY <1>13 DEF Sort, o
  <2>1. PICK p \in Orders(o.len, o.data, reverse) : Store(l, Permuted(o, o.len, p), <<"sorted", reverse>>)
    BY <2>0
  <2>2. p \in [0 .. o.len - 1 -> 0 .. o.len - 1] BY OrdersAre
  <2>3. Written(o, o.len) BY <1>0 DEF BlockOK
  <2>4. BlockOK(Permuted(o, o.len, p)) /\ Keeps(o, Permuted(o, o.len, p))
    BY <1>0, <2>2, <2>3, SortOK
  <2> QED BY <2>1, <2>4, StoreStep DEF o
<1> QED BY <1>1, <1>2, <1>3, <1>4, <1>5, <1>6, <1>7, <1>8, <1>9, <1>10, <1>11, <1>12, <1>13

LEMMA SliceStep == ASSUME MemoryOK, NEW l \in List, NEW m \in List, SliceOf(l, m)
                   PROVE  MemoryOK'
<1>1. PICK low \in Bound, high \in Bound, step \in Step :
        LET s == spy_slice_resolve(heap[l].len, low, high, step)
        IN  /\ ~Live(m)
            /\ \/ UNCHANGED <<heap, frames>>
               \/ /\ step # 0
                  /\ Store(m, spy_list_slice(heap[l], s), <<"slice", low, high, step>>)
  BY DEF SliceOf, Abort
<1> DEFINE s == spy_slice_resolve(heap[l].len, low, high, step)
           r == spy_list_slice(heap[l], s)
<1>2. step # 0 => BlockOK(r) BY BlocksNow, SliceOK
<1> HIDE DEF r
<1>3. CASE UNCHANGED <<heap, frames>> BY <1>3, Same
<1>4. CASE step # 0 /\ Store(m, r, <<"slice", low, high, step>>)
  BY <1>1, <1>2, <1>4, StoreStep
<1> QED BY <1>1, <1>3, <1>4 DEF r

-----------------------------------------------------------------------------
\* Loops, extends and sorts begin.
LEMMA NewFrame ==
  ASSUME NEW kind \in {"walk", "sort", "extend"}, NEW l \in List, NEW m \in List, NEW n \in Nat,
         NEW at \in Nat, NEW reverse \in BOOLEAN
  PROVE  [kind |-> kind, of |-> l, from |-> m, n |-> n, at |-> at, keys |-> <<>>,
          reverse |-> reverse] \in Frame
BY DEF Frame

LEMMA BeginSteps ==
  ASSUME MemoryOK, NEW l \in List,
         \/ BeginWalk(l)
         \/ BeginSort(l)
         \/ \E m \in List : BeginExtend(l, m)
  PROVE  MemoryOK'
<1>0. BlockOK(heap[l]) /\ heap[l].len \in Nat BY BlocksNow
<1>1. CASE BeginWalk(l)
  <2> DEFINE f == [kind |-> "walk", of |-> l, from |-> l, n |-> heap[l].len, at |-> 1,
                   keys |-> <<>>, reverse |-> FALSE]
  <2>1. Live(l) /\ heap' = heap /\ (frames' = frames \/ frames' = Append(frames, f))
    BY <1>1 DEF BeginWalk, On
  <2>2. f \in Frame BY <1>0, NewFrame
  <2>3. FrameIn(heap, f) BY <2>1 DEF FrameIn, Live
  <2> HIDE DEF f
  <2> QED BY <2>1, <2>2, <2>3, Entered, Same
<1>2. CASE BeginSort(l)
  <2>1. PICK reverse \in BOOLEAN :
          /\ Live(l) /\ heap' = heap
          /\ \/ frames' = frames
             \/ /\ ~(heap[l].len < 2)
                /\ frames' = Append(frames, [kind |-> "sort", of |-> l, from |-> l,
                                             n |-> heap[l].len, at |-> 0,
                                             keys |-> <<>>, reverse |-> reverse])
    BY <1>2 DEF BeginSort, On
  <2> DEFINE f == [kind |-> "sort", of |-> l, from |-> l, n |-> heap[l].len, at |-> 0,
                   keys |-> <<>>, reverse |-> reverse]
  <2>2. f \in Frame BY <1>0, NewFrame
  <2>3. ~(heap[l].len < 2) => FrameIn(heap, f) BY <1>0, <2>1 DEF FrameIn, Live, BlockOK
  <2> HIDE DEF f
  <2>4. CASE frames' = frames BY <2>1, <2>4, Same
  <2>5. CASE ~(heap[l].len < 2) /\ frames' = Append(frames, f)
    BY <2>1, <2>2, <2>3, <2>5, Entered
  <2> QED BY <2>1, <2>4, <2>5 DEF f
<1>3. CASE \E m \in List : BeginExtend(l, m)
  <2>1. PICK m \in List : BeginExtend(l, m) BY <1>3
  <2> DEFINE f == [kind |-> "extend", of |-> l, from |-> m, n |-> 0, at |-> 0,
                   keys |-> <<>>, reverse |-> FALSE]
  <2>2. Live(l) /\ Live(m) /\ heap' = heap /\ frames' = Append(frames, f)
    BY <2>1 DEF BeginExtend
  <2>3. f \in Frame BY NewFrame
  <2>4. FrameIn(heap, f) BY <2>2 DEF FrameIn, Live
  <2> HIDE DEF f
  <2> QED BY <2>2, <2>3, <2>4, Entered
<1> QED BY <1>1, <1>2, <1>3

\* The next turn of the topmost frame, of whatever kind.
LEMMA NextTurn ==
  ASSUME MemoryOK, frames # <<>>, Top.kind # "sort"
  PROVE  LET f == [Top EXCEPT !.at = @ + 1]
         IN  f \in Frame /\ f.of = Top.of /\ f.from = Top.from /\ f.kind = Top.kind
<1> DEFINE t == Top
           f == [kind |-> t.kind, of |-> t.of, from |-> t.from, n |-> t.n, at |-> t.at + 1,
                 keys |-> t.keys, reverse |-> t.reverse]
<1>1. /\ t \in Frame /\ t.at \in Nat
      /\ t = [kind |-> t.kind, of |-> t.of, from |-> t.from, n |-> t.n,
              at |-> t.at, keys |-> t.keys, reverse |-> t.reverse]
  BY TopIs
<1> HIDE DEF t
<1>2. f \in Frame BY <1>1 DEF Frame
<1>3. [t EXCEPT !.at = @ + 1] = f BY <1>1
<1> QED BY <1>2, <1>3 DEF t

LEMMA ExtendStep == ASSUME MemoryOK, Extend PROVE MemoryOK'
<1> DEFINE dst == Top.of
           o == spy_list_append(heap[dst], heap[Top.from].data[Top.at])
           h == [heap EXCEPT ![dst] = o]
           f == [Top EXCEPT !.at = @ + 1]
<1>1. frames # <<>> /\ Top.kind = "extend" BY DEF Extend
<1>2. \/ Top.at < heap[Top.from].len /\ heap' = h /\ SetTop(f)
      \/ UNCHANGED <<heap, frames>>
      \/ frames' = Under /\ heap' = heap
  BY DEF Extend
<1>3. CASE Top.at < heap[Top.from].len /\ heap' = h /\ SetTop(f)
  <2>1. heap[Top.from].data[Top.at] \in Value
    <3>1. Top.at \in Nat /\ BlockOK(heap[Top.from]) BY <1>1, TopIs
    <3>2. heap[Top.from].len \in Nat BY <3>1, Fields
    <3>3. Top.at \in 0 .. heap[Top.from].len - 1 BY <1>3, <3>1, <3>2
    <3> QED BY <3>1, <3>3, Fields
  <2>2. dst \in List /\ BlockOK(heap[dst]) /\ heap[dst].cap > 0 BY <1>1, TopIs DEF Live
  <2>3. BlockOK(o) /\ Keeps(heap[dst], o) BY <2>1, <2>2, AppendOK
  <2>4. f \in Frame /\ f.of = Top.of /\ f.from = Top.from /\ f.kind = "extend"
    BY <1>1, NextTurn
  <2>6. SetTop(f) /\ heap' = h BY <1>3
  <2> HIDE DEF o, f
  <2>5. MemoryIn(h, frames) BY <2>2, <2>3, MemoryIs, HeapStep
  <2> HIDE DEF h
  <2>7. FrameIn(h, Top)
    <3>1. Len(frames) \in DOMAIN frames BY <1>1, TopIs
    <3> QED BY <2>5, <3>1 DEF MemoryIn, Top
  <2>8. FrameIn(h, f) BY <2>4, <2>7 DEF FrameIn
  <2>9. MemoryIn(h, [frames EXCEPT ![Len(frames)] = f]) BY <1>1, <2>4, <2>5, <2>8, TopStep
  <2> QED BY <2>6, <2>9, MemoryIs DEF SetTop
<1>4. CASE UNCHANGED <<heap, frames>> BY <1>4, Same
<1>5. CASE frames' = Under /\ heap' = heap
  <2>1. Len(frames) - 1 \in 0 .. Len(frames) BY <1>1, TopIs
  <2> QED BY <1>5, <2>1, Left DEF Under
<1> QED BY <1>2, <1>3, <1>4, <1>5

LEMMA TurnStep == ASSUME MemoryOK, Turn PROVE MemoryOK'
<1> DEFINE f == [Top EXCEPT !.at = @ + 1]
<1>1. frames # <<>> /\ Top.kind = "walk" BY DEF Turn
<1>2. heap' = heap /\ (frames' = Under \/ frames' = frames \/ SetTop(f))
  BY DEF Turn, Abort
<1>3. CASE frames' = Under
  <2>1. Len(frames) - 1 \in 0 .. Len(frames) BY <1>1, TopIs
  <2> QED BY <1>2, <1>3, <2>1, Left DEF Under
<1>4. CASE frames' = frames BY <1>2, <1>4, Same
<1>5. CASE SetTop(f)
  <2>1. f \in Frame /\ f.of = Top.of /\ f.from = Top.from /\ f.kind = "walk"
    BY <1>1, NextTurn
  <2>2. SetTop(f) BY <1>5
  <2> HIDE DEF f
  <2>3. FrameIn(heap, f) BY <1>1, <2>1, TopIs DEF FrameIn
  <2> QED BY <1>1, <1>2, <2>1, <2>2, <2>3, Moved
<1> QED BY <1>2, <1>3, <1>4, <1>5

LEMMA KeyStep == ASSUME MemoryOK, KeyReturns PROVE MemoryOK'
<1>1. PICK k \in Key :
        LET o    == heap[Top.of]
            keys == Append(Top.keys, k)
        IN  /\ frames # <<>> /\ Top.kind = "sort"
            /\ IF Top.at + 1 < Top.n
                 THEN SetTop([Top EXCEPT !.keys = keys, !.at = @ + 1]) /\ UNCHANGED heap
                 ELSE /\ \E p \in Orders(Top.n, [i \in 0 .. Top.n - 1 |-> keys[i + 1]],
                                         Top.reverse) :
                           heap' = [heap EXCEPT ![Top.of] = Permuted(o, Top.n, p)]
                      /\ frames' = Under
  BY DEF KeyReturns
<1> DEFINE t == Top
<1>2. /\ t \in Frame /\ t.at \in Nat /\ t.n \in Nat /\ t.keys \in Seq(Key) /\ t.kind = "sort"
      /\ t = [kind |-> t.kind, of |-> t.of, from |-> t.from, n |-> t.n,
              at |-> t.at, keys |-> t.keys, reverse |-> t.reverse]
      /\ FrameIn(heap, t) /\ t.of \in List /\ BlockOK(heap[t.of]) /\ Len(frames) \in Nat \ {0}
  BY <1>1, TopIs
<1>3. CASE t.at + 1 < t.n
  <2> DEFINE keys == Append(t.keys, k)
             f == [kind |-> t.kind, of |-> t.of, from |-> t.from, n |-> t.n,
                   at |-> t.at + 1, keys |-> keys, reverse |-> t.reverse]
  <2>1. SetTop([t EXCEPT !.keys = keys, !.at = @ + 1]) /\ heap' = heap BY <1>1, <1>3
  <2> HIDE DEF t
  <2>2. keys \in Seq(Key) /\ Len(keys) = Len(t.keys) + 1 BY <1>2, AppendProperties
  <2> HIDE DEF keys
  <2>3. f \in Frame BY <1>2, <2>2 DEF Frame
  <2>4. [t EXCEPT !.keys = keys, !.at = @ + 1] = f
    <3> DEFINE g == [t EXCEPT !.keys = keys]
               r == [kind |-> t.kind, of |-> t.of, from |-> t.from, n |-> t.n,
                     at |-> t.at, keys |-> keys, reverse |-> t.reverse]
    <3>1. g = r BY <1>2
    <3>2. [t EXCEPT !.keys = keys, !.at = @ + 1] = [g EXCEPT !.at = t.at + 1] OBVIOUS
    <3> HIDE DEF g
    <3>3. [g EXCEPT !.at = t.at + 1] = f BY <3>1
    <3> QED BY <3>2, <3>3
  <2>5. FrameIn(heap, f) BY <1>2, <1>3, <2>2 DEF FrameIn
  <2>6. SetTop(f) BY <2>1, <2>4
  <2> HIDE DEF f
  <2> QED BY <1>1, <2>1, <2>3, <2>5, <2>6, Moved
<1>4. CASE ~(t.at + 1 < t.n)
  <2> DEFINE keys == [i \in 0 .. t.n - 1 |-> Append(t.keys, k)[i + 1]]
  <2>1. PICK p \in Orders(t.n, keys, t.reverse) :
          heap' = [heap EXCEPT ![t.of] = Permuted(heap[t.of], t.n, p)]
    BY <1>1, <1>4
  <2>2. frames' = Under BY <1>1, <1>4
  <2> HIDE DEF t, keys
  <2>3. p \in [0 .. t.n - 1 -> 0 .. t.n - 1] BY OrdersAre
  <2>4. Written(heap[t.of], t.n) BY <1>2 DEF FrameIn
  <2> DEFINE o == Permuted(heap[t.of], t.n, p)
             h == [heap EXCEPT ![t.of] = o]
  <2>5. BlockOK(o) /\ Keeps(heap[t.of], o) BY <1>2, <2>3, <2>4, SortOK
  <2>8. heap' = h BY <2>1
  <2> HIDE DEF o
  <2>6. MemoryIn(h, frames) BY <1>2, <2>5, MemoryIs, HeapStep
  <2> HIDE DEF h
  <2>7. Len(frames) - 1 \in 0 .. Len(frames) BY <1>2
  <2>9. MemoryIn(h, Under) BY <2>6, <2>7, CutStep DEF Under, Cut
  <2> QED BY <2>2, <2>8, <2>9, MemoryIs
<1> QED BY <1>3, <1>4

LEMMA LeaveStep == ASSUME MemoryOK, Leave PROVE MemoryOK'
<1>1. PICK k \in 0 .. Len(frames) - 1 : frames' = Cut(k) /\ heap' = heap BY DEF Leave
<1>2. Len(frames) \in Nat BY LenProperties DEF MemoryOK
<1>3. k \in 0 .. Len(frames) BY <1>2
<1> QED BY <1>1, <1>3, Left

-----------------------------------------------------------------------------
\* Lists of any length, used in any way while any nest of loops, extends and
\* sorts works on them: every block has its capacity, the elements of every list
\* have been written, and so have the cells a sort will read.
THEOREM ListsMemory == Spec => []MemoryOK
<1>1. MemoryOK /\ [Next]_vars => MemoryOK'
  <2> SUFFICES ASSUME MemoryOK, [Next]_vars PROVE MemoryOK' OBVIOUS
  <2>1. ASSUME NEW l \in List,
               \/ NewList(l) \/ Forget(l) \/ AppendTo(l) \/ Insert(l) \/ Pop(l)
               \/ Remove(l) \/ ReverseList(l) \/ Clear(l) \/ SetItem(l)
               \/ GetItem(l) \/ Index(l) \/ Count(l) \/ Sort(l)
        PROVE  MemoryOK'
    BY <2>1, ListSteps
  <2>2. ASSUME NEW l \in List, BeginWalk(l) \/ BeginSort(l) PROVE MemoryOK'
    BY <2>2, BeginSteps
  <2>3. ASSUME NEW l \in List, NEW m \in List, BeginExtend(l, m) PROVE MemoryOK'
    BY <2>3, BeginSteps
  <2>4. ASSUME NEW l \in List, NEW m \in List, SliceOf(l, m) PROVE MemoryOK'
    BY <2>4, SliceStep
  <2>5. CASE Extend BY <2>5, ExtendStep
  <2>6. CASE Turn BY <2>6, TurnStep
  <2>7. CASE KeyReturns BY <2>7, KeyStep
  <2>8. CASE Leave BY <2>8, LeaveStep
  <2>9. CASE UNCHANGED vars
    <3>1. UNCHANGED <<heap, frames>> BY <2>9 DEF vars
    <3> QED BY <3>1, Same
  <2> QED BY <2>1, <2>2, <2>3, <2>4, <2>5, <2>6, <2>7, <2>8, <2>9 DEF Next
<1> QED BY <1>1, FirstState, PTL DEF Spec

-----------------------------------------------------------------------------
\* What an operation leaves in a block is what Python leaves in the sequence: an
\* element at the end, put in between, taken out, set, all of them turned round.

\* A length and one more are integers of the machine.
LEMMA FitsIs == /\ MaxInt \in Int /\ MaxLen + 1 <= MaxInt /\ MaxLen \in Nat
BY ListAssumption DEF MaxInt

\* The elements of a block, as a sequence.
LEMMA OwnIs ==
  ASSUME NEW o, BlockOK(o)
  PROVE  /\ Own(o) \in Seq(Value) /\ Len(Own(o)) = o.len /\ DOMAIN Own(o) = 1 .. o.len
         /\ o.len \in Nat
         /\ \A i \in 1 .. o.len : Own(o)[i] = o.data[i - 1] /\ Own(o)[i] \in Value
<1>1. o.len \in Nat /\ \A c \in 0 .. o.len - 1 : o.data[c] \in Value BY Fields
<1>2. ASSUME NEW i \in 1 .. o.len PROVE o.data[i - 1] \in Value
  <2>1. i - 1 \in 0 .. o.len - 1 BY <1>1
  <2> QED BY <1>1, <2>1
<1> QED BY <1>1, <1>2 DEF Own

\* Two sequences with the same elements are one.
LEMMA SameElements ==
  ASSUME NEW o, BlockOK(o), NEW s \in Seq(Value), Len(s) = o.len,
         \A i \in 1 .. o.len : s[i] = o.data[i - 1]
  PROVE  Own(o) = s
BY OwnIs, SeqEqual

\* The elements are where they were when there is room behind the end.
LEMMA RoomyIs ==
  ASSUME NEW o, BlockOK(o), o.cap > 0
  PROVE  \A c \in 0 .. o.len - 1 : Roomy(o).data[c] = o.data[c]
<1>1. o.len \in Nat /\ o.cap \in Nat /\ o.len <= o.cap BY Fields
<1>2. CASE o.len < o.cap BY <1>2 DEF Roomy
<1>3. CASE ~(o.len < o.cap)
  <2> DEFINE cells == [c \in 0 .. 2 * o.cap - 1 |-> IF c < o.cap THEN o.data[c] ELSE Junk]
  <2>1. Roomy(o).data = cells BY <1>3 DEF Roomy, BlockOK
  <2>2. \A c \in 0 .. o.len - 1 : cells[c] = o.data[c] BY <1>1, <1>3
  <2> HIDE DEF cells
  <2> QED BY <2>1, <2>2
<1> QED BY <1>2, <1>3

\* spy_list_append is append.
LEMMA OwnAppend ==
  ASSUME NEW o, NEW v \in Value, BlockOK(o), o.cap > 0
  PROVE  Own(spy_list_append(o, v)) = Append(Own(o), v)
<1> DEFINE r == Roomy(o)
           a == spy_list_append(o, v)
           cells == [r.data EXCEPT ![r.len] = v]
<1>1. /\ BlockOK(r) /\ r.len = o.len /\ o.len < r.cap
      /\ \A c \in 0 .. o.len - 1 : r.data[c] = o.data[c]
  BY RoomyOK, RoomyIs
<1>2. a = [r EXCEPT !.len = r.len + 1, !.data = cells] BY DEF spy_list_append
<1>3. BlockOK(a) BY AppendOK
<1> HIDE DEF r, a
<1>4. /\ DOMAIN r.data = 0 .. r.cap - 1 /\ r.cap \in Nat /\ r.len \in Nat
      /\ r = [len |-> r.len, cap |-> r.cap, data |-> r.data]
  BY <1>1, Fields
<1>5. cells[o.len] = v /\ \A c \in 0 .. o.len - 1 : cells[c] = o.data[c] BY <1>1, <1>4
<1> HIDE DEF cells
<1>6. a.len = o.len + 1 /\ a.data = cells BY <1>1, <1>2, <1>4
<1> DEFINE s == Append(Own(o), v)
<1>7. /\ s \in Seq(Value) /\ Len(s) = o.len + 1 /\ s[o.len + 1] = v
      /\ \A i \in 1 .. o.len : s[i] = Own(o)[i]
  BY OwnIs, AppendProperties
<1> HIDE DEF s
<1>8. ASSUME NEW i \in 1 .. a.len PROVE s[i] = a.data[i - 1]
  <2>1. CASE i = o.len + 1 BY <1>1, <1>4, <1>5, <1>6, <1>7, <2>1
  <2>2. CASE i # o.len + 1
    <3>1. i \in 1 .. o.len /\ i - 1 \in 0 .. o.len - 1 BY <1>1, <1>4, <1>6, <2>2
    <3> QED BY <1>5, <1>6, <1>7, <3>1, OwnIs
  <2> QED BY <2>1, <2>2
<1> QED BY <1>3, <1>6, <1>7, <1>8, SameElements DEF a, s

\* What lies behind a place of a block and before it, with or without an element
\* between them.
LEMMA Around ==
  ASSUME NEW s \in Seq(Value), NEW i \in 1 .. Len(s) + 1, NEW v \in Value
  PROVE  LET t == Python!InsertAt(s, i, v)
         IN  /\ t \in Seq(Value) /\ Len(t) = Len(s) + 1
             /\ \A j \in 1 .. Len(s) + 1 :
                  t[j] = IF j < i THEN s[j] ELSE IF j = i THEN v ELSE s[j - 1]
<1> DEFINE a == SubSeq(s, 1, i - 1)
           b == SubSeq(s, i, Len(s))
<1>1. Len(s) \in Nat /\ i \in Int /\ \A j \in 1 .. Len(s) : s[j] \in Value
  BY LenProperties, ElementOfSeq
<1>2. a \in Seq(Value) /\ Len(a) = i - 1 /\ \A j \in 1 .. i - 1 : a[j] = s[j]
  BY <1>1, SubSeqProperties
<1>3. /\ b \in Seq(Value) /\ Len(b) = Len(s) - i + 1
      /\ \A j \in 1 .. Len(s) - i + 1 : b[j] = s[i + j - 1]
  BY <1>1, SubSeqProperties
<1>4. Python!InsertAt(s, i, v) = a \o <<v>> \o b BY DEF Python!InsertAt
<1> HIDE DEF a, b
<1> DEFINE c == a \o <<v>>
<1>5. c \in Seq(Value) /\ Len(c) = i /\ c[i] = v /\ \A j \in 1 .. i - 1 : c[j] = s[j]
  <2>1. <<v>> \in Seq(Value) /\ Len(<<v>>) = 1 /\ <<v>>[1] = v OBVIOUS
  <2>2. /\ c \in Seq(Value) /\ Len(c) = Len(a) + 1
        /\ \A j \in 1 .. Len(a) + 1 : c[j] = IF j <= Len(a) THEN a[j] ELSE <<v>>[j - Len(a)]
    BY <1>2, <2>1, ConcatProperties
  <2> HIDE DEF c
  <2> QED BY <1>1, <1>2, <2>1, <2>2
<1> HIDE DEF c
<1>6. /\ c \o b \in Seq(Value) /\ Len(c \o b) = Len(c) + Len(b)
      /\ \A j \in 1 .. Len(c) + Len(b) : (c \o b)[j] = IF j <= Len(c) THEN c[j] ELSE b[j - Len(c)]
  BY <1>3, <1>5, ConcatProperties
<1> DEFINE t == c \o b
<1> HIDE DEF t
<1>7. /\ t \in Seq(Value) /\ Len(t) = Len(s) + 1
      /\ \A j \in 1 .. Len(s) + 1 : t[j] = IF j <= i THEN c[j] ELSE b[j - i]
  BY <1>1, <1>3, <1>5, <1>6 DEF t
<1>8. ASSUME NEW j \in 1 .. Len(s) + 1
      PROVE  t[j] = IF j < i THEN s[j] ELSE IF j = i THEN v ELSE s[j - 1]
  <2>1. CASE j < i BY <1>1, <1>5, <1>7, <2>1
  <2>2. CASE j = i BY <1>1, <1>5, <1>7, <2>2
  <2>3. CASE j > i
    <3>1. j - i \in 1 .. Len(s) - i + 1 /\ i + (j - i) - 1 = j - 1 BY <1>1, <2>3
    <3>2. t[j] = b[j - i] BY <1>1, <1>7, <2>3
    <3>3. b[j - i] = s[i + (j - i) - 1] BY <1>3, <3>1
    <3> QED BY <1>1, <2>3, <3>1, <3>2, <3>3
  <2> QED BY <1>1, <2>1, <2>2, <2>3
<1> QED BY <1>4, <1>7, <1>8 DEF t, c

\* spy_list_insert is insert, at a place in the list or at its end.
LEMMA OwnInsert ==
  ASSUME NEW o, NEW v \in Value, NEW i \in Nat, BlockOK(o), o.cap > 0
  PROVE  /\ Python!Spot(Own(o), i) \in 0 .. o.len
         /\ Own(spy_list_insert(o, i, v)) = Python!InsertAt(Own(o), Python!Spot(Own(o), i) + 1, v)
<1> DEFINE r == Roomy(o)
           at == IF i < 0 THEN 0 ELSE IF i > o.len THEN o.len ELSE i
           cells == [c \in DOMAIN r.data |-> CASE c = at -> v
                                                [] c > at /\ c <= o.len -> r.data[c - 1]
                                                [] OTHER -> r.data[c]]
           a == spy_list_insert(o, i, v)
<1>1. a = [r EXCEPT !.len = r.len + 1, !.data = cells] BY DEF spy_list_insert
<1>2. /\ BlockOK(r) /\ r.len = o.len /\ o.len < r.cap
      /\ \A c \in 0 .. o.len - 1 : r.data[c] = o.data[c]
  BY RoomyOK, RoomyIs
<1>3. o.len \in Nat /\ at \in 0 .. o.len BY DEF BlockOK
<1>4. BlockOK(a) BY InsertOK
<1> HIDE DEF r, at, a
<1>5. /\ DOMAIN r.data = 0 .. r.cap - 1 /\ r.cap \in Nat
      /\ r = [len |-> r.len, cap |-> r.cap, data |-> r.data]
  BY <1>2, Fields
<1>6. ASSUME NEW c \in 0 .. o.len
      PROVE  cells[c] = IF c < at THEN o.data[c] ELSE IF c = at THEN v ELSE o.data[c - 1]
  <2>1. c \in DOMAIN r.data BY <1>2, <1>3, <1>5
  <2>2. CASE c < at
    <3>1. c \in 0 .. o.len - 1 BY <1>3, <2>2
    <3>2. cells[c] = r.data[c] BY <1>3, <2>1, <2>2
    <3> QED BY <1>2, <2>2, <3>1, <3>2
  <2>3. CASE c = at BY <1>3, <2>1, <2>3
  <2>4. CASE c > at
    <3>1. c - 1 \in 0 .. o.len - 1 /\ c <= o.len /\ ~(c = at) /\ ~(c < at) BY <1>3, <2>4
    <3>2. cells[c] = r.data[c - 1] BY <1>3, <2>1, <2>4, <3>1
    <3> QED BY <1>2, <3>1, <3>2
  <2> QED BY <1>3, <2>2, <2>3, <2>4
<1> HIDE DEF cells
<1>7. a.len = o.len + 1 /\ a.data = cells BY <1>1, <1>2, <1>5
<1> DEFINE s == Python!InsertAt(Own(o), at + 1, v)
<1>8. /\ s \in Seq(Value) /\ Len(s) = o.len + 1
      /\ \A j \in 1 .. o.len + 1 :
           s[j] = IF j < at + 1 THEN Own(o)[j] ELSE IF j = at + 1 THEN v ELSE Own(o)[j - 1]
  <2>1. Own(o) \in Seq(Value) /\ Len(Own(o)) = o.len /\ at + 1 \in 1 .. o.len + 1
    BY <1>3, OwnIs
  <2> QED BY <2>1, Around
<1> HIDE DEF s
<1>9. ASSUME NEW j \in 1 .. a.len PROVE s[j] = a.data[j - 1]
  <2>1. j \in 1 .. o.len + 1 /\ j - 1 \in 0 .. o.len BY <1>3, <1>7
  <2>2. CASE j < at + 1
    <3>1. j \in 1 .. o.len /\ j - 1 < at BY <1>3, <2>1, <2>2
    <3> QED BY <1>6, <1>7, <1>8, <2>1, <2>2, <3>1, OwnIs
  <2>3. CASE j = at + 1
    <3>1. j - 1 = at /\ ~(j - 1 < at) /\ ~(j < at + 1) BY <1>3, <2>3
    <3> QED BY <1>6, <1>7, <1>8, <2>1, <2>3, <3>1
  <2>4. CASE j > at + 1
    <3>1. j - 1 \in 1 .. o.len /\ ~(j - 1 < at) /\ j - 1 # at /\ ~(j < at + 1) /\ j # at + 1
      BY <1>3, <2>1, <2>4
    <3>2. s[j] = Own(o)[j - 1] BY <1>8, <2>1, <3>1
    <3>3. a.data[j - 1] = o.data[j - 1 - 1] BY <1>6, <1>7, <2>1, <3>1
    <3> QED BY <3>1, <3>2, <3>3, OwnIs
  <2> QED BY <1>3, <2>1, <2>2, <2>3, <2>4
<1>10. Own(a) = s BY <1>4, <1>7, <1>8, <1>9, SameElements
<1>11. Python!Spot(Own(o), i) = at
  <2>1. Len(Own(o)) = o.len BY OwnIs
  <2> QED BY <2>1 DEF at, Python!Spot
<1> QED BY <1>3, <1>10, <1>11 DEF s, a

\* The elements of a sequence without its i-th one.
LEMMA Taken ==
  ASSUME NEW s \in Seq(Value), NEW i \in 1 .. Len(s)
  PROVE  LET t == Python!RemoveAt(s, i)
         IN  /\ t \in Seq(Value) /\ Len(t) = Len(s) - 1
             /\ \A j \in 1 .. Len(s) - 1 : t[j] = IF j < i THEN s[j] ELSE s[j + 1]
<1> DEFINE a == SubSeq(s, 1, i - 1)
           b == SubSeq(s, i + 1, Len(s))
<1>1. Len(s) \in Nat /\ i \in Int /\ \A j \in 1 .. Len(s) : s[j] \in Value
  BY LenProperties, ElementOfSeq
<1>2. a \in Seq(Value) /\ Len(a) = i - 1 /\ \A j \in 1 .. i - 1 : a[j] = s[j]
  BY <1>1, SubSeqProperties
<1>3. b \in Seq(Value) /\ Len(b) = Len(s) - i /\ \A j \in 1 .. Len(s) - i : b[j] = s[i + 1 + j - 1]
  BY <1>1, SubSeqProperties
<1>4. Python!RemoveAt(s, i) = a \o b BY DEF Python!RemoveAt
<1> HIDE DEF a, b
<1>5. /\ a \o b \in Seq(Value) /\ Len(a \o b) = Len(a) + Len(b)
      /\ \A j \in 1 .. Len(a) + Len(b) : (a \o b)[j] = IF j <= Len(a) THEN a[j] ELSE b[j - Len(a)]
  BY <1>2, <1>3, ConcatProperties
<1> DEFINE t == a \o b
<1> HIDE DEF t
<1>6. /\ t \in Seq(Value) /\ Len(t) = Len(s) - 1
      /\ \A j \in 1 .. Len(s) - 1 : t[j] = IF j < i THEN a[j] ELSE b[j - (i - 1)]
  BY <1>1, <1>2, <1>3, <1>5 DEF t
<1>7. ASSUME NEW j \in 1 .. Len(s) - 1 PROVE t[j] = IF j < i THEN s[j] ELSE s[j + 1]
  <2>1. CASE j < i BY <1>1, <1>2, <1>6, <2>1
  <2>2. CASE ~(j < i)
    <3>1. j - (i - 1) \in 1 .. Len(s) - i /\ i + 1 + (j - (i - 1)) - 1 = j + 1 BY <1>1, <2>2
    <3>2. b[j - (i - 1)] = s[i + 1 + (j - (i - 1)) - 1] BY <1>3, <3>1
    <3> QED BY <1>6, <2>2, <3>1, <3>2
  <2> QED BY <2>1, <2>2
<1> QED BY <1>4, <1>6, <1>7 DEF t

\* Moving what is behind c down by one is del l[c].
LEMMA OwnRemove ==
  ASSUME NEW o, BlockOK(o), NEW c \in 0 .. o.len - 1
  PROVE  Own(spy_list_remove(o, c)) = Python!RemoveAt(Own(o), c + 1)
<1> DEFINE cells == [d \in DOMAIN o.data |-> IF d >= c /\ d < o.len - 1 THEN o.data[d + 1]
                                              ELSE o.data[d]]
           a == spy_list_remove(o, c)
<1>1. /\ o.len \in Nat /\ o.cap \in Nat /\ o.len <= o.cap /\ DOMAIN o.data = 0 .. o.cap - 1
      /\ o = [len |-> o.len, cap |-> o.cap, data |-> o.data]
  BY Fields
<1>2. a = [o EXCEPT !.len = o.len - 1, !.data = cells] BY DEF spy_list_remove
<1>3. BlockOK(a) BY <1>1, RemoveOK
<1>4. ASSUME NEW d \in 0 .. o.len - 2 PROVE cells[d] = IF d < c THEN o.data[d] ELSE o.data[d + 1]
  <2>1. d \in DOMAIN o.data BY <1>1
  <2>2. d < o.len - 1 BY <1>1
  <2> QED BY <1>1, <2>1, <2>2
<1> HIDE DEF cells, a
<1>5. a.len = o.len - 1 /\ a.data = cells BY <1>1, <1>2
<1> DEFINE s == Python!RemoveAt(Own(o), c + 1)
<1>6. /\ s \in Seq(Value) /\ Len(s) = o.len - 1
      /\ \A j \in 1 .. o.len - 1 : s[j] = IF j < c + 1 THEN Own(o)[j] ELSE Own(o)[j + 1]
  <2>1. Own(o) \in Seq(Value) /\ Len(Own(o)) = o.len /\ c + 1 \in 1 .. o.len
    BY <1>1, OwnIs
  <2> QED BY <2>1, Taken
<1> HIDE DEF s
<1>7. ASSUME NEW j \in 1 .. a.len PROVE s[j] = a.data[j - 1]
  <2>1. j \in 1 .. o.len - 1 /\ j - 1 \in 0 .. o.len - 2 /\ j \in 1 .. o.len /\ j + 1 \in 1 .. o.len
        /\ j + 1 - 1 = j - 1 + 1 /\ (j < c + 1 <=> j - 1 < c)
    BY <1>1, <1>5
  <2> QED BY <1>4, <1>5, <1>6, <2>1, OwnIs
<1> QED BY <1>3, <1>5, <1>6, <1>7, SameElements DEF s, a

\* spy_list_pop gives the last element and leaves the others.
LEMMA OwnPop ==
  ASSUME NEW o, BlockOK(o), o.len # 0
  PROVE  /\ Own(o) # <<>> /\ Own(spy_list_pop(o)) = Python!Front(Own(o))
         /\ o.data[o.len - 1] = Python!Last(Own(o))
<1> DEFINE a == spy_list_pop(o)
           s == Python!Front(Own(o))
<1>1. o.len \in Nat /\ o.len > 0 /\ o = [len |-> o.len, cap |-> o.cap, data |-> o.data]
  BY Fields
<1>2. BlockOK(a) BY <1>1, ShorterOK
<1>3. a.len = o.len - 1 /\ a.data = o.data BY <1>1 DEF spy_list_pop
<1>4. /\ Own(o) \in Seq(Value) /\ Len(Own(o)) = o.len
      /\ \A i \in 1 .. o.len : Own(o)[i] = o.data[i - 1] /\ Own(o)[i] \in Value
  BY OwnIs
<1>5. /\ s \in Seq(Value) /\ Len(s) = o.len - 1 /\ \A i \in 1 .. o.len - 1 : s[i] = Own(o)[i]
  <2>1. s = SubSeq(Own(o), 1, o.len - 1) BY <1>4 DEF Python!Front
  <2>2. \A i \in 1 .. o.len - 1 : Own(o)[i] \in Value BY <1>1, <1>4
  <2> HIDE DEF s
  <2>3. \A i \in 1 .. o.len - 1 : Own(o)[i] \in Value BY <2>2
  <2>4. o.len - 1 \in Nat /\ Own(o) \in Seq(Value) BY <1>1, <1>4
  <2> DEFINE m == o.len - 1
  <2>5. /\ SubSeq(Own(o), 1, m) \in Seq(Value)
        /\ Len(SubSeq(Own(o), 1, m)) = IF 1 <= m THEN m - 1 + 1 ELSE 0
        /\ \A i \in 1 .. m - 1 + 1 : SubSeq(Own(o), 1, m)[i] = Own(o)[1 + i - 1]
    <3>1. m \in Nat /\ \A i \in 1 .. m : Own(o)[i] \in Value BY <2>3, <2>4
    <3> HIDE DEF m
    <3> QED BY <3>1, <2>4, SubSeqProperties
  <2>6. SubSeq(Own(o), 1, m) = s BY <2>1
  <2>7. \A i \in 1 .. m : i \in 1 .. m - 1 + 1 /\ 1 + i - 1 = i BY <2>4
  <2> HIDE DEF s
  <2>8. Len(s) = m BY <2>4, <2>5, <2>6
  <2>9. \A i \in 1 .. m : s[i] = Own(o)[i] BY <2>5, <2>6, <2>7
  <2> QED BY <2>5, <2>6, <2>8, <2>9
<1> HIDE DEF a, s
<1>6. \A i \in 1 .. a.len : s[i] = a.data[i - 1] BY <1>1, <1>3, <1>4, <1>5
<1>7. Own(a) = s BY <1>2, <1>3, <1>5, <1>6, SameElements
<1>8. o.data[o.len - 1] = Python!Last(Own(o))
  <2>1. o.len \in 1 .. o.len BY <1>1
  <2> QED BY <1>4, <2>1 DEF Python!Last
<1>9. Own(o) # <<>> BY <1>1, <1>4
<1> QED BY <1>7, <1>8, <1>9 DEF a, s

\* spy_list_reverse is reverse.
LEMMA OwnReverse ==
  ASSUME NEW o, BlockOK(o)
  PROVE  Own(spy_list_reverse(o)) = Python!Reverse(Own(o))
<1> DEFINE cells == [d \in DOMAIN o.data |-> IF d < o.len THEN o.data[o.len - 1 - d]
                                              ELSE o.data[d]]
           a == spy_list_reverse(o)
           s == Python!Reverse(Own(o))
<1>1. /\ o.len \in Nat /\ o.cap \in Nat /\ o.len <= o.cap /\ DOMAIN o.data = 0 .. o.cap - 1
      /\ o = [len |-> o.len, cap |-> o.cap, data |-> o.data]
  BY Fields
<1>2. a = [o EXCEPT !.data = cells] BY DEF spy_list_reverse
<1>3. BlockOK(a) BY ReverseOK
<1>4. \A d \in 0 .. o.len - 1 : cells[d] = o.data[o.len - 1 - d] BY <1>1
<1> HIDE DEF cells, a
<1>5. a.len = o.len /\ a.data = cells BY <1>1, <1>2
<1>6. /\ Own(o) \in Seq(Value) /\ Len(Own(o)) = o.len
      /\ \A i \in 1 .. o.len : Own(o)[i] = o.data[i - 1] /\ Own(o)[i] \in Value
  BY OwnIs
<1>7. \A i \in 1 .. o.len : o.len - i + 1 \in 1 .. o.len BY <1>1
<1>8. s = [i \in 1 .. o.len |-> Own(o)[o.len - i + 1]] BY <1>6 DEF Python!Reverse
<1>9. s \in Seq(Value) /\ Len(s) = o.len /\ \A i \in 1 .. o.len : s[i] = Own(o)[o.len - i + 1]
  <2> HIDE DEF s
  <2>1. s \in [1 .. o.len -> Value] BY <1>6, <1>7, <1>8
  <2> QED BY <1>1, <1>8, <2>1
<1> HIDE DEF s
<1>10. ASSUME NEW i \in 1 .. a.len PROVE s[i] = a.data[i - 1]
  <2>1. i \in 1 .. o.len /\ i - 1 \in 0 .. o.len - 1 /\ o.len - 1 - (i - 1) = o.len - i + 1 - 1
    BY <1>1, <1>5
  <2>2. o.len - i + 1 \in 1 .. o.len BY <1>7, <2>1
  <2>3. PICK k \in 1 .. o.len : k = o.len - i + 1 BY <2>2
  <2>4. s[i] = Own(o)[k] BY <1>9, <2>1, <2>3
  <2>5. Own(o)[k] = o.data[k - 1] BY <1>6
  <2>6. k - 1 = o.len - 1 - (i - 1) BY <1>1, <2>1, <2>3
  <2>7. a.data[i - 1] = o.data[o.len - 1 - (i - 1)] BY <1>4, <1>5, <2>1
  <2> QED BY <2>4, <2>5, <2>6, <2>7
<1> QED BY <1>3, <1>5, <1>9, <1>10, SameElements DEF a, s

\* spy_list_set is l[c] = v.
LEMMA OwnSet ==
  ASSUME NEW o, BlockOK(o), NEW c \in 0 .. o.len - 1, NEW v \in Value
  PROVE  /\ Own(spy_list_set(o, c, v)) = [Own(o) EXCEPT ![c + 1] = v]
         /\ c + 1 \in DOMAIN Own(o)
<1> DEFINE a == spy_list_set(o, c, v)
           cells == [o.data EXCEPT ![c] = v]
           s == [Own(o) EXCEPT ![c + 1] = v]
<1>1. /\ o.len \in Nat /\ o.cap \in Nat /\ o.len <= o.cap /\ DOMAIN o.data = 0 .. o.cap - 1
      /\ o = [len |-> o.len, cap |-> o.cap, data |-> o.data]
  BY Fields
<1>2. BlockOK(a) BY SetOK
<1>3. a.len = o.len /\ a.data = cells BY <1>1 DEF spy_list_set
<1>4. \A d \in 0 .. o.len - 1 : cells[d] = IF d = c THEN v ELSE o.data[d] BY <1>1
<1>5. /\ Own(o) \in Seq(Value) /\ Len(Own(o)) = o.len /\ DOMAIN Own(o) = 1 .. o.len
      /\ \A i \in 1 .. o.len : Own(o)[i] = o.data[i - 1]
  BY OwnIs
<1>6. c + 1 \in 1 .. o.len BY <1>1
<1>7. /\ s \in Seq(Value) /\ Len(s) = o.len
      /\ \A i \in 1 .. o.len : s[i] = IF i = c + 1 THEN v ELSE Own(o)[i]
  <2>1. s \in Seq(Value) /\ Len(s) = o.len BY <1>5, <1>6, ExceptSeq
  <2> QED BY <1>5, <2>1
<1> HIDE DEF a, s, cells
<1>8. ASSUME NEW i \in 1 .. a.len PROVE s[i] = a.data[i - 1]
  <2>1. i \in 1 .. o.len /\ i - 1 \in 0 .. o.len - 1 /\ (i = c + 1 <=> i - 1 = c) BY <1>1, <1>3
  <2> QED BY <1>3, <1>4, <1>5, <1>7, <2>1
<1>9. Own(a) = s BY <1>2, <1>3, <1>7, <1>8, SameElements
<1> QED BY <1>5, <1>6, <1>9 DEF a, s

\* What is cleared, new or not there has no elements.
LEMMA OwnNone ==
  ASSUME NEW o, BlockOK(o)
  PROVE  /\ Own(spy_list_clear(o)) = <<>> /\ Own(spy_list_new) = <<>> /\ Own(Nothing) = <<>>
         /\ Own(o) = <<>> <=> o.len = 0
<1>1. /\ BlockOK(spy_list_clear(o)) /\ BlockOK(spy_list_new) /\ BlockOK(Nothing)
      /\ spy_list_clear(o).len = 0 /\ spy_list_new.len = 0 /\ Nothing.len = 0
  BY ShorterOK, NewOK DEF spy_list_clear, spy_list_new, Nothing, BlockOK
<1>2. ASSUME NEW a, BlockOK(a) PROVE Own(a) = <<>> <=> a.len = 0
  BY <1>2, OwnIs, EmptySeq
<1> QED BY <1>1, <1>2

-----------------------------------------------------------------------------
\* What is asked of a block: where an element is, and how often.

\* A set of naturals that is not empty has a least element.
LEMMA LeastNat ==
  ASSUME NEW T \in SUBSET Nat, T # {}
  PROVE  \E x \in T : \A y \in T : x <= y
<1> DEFINE R == OpToRel(<, Nat)
<1>1. IsWellFoundedOn(R, Nat)
  BY NatLessThanWellFounded
<1>2. \A x, y \in Nat : x < y => <<x, y>> \in R
  BY DEF OpToRel
<1> HIDE DEF R
<1>3. PICK x \in T : \A y \in T : ~(<<y, x>> \in R)
  BY <1>1, WFMin
<1>4. \A y \in T : x <= y
  <2> TAKE y \in T
  <2>1. x \in Nat /\ y \in Nat
    OBVIOUS
  <2>2. ~(y < x)
    BY <1>2, <1>3, <2>1
  <2> QED BY <2>1, <2>2
<1> QED BY <1>4

\* The place index gives is the first one of the sequence.
LEMMA OwnIndex ==
  ASSUME NEW o, BlockOK(o), NEW v
  PROVE  LET c == spy_list_index(o, v)
         IN  /\ c \in Int
             /\ c < 0 <=> v \notin Python!Range(Own(o))
             /\ ~(c < 0) => c \in 0 .. o.len - 1 /\ Python!First(Own(o), v) = c + 1
<1> DEFINE at == {c \in 0 .. o.len - 1 : o.data[c] = v}
           s == Own(o)
<1>1. /\ o.len \in Nat /\ DOMAIN s = 1 .. o.len
      /\ \A i \in 1 .. o.len : s[i] = o.data[i - 1]
  BY OwnIs
<1>2. spy_list_index(o, v) = IF at = {} THEN -1 ELSE CHOOSE c \in at : \A d \in at : c <= d
  BY DEF spy_list_index
<1>3. ASSUME NEW i \in 1 .. o.len PROVE s[i] = v <=> i - 1 \in at
  <2>1. i - 1 \in 0 .. o.len - 1 BY <1>1
  <2> QED BY <1>1, <2>1
<1>4. at \subseteq 0 .. o.len - 1 OBVIOUS
<1>5. ASSUME NEW c \in at PROVE c \in Nat /\ c + 1 \in 1 .. o.len /\ c + 1 - 1 = c /\ s[c + 1] = v
  <2> HIDE DEF s
  <2>1. c \in 0 .. o.len - 1 /\ o.data[c] = v OBVIOUS
  <2>2. c + 1 \in 1 .. o.len /\ c + 1 - 1 = c BY <1>1, <2>1
  <2>3. s[c + 1] = o.data[c + 1 - 1] BY <1>1, <2>2
  <2> QED BY <2>1, <2>2, <2>3
<1> HIDE DEF at, s
<1>6. v \in Python!Range(s) <=> at # {}
  <2>1. v \in Python!Range(s) <=> \E i \in 1 .. o.len : s[i] = v BY <1>1 DEF Python!Range
  <2> QED BY <1>3, <1>5, <2>1
<1>7. CASE at = {} BY <1>2, <1>6, <1>7 DEF s
<1>8. CASE at # {}
  <2>1. at \in SUBSET Nat BY <1>1, <1>4
  <2>2. \E x \in at : \A y \in at : x <= y BY <1>8, <2>1, LeastNat
  <2> DEFINE c == CHOOSE x \in at : \A y \in at : x <= y
  <2>3. c \in at /\ \A y \in at : c <= y BY <2>2
  <2>4. spy_list_index(o, v) = c BY <1>2, <1>8
  <2> HIDE DEF c
  <2>5. c \in 0 .. o.len - 1 /\ c \in Nat BY <1>4, <2>1, <2>3
  <2>6. \A j \in 1 .. c : s[j] # v
    <3>1. SUFFICES ASSUME NEW j \in 1 .. c, s[j] = v PROVE FALSE OBVIOUS
    <3>2. j \in 1 .. o.len /\ j - 1 < c /\ j - 1 \in Int BY <1>1, <2>5
    <3>3. j - 1 \in at BY <1>3, <3>1, <3>2
    <3> QED BY <2>3, <2>5, <3>2, <3>3
  <2> DEFINE m == Python!First(s, v)
  <2>7. m = CHOOSE i \in DOMAIN s : s[i] = v /\ \A j \in 1 .. i - 1 : s[j] # v
    BY DEF Python!First
  <2> HIDE DEF m
  <2>8. m \in 1 .. o.len /\ s[m] = v /\ \A j \in 1 .. m - 1 : s[j] # v
    <3>1. \E i \in DOMAIN s : s[i] = v /\ \A j \in 1 .. i - 1 : s[j] # v
      <4>1. PICK i \in 1 .. o.len : i = c + 1 BY <1>5, <2>3
      <4>2. s[i] = v BY <1>5, <2>3, <4>1
      <4>3. i - 1 = c BY <2>5, <4>1
      <4> QED BY <1>1, <2>6, <4>2, <4>3
    <3> QED BY <1>1, <2>7, <3>1
  <2>9. m = c + 1
    <3>1. m - 1 \in at /\ m \in Int BY <1>1, <1>3, <2>8
    <3>2. c <= m - 1 BY <2>3, <3>1
    <3>3. ASSUME c + 1 < m PROVE FALSE
      <4>1. c + 1 \in 1 .. m - 1 BY <2>5, <3>1, <3>3
      <4>2. s[c + 1] = v BY <1>5, <2>3
      <4> QED BY <2>8, <4>1, <4>2
    <3> QED BY <2>5, <3>1, <3>2, <3>3
  <2> QED BY <1>6, <1>8, <2>4, <2>5, <2>9 DEF s, m
<1> QED BY <1>7, <1>8 DEF s

\* One and the same cardinality, seen through two modules.
LEMMA PyCounts == ASSUME NEW S PROVE Python!Cardinality(S) = Cardinality(S)
BY DEF Python!Cardinality, Cardinality

\* spy_list_count_elem is count.
LEMMA OwnCount ==
  ASSUME NEW o, BlockOK(o), NEW v
  PROVE  spy_list_count_elem(o, v) = Python!Cardinality({i \in DOMAIN Own(o) : Own(o)[i] = v})
<1> DEFINE at == {c \in 0 .. o.len - 1 : o.data[c] = v}
           is == {i \in DOMAIN Own(o) : Own(o)[i] = v}
           f == [c \in at |-> c + 1]
<1>1. /\ o.len \in Nat /\ DOMAIN Own(o) = 1 .. o.len
      /\ \A i \in 1 .. o.len : Own(o)[i] = o.data[i - 1]
  BY OwnIs
<1>2. IsFiniteSet(at)
  <2>1. IsFiniteSet(0 .. o.len - 1) BY <1>1, FS_Interval
  <2> QED BY <2>1, FS_Subset
<1>3. \A c \in at : c \in Int /\ c + 1 \in is
  <2> TAKE c \in at
  <2>1. c \in 0 .. o.len - 1 /\ o.data[c] = v OBVIOUS
  <2>2. c + 1 \in 1 .. o.len /\ c + 1 - 1 = c BY <1>1, <2>1
  <2>3. Own(o)[c + 1] = o.data[c + 1 - 1] BY <1>1, <2>2
  <2> QED BY <1>1, <2>1, <2>2, <2>3
<1>4. \A i \in is : i \in Int /\ i - 1 \in at
  <2> TAKE i \in is
  <2>1. i \in 1 .. o.len /\ Own(o)[i] = v BY <1>1
  <2>2. i - 1 \in 0 .. o.len - 1 BY <1>1, <2>1
  <2> QED BY <1>1, <2>1, <2>2
<1> HIDE DEF at, is
<1>5. f \in Bijection(at, is)
  <2>1. f \in [at -> is] BY <1>3
  <2>2. \A a, b \in at : f[a] = f[b] => a = b BY <1>3
  <2>3. \A i \in is : \E a \in at : f[a] = i
    <3> TAKE i \in is
    <3>1. i - 1 \in at /\ i - 1 + 1 = i BY <1>4
    <3> QED BY <3>1
  <2> HIDE DEF f
  <2> QED BY <2>1, <2>2, <2>3, Fun_IsBij
<1>6. Cardinality(is) = Cardinality(at) BY <1>2, <1>5, FS_Bijection DEF ExistsBijection
<1> QED BY <1>6, PyCounts DEF at, is, spy_list_count_elem

-----------------------------------------------------------------------------
\* The stable sort of a block, by its keys and either way round.

\* No element comes before itself, nor two of them before each other.
LEMMA BeforeIs ==
  ASSUME NEW ks, NEW reverse \in BOOLEAN, NEW i \in Int, NEW j \in Int, ks[i] \in Int, ks[j] \in Int
  PROVE  /\ Python!Before(ks, reverse, i, j) => ~Python!Before(ks, reverse, j, i)
         /\ ~Python!Before(ks, reverse, i, i)
<1>1. CASE reverse = TRUE
  <2>1. /\ Python!Before(ks, reverse, i, j) <=> IF ks[i] = ks[j] THEN i < j ELSE ~(ks[i] < ks[j])
        /\ Python!Before(ks, reverse, j, i) <=> IF ks[j] = ks[i] THEN j < i ELSE ~(ks[j] < ks[i])
        /\ Python!Before(ks, reverse, i, i) <=> i < i
    BY <1>1 DEF Python!Before
  <2> QED BY <2>1
<1>2. CASE reverse = FALSE
  <2>1. /\ Python!Before(ks, reverse, i, j) <=> IF ks[i] = ks[j] THEN i < j ELSE ks[i] < ks[j]
        /\ Python!Before(ks, reverse, j, i) <=> IF ks[j] = ks[i] THEN j < i ELSE ks[j] < ks[i]
        /\ Python!Before(ks, reverse, i, i) <=> i < i
    BY <1>2 DEF Python!Before
  <2> QED BY <2>1
<1> QED BY <1>1, <1>2

\* The comparator of the runtime, with places counted from 0.
LEMMA CompareIs ==
  ASSUME NEW keys, NEW ks, NEW reverse \in BOOLEAN, NEW i \in Int, NEW j \in Int,
         NEW x \in Int, NEW y \in Int, x = i + 1, y = j + 1,
         keys[i] \in Int, keys[j] \in Int, ks[x] = keys[i], ks[y] = keys[j]
  PROVE  spy_sort_idx_cmp(keys, reverse, i, j) < 0 <=> Python!Before(ks, reverse, x, y)
<1> DEFINE r == IF keys[i] > keys[j] THEN 1 ELSE IF keys[i] < keys[j] THEN -1 ELSE 0
           s == IF reverse THEN -r ELSE r
           a == ks[x]
           b == ks[y]
<1>1. spy_sort_idx_cmp(keys, reverse, i, j) = IF s # 0 THEN s ELSE i - j
  BY DEF spy_sort_idx_cmp
<1>2. a \in Int /\ b \in Int /\ r = IF a > b THEN 1 ELSE IF a < b THEN -1 ELSE 0 OBVIOUS
<1>3. Python!Before(ks, reverse, x, y) <=> IF a = b THEN x < y ELSE (a < b) # reverse
  BY DEF Python!Before
<1> HIDE DEF r
<1>4. r \in Int BY <1>2
<1>5. CASE reverse = TRUE
  <2>1. s = -r BY <1>5
  <2> HIDE DEF s, a, b
  <2>2. Python!Before(ks, reverse, x, y) <=> IF a = b THEN x < y ELSE ~(a < b) BY <1>3, <1>5
  <2>3. /\ a > b => r = 1
        /\ a < b => r = -1
        /\ a = b => r = 0
    BY <1>2
  <2>4. /\ a > b => s = -1
        /\ a < b => s = 1
        /\ a = b => s = 0
    BY ONLY <2>1, <2>3
  <2> QED BY ONLY <1>1, <1>2, <2>4, <2>2, i \in Int, j \in Int, x = i + 1, y = j + 1
<1>6. CASE reverse = FALSE
  <2>1. s = r BY <1>6
  <2> HIDE DEF s, a, b
  <2>2. Python!Before(ks, reverse, x, y) <=> IF a = b THEN x < y ELSE a < b BY <1>3, <1>6
  <2> QED BY ONLY <1>1, <1>2, <1>4, <2>1, <2>2, i \in Int, j \in Int, x = i + 1, y = j + 1
<1> QED BY <1>5, <1>6

\* q lists the places 1 .. n, each before the next ones.
InOrder(n, ks, reverse, q) ==
  /\ \A i \in 1 .. n : ks[i] \in Int
  /\ q \in [1 .. n -> 1 .. n]
  /\ \A a, b \in 1 .. n : a < b => Python!Before(ks, reverse, q[a], q[b])

\* A list q of places, each before the next ones, is the list that counting the
\* places before each of them gives.
LEMMA Counted ==
  ASSUME NEW n \in Nat, NEW ks, NEW reverse \in BOOLEAN, NEW P, P = 1 .. n,
         NEW q, InOrder(n, ks, reverse, q), NEW b \in 1 .. n
  PROVE  q[b] = Python!Placed(P, ks, reverse, b)
<1>0. /\ \A i \in 1 .. n : ks[i] \in Int
      /\ q \in [1 .. n -> 1 .. n]
      /\ \A a, c \in 1 .. n : a < c => Python!Before(ks, reverse, q[a], q[c])
  BY DEF InOrder
<1> DEFINE Smaller(i) == {j \in P : Python!Before(ks, reverse, j, i)}
<1>1. ASSUME NEW a \in P, NEW c \in P PROVE Python!Before(ks, reverse, q[a], q[c]) <=> a < c
  <2>1. q[a] \in P /\ q[c] \in P /\ a \in Int /\ c \in Int BY <1>0
  <2>2. q[a] \in Int /\ q[c] \in Int /\ ks[q[a]] \in Int /\ ks[q[c]] \in Int BY <1>0, <2>1
  <2>3. CASE a < c BY <1>0, <2>3
  <2>4. CASE a = c
    <3>1. ~Python!Before(ks, reverse, q[a], q[a]) BY <2>2, BeforeIs
    <3> QED BY <2>4, <3>1
  <2>5. CASE c < a
    <3>1. Python!Before(ks, reverse, q[c], q[a]) BY <1>0, <2>5
    <3>2. ~Python!Before(ks, reverse, q[a], q[c]) BY <2>2, <3>1, BeforeIs
    <3> QED BY <2>1, <2>5, <3>2
  <2> QED BY <2>1, <2>3, <2>4, <2>5
<1>2. \A i \in P : i \in Int OBVIOUS
<1>3. IsFiniteSet(P) /\ Cardinality(P) = n BY FS_Interval
<1>4. q \in Injection(P, P)
  <2>1. \A a, c \in P : q[a] = q[c] => a = c
    <3> SUFFICES ASSUME NEW a \in P, NEW c \in P, q[a] = q[c] PROVE a = c OBVIOUS
    <3>1. Python!Before(ks, reverse, q[a], q[a]) <=> a < c BY <1>1
    <3>2. Python!Before(ks, reverse, q[a], q[a]) <=> a < a BY <1>1
    <3>3. Python!Before(ks, reverse, q[a], q[a]) <=> c < a BY <1>1
    <3> QED BY <1>2, <3>1, <3>2, <3>3
  <2> QED BY <1>0, <2>1 DEF Injection, IsInjective
<1>5. q \in Surjection(P, P) BY <1>3, <1>4, FS_Injection
<1>6. \A i \in P : \E a \in P : q[a] = i BY <1>5 DEF Surjection
<1>7. ASSUME NEW c \in P PROVE 1 + Cardinality(Smaller(q[c])) = c
  <2> DEFINE f == [a \in 1 .. c - 1 |-> q[a]]
             S == Smaller(q[c])
  <2>1. c \in Int /\ \A a \in 1 .. c - 1 : a \in P /\ a < c BY <1>2
  <2>2. \A a \in 1 .. c - 1 : q[a] \in S
    <3> TAKE a \in 1 .. c - 1
    <3>1. a \in P /\ a < c BY <2>1
    <3>2. Python!Before(ks, reverse, q[a], q[c]) BY <1>1, <3>1
    <3> QED BY <1>0, <3>1, <3>2
  <2>3. \A i \in S : \E a \in 1 .. c - 1 : q[a] = i
    <3> TAKE i \in S
    <3>1. i \in P /\ Python!Before(ks, reverse, i, q[c]) OBVIOUS
    <3>2. PICK a \in P : q[a] = i BY <1>6, <3>1
    <3>3. a < c BY <1>1, <3>1, <3>2
    <3>4. a \in 1 .. c - 1 BY <1>2, <3>3
    <3> QED BY <3>2, <3>4
  <2> HIDE DEF S
  <2>4. f \in [1 .. c - 1 -> S] BY <2>2
  <2>5. \A a, d \in 1 .. c - 1 : f[a] = f[d] => a = d
    <3>1. \A a, d \in P : q[a] = q[d] => a = d BY <1>4 DEF Injection, IsInjective
    <3> QED BY <2>1, <3>1
  <2>6. \A i \in S : \E a \in 1 .. c - 1 : f[a] = i BY <2>3
  <2> HIDE DEF f
  <2>7. f \in Bijection(1 .. c - 1, S) BY <2>4, <2>5, <2>6, Fun_IsBij
  <2>8. IsFiniteSet(1 .. c - 1) /\ Cardinality(1 .. c - 1) = c - 1
    <3>1. c - 1 \in Int /\ 1 \in Int /\ c >= 1 BY <2>1
    <3>2. IsFiniteSet(1 .. c - 1) /\ Cardinality(1 .. c - 1) = IF 1 > c - 1 THEN 0 ELSE c - 1 - 1 + 1
      BY <3>1, FS_Interval
    <3> QED BY <3>1, <3>2
  <2>9. Cardinality(S) = c - 1 BY <2>7, <2>8, FS_Bijection DEF ExistsBijection
  <2> QED BY <2>1, <2>9 DEF S
<1>8. \A c \in P : Python!Rank(P, ks, reverse, q[c]) = c
  <2> TAKE c \in P
  <2>1. Python!Rank(P, ks, reverse, q[c]) = 1 + Cardinality(Smaller(q[c]))
    BY PyCounts DEF Python!Rank
  <2> QED BY <1>7, <2>1
<1>9. \A i \in P : Python!Rank(P, ks, reverse, i) = b => i = q[b]
  <2> SUFFICES ASSUME NEW i \in P, Python!Rank(P, ks, reverse, i) = b PROVE i = q[b] OBVIOUS
  <2>1. PICK a \in P : q[a] = i BY <1>6
  <2> QED BY <1>8, <2>1
<1> QED BY <1>0, <1>8, <1>9 DEF Python!Placed

\* Whichever order the comparison of spy_sort_idx allows, it is the stable one.
LEMMA OwnSort ==
  ASSUME NEW o, BlockOK(o), NEW keys, NEW ks, NEW reverse \in BOOLEAN,
         \A i \in 0 .. o.len - 1 : keys[i] \in Int /\ ks[i + 1] = keys[i],
         NEW p \in Orders(o.len, keys, reverse)
  PROVE  Own(Permuted(o, o.len, p)) = Python!SortedBy(Own(o), ks, reverse)
<1> DEFINE n == o.len
           cells == [c \in DOMAIN o.data |-> IF c < n THEN o.data[p[c]] ELSE o.data[c]]
           a == Permuted(o, n, p)
           q == [c \in 1 .. n |-> p[c - 1] + 1]
           s == [c \in 1 .. n |-> Own(o)[q[c]]]
<1>1. /\ n \in Nat /\ o.cap \in Nat /\ n <= o.cap /\ DOMAIN o.data = 0 .. o.cap - 1
      /\ o = [len |-> n, cap |-> o.cap, data |-> o.data]
  BY Fields
<1>2. /\ p \in [0 .. n - 1 -> 0 .. n - 1]
      /\ \A i, j \in 0 .. n - 1 : i < j => spy_sort_idx_cmp(keys, reverse, p[i], p[j]) < 0
  BY DEF Orders
<1>3. a = [o EXCEPT !.data = cells] BY DEF Permuted
<1>4. BlockOK(a)
  <2>1. Written(o, n) BY DEF BlockOK
  <2> QED BY <1>1, <1>2, <2>1, SortOK
<1>5. \A c \in 0 .. n - 1 : cells[c] = o.data[p[c]] BY <1>1
<1> HIDE DEF cells, a
<1>6. a.len = n /\ a.data = cells BY <1>1, <1>3
<1>7. /\ Own(o) \in Seq(Value) /\ Len(Own(o)) = n /\ DOMAIN Own(o) = 1 .. n
      /\ \A i \in 1 .. n : Own(o)[i] = o.data[i - 1] /\ Own(o)[i] \in Value
  BY OwnIs
<1>20. \A c \in 1 .. n : c - 1 \in 0 .. n - 1 /\ p[c - 1] \in 0 .. n - 1 BY <1>1, <1>2
<1>8. q \in [1 .. n -> 1 .. n] BY <1>1, <1>20
<1>9. \A c, d \in 1 .. n : c < d => Python!Before(ks, reverse, q[c], q[d])
  <2> SUFFICES ASSUME NEW c \in 1 .. n, NEW d \in 1 .. n, c < d
               PROVE  Python!Before(ks, reverse, q[c], q[d])
    OBVIOUS
  <2>1. c - 1 \in 0 .. n - 1 /\ d - 1 \in 0 .. n - 1 /\ c - 1 < d - 1 BY <1>1
  <2> DEFINE i == p[c - 1]
             j == p[d - 1]
  <2>2. i \in 0 .. n - 1 /\ j \in 0 .. n - 1 BY <1>20
  <2>3. spy_sort_idx_cmp(keys, reverse, i, j) < 0 BY <1>2, <2>1
  <2>4. q[c] = i + 1 /\ q[d] = j + 1 OBVIOUS
  <2> HIDE DEF i, j, q
  <2>5. i \in Int /\ j \in Int /\ q[c] \in Int /\ q[d] \in Int BY <1>1, <1>8, <2>2
  <2>6. /\ keys[i] \in Int /\ keys[j] \in Int /\ ks[q[c]] = keys[i] /\ ks[q[d]] = keys[j]
    BY <2>2, <2>4
  <2> QED BY <2>3, <2>4, <2>5, <2>6, CompareIs
<1>21. \A c \in 1 .. n : q[c] = p[c - 1] + 1 OBVIOUS
<1> HIDE DEF q
<1>10. \A i \in 1 .. n : ks[i] \in Int
  <2> TAKE i \in 1 .. n
  <2>1. PICK c \in 0 .. n - 1 : i = c + 1
    <3>1. i - 1 \in 0 .. n - 1 /\ i = i - 1 + 1 BY <1>1
    <3> QED BY <3>1
  <2> QED BY <2>1
<1>11. s \in Seq(Value) /\ Len(s) = n
  <2>1. s \in [1 .. n -> Value] BY <1>7, <1>8
  <2> HIDE DEF s
  <2> QED BY <1>1, <2>1
<1>12. ASSUME NEW i \in 1 .. a.len PROVE s[i] = a.data[i - 1]
  <2>1. i \in 1 .. n /\ i - 1 \in 0 .. n - 1 BY <1>1, <1>6
  <2>2. PICK k \in 1 .. n : k = q[i] BY <1>8, <2>1
  <2>3. s[i] = Own(o)[k] BY <2>1, <2>2
  <2>4. Own(o)[k] = o.data[k - 1] BY <1>7
  <2>5. a.data[i - 1] = o.data[p[i - 1]] BY <1>5, <1>6, <2>1
  <2>6. k - 1 = p[i - 1]
    <3>1. p[i - 1] \in Int BY <1>20, <2>1
    <3>2. k = p[i - 1] + 1 BY <1>21, <2>1, <2>2
    <3> QED BY <3>1, <3>2
  <2> QED BY <2>3, <2>4, <2>5, <2>6
<1>13. Own(a) = s
  <2> HIDE DEF s
  <2> QED BY <1>4, <1>6, <1>11, <1>12, SameElements
<1>14. Python!SortedBy(Own(o), ks, reverse)
         = [c \in 1 .. n |-> Own(o)[Python!Placed(1 .. n, ks, reverse, c)]]
  BY <1>7 DEF Python!SortedBy
<1>15. \A c \in 1 .. n : q[c] = Python!Placed(1 .. n, ks, reverse, c)
  <2> HIDE DEF s, n
  <2> TAKE c \in 1 .. n
  <2> DEFINE D == 1 .. n
  <2>1. D = 1 .. n OBVIOUS
  <2> HIDE DEF D
  <2>2. n \in Nat BY <1>1
  <2>4. InOrder(n, ks, reverse, q) BY <1>8, <1>9, <1>10 DEF InOrder
  <2>3. q[c] = Python!Placed(D, ks, reverse, c) BY <2>1, <2>2, <2>4, Counted
  <2> QED BY <2>1, <2>3
<1>16. Python!SortedBy(Own(o), ks, reverse) = s BY <1>14, <1>15
<1> QED BY <1>13, <1>16 DEF a

-----------------------------------------------------------------------------
\* Slices: the arithmetic of spy_slice_resolve and the places Python takes.

\* A bound keeps the same places, clamped or not.
LEMMA ClampKeeps ==
  ASSUME NEW n \in Nat, NEW b \in Int, NEW x \in 0 .. n - 1
  PROVE  LET at == IF b < 0 THEN b + n ELSE b
         IN  /\ x >= at <=> x >= Clamped(b, n, 0, n)
             /\ x < at <=> x < Clamped(b, n, 0, n)
             /\ x <= at <=> x <= Clamped(b, n, -1, n - 1)
             /\ x > at <=> x > Clamped(b, n, -1, n - 1)
BY DEF Clamped

\* Where a slice starts and ends, by the direction of its step.
Start(n, low, by) == IF low # None THEN Clamped(low, n, IF by > 0 THEN 0 ELSE -1,
                                                        IF by > 0 THEN n ELSE n - 1)
                     ELSE IF by > 0 THEN 0 ELSE n - 1
End(n, high, by) == IF high # None THEN Clamped(high, n, IF by > 0 THEN 0 ELSE -1,
                                                         IF by > 0 THEN n ELSE n - 1)
                    ELSE IF by > 0 THEN n ELSE -1
Span(n, low, high, by) == IF by > 0 THEN End(n, high, by) - Start(n, low, by)
                          ELSE Start(n, low, by) - End(n, high, by)

\* What spy_slice_resolve computes: a first place, a step, a length.
LEMMA ResolveIs ==
  ASSUME NEW n \in Nat, NEW low \in Bound, NEW high \in Bound, NEW step \in Step
  PROVE  LET s    == spy_slice_resolve(n, low, high, step)
             by   == IF step = None THEN 1 ELSE step
             span == Span(n, low, high, by)
         IN  /\ s.lo = Start(n, low, by) /\ s.by = by
             /\ s.len = IF span > 0 THEN (span + Size(by) - 1) \div Size(by) ELSE 0
             /\ s.defined <=> Fits(Size(by)) /\ (span > 0 => Fits(span + Size(by)))
<1> DEFINE by == IF step = None THEN 1 ELSE step
           span == IF by > 0 THEN End(n, high, by) - Start(n, low, by)
                   ELSE Start(n, low, by) - End(n, high, by)
           len == IF span > 0 THEN (span + Size(by) - 1) \div Size(by) ELSE 0
           def == Fits(Size(by)) /\ (span > 0 => Fits(span + Size(by)))
           s == spy_slice_resolve(n, low, high, step)
<1>1. s = [lo |-> Start(n, low, by), by |-> by, len |-> len, defined |-> def]
  BY DEF spy_slice_resolve, Start, End
<1>2. span = Span(n, low, high, by) BY DEF Span
<1> HIDE DEF s, len, def, by
<1>3. s.lo = Start(n, low, by) /\ s.by = by /\ s.len = len /\ s.defined = def BY <1>1
<1> QED BY <1>2, <1>3 DEF s, len, def, by

\* The bounds, clamped, are places of the list or next to it.
LEMMA EndsAre ==
  ASSUME NEW n \in Nat, NEW low \in Bound, NEW high \in Bound, NEW by \in Int, by # 0
  PROVE  /\ Start(n, low, by) \in Int /\ End(n, high, by) \in Int
         /\ Span(n, low, high, by) \in Int /\ Span(n, low, high, by) <= n
         /\ by > 0 => Start(n, low, by) \in 0 .. n /\ End(n, high, by) \in 0 .. n
         /\ ~(by > 0) => Start(n, low, by) \in -1 .. n - 1 /\ End(n, high, by) \in -1 .. n - 1
<1>1. low # None => low \in Int BY ListAssumption
<1>2. high # None => high \in Int BY ListAssumption
<1>3. CASE by > 0
  <2>1. Start(n, low, by) \in 0 .. n BY <1>1, <1>3, ClampedIs DEF Start
  <2>2. End(n, high, by) \in 0 .. n BY <1>2, <1>3, ClampedIs DEF End
  <2> QED BY <1>3, <2>1, <2>2 DEF Span
<1>4. CASE ~(by > 0)
  <2>0. /\ -1 \in Int /\ n - 1 \in Int /\ -1 <= n - 1
        /\ -1 \in -1 .. n - 1 /\ n - 1 \in -1 .. n - 1
        /\ \A b \in Int : Clamped(b, n, -1, n - 1) \in -1 .. n - 1
    BY ClampedIs
  <2>1. Start(n, low, by) \in -1 .. n - 1
    <3>1. Start(n, low, by) = IF low # None THEN Clamped(low, n, -1, n - 1) ELSE n - 1
      BY <1>4 DEF Start
    <3> QED BY <1>1, <2>0, <3>1
  <2>2. End(n, high, by) \in -1 .. n - 1
    <3>1. End(n, high, by) = IF high # None THEN Clamped(high, n, -1, n - 1) ELSE -1
      BY <1>4 DEF End
    <3> QED BY <1>2, <2>0, <3>1
  <2> QED BY <1>4, <2>1, <2>2 DEF Span
<1> QED BY <1>3, <1>4

\* The places Python means are those between the clamped bounds.
LEMMA PlacesAre ==
  ASSUME NEW n \in Nat, NEW low \in Bound, NEW high \in Bound, NEW by \in Int, by # 0
  PROVE  Python!Places(n, low, high, by)
           = IF by > 0 THEN Start(n, low, by) .. End(n, high, by) - 1
             ELSE End(n, high, by) + 1 .. Start(n, low, by)
<1> DEFINE lo == Start(n, low, by)
           hi == End(n, high, by)
           At(b) == IF b < 0 THEN b + n ELSE b
           In(x) == /\ low # None => IF by > 0 THEN x >= At(low) ELSE x <= At(low)
                    /\ high # None => IF by > 0 THEN x < At(high) ELSE x > At(high)
<1>1. low # None => low \in Int BY ListAssumption
<1>2. high # None => high \in Int BY ListAssumption
<1>3. /\ lo \in Int /\ hi \in Int
      /\ by > 0 => lo \in 0 .. n /\ hi \in 0 .. n
      /\ ~(by > 0) => lo \in -1 .. n - 1 /\ hi \in -1 .. n - 1
  BY EndsAre
<1>4. Python!Places(n, low, high, by) = {x \in 0 .. n - 1 : In(x)} BY DEF Python!Places
<1>5. ASSUME NEW x \in 0 .. n - 1
      PROVE  In(x) <=> IF by > 0 THEN lo <= x /\ x < hi ELSE hi < x /\ x <= lo
  <2>1. low # None => /\ x >= At(low) <=> x >= Clamped(low, n, 0, n)
                      /\ x <= At(low) <=> x <= Clamped(low, n, -1, n - 1)
    BY <1>1, ClampKeeps
  <2>2. high # None => /\ x < At(high) <=> x < Clamped(high, n, 0, n)
                       /\ x > At(high) <=> x > Clamped(high, n, -1, n - 1)
    BY <1>2, ClampKeeps
  <2>3. CASE by > 0
    <3>1. lo = IF low # None THEN Clamped(low, n, 0, n) ELSE 0 BY <2>3 DEF Start
    <3>2. hi = IF high # None THEN Clamped(high, n, 0, n) ELSE n BY <2>3 DEF End
    <3>3. In(x) <=> (low # None => x >= At(low)) /\ (high # None => x < At(high)) BY <2>3
    <3> HIDE DEF lo, hi, In, At
    <3>4. x \in Int /\ 0 <= x /\ x < n OBVIOUS
    <3>5. (low # None => x >= At(low)) <=> lo <= x BY <1>3, <2>1, <3>1, <3>4
    <3>6. (high # None => x < At(high)) <=> x < hi BY <1>3, <2>2, <3>2, <3>4
    <3> QED BY <2>3, <3>3, <3>5, <3>6
  <2>4. CASE ~(by > 0)
    <3>1. lo = IF low # None THEN Clamped(low, n, -1, n - 1) ELSE n - 1 BY <2>4 DEF Start
    <3>2. hi = IF high # None THEN Clamped(high, n, -1, n - 1) ELSE -1 BY <2>4 DEF End
    <3>3. In(x) <=> (low # None => x <= At(low)) /\ (high # None => x > At(high)) BY <2>4
    <3> HIDE DEF lo, hi, In, At
    <3>4. x \in Int /\ 0 <= x /\ x < n OBVIOUS
    <3>5. (low # None => x <= At(low)) <=> x <= lo BY <1>3, <2>1, <3>1, <3>4
    <3>6. (high # None => x > At(high)) <=> hi < x BY <1>3, <2>2, <3>2, <3>4
    <3> QED BY <2>4, <3>3, <3>5, <3>6
  <2> QED BY <2>3, <2>4
<1> HIDE DEF In, lo, hi
<1>6. CASE by > 0
  <2>1. \A x : x \in {y \in 0 .. n - 1 : In(y)} <=> x \in lo .. hi - 1
    <3> TAKE x
    <3>1. x \in lo .. hi - 1 => x \in 0 .. n - 1 /\ lo <= x /\ x < hi BY <1>3, <1>6
    <3>2. x \in 0 .. n - 1 => (In(x) <=> lo <= x /\ x < hi) BY <1>5, <1>6
    <3>3. x \in 0 .. n - 1 /\ lo <= x /\ x < hi => x \in lo .. hi - 1 BY <1>3
    <3> QED BY <3>1, <3>2, <3>3
  <2> QED BY <1>4, <1>6, <2>1 DEF lo, hi
<1>7. CASE ~(by > 0)
  <2>1. \A x : x \in {y \in 0 .. n - 1 : In(y)} <=> x \in hi + 1 .. lo
    <3> TAKE x
    <3>1. x \in hi + 1 .. lo => x \in 0 .. n - 1 /\ hi < x /\ x <= lo BY <1>3, <1>7
    <3>2. x \in 0 .. n - 1 => (In(x) <=> hi < x /\ x <= lo) BY <1>5, <1>7
    <3>3. x \in 0 .. n - 1 /\ hi < x /\ x <= lo => x \in hi + 1 .. lo BY <1>3
    <3> QED BY <3>1, <3>2, <3>3
  <2> QED BY <1>4, <1>7, <2>1 DEF lo, hi
<1> QED BY <1>6, <1>7

\* How many they are, and which is the first.
LEMMA CountIs ==
  ASSUME NEW n \in Nat, NEW low \in Bound, NEW high \in Bound, NEW by \in Int, by # 0
  PROVE  LET places == Python!Places(n, low, high, by)
             span == Span(n, low, high, by)
         IN  /\ Python!Cardinality(places) = IF span > 0 THEN span ELSE 0
             /\ span > 0 => Python!Foremost(places, by) = Start(n, low, by)
<1> DEFINE lo == Start(n, low, by)
           hi == End(n, high, by)
           span == Span(n, low, high, by)
           S == Python!Places(n, low, high, by)
<1>1. lo \in Int /\ hi \in Int /\ span = IF by > 0 THEN hi - lo ELSE lo - hi BY EndsAre DEF Span
<1>2. S = IF by > 0 THEN lo .. hi - 1 ELSE hi + 1 .. lo BY PlacesAre
<1> HIDE DEF lo, hi, span, S
<1>3. Cardinality(S) = IF span > 0 THEN span ELSE 0
  <2>1. CASE by > 0
    <3>1. Cardinality(S) = IF lo > hi - 1 THEN 0 ELSE hi - 1 - lo + 1
      <4>1. S = lo .. hi - 1 /\ hi - 1 \in Int BY <1>1, <1>2, <2>1
      <4> QED BY <1>1, <4>1, FS_Interval
    <3> QED BY <1>1, <2>1, <3>1
  <2>2. CASE ~(by > 0)
    <3>1. Cardinality(S) = IF hi + 1 > lo THEN 0 ELSE lo - (hi + 1) + 1
      <4>1. S = hi + 1 .. lo /\ hi + 1 \in Int BY <1>1, <1>2, <2>2
      <4> QED BY <1>1, <4>1, FS_Interval
    <3> QED BY <1>1, <2>2, <3>1
  <2> QED BY <2>1, <2>2
<1>4. ASSUME span > 0 PROVE Python!Foremost(S, by) = lo
  <2>1. lo \in S /\ S \subseteq Int
    BY <1>1, <1>2, <1>4
  <2>2. \A y \in S : IF by > 0 THEN lo <= y ELSE lo >= y BY <1>1, <1>2
  <2> DEFINE m == Python!Foremost(S, by)
  <2>3. m \in S /\ \A y \in S : IF by > 0 THEN m <= y ELSE m >= y
    BY <2>1, <2>2 DEF Python!Foremost
  <2> HIDE DEF m
  <2>4. m \in Int BY <2>1, <2>3
  <2> QED BY <1>1, <2>1, <2>2, <2>3, <2>4 DEF m
<1> QED BY <1>3, <1>4, PyCounts DEF lo, span, S

\* No places at all are none, whatever the step.
LEMMA NoneCounted == ASSUME NEW p \in Nat, p > 0 PROVE (p - 1) \div p = 0
<1> DEFINE q == (p - 1) \div p
<1>1. q \in Int /\ q * p <= p - 1 /\ p - 1 < q * p + p OBVIOUS
<1> HIDE DEF q
<1>2. ~(q >= 1)
  <2> SUFFICES ASSUME q >= 1 PROVE FALSE OBVIOUS
  <2>1. q * p >= p BY <1>1
  <2> QED BY <1>1, <2>1
<1>3. ~(q <= -1)
  <2> SUFFICES ASSUME q <= -1 PROVE FALSE OBVIOUS
  <2>1. q * p <= -p BY <1>1
  <2> QED BY <1>1, <2>1
<1> QED BY <1>1, <1>2, <1>3 DEF q

\* spy_list_slice of what spy_slice_resolve found is Python's slice.
LEMMA OwnSlice ==
  ASSUME NEW o, BlockOK(o), NEW low \in Bound, NEW high \in Bound, NEW step \in Step, step # 0
  PROVE  Own(spy_list_slice(o, spy_slice_resolve(o.len, low, high, step)))
           = Python!Slice(Own(o), low, high, step)
<1> DEFINE n == o.len
           by == IF step = None THEN 1 ELSE step
           s == spy_slice_resolve(n, low, high, step)
           span == Span(n, low, high, by)
           pos == Size(by)
           P == Python!Places(n, low, high, by)
           a == spy_list_slice(o, s)
           cap == IF s.len > InitCap THEN s.len ELSE InitCap
           cells == [c \in 0 .. cap - 1 |-> IF c < s.len THEN o.data[s.lo + c * s.by] ELSE Junk]
<1>1. /\ n \in Nat /\ Own(o) \in Seq(Value) /\ Len(Own(o)) = n
      /\ \A i \in 1 .. n : Own(o)[i] = o.data[i - 1] /\ Own(o)[i] \in Value
  BY OwnIs
<1>2. by \in Int /\ by # 0 BY ListAssumption
<1>3. pos \in Nat /\ pos > 0 /\ pos = IF by < 0 THEN -by ELSE by BY <1>2 DEF Size
<1>4. /\ s.lo = Start(n, low, by) /\ s.by = by
      /\ s.len = IF span > 0 THEN (span + pos - 1) \div pos ELSE 0
  BY <1>1, ResolveIs
<1>5. s.len \in Nat /\ \A c \in 0 .. s.len - 1 : s.lo + c * s.by \in 0 .. n - 1
  BY <1>1, SliceCells
<1>6. BlockOK(a) BY SliceOK
<1>7. a = [len |-> s.len, cap |-> cap, data |-> cells] BY DEF spy_list_slice
<1>8. Start(n, low, by) \in Int /\ span \in Int BY <1>1, <1>2, EndsAre
<1>9. /\ Python!Cardinality(P) = IF span > 0 THEN span ELSE 0
      /\ span > 0 => Python!Foremost(P, by) = s.lo
  BY <1>1, <1>2, <1>4, CountIs
<1>10. Python!Slice(Own(o), low, high, step)
         = [k \in 1 .. (Python!Cardinality(P) + pos - 1) \div pos |->
              Own(o)[Python!Foremost(P, by) + (k - 1) * by + 1]]
  BY <1>1, <1>3 DEF Python!Slice
<1> HIDE DEF s, span, by, pos, P, a
<1>11. (Python!Cardinality(P) + pos - 1) \div pos = s.len
  <2>1. CASE span > 0 BY <1>4, <1>9, <2>1
  <2>2. CASE ~(span > 0)
    <3>1. Python!Cardinality(P) + pos - 1 = pos - 1 BY <1>3, <1>9, <2>2
    <3> QED BY <1>3, <1>4, <2>2, <3>1, NoneCounted
  <2> QED BY <2>1, <2>2
<1> DEFINE t == [k \in 1 .. s.len |-> Own(o)[Python!Foremost(P, by) + (k - 1) * by + 1]]
<1>12. Python!Slice(Own(o), low, high, step) = t BY <1>10, <1>11
<1>13. ASSUME NEW k \in 1 .. s.len PROVE t[k] \in Value /\ t[k] = a.data[k - 1]
  <2>1. k - 1 \in 0 .. s.len - 1 /\ k \in Int BY <1>5
  <2>2. span > 0 BY <1>4, <2>1
  <2> DEFINE x == s.lo + (k - 1) * s.by
  <2>3. x \in 0 .. n - 1 BY <1>5, <2>1
  <2>4. t[k] = Own(o)[x + 1] BY <1>4, <1>9, <2>2
  <2>5. a.data[k - 1] = o.data[x]
    <3>1. a.data = cells BY <1>7
    <3>2. k - 1 \in 0 .. cap - 1 /\ k - 1 < s.len BY <1>5, <2>1, ListAssumption
    <3> QED BY <3>1, <3>2
  <2> HIDE DEF x, t
  <2>6. PICK i \in 1 .. n : i = x + 1 /\ i - 1 = x BY <1>1, <2>3
  <2>7. Own(o)[i] = o.data[i - 1] /\ Own(o)[i] \in Value BY <1>1
  <2> QED BY <2>4, <2>5, <2>6, <2>7
<1>14. t = [k \in 1 .. s.len |-> t[k]] OBVIOUS
<1>15. a.len = s.len BY <1>7
<1> HIDE DEF t
<1>16. t \in Seq(Value) /\ Len(t) = s.len
  <2>1. t \in [1 .. s.len -> Value] BY <1>13, <1>14
  <2> QED BY <1>5, <2>1
<1>17. Own(a) = t BY <1>6, <1>13, <1>15, <1>16, SameElements
<1> QED BY <1>12, <1>17 DEF a, s

-----------------------------------------------------------------------------
\* What the program sees, of a heap h and the frames fs.

TopOf(fs) == fs[Len(fs)]
ExtendingIn(fs) == fs # <<>> /\ TopOf(fs).kind = "extend"
UnderIn(fs) == SubSeq(fs, 1, Len(fs) - 1)
ElementsIn(h, fs, l) ==
  IF ExtendingIn(fs) /\ TopOf(fs).of = l /\ TopOf(fs).from # l
    THEN Own(h[l]) \o SubSeq(Own(h[TopOf(fs).from]), TopOf(fs).at + 1, h[TopOf(fs).from].len)
    ELSE Own(h[l])
ContentsIn(h, fs) == [l \in List |-> ElementsIn(h, fs, l)]
LiveIn(h) == {l \in List : h[l].cap > 0}
UserFramesIn(fs) == PyFrames(IF ExtendingIn(fs) THEN UnderIn(fs) ELSE fs)

\* The program's view now and after a step.
LEMMA ViewIs ==
  /\ Contents = ContentsIn(heap, frames) /\ Contents' = ContentsIn(heap', frames')
  /\ LiveLists = LiveIn(heap) /\ LiveLists' = LiveIn(heap')
  /\ UserFrames = UserFramesIn(frames) /\ UserFrames' = UserFramesIn(frames')
  /\ Top = TopOf(frames) /\ Extending = ExtendingIn(frames) /\ Under = UnderIn(frames)
BY DEF Contents, ContentsIn, Elements, ElementsIn, LiveLists, LiveIn, Live, UserFrames, UserFramesIn,
       Extending, ExtendingIn, Top, TopOf, Under, UnderIn, Cut, PyFrames, InPython, Own

\* While user code runs, what the lists hold is what it sees.
LEMMA UserView ==
  ASSUME NEW h, NEW fs, ~ExtendingIn(fs)
  PROVE  /\ ContentsIn(h, fs) = [l \in List |-> Own(h[l])] /\ UserFramesIn(fs) = PyFrames(fs)
BY DEF ContentsIn, ElementsIn, UserFramesIn

\* The frames as Python has them: one for each.
LEMMA PyFramesAre ==
  ASSUME NEW fs \in Seq(Frame)
  PROVE  /\ PyFrames(fs) \in Seq({InPython(f) : f \in Frame}) /\ Len(PyFrames(fs)) = Len(fs)
         /\ Len(fs) \in Nat /\ DOMAIN fs = 1 .. Len(fs) /\ DOMAIN PyFrames(fs) = 1 .. Len(fs)
         /\ \A i \in 1 .. Len(fs) : fs[i] \in Frame /\ PyFrames(fs)[i] = InPython(fs[i])
<1>1. Len(fs) \in Nat /\ DOMAIN fs = 1 .. Len(fs) /\ \A i \in 1 .. Len(fs) : fs[i] \in Frame
  BY LenProperties, ElementOfSeq
<1> DEFINE T == {InPython(f) : f \in Frame}
           n == Len(fs)
<1>2. PyFrames(fs) = [i \in 1 .. n |-> InPython(fs[i])] BY <1>1 DEF PyFrames
<1>3. \A i \in 1 .. n : InPython(fs[i]) \in T BY <1>1
<1> HIDE DEF T
<1>4. PyFrames(fs) \in [1 .. n -> T] BY <1>2, <1>3
<1> HIDE DEF n
<1>5. n \in Nat BY <1>1 DEF n
<1>6. PyFrames(fs) \in Seq(T) /\ Len(PyFrames(fs)) = n BY <1>4, <1>5
<1> QED BY <1>1, <1>2, <1>6 DEF T, n

\* A frame pushed is seen pushed.
LEMMA PyPush ==
  ASSUME NEW fs \in Seq(Frame), NEW f \in Frame
  PROVE  PyFrames(Append(fs, f)) = Append(PyFrames(fs), InPython(f))
<1> DEFINE T == {InPython(e) : e \in Frame}
           a == Append(fs, f)
           b == Append(PyFrames(fs), InPython(f))
<1>1. /\ PyFrames(fs) \in Seq(T) /\ Len(PyFrames(fs)) = Len(fs) /\ Len(fs) \in Nat
      /\ \A i \in 1 .. Len(fs) : PyFrames(fs)[i] = InPython(fs[i])
  BY PyFramesAre
<1>2. /\ a \in Seq(Frame) /\ Len(a) = Len(fs) + 1 /\ a[Len(fs) + 1] = f
      /\ \A i \in 1 .. Len(fs) : a[i] = fs[i]
  BY AppendProperties
<1>3. InPython(f) \in T OBVIOUS
<1> HIDE DEF T
<1>4. /\ b \in Seq(T) /\ Len(b) = Len(fs) + 1 /\ b[Len(fs) + 1] = InPython(f)
      /\ \A i \in 1 .. Len(fs) : b[i] = PyFrames(fs)[i]
  BY <1>1, <1>3, AppendProperties
<1> HIDE DEF a, b
<1>5. /\ PyFrames(a) \in Seq(T) /\ Len(PyFrames(a)) = Len(a)
      /\ \A i \in 1 .. Len(a) : PyFrames(a)[i] = InPython(a[i])
  BY <1>2, PyFramesAre DEF T
<1>6. ASSUME NEW i \in 1 .. Len(fs) + 1 PROVE PyFrames(a)[i] = b[i]
  <2>1. CASE i = Len(fs) + 1 BY <1>1, <1>2, <1>4, <1>5, <2>1
  <2>2. CASE i # Len(fs) + 1
    <3>1. i \in 1 .. Len(fs) BY <1>1, <2>2
    <3> QED BY <1>1, <1>2, <1>4, <1>5, <3>1
  <2> QED BY <2>1, <2>2
<1>7. PyFrames(a) = b BY <1>2, <1>4, <1>5, <1>6, SeqEqual
<1> QED BY <1>7 DEF a, b

\* The first frames of a list of them.
LEMMA FirstFrames ==
  ASSUME NEW S, NEW fs \in Seq(S), NEW k \in 0 .. Len(fs)
  PROVE  /\ SubSeq(fs, 1, k) \in Seq(S) /\ Len(SubSeq(fs, 1, k)) = k
         /\ \A i \in 1 .. k : SubSeq(fs, 1, k)[i] = fs[i] /\ i \in DOMAIN fs
<1>1. Len(fs) \in Nat /\ DOMAIN fs = 1 .. Len(fs) BY LenProperties
<1>2. k \in Nat /\ \A i \in 1 .. k : i \in DOMAIN fs /\ fs[i] \in S
  BY <1>1, ElementOfSeq
<1> DEFINE cut == SubSeq(fs, 1, k)
<1>3. /\ cut \in Seq(S) /\ Len(cut) = IF 1 <= k THEN k - 1 + 1 ELSE 0
      /\ \A i \in 1 .. k - 1 + 1 : cut[i] = fs[1 + i - 1]
  BY <1>2, SubSeqProperties
<1> HIDE DEF cut
<1>4. Len(cut) = k BY <1>2, <1>3
<1>5. \A i \in 1 .. k : cut[i] = fs[i] BY <1>2, <1>3
<1> QED BY <1>2, <1>3, <1>4, <1>5 DEF cut

\* Frames given up are seen given up.
LEMMA PyCut ==
  ASSUME NEW fs \in Seq(Frame), NEW k \in 0 .. Len(fs)
  PROVE  PyFrames(SubSeq(fs, 1, k)) = SubSeq(PyFrames(fs), 1, k)
<1> DEFINE T == {InPython(e) : e \in Frame}
           a == SubSeq(fs, 1, k)
           b == SubSeq(PyFrames(fs), 1, k)
<1>1. /\ PyFrames(fs) \in Seq(T) /\ Len(PyFrames(fs)) = Len(fs) /\ Len(fs) \in Nat
      /\ \A i \in 1 .. Len(fs) : PyFrames(fs)[i] = InPython(fs[i])
      /\ DOMAIN fs = 1 .. Len(fs)
  BY PyFramesAre
<1>2. a \in Seq(Frame) /\ Len(a) = k /\ \A i \in 1 .. k : a[i] = fs[i] /\ i \in DOMAIN fs
  BY FirstFrames
<1> HIDE DEF T
<1>3. b \in Seq(T) /\ Len(b) = k /\ \A i \in 1 .. k : b[i] = PyFrames(fs)[i]
  BY <1>1, FirstFrames
<1> HIDE DEF a, b
<1>4. /\ PyFrames(a) \in Seq(T) /\ Len(PyFrames(a)) = k
      /\ \A i \in 1 .. k : PyFrames(a)[i] = InPython(a[i])
  BY <1>2, PyFramesAre DEF T
<1>5. \A i \in 1 .. k : PyFrames(a)[i] = b[i] BY <1>1, <1>2, <1>3, <1>4
<1>6. PyFrames(a) = b BY <1>3, <1>4, <1>5, SeqEqual
<1> QED BY <1>6 DEF a, b

\* A top frame that goes on is seen to go on.
LEMMA PyMove ==
  ASSUME NEW fs \in Seq(Frame), fs # <<>>, NEW f \in Frame
  PROVE  PyFrames([fs EXCEPT ![Len(fs)] = f])
           = [PyFrames(fs) EXCEPT ![Len(PyFrames(fs))] = InPython(f)]
<1> DEFINE n == Len(fs)
           a == [fs EXCEPT ![n] = f]
<1>1. /\ Len(PyFrames(fs)) = n /\ n \in Nat /\ DOMAIN fs = 1 .. n /\ DOMAIN PyFrames(fs) = 1 .. n
      /\ \A i \in 1 .. n : PyFrames(fs)[i] = InPython(fs[i])
  BY PyFramesAre
<1>2. n \in 1 .. n BY <1>1, EmptySeq
<1>3. DOMAIN a = 1 .. n /\ \A i \in 1 .. n : a[i] = IF i = n THEN f ELSE fs[i]
  BY <1>1, <1>2
<1> HIDE DEF a, n
<1>4. PyFrames(a) = [i \in 1 .. n |-> InPython(a[i])] BY <1>3 DEF PyFrames
<1>5. PyFrames(a) = [i \in 1 .. n |-> IF i = n THEN InPython(f) ELSE InPython(fs[i])]
  BY <1>3, <1>4
<1>6. [PyFrames(fs) EXCEPT ![n] = InPython(f)]
        = [i \in 1 .. n |-> IF i = n THEN InPython(f) ELSE InPython(fs[i])]
  BY <1>1, <1>2
<1>7. PyFrames(a) = [PyFrames(fs) EXCEPT ![n] = InPython(f)] BY <1>5, <1>6
<1> QED BY <1>1, <1>7 DEF a, n

\* The fields of a frame that is seen.
LEMMA PyFields ==
  ASSUME NEW f \in Frame
  PROVE  /\ InPython(f).kind = f.kind /\ InPython(f).of = f.of /\ InPython(f).n = f.n
         /\ InPython(f).at = f.at /\ InPython(f).keys = f.keys /\ InPython(f).reverse = f.reverse
         /\ InPython([f EXCEPT !.at = @ + 1]) = [InPython(f) EXCEPT !.at = @ + 1]
         /\ \A ks : InPython([f EXCEPT !.keys = ks, !.at = @ + 1])
                      = [InPython(f) EXCEPT !.keys = ks, !.at = @ + 1]
<1>1. f = [kind |-> f.kind, of |-> f.of, from |-> f.from, n |-> f.n, at |-> f.at,
           keys |-> f.keys, reverse |-> f.reverse]
  BY DEF Frame
<1>2. InPython(f) = [kind |-> f.kind, of |-> f.of, n |-> f.n, at |-> f.at,
                     keys |-> f.keys, reverse |-> f.reverse]
  BY DEF InPython
<1> DEFINE Turned(ks) == [kind |-> f.kind, of |-> f.of, from |-> f.from, n |-> f.n, at |-> f.at + 1,
                         keys |-> ks, reverse |-> f.reverse]
           Sight(ks) == [kind |-> f.kind, of |-> f.of, n |-> f.n, at |-> f.at + 1,
                        keys |-> ks, reverse |-> f.reverse]
<1>3. \A ks : InPython(Turned(ks)) = Sight(ks) BY DEF InPython
<1>4. [f EXCEPT !.at = @ + 1] = Turned(f.keys) BY <1>1
<1>5. [InPython(f) EXCEPT !.at = @ + 1] = Sight(f.keys) BY <1>2
<1>6. ASSUME NEW ks PROVE InPython([f EXCEPT !.keys = ks, !.at = @ + 1])
                            = [InPython(f) EXCEPT !.keys = ks, !.at = @ + 1]
  <2> DEFINE g == [f EXCEPT !.keys = ks]
             p == [InPython(f) EXCEPT !.keys = ks]
  <2>1. g = [kind |-> f.kind, of |-> f.of, from |-> f.from, n |-> f.n, at |-> f.at,
             keys |-> ks, reverse |-> f.reverse]
    BY <1>1
  <2>2. p = [kind |-> f.kind, of |-> f.of, n |-> f.n, at |-> f.at,
             keys |-> ks, reverse |-> f.reverse]
    BY <1>2
  <2>3. InPython(f).at = f.at BY <1>2
  <2>4. /\ [f EXCEPT !.keys = ks, !.at = @ + 1] = [g EXCEPT !.at = f.at + 1]
        /\ [InPython(f) EXCEPT !.keys = ks, !.at = @ + 1] = [p EXCEPT !.at = f.at + 1]
    BY <2>3
  <2> HIDE DEF g, p
  <2>5. [g EXCEPT !.at = f.at + 1] = Turned(ks) /\ [p EXCEPT !.at = f.at + 1] = Sight(ks)
    BY <2>1, <2>2
  <2> QED BY <1>3, <2>4, <2>5
<1>7. InPython([f EXCEPT !.at = @ + 1]) = [InPython(f) EXCEPT !.at = @ + 1]
  <2> HIDE DEF Turned, Sight
  <2> QED BY <1>3, <1>4, <1>5
<1>8. /\ InPython(f).kind = f.kind /\ InPython(f).of = f.of /\ InPython(f).n = f.n
      /\ InPython(f).at = f.at /\ InPython(f).keys = f.keys /\ InPython(f).reverse = f.reverse
  BY <1>2
<1> HIDE DEF Turned, Sight
<1> QED BY <1>6, <1>7, <1>8

-----------------------------------------------------------------------------
\* How programs use lists: the invariant the refinement needs.

InSortIn(fs, l) == \E i \in DOMAIN fs : fs[i].kind = "sort" /\ fs[i].of = l

\* No list is longer than the limit; an extend is only ever on top; and while the
\* program keeps to what is promised, the lists being sorted keep their length,
\* and an extend is of another list, which is not being sorted.
UseIn(h, fs, w) ==
  /\ w \in BOOLEAN /\ \A l \in List : h[l].len <= MaxLen
  /\ \A i \in DOMAIN fs : fs[i].kind = "extend" => i = Len(fs)
  /\ ~w => /\ \A i \in DOMAIN fs : fs[i].kind = "sort" => h[fs[i].of].len = fs[i].n
           /\ ExtendingIn(fs) => /\ TopOf(fs).from # TopOf(fs).of
                                 /\ ~InSortIn(fs, TopOf(fs).of)

UseOK == UseIn(heap, frames, wild)

\* The use of lists is as promised when one block is replaced by another.
LEMMA UseStore ==
  ASSUME NEW h, NEW fs, NEW w, MemoryIn(h, fs), UseIn(h, fs, w), NEW l \in List, NEW o, o.len <= MaxLen,
         NEW w2 \in BOOLEAN, w => w2,
         ~w2 /\ InSortIn(fs, l) => o.len = h[l].len
  PROVE  UseIn([h EXCEPT ![l] = o], fs, w2)
<1> DEFINE g == [h EXCEPT ![l] = o]
<1>1. DOMAIN h = List /\ fs \in Seq(Frame) BY DEF MemoryIn
<1>2. g[l] = o /\ \A m \in List : m # l => g[m] = h[m] BY <1>1
<1> HIDE DEF g
<1>3. \A m \in List : g[m].len <= MaxLen BY <1>2 DEF UseIn
<1>4. ASSUME ~w2, NEW i \in DOMAIN fs, fs[i].kind = "sort" PROVE g[fs[i].of].len = fs[i].n
  <2>1. fs[i] \in Frame BY <1>1, LenProperties, ElementOfSeq
  <2>10. fs[i].of \in List BY <2>1 DEF Frame
  <2>2. h[fs[i].of].len = fs[i].n BY <1>4 DEF UseIn
  <2>3. fs[i].of = l => InSortIn(fs, l) BY <1>4 DEF InSortIn
  <2> QED BY <1>2, <1>4, <2>10, <2>2, <2>3
<1>5. \A i \in DOMAIN fs : fs[i].kind = "extend" => i = Len(fs) BY DEF UseIn
<1>6. UseIn(g, fs, w2) BY <1>3, <1>4, <1>5 DEF UseIn
<1> QED BY <1>6 DEF g

\* ... when something is said,
LEMMA UseSame ==
  ASSUME NEW h, NEW fs, NEW w, UseIn(h, fs, w), ~ExtendingIn(fs),
         NEW w2 \in BOOLEAN, w => w2
  PROVE  UseIn(h, fs, w2)
BY DEF UseIn

\* ... when a frame is pushed,
LEMMA UsePush ==
  ASSUME NEW h, NEW fs, NEW w, MemoryIn(h, fs), UseIn(h, fs, w), ~ExtendingIn(fs),
         NEW w2 \in BOOLEAN, w => w2, NEW f \in Frame,
         ~w2 => /\ f.kind = "sort" => h[f.of].len = f.n
                /\ f.kind = "extend" => f.from # f.of /\ ~InSortIn(fs, f.of)
  PROVE  UseIn(h, Append(fs, f), w2)
<1> DEFINE a == Append(fs, f)
           n == Len(fs)
<1>1. fs \in Seq(Frame) BY DEF MemoryIn
<1>2. n \in Nat /\ DOMAIN fs = 1 .. n BY <1>1, LenProperties
<1>3. /\ Len(a) = n + 1 /\ DOMAIN a = 1 .. n + 1 /\ a[n + 1] = f
      /\ \A i \in 1 .. n : a[i] = fs[i]
  BY <1>1, AppendProperties, LenProperties
<1> HIDE DEF a, n
<1>4. TopOf(a) = f BY <1>3 DEF TopOf
<1>5. \A i \in 1 .. n : fs[i].kind # "extend"
  <2> SUFFICES ASSUME NEW i \in 1 .. n, fs[i].kind = "extend" PROVE FALSE OBVIOUS
  <2>1. i = Len(fs) BY <1>2 DEF UseIn
  <2>2. fs # <<>> BY <1>1, <1>2, <2>1, EmptySeq DEF n
  <2> QED BY <2>1, <2>2 DEF ExtendingIn, TopOf
<1>6. \A i \in 1 .. n + 1 : a[i].kind = "extend" => i = n + 1
  <2> TAKE i \in 1 .. n + 1
  <2>1. i # n + 1 => i \in 1 .. n BY <1>2
  <2> QED BY <1>3, <1>5, <2>1
<1>7. ASSUME ~w2, NEW i \in 1 .. n + 1, a[i].kind = "sort" PROVE h[a[i].of].len = a[i].n
  <2>1. CASE i = n + 1 BY <1>3, <1>7, <2>1
  <2>2. CASE i # n + 1
    <3>1. i \in 1 .. n BY <1>2, <2>2
    <3> QED BY <1>2, <1>3, <1>7, <3>1 DEF UseIn
  <2> QED BY <2>1, <2>2
<1>8. ASSUME ~w2, f.kind = "extend"
      PROVE  f.from # f.of /\ ~InSortIn(a, f.of)
  <2>1. f.from # f.of /\ ~InSortIn(fs, f.of) BY <1>8
  <2>2. ASSUME NEW i \in 1 .. n + 1, a[i].kind = "sort", a[i].of = f.of PROVE FALSE
    <3>1. i # n + 1 BY <1>3, <1>8, <2>2
    <3>2. i \in 1 .. n BY <1>2, <3>1
    <3> QED BY <1>2, <1>3, <2>1, <2>2, <3>2 DEF InSortIn
  <2> QED BY <1>3, <2>1, <2>2 DEF InSortIn
<1>9. UseIn(h, a, w2) BY <1>3, <1>4, <1>6, <1>7, <1>8 DEF UseIn, ExtendingIn
<1> QED BY <1>9 DEF a

\* Below the top frame, user code runs.
LEMMA UseCut ==
  ASSUME NEW h, NEW fs, NEW w, MemoryIn(h, fs), UseIn(h, fs, w),
         NEW k \in 0 .. Len(fs) - 1, NEW w2 \in BOOLEAN, w => w2
  PROVE  UseIn(h, SubSeq(fs, 1, k), w2) /\ ~ExtendingIn(SubSeq(fs, 1, k))
<1> DEFINE a == SubSeq(fs, 1, k)
<1>1. fs \in Seq(Frame) /\ Len(fs) \in Nat /\ k \in 0 .. Len(fs) BY LenProperties DEF MemoryIn
<1>2. a \in Seq(Frame) /\ Len(a) = k /\ \A i \in 1 .. k : a[i] = fs[i] /\ i \in DOMAIN fs
  BY <1>1, FirstFrames
<1> HIDE DEF a
<1>3. DOMAIN a = 1 .. k BY <1>2, LenProperties
<1>4. ASSUME NEW i \in 1 .. k PROVE a[i].kind # "extend"
  <2>1. i # Len(fs) BY <1>1
  <2> QED BY <1>2, <2>1 DEF UseIn
<1>5. ~ExtendingIn(a)
  <2> SUFFICES ASSUME a # <<>>, a[Len(a)].kind = "extend" PROVE FALSE BY DEF ExtendingIn, TopOf
  <2>1. k \in 1 .. k BY <1>1, <1>2, EmptySeq
  <2> QED BY <1>2, <1>4, <2>1
<1>6. \A i \in DOMAIN a : a[i].kind = "extend" => i = Len(a) BY <1>3, <1>4
<1>7. ~w2 => \A i \in DOMAIN a : a[i].kind = "sort" => h[a[i].of].len = a[i].n
  BY <1>2, <1>3 DEF UseIn
<1>8. UseIn(h, a, w2) BY <1>5, <1>6, <1>7 DEF UseIn
<1> QED BY <1>5, <1>8 DEF a

\* ... and when the top frame goes on.
LEMMA UseMove ==
  ASSUME NEW h, NEW fs, NEW w, MemoryIn(h, fs), UseIn(h, fs, w), fs # <<>>,
         NEW w2 \in BOOLEAN, w => w2, NEW f \in Frame,
         f.kind = TopOf(fs).kind, f.of = TopOf(fs).of, f.from = TopOf(fs).from, f.n = TopOf(fs).n
  PROVE  /\ UseIn(h, [fs EXCEPT ![Len(fs)] = f], w2)
         /\ TopOf([fs EXCEPT ![Len(fs)] = f]) = f /\ [fs EXCEPT ![Len(fs)] = f] # <<>>
<1> DEFINE n == Len(fs)
           a == [fs EXCEPT ![n] = f]
<1>1. fs \in Seq(Frame) BY DEF MemoryIn
<1>2. n \in Nat /\ DOMAIN fs = 1 .. n /\ n \in 1 .. n BY <1>1, LenProperties, EmptySeq
<1>3. a \in Seq(Frame) /\ Len(a) = n /\ DOMAIN a = 1 .. n BY <1>1, <1>2, ExceptSeq, LenProperties
<1>4. a[n] = f /\ \A i \in 1 .. n : i # n => a[i] = fs[i] BY <1>2
<1>5. fs[n] = TopOf(fs) BY DEF TopOf
<1> HIDE DEF a, n
<1>6. TopOf(a) = f /\ a # <<>> BY <1>2, <1>3, <1>4, EmptySeq DEF TopOf
<1>7. \A i \in 1 .. n : /\ a[i].kind = fs[i].kind /\ a[i].of = fs[i].of /\ a[i].n = fs[i].n
  BY <1>4, <1>5
<1>8. ExtendingIn(a) <=> ExtendingIn(fs) BY <1>6 DEF ExtendingIn
<1>9. \A l : InSortIn(a, l) <=> InSortIn(fs, l) BY <1>2, <1>3, <1>7 DEF InSortIn
<1>10. \A i \in DOMAIN a : a[i].kind = "extend" => i = Len(a) BY <1>2, <1>3, <1>7 DEF UseIn, n
<1>11. ~w2 => \A i \in DOMAIN a : a[i].kind = "sort" => h[a[i].of].len = a[i].n
  BY <1>2, <1>3, <1>7 DEF UseIn
<1>12. ~w2 /\ ExtendingIn(a) => /\ TopOf(a).from # TopOf(a).of
                                /\ ~InSortIn(a, TopOf(a).of)
  BY <1>6, <1>8, <1>9 DEF UseIn
<1>13. UseIn(h, a, w2) BY <1>10, <1>11, <1>12 DEF UseIn
<1> QED BY <1>6, <1>13 DEF a, n

-----------------------------------------------------------------------------
\* Steps as the program sees them: those of one operation.

\* The invariant in the current state and in the next one.
LEMMA UseIs == /\ UseOK <=> UseIn(heap, frames, wild)
               /\ UseOK' <=> UseIn(heap', frames', wild')
BY DEF UseOK, UseIn, ExtendingIn, TopOf, InSortIn

\* What a step that begins an operation on l says of the history.
LEMMA OnIs ==
  ASSUME NEW l \in List, On(l)
  PROVE  /\ pc = "run" /\ ~ExtendingIn(frames) /\ Live(l) /\ l \in LiveLists
         /\ wild' \in BOOLEAN
         /\ wild => wild'
         /\ ~wild' => ~wild /\ ~InSortIn(frames, l)
BY DEF On, UserRuns, Unpromised, ExtendingIn, Top, TopOf, LiveLists, InSort, InSortIn

\* Where the program runs no extend is under way.
LEMMA RunsIs == UserRuns => pc = "run" /\ ~ExtendingIn(frames)
BY DEF UserRuns, ExtendingIn, Top, TopOf

\* What the program sees of l afterwards is what l holds then.
LEMMA StoreView ==
  ASSUME MemoryOK, UseOK, ~ExtendingIn(frames), NEW l \in List, NEW o, NEW r, Store(l, o, r),
         wild' \in BOOLEAN, wild => wild', o.len <= MaxLen,
         ~wild' /\ InSortIn(frames, l) => o.len = heap[l].len
  PROVE  /\ UseOK' /\ out' = r /\ pc' = pc /\ UserFrames' = UserFrames
         /\ Contents[l] = Own(heap[l]) /\ Contents'[l] = Own(o)
         /\ Contents' = [Contents EXCEPT ![l] = Own(o)]
         /\ \A m \in List \ {l} : Contents'[m] = Contents[m]
         /\ LiveLists' = IF o.cap > 0 THEN LiveLists \cup {l} ELSE LiveLists \ {l}
<1>1. MemoryIn(heap, frames) /\ UseIn(heap, frames, wild) BY MemoryIs, UseIs
<1> DEFINE h == [heap EXCEPT ![l] = o]
<1>2. heap' = h /\ frames' = frames /\ out' = r /\ pc' = pc BY DEF Store
<1>3. UseIn(h, frames, wild') BY <1>1, UseStore
<1>4. UseOK' BY <1>2, <1>3, UseIs
<1>5. DOMAIN heap = List BY <1>1 DEF MemoryIn
<1>6. h[l] = o /\ \A m \in List : m # l => h[m] = heap[m] BY <1>5
<1> HIDE DEF h
<1>7. Contents = [m \in List |-> Own(heap[m])] /\ Contents' = [m \in List |-> Own(h[m])]
  BY <1>2, ViewIs, UserView
<1>8. UserFrames' = UserFrames
  BY <1>2, ViewIs DEF UserFramesIn, ExtendingIn, UnderIn, TopOf, PyFrames
<1>9. Contents[l] = Own(heap[l]) /\ Contents'[l] = Own(o) BY <1>6, <1>7
<1>10. \A m \in List \ {l} : Contents'[m] = Contents[m] BY <1>6, <1>7
<1>11. Contents' = [Contents EXCEPT ![l] = Own(o)] BY <1>6, <1>7
<1>12. LiveLists' = IF o.cap > 0 THEN LiveLists \cup {l} ELSE LiveLists \ {l}
  BY <1>2, <1>6, ViewIs DEF LiveIn
<1> QED BY <1>2, <1>4, <1>8, <1>9, <1>10, <1>11, <1>12

\* Nothing is seen of a step that only says something.
LEMMA SameView ==
  ASSUME UseOK, ~ExtendingIn(frames), heap' = heap, frames' = frames,
         wild' \in BOOLEAN, wild => wild'
  PROVE  UseOK' /\ Contents' = Contents /\ LiveLists' = LiveLists /\ UserFrames' = UserFrames
<1>1. UseIn(heap, frames, wild') BY UseIs, UseSame
<1>2. UseOK' BY <1>1, UseIs
<1>3. Contents' = Contents /\ LiveLists' = LiveLists BY ViewIs
<1>4. UserFrames' = UserFrames BY ViewIs
<1> QED BY <1>2, <1>3, <1>4

\* Steps of a program that keeps to what is promised, seen as Python's.
AsPython == ~wild' => [Python!Next]_(Python!vars)

\* A change, a question and a failure are steps of Python.
LEMMA AsChange ==
  ASSUME NEW l \in List, Python!Change(l) PROVE AsPython
BY DEF AsPython, Python!Next

LEMMA AsAsk == ASSUME NEW l \in List, Python!Ask(l) PROVE AsPython
BY DEF AsPython, Python!Next

LEMMA AsFail == ASSUME NEW l \in List, Python!Fail(l) PROVE AsPython
BY DEF AsPython, Python!Next

\* An operation of which a change of l is seen, and nothing else.
LEMMA AloneIs ==
  ASSUME NEW l \in LiveLists, LiveLists' = LiveLists, UserFrames' = UserFrames, pc' = pc,
         \A m \in List \ {l} : Contents'[m] = Contents[m]
  PROVE  Python!Alone(l)
BY DEF Python!Alone

\* Operations that fail: pop of an empty list, an index outside it, a value it
\* has not, a step of zero.
LEMMA AbortView ==
  ASSUME UseOK, NEW l \in List, On(l), NEW about, Abort(about),
         \/ Own(heap[l]) = <<>> /\ about = <<"empty">>
         \/ \E i : about = <<"range", i>> /\ i \notin 0 .. Len(Own(heap[l])) - 1
         \/ \E v : about = <<"absent", v>> /\ v \notin Python!Range(Own(heap[l]))
         \/ about[1] = "zero step"
  PROVE  UseOK' /\ AsPython
<1>0. /\ pc = "run" /\ ~ExtendingIn(frames) /\ Live(l) /\ l \in LiveLists
      /\ wild' \in BOOLEAN
      /\ wild => wild'
  BY OnIs
<1>1. heap' = heap /\ frames' = frames /\ pc' = "abort" /\ out' = about BY DEF Abort
<1>2. UseOK' /\ Contents' = Contents /\ LiveLists' = LiveLists /\ UserFrames' = UserFrames
  BY <1>0, <1>1, SameView
<1>3. Contents = [m \in List |-> Own(heap[m])] BY <1>0, ViewIs, UserView
<1>4. Contents[l] = Own(heap[l]) BY <1>3
<1>5. /\ l \in LiveLists /\ (pc' = "abort") = TRUE
      /\ UNCHANGED <<LiveLists, Contents, UserFrames>>
  BY <1>0, <1>1, <1>2
<1>6. \/ Contents[l] = <<>> /\ out' = <<"empty">>
      \/ out'[1] = "range" /\ out'[2] \notin 0 .. Len(Contents[l]) - 1
      \/ out'[1] = "absent" /\ out'[2] \notin Python!Range(Contents[l])
      \/ out'[1] = "zero step"
  <2> DEFINE s == Contents[l]
             r == out'
  <2>1. s = Own(heap[l]) /\ r = about BY <1>1, <1>4
  <2> HIDE DEF s, r
  <2>2. CASE Own(heap[l]) = <<>> /\ about = <<"empty">> BY <2>1, <2>2 DEF s, r
  <2>3. CASE \E i : about = <<"range", i>> /\ i \notin 0 .. Len(Own(heap[l])) - 1
    <3>1. r[1] = "range" /\ r[2] \notin 0 .. Len(s) - 1 BY <2>1, <2>3
    <3> QED BY <3>1 DEF s, r
  <2>4. CASE \E v : about = <<"absent", v>> /\ v \notin Python!Range(Own(heap[l]))
    <3>1. r[1] = "absent" /\ r[2] \notin Python!Range(s) BY <2>1, <2>4
    <3> QED BY <3>1 DEF s, r
  <2>5. CASE about[1] = "zero step"
    <3>1. r[1] = "zero step" BY <2>1, <2>5
    <3> QED BY <3>1 DEF r
  <2> QED BY <2>2, <2>3, <2>4, <2>5
<1>7. Python!Fail(l) BY <1>5, <1>6 DEF Python!Fail
<1> QED BY <1>2, <1>7, AsFail

\* From s to t, by one operation on the list alone, as asked for in r.
ChangedTo(r, s, t) ==
  \/ r[1] = "appended" /\ t = Append(s, r[2])
  \/ r[1] = "inserted" /\ t = Python!InsertAt(s, Python!Spot(s, r[2]) + 1, r[3])
  \/ r[1] = "set" /\ r[2] + 1 \in DOMAIN s /\ t = [s EXCEPT ![r[2] + 1] = r[3]]
  \/ r[1] = "removed" /\ r[2] \in Python!Range(s)
     /\ t = Python!RemoveAt(s, Python!First(s, r[2]))
  \/ r[1] = "reversed" /\ t = Python!Reverse(s)
  \/ r[1] = "cleared" /\ t = <<>>
  \/ r[1] = "sorted" /\ t = Python!SortedBy(s, s, r[2])

\* Every step of that kind is a change in Python.
LEMMA ChangeView ==
  ASSUME MemoryOK, UseOK, NEW l \in List, On(l), NEW o, NEW r, Store(l, o, r),
         BlockOK(o), Keeps(heap[l], o), o.len <= MaxLen, ChangedTo(r, Own(heap[l]), Own(o))
  PROVE  UseOK' /\ AsPython
<1>0. /\ ~ExtendingIn(frames) /\ Live(l) /\ l \in LiveLists
      /\ wild' \in BOOLEAN
      /\ wild => wild'
      /\ ~wild' => ~InSortIn(frames, l)
  BY OnIs
<1>1. /\ UseOK' /\ out' = r /\ pc' = pc /\ UserFrames' = UserFrames
      /\ Contents[l] = Own(heap[l]) /\ Contents'[l] = Own(o)
      /\ \A m \in List \ {l} : Contents'[m] = Contents[m]
      /\ LiveLists' = IF o.cap > 0 THEN LiveLists \cup {l} ELSE LiveLists \ {l}
  BY <1>0, StoreView
<1>2. o.cap > 0
  <2>1. heap[l].cap \in Nat /\ o.cap \in Nat /\ heap[l].cap > 0 /\ heap[l].cap <= o.cap
    BY <1>0, BlocksNow, Fields DEF Keeps, Live
  <2> QED BY <2>1
<1>3. LiveLists' = LiveLists BY <1>0, <1>1, <1>2
<1>4. Python!Alone(l) BY <1>0, <1>1, <1>3, AloneIs
<1>5. ChangedTo(out', Contents[l], Contents'[l]) BY <1>1
<1>6. Python!Change(l) BY <1>4, <1>5 DEF Python!Change, ChangedTo
<1> QED BY <1>1, <1>6, AsChange

\* Only an answer is given, or the last element.
AskedOf(s, t, r) ==
  \/ s # <<>> /\ t = Python!Front(s) /\ r = <<"popped", Python!Last(s)>>
  \/ t = s /\ \E i \in DOMAIN s : r = <<"item", i - 1, s[i]>>
  \/ t = s /\ \E v \in Python!Range(s) : r = <<"index", v, Python!First(s, v) - 1>>
  \/ t = s /\ \E v \in Value : r = <<"count", v, Python!Cardinality({i \in DOMAIN s : s[i] = v})>>

\* Every step of that kind is an answer in Python.
LEMMA AskView ==
  ASSUME MemoryOK, UseOK, NEW l \in List, On(l), NEW o, NEW r, Store(l, o, r),
         BlockOK(o), Keeps(heap[l], o), o.len <= MaxLen, AskedOf(Own(heap[l]), Own(o), r)
  PROVE  UseOK' /\ AsPython
<1>0. /\ ~ExtendingIn(frames) /\ Live(l) /\ l \in LiveLists
      /\ wild' \in BOOLEAN
      /\ wild => wild'
      /\ ~wild' => ~InSortIn(frames, l)
  BY OnIs
<1>1. /\ UseOK' /\ out' = r /\ pc' = pc /\ UserFrames' = UserFrames
      /\ Contents[l] = Own(heap[l]) /\ Contents'[l] = Own(o)
      /\ \A m \in List \ {l} : Contents'[m] = Contents[m]
      /\ LiveLists' = IF o.cap > 0 THEN LiveLists \cup {l} ELSE LiveLists \ {l}
  BY <1>0, StoreView
<1>2. o.cap > 0
  <2>1. heap[l].cap \in Nat /\ o.cap \in Nat /\ heap[l].cap > 0 /\ heap[l].cap <= o.cap
    BY <1>0, BlocksNow, Fields DEF Keeps, Live
  <2> QED BY <2>1
<1>3. LiveLists' = LiveLists BY <1>0, <1>1, <1>2
<1>4. Python!Alone(l) BY <1>0, <1>1, <1>3, AloneIs
<1>5. AskedOf(Contents[l], Contents'[l], out') BY <1>1
<1>6. Python!Ask(l) BY <1>4, <1>5 DEF Python!Ask, AskedOf
<1> QED BY <1>1, <1>6, AsAsk

\* The lengths, of which no sum with a place overflows.
LEMMA LengthsFit ==
  ASSUME MemoryOK, UseOK, NEW l \in List
  PROVE  heap[l].len \in Nat /\ heap[l].len <= MaxLen /\ MaxLen \in Nat /\ BlockOK(heap[l])
BY BlocksNow, UseIs, FitsIs DEF UseIn

\* The operations, one by one.
LEMMA AppendView ==
  ASSUME MemoryOK, UseOK, NEW l \in List, AppendTo(l) PROVE UseOK' /\ AsPython
<1> DEFINE b == heap[l]
<1>0. On(l) /\ b.cap > 0 BY OnIs DEF AppendTo, Live
<1>1. PICK v \in Value : RoomFor(l, 1) /\ Store(l, spy_list_append(b, v), <<"appended", v>>) BY DEF AppendTo
<1>2. BlockOK(b) /\ b.len + 1 <= MaxLen /\ b.len \in Nat BY <1>1, LengthsFit DEF RoomFor
<1> DEFINE o == spy_list_append(b, v)
<1> HIDE DEF b
<1>3. BlockOK(o) /\ Keeps(b, o) BY <1>0, <1>2, AppendOK
<1>4. Own(o) = Append(Own(b), v) BY <1>0, <1>2, OwnAppend
<1>5. Store(l, o, <<"appended", v>>) BY <1>1
<1> HIDE DEF o
<1>6. ChangedTo(<<"appended", v>>, Own(b), Own(o)) BY <1>4 DEF ChangedTo
<1>7. o.len <= MaxLen
  <2>1. Own(b) \in Seq(Value) /\ Len(Own(b)) = b.len /\ Len(Own(o)) = o.len BY <1>2, <1>3, OwnIs
  <2>2. Len(Append(Own(b), v)) = b.len + 1 BY <2>1, AppendProperties
  <2> QED BY <1>2, <1>4, <2>1, <2>2
<1> QED BY <1>0, <1>3, <1>5, <1>6, <1>7, ChangeView DEF b

LEMMA InsertView ==
  ASSUME MemoryOK, UseOK, NEW l \in List, Insert(l) PROVE UseOK' /\ AsPython
<1> DEFINE b == heap[l]
<1>0. On(l) /\ b.cap > 0 BY OnIs DEF Insert, Live
<1>1. PICK i \in 0 .. MaxLen, v \in Value :
        RoomFor(l, 1) /\ Store(l, spy_list_insert(b, i, v), <<"inserted", i, v>>)
  BY DEF Insert
<1>2. BlockOK(b) /\ b.len + 1 <= MaxLen /\ b.len \in Nat BY <1>1, LengthsFit DEF RoomFor
<1> DEFINE o == spy_list_insert(b, i, v)
<1> HIDE DEF b
<1>3. BlockOK(o) /\ Keeps(b, o) BY <1>0, <1>2, FitsIs, InsertOK
<1> DEFINE at == Python!Spot(Own(b), i)
<1>4. at \in 0 .. b.len /\ Own(o) = Python!InsertAt(Own(b), at + 1, v)
  <2>1. i \in Nat BY FitsIs
  <2> QED BY <1>0, <1>2, <2>1, OwnInsert
<1>5. Store(l, o, <<"inserted", i, v>>) BY <1>1
<1> HIDE DEF o
<1>6. Len(Own(b)) = b.len BY <1>2, OwnIs
<1>7. ChangedTo(<<"inserted", i, v>>, Own(b), Own(o)) BY <1>4, <1>6 DEF ChangedTo
<1> HIDE DEF at
<1>8. o.len <= MaxLen
  <2>1. Own(b) \in Seq(Value) /\ Len(Own(o)) = o.len BY <1>2, <1>3, OwnIs
  <2>2. at + 1 \in 1 .. Len(Own(b)) + 1 BY <1>2, <1>4, <1>6
  <2>3. Len(Python!InsertAt(Own(b), at + 1, v)) = Len(Own(b)) + 1 BY <2>1, <2>2, Around
  <2> QED BY <1>2, <1>4, <1>6, <2>1, <2>3
<1> QED BY <1>0, <1>3, <1>5, <1>7, <1>8, ChangeView DEF b

LEMMA PopView ==
  ASSUME MemoryOK, UseOK, NEW l \in List, Pop(l) PROVE UseOK' /\ AsPython
<1> DEFINE b == heap[l]
<1>0. On(l) BY DEF Pop
<1>1. BlockOK(b) /\ b.len \in Nat /\ b.len <= MaxLen /\ MaxLen \in Nat BY LengthsFit
<1>2. CASE b.len = 0
  <2>1. Abort(<<"empty">>) BY <1>2 DEF Pop
  <2>2. Own(b) = <<>> BY <1>1, <1>2, OwnNone
  <2> QED BY <1>0, <2>1, <2>2, AbortView
<1>3. CASE b.len # 0
  <2> DEFINE o == spy_list_pop(b)
             r == <<"popped", b.data[b.len - 1]>>
  <2>1. Store(l, o, r) BY <1>3 DEF Pop
  <2> HIDE DEF b
  <2>2. /\ BlockOK(o) /\ Keeps(b, o)
        /\ Own(b) # <<>> /\ Own(o) = Python!Front(Own(b)) /\ r = <<"popped", Python!Last(Own(b))>>
    BY <1>1, <1>3, ShorterOK, OwnPop
  <2>3. o.len = b.len - 1
    <3>1. b = [len |-> b.len, cap |-> b.cap, data |-> b.data] BY <1>1, Fields
    <3> QED BY <3>1 DEF spy_list_pop
  <2> HIDE DEF o, r
  <2>4. o.len <= MaxLen BY <1>1, <2>3
  <2>5. AskedOf(Own(b), Own(o), r) BY <2>2 DEF AskedOf
  <2> QED BY <1>0, <2>1, <2>2, <2>4, <2>5, AskView DEF b
<1> QED BY <1>2, <1>3

LEMMA RemoveView ==
  ASSUME MemoryOK, UseOK, NEW l \in List, Remove(l) PROVE UseOK' /\ AsPython
<1> DEFINE b == heap[l]
<1>0. On(l) BY DEF Remove
<1>1. BlockOK(b) /\ b.len \in Nat /\ b.len <= MaxLen /\ MaxLen \in Nat BY LengthsFit
<1>2. PICK v \in Value :
        LET c == spy_list_index(b, v)
        IN  IF c < 0 THEN Abort(<<"absent", v>>) ELSE Store(l, spy_list_remove(b, c), <<"removed", v>>)
  BY DEF Remove
<1> DEFINE c == spy_list_index(b, v)
<1>3. /\ c < 0 <=> v \notin Python!Range(Own(b))
      /\ ~(c < 0) => c \in 0 .. b.len - 1 /\ Python!First(Own(b), v) = c + 1
  BY <1>1, OwnIndex
<1>4. CASE c < 0
  <2>1. Abort(<<"absent", v>>) BY <1>2, <1>4
  <2> QED BY <1>0, <1>3, <1>4, <2>1, AbortView
<1>5. CASE ~(c < 0)
  <2> DEFINE o == spy_list_remove(b, c)
  <2>1. Store(l, o, <<"removed", v>>) BY <1>2, <1>5
  <2> HIDE DEF c, b
  <2>2. b.len > 0 /\ c \in 0 .. b.len - 1 BY <1>1, <1>3, <1>5
  <2>3. BlockOK(o) /\ Keeps(b, o) /\ Own(o) = Python!RemoveAt(Own(b), c + 1)
    BY <1>1, <2>2, RemoveOK, OwnRemove
  <2>4. o.len = b.len - 1
    <3>1. b = [len |-> b.len, cap |-> b.cap, data |-> b.data] BY <1>1, Fields
    <3> QED BY <3>1 DEF spy_list_remove
  <2> HIDE DEF o
  <2>5. o.len <= MaxLen BY <1>1, <2>4
  <2>6. ChangedTo(<<"removed", v>>, Own(b), Own(o)) BY <1>3, <1>5, <2>3 DEF ChangedTo
  <2> QED BY <1>0, <2>1, <2>3, <2>5, <2>6, ChangeView DEF b
<1> QED BY <1>4, <1>5

\* An operation that leaves the length as it is.
LEMMA SameLength ==
  ASSUME NEW o, BlockOK(o)
  PROVE  /\ spy_list_reverse(o).len = o.len /\ \A n, p : Permuted(o, n, p).len = o.len
         /\ \A c, v : spy_list_set(o, c, v).len = o.len
         /\ spy_list_clear(o).len = 0
<1>1. o = [len |-> o.len, cap |-> o.cap, data |-> o.data] BY Fields
<1>2. spy_list_reverse(o).len = o.len BY <1>1 DEF spy_list_reverse
<1>3. \A n, p : Permuted(o, n, p).len = o.len BY <1>1 DEF Permuted
<1>4. \A c, v : spy_list_set(o, c, v).len = o.len BY <1>1 DEF spy_list_set
<1>5. spy_list_clear(o).len = 0 BY <1>1 DEF spy_list_clear
<1> QED BY <1>2, <1>3, <1>4, <1>5

LEMMA ReverseView ==
  ASSUME MemoryOK, UseOK, NEW l \in List, ReverseList(l) PROVE UseOK' /\ AsPython
<1> DEFINE b == heap[l]
           o == spy_list_reverse(b)
<1>0. On(l) /\ Store(l, o, <<"reversed">>) BY DEF ReverseList
<1>1. BlockOK(b) /\ b.len <= MaxLen BY LengthsFit
<1> HIDE DEF b
<1>2. /\ BlockOK(o) /\ Keeps(b, o) /\ Own(o) = Python!Reverse(Own(b)) /\ o.len = b.len
  BY <1>1, ReverseOK, OwnReverse, SameLength
<1> HIDE DEF o
<1>3. ChangedTo(<<"reversed">>, Own(b), Own(o)) BY <1>2 DEF ChangedTo
<1> QED BY <1>0, <1>1, <1>2, <1>3, ChangeView DEF b

LEMMA ClearView ==
  ASSUME MemoryOK, UseOK, NEW l \in List, Clear(l) PROVE UseOK' /\ AsPython
<1> DEFINE b == heap[l]
           o == spy_list_clear(b)
<1>0. On(l) /\ Store(l, o, <<"cleared">>) BY DEF Clear
<1>1. BlockOK(b) /\ b.len <= MaxLen /\ MaxLen \in Nat BY LengthsFit
<1> HIDE DEF b
<1>2. BlockOK(o) /\ Keeps(b, o) /\ Own(o) = <<>> /\ o.len = 0
  BY <1>1, ShorterOK, OwnNone, SameLength
<1> HIDE DEF o
<1>3. ChangedTo(<<"cleared">>, Own(b), Own(o)) BY <1>2 DEF ChangedTo
<1>4. o.len <= MaxLen BY <1>1, <1>2
<1> QED BY <1>0, <1>2, <1>3, <1>4, ChangeView DEF b

\* An index behind the end is no place of the list.
LEMMA RangeView ==
  ASSUME MemoryOK, UseOK, NEW l \in List, On(l), NEW i \in Nat, i >= heap[l].len,
         Abort(<<"range", i>>)
  PROVE  UseOK' /\ AsPython
<1>1. BlockOK(heap[l]) BY LengthsFit
<1>2. Len(Own(heap[l])) = heap[l].len /\ heap[l].len \in Nat BY <1>1, OwnIs
<1>3. i \notin 0 .. Len(Own(heap[l])) - 1 BY <1>2
<1> QED BY <1>3, AbortView

\* l[i] = v, l[i], index, count and sort without a key.
LEMMA SetView ==
  ASSUME MemoryOK, UseOK, NEW l \in List, SetItem(l) PROVE UseOK' /\ AsPython
<1> DEFINE b == heap[l]
<1>0. On(l) BY DEF SetItem
<1>1. BlockOK(b) /\ b.len \in Nat /\ b.len <= MaxLen /\ MaxLen \in Nat BY LengthsFit
<1>2. PICK i \in 0 .. MaxLen, v \in Value :
        IF i >= b.len THEN Abort(<<"range", i>>) ELSE Store(l, spy_list_set(b, i, v), <<"set", i, v>>)
  BY DEF SetItem
<1>3. i \in Nat BY <1>1
<1>4. CASE i >= b.len BY <1>0, <1>2, <1>3, <1>4, RangeView
<1>5. CASE ~(i >= b.len)
  <2> DEFINE o == spy_list_set(b, i, v)
  <2>1. Store(l, o, <<"set", i, v>>) BY <1>2, <1>5
  <2>2. i \in 0 .. b.len - 1 BY <1>1, <1>3, <1>5
  <2> HIDE DEF b
  <2>3. /\ BlockOK(o) /\ Keeps(b, o) /\ o.len = b.len
        /\ Own(o) = [Own(b) EXCEPT ![i + 1] = v] /\ i + 1 \in DOMAIN Own(b)
    BY <1>1, <2>2, SetOK, OwnSet, SameLength
  <2> HIDE DEF o
  <2>4. ChangedTo(<<"set", i, v>>, Own(b), Own(o)) BY <2>3 DEF ChangedTo
  <2> QED BY <1>0, <1>1, <2>1, <2>3, <2>4, ChangeView DEF b
<1> QED BY <1>4, <1>5

LEMMA GetView ==
  ASSUME MemoryOK, UseOK, NEW l \in List, GetItem(l) PROVE UseOK' /\ AsPython
<1> DEFINE b == heap[l]
<1>0. On(l) BY DEF GetItem
<1>1. BlockOK(b) /\ b.len \in Nat /\ b.len <= MaxLen /\ MaxLen \in Nat /\ Keeps(b, b)
  BY LengthsFit, KeepsItself
<1>2. PICK i \in 0 .. MaxLen :
        IF i >= b.len THEN Abort(<<"range", i>>) ELSE Store(l, b, <<"item", i, b.data[i]>>)
  BY DEF GetItem
<1>3. i \in Nat BY <1>1
<1>4. CASE i >= b.len BY <1>0, <1>2, <1>3, <1>4, RangeView
<1>5. CASE ~(i >= b.len)
  <2> DEFINE r == <<"item", i, b.data[i]>>
  <2>1. Store(l, b, r) BY <1>2, <1>5
  <2> HIDE DEF b
  <2>2. PICK j \in 1 .. b.len : j = i + 1 BY <1>1, <1>3, <1>5
  <2>3. j - 1 = i BY <1>3, <2>2
  <2>4. j \in DOMAIN Own(b) /\ Own(b)[j] = b.data[i] BY <1>1, <2>2, <2>3, OwnIs
  <2>5. r = <<"item", j - 1, Own(b)[j]>> BY <2>3, <2>4
  <2> HIDE DEF r
  <2>6. AskedOf(Own(b), Own(b), r) BY <2>4, <2>5 DEF AskedOf
  <2> QED BY <1>0, <1>1, <2>1, <2>6, AskView DEF b
<1> QED BY <1>4, <1>5

LEMMA IndexView ==
  ASSUME MemoryOK, UseOK, NEW l \in List, Index(l) PROVE UseOK' /\ AsPython
<1> DEFINE b == heap[l]
<1>0. On(l) BY DEF Index
<1>1. BlockOK(b) /\ b.len <= MaxLen /\ Keeps(b, b) BY LengthsFit, KeepsItself
<1>2. PICK v \in Value :
        /\ spy_list_index(b, v) >= 0 /\ Store(l, b, <<"index", v, spy_list_index(b, v)>>)
  BY DEF Index
<1> DEFINE c == spy_list_index(b, v)
           r == <<"index", v, c>>
<1>3. /\ c \in Int
      /\ c < 0 <=> v \notin Python!Range(Own(b))
      /\ ~(c < 0) => c \in 0 .. b.len - 1 /\ Python!First(Own(b), v) = c + 1
  BY <1>1, OwnIndex
<1>4. ~(c < 0)
  <2>1. c \in Int /\ c >= 0 BY <1>2, <1>3
  <2> HIDE DEF c
  <2> QED BY <2>1
<1>5. Store(l, b, r) BY <1>2
<1>6. b.len \in Nat BY <1>1, OwnIs
<1> HIDE DEF b, c
<1>7. v \in Python!Range(Own(b)) BY <1>3, <1>4
<1>8. Python!First(Own(b), v) - 1 = c BY <1>3, <1>4, <1>6
<1>9. r = <<"index", v, Python!First(Own(b), v) - 1>> BY <1>8
<1> HIDE DEF r
<1>10. AskedOf(Own(b), Own(b), r) BY <1>7, <1>9 DEF AskedOf
<1> QED BY <1>0, <1>1, <1>5, <1>10, AskView DEF b

LEMMA CountView ==
  ASSUME MemoryOK, UseOK, NEW l \in List, Count(l) PROVE UseOK' /\ AsPython
<1> DEFINE b == heap[l]
<1>0. On(l) BY DEF Count
<1>1. BlockOK(b) /\ b.len <= MaxLen /\ Keeps(b, b) BY LengthsFit, KeepsItself
<1>2. PICK v \in Value : Store(l, b, <<"count", v, spy_list_count_elem(b, v)>>) BY DEF Count
<1> DEFINE r == <<"count", v, spy_list_count_elem(b, v)>>
<1>3. Store(l, b, r) BY <1>2
<1> HIDE DEF b
<1>4. r = <<"count", v, Python!Cardinality({i \in DOMAIN Own(b) : Own(b)[i] = v})>>
  BY <1>1, OwnCount
<1> HIDE DEF r
<1>5. AskedOf(Own(b), Own(b), r) BY <1>4 DEF AskedOf
<1> QED BY <1>0, <1>1, <1>3, <1>5, AskView DEF b

LEMMA SortView ==
  ASSUME MemoryOK, UseOK, NEW l \in List, Sort(l) PROVE UseOK' /\ AsPython
<1> DEFINE b == heap[l]
<1>0. On(l) BY DEF Sort
<1>1. BlockOK(b) /\ b.len \in Nat /\ b.len <= MaxLen BY LengthsFit
<1>2. PICK reverse \in BOOLEAN :
        \E p \in Orders(b.len, b.data, reverse) : Store(l, Permuted(b, b.len, p), <<"sorted", reverse>>)
  BY DEF Sort
<1>3. PICK p \in Orders(b.len, b.data, reverse) : Store(l, Permuted(b, b.len, p), <<"sorted", reverse>>) BY <1>2
<1> DEFINE o == Permuted(b, b.len, p)
<1> HIDE DEF b
<1>4. p \in [0 .. b.len - 1 -> 0 .. b.len - 1] /\ Written(b, b.len) BY <1>1, OrdersAre DEF BlockOK
<1>5. BlockOK(o) /\ Keeps(b, o) /\ o.len = b.len BY <1>1, <1>4, SortOK, SameLength
<1>6. ASSUME NEW i \in 0 .. b.len - 1 PROVE b.data[i] \in Int /\ Own(b)[i + 1] = b.data[i]
  <2>1. b.data[i] \in Value /\ Value \subseteq Int BY <1>1, Fields, ListAssumption
  <2>2. PICK j \in 1 .. b.len : j = i + 1 BY <1>1
  <2>3. j - 1 = i BY <2>2
  <2>4. Own(b)[j] = b.data[j - 1] BY <1>1, <2>2, OwnIs
  <2> QED BY <2>1, <2>2, <2>3, <2>4
<1>7. Own(o) = Python!SortedBy(Own(b), Own(b), reverse) BY <1>1, <1>6, OwnSort
<1>8. Store(l, o, <<"sorted", reverse>>) BY <1>3
<1> HIDE DEF o
<1>9. ChangedTo(<<"sorted", reverse>>, Own(b), Own(o)) BY <1>7 DEF ChangedTo
<1> QED BY <1>0, <1>1, <1>5, <1>8, <1>9, ChangeView DEF b

\* No frame works on a list that is not there.
LEMMA NotLive ==
  ASSUME MemoryOK, NEW l \in List, ~Live(l)
  PROVE  ~InSortIn(frames, l) /\ l \notin LiveLists
<1>1. ASSUME NEW i \in DOMAIN frames, frames[i].of = l PROVE FALSE
  BY <1>1 DEF MemoryOK, FrameOK
<1> QED BY <1>1 DEF InSortIn, LiveLists

\* A list that is made, and one that is given up.
LEMMA NewView ==
  ASSUME MemoryOK, UseOK, NEW l \in List, NewList(l) PROVE UseOK' /\ AsPython
<1> DEFINE o == spy_list_new
<1>0. UserRuns /\ ~Live(l) /\ Store(l, o, Silent) /\ wild' = wild BY DEF NewList
<1>1. ~ExtendingIn(frames) /\ ~InSortIn(frames, l) /\ l \notin LiveLists BY <1>0, RunsIs, NotLive
<1>2. wild \in BOOLEAN BY UseIs DEF UseIn
<1>3. BlockOK(o) /\ o.cap > 0 /\ Own(o) = <<>> /\ o.len = 0 /\ MaxLen \in Nat
  <2>1. BlockOK(Nothing) BY NewOK
  <2>2. Own(o) = <<>> BY <2>1, OwnNone
  <2> QED BY <2>2, NewOK, FitsIs DEF spy_list_new
<1> HIDE DEF o
<1>4. /\ UseOK' /\ out' = Silent /\ pc' = pc /\ UserFrames' = UserFrames
      /\ Contents' = [Contents EXCEPT ![l] = Own(o)]
      /\ LiveLists' = IF o.cap > 0 THEN LiveLists \cup {l} ELSE LiveLists \ {l}
  <2>1. o.len <= MaxLen BY <1>3
  <2>2. /\ wild' \in BOOLEAN
        /\ wild => wild'
    BY <1>0, <1>2
  <2> QED BY <1>0, <1>1, <2>1, <2>2, StoreView
<1>5. LiveLists' = LiveLists \cup {l} BY <1>3, <1>4
<1>6. Contents' = [Contents EXCEPT ![l] = <<>>] BY <1>3, <1>4
<1>7. Python!NewList(l) BY <1>1, <1>4, <1>5, <1>6 DEF Python!NewList, Silent, Python!Silent
<1> QED BY <1>4, <1>7 DEF AsPython, Python!Next

LEMMA ForgetView ==
  ASSUME MemoryOK, UseOK, NEW l \in List, Forget(l) PROVE UseOK' /\ AsPython
<1> DEFINE o == Nothing
<1>0. UserRuns /\ Live(l) /\ ~InUse(l) /\ Store(l, o, Silent) /\ wild' = wild BY DEF Forget
<1>1. ~ExtendingIn(frames) /\ ~InSortIn(frames, l) /\ l \in LiveLists
  BY <1>0, RunsIs DEF InUse, InSortIn, LiveLists
<1>2. wild \in BOOLEAN BY UseIs DEF UseIn
<1>3. ~(o.cap > 0) /\ Own(o) = <<>> /\ o.len = 0 /\ MaxLen \in Nat
  <2>1. BlockOK(Nothing) BY NewOK
  <2>2. Own(o) = <<>> BY <2>1, OwnNone
  <2> QED BY <2>2, FitsIs DEF Nothing
<1> HIDE DEF o
<1>4. /\ UseOK' /\ out' = Silent /\ pc' = pc /\ UserFrames' = UserFrames
      /\ Contents' = [Contents EXCEPT ![l] = Own(o)]
      /\ LiveLists' = IF o.cap > 0 THEN LiveLists \cup {l} ELSE LiveLists \ {l}
  <2>1. o.len <= MaxLen BY <1>3
  <2>2. /\ wild' \in BOOLEAN
        /\ wild => wild'
    BY <1>0, <1>2
  <2> QED BY <1>0, <1>1, <2>1, <2>2, StoreView
<1>5. LiveLists' = LiveLists \ {l} BY <1>3, <1>4
<1>6. Contents' = [Contents EXCEPT ![l] = <<>>] BY <1>3, <1>4
<1>7. Python!Forget(l) BY <1>1, <1>4, <1>5, <1>6 DEF Python!Forget, Silent, Python!Silent
<1> QED BY <1>4, <1>7 DEF AsPython, Python!Next

\* A slice is no longer than its list, and defined if its step can be added to it.
LEMMA SliceBounds ==
  ASSUME NEW n \in Nat, n <= MaxLen, NEW low \in Bound, NEW high \in Bound, NEW step \in Step,
         step # 0
  PROVE  LET s == spy_slice_resolve(n, low, high, step)
         IN  /\ s.len \in Nat /\ s.len <= n
             /\ ~s.defined => step \notin {None, 0} /\ ~Fits(Size(step) + n)
<1> DEFINE by   == IF step = None THEN 1 ELSE step
           s    == spy_slice_resolve(n, low, high, step)
           span == Span(n, low, high, by)
           p    == Size(by)
<1>1. /\ s.len = IF span > 0 THEN (span + p - 1) \div p ELSE 0
      /\ s.defined <=> Fits(p) /\ (span > 0 => Fits(span + p))
  BY ResolveIs
<1>2. by \in Int /\ by # 0 BY ListAssumption
<1>3. s.len \in Nat BY SliceCells
<1>a. step # None => p = Size(step) OBVIOUS
<1>b. step = None => by = 1 OBVIOUS
<1> HIDE DEF by, s
<1>4. p \in Nat /\ p > 0 /\ (by = 1 => p = 1) BY <1>2 DEF Size
<1>5. span \in Int /\ span <= n BY <1>2, EndsAre
<1> HIDE DEF span, p
<1>6. s.len <= n
  <2>1. CASE span > 0
    <3> DEFINE q == (span + p - 1) \div p
    <3>1. span \in Nat BY <1>5, <2>1
    <3>2. q \in Nat /\ \A c \in 0 .. q - 1 : c * p \in 0 .. span - 1 BY <1>4, <2>1, <3>1, Strides
    <3>3. s.len = q BY <1>1, <2>1
    <3> HIDE DEF q
    <3>4. CASE q = 0 BY <3>3, <3>4
    <3>5. CASE q # 0
      <4>1. q - 1 \in 0 .. q - 1 BY <3>2, <3>5
      <4> DEFINE c == q - 1
      <4>2. c \in Nat /\ q = c + 1 BY <3>2, <4>1
      <4>3. c * p \in 0 .. span - 1 BY <3>2, <4>1
      <4> HIDE DEF c
      <4>4. c * p >= c BY <1>4, <4>2
      <4>5. c * p \in Int BY <1>4, <4>2
      <4> QED BY <1>5, <3>3, <4>2, <4>3, <4>4, <4>5
    <3> QED BY <3>4, <3>5
  <2>2. CASE ~(span > 0) BY <1>1, <2>2
  <2> QED BY <2>1, <2>2
<1>7. /\ MaxInt \in Int /\ MaxLen + 1 <= MaxInt /\ MaxLen \in Nat BY FitsIs
<1>8. ASSUME ~s.defined PROVE step \notin {None, 0} /\ ~Fits(Size(step) + n)
  <2>1. ~Fits(p) \/ (~Fits(span + p) /\ span > 0) BY <1>1, <1>8
  <2>2. ~Fits(p + n)
    <3> SUFFICES ASSUME Fits(p + n) PROVE FALSE OBVIOUS
    <3>1. p + n <= MaxInt BY DEF Fits
    <3>2. Fits(p) BY <1>4, <1>7, <3>1 DEF Fits
    <3>3. span > 0 => Fits(span + p) BY <1>4, <1>5, <1>7, <3>1 DEF Fits
    <3> QED BY <2>1, <3>2, <3>3
  <2>3. step # None
    <3> SUFFICES ASSUME step = None PROVE FALSE OBVIOUS
    <3>1. p = 1 BY <1>b, <1>4
    <3>2. Fits(p + n) BY <1>7, <3>1 DEF Fits
    <3> QED BY <2>2, <3>2
  <2> QED BY <1>a, <2>2, <2>3
<1> QED BY <1>3, <1>6, <1>8 DEF s

\* A slice as a list of its own, or the step that is not defined.
LEMMA SliceView ==
  ASSUME MemoryOK, UseOK, NEW l \in List, NEW m \in List, SliceOf(l, m) PROVE UseOK' /\ AsPython
<1> DEFINE b == heap[l]
<1>1. PICK low \in Bound, high \in Bound, step \in Step :
        LET s == spy_slice_resolve(b.len, low, high, step)
        IN  /\ UserRuns /\ Live(l) /\ ~Live(m) /\ Len(frames) <= SliceDepth
            /\ wild' = (wild \/ InSort(l) \/ (step \notin {None, 0} /\ ~Fits(Size(step) + b.len)))
            /\ IF step = 0 THEN Abort(<<"zero step">>)
               ELSE IF s.defined
                 THEN Store(m, spy_list_slice(b, s), <<"slice", low, high, step>>)
                 ELSE pc' = "undef" /\ out' = Silent /\ UNCHANGED <<heap, frames>>
  BY DEF SliceOf
<1> DEFINE s == spy_slice_resolve(b.len, low, high, step)
           r == <<"slice", low, high, step>>
           o == spy_list_slice(b, s)
<1>2. b.len \in Nat /\ b.len <= MaxLen /\ MaxLen \in Nat /\ BlockOK(b) BY LengthsFit
<1>3. /\ wild' \in BOOLEAN
      /\ wild => wild'
  BY <1>1
<1>4. /\ ~ExtendingIn(frames) /\ ~InSortIn(frames, m) /\ m \notin LiveLists /\ l \in LiveLists
  BY <1>1, RunsIs, NotLive DEF LiveLists
<1>5. CASE step = 0
  <2>1. Abort(<<"zero step">>) BY <1>1, <1>5
  <2>2. step \in {None, 0} BY <1>5
  <2>3. wild' = (wild \/ InSort(l)) BY <1>1, <2>2
  <2>4. On(l) BY <1>1, <2>3 DEF On, Unpromised
  <2> DEFINE about == <<"zero step">>
  <2>5. about[1] = "zero step" /\ Abort(about) BY <2>1
  <2> HIDE DEF about
  <2> QED BY <2>4, <2>5, AbortView
<1>6. CASE step # 0 /\ ~s.defined
  <2>1. pc' = "undef" /\ heap' = heap /\ frames' = frames BY <1>1, <1>6
  <2>2. UseOK' BY <1>3, <1>4, <2>1, SameView
  <2>3. step \notin {None, 0} /\ ~Fits(Size(step) + b.len)
    <3> HIDE DEF b
    <3> QED BY <1>2, <1>6, SliceBounds
  <2>4. wild' BY <1>1, <2>3
  <2> QED BY <2>2, <2>4 DEF AsPython
<1>7. CASE step # 0 /\ s.defined
  <2>1. Store(m, o, r) BY <1>1, <1>7
  <2>2. /\ s.len \in Nat /\ s.len <= b.len /\ BlockOK(o) /\ o.cap > 0
        /\ Own(o) = Python!Slice(Own(b), low, high, step)
    <3> HIDE DEF b
    <3> QED BY <1>2, <1>7, SliceBounds, SliceOK, OwnSlice
  <2>3. o.len = s.len BY DEF spy_list_slice
  <2> HIDE DEF o, s
  <2>4. o.len <= MaxLen BY <1>2, <2>2, <2>3
  <2> HIDE DEF r
  <2>5. /\ UseOK' /\ out' = r /\ pc' = pc /\ UserFrames' = UserFrames
        /\ Contents' = [Contents EXCEPT ![m] = Own(o)]
        /\ LiveLists' = IF o.cap > 0 THEN LiveLists \cup {m} ELSE LiveLists \ {m}
    BY <1>3, <1>4, <2>1, <2>4, StoreView
  <2>6. LiveLists' = LiveLists \cup {m} BY <2>2, <2>5
  <2>7. Contents[l] = Own(b)
    <3>1. Contents = [k \in List |-> Own(heap[k])] BY <1>4, ViewIs, UserView
    <3> QED BY <3>1
  <2>8. Contents' = [Contents EXCEPT ![m] = Python!Slice(Contents[l], low, high, step)]
    BY <2>2, <2>5, <2>7
  <2>9. r[1] = "slice" /\ r[2] = low /\ r[3] = high /\ r[4] = step BY DEF r
  <2>10. /\ out'[1] = "slice"
         /\ Contents' = [Contents EXCEPT ![m] = Python!Slice(Contents[l], out'[2], out'[3], out'[4])]
    BY <2>5, <2>8, <2>9
  <2>11. UNCHANGED <<UserFrames, pc>> BY <2>5
  <2>12. Python!SliceOf(l, m) BY <1>4, <2>6, <2>10, <2>11 DEF Python!SliceOf
  <2> QED BY <2>5, <2>12 DEF AsPython, Python!Next
<1> QED BY <1>5, <1>6, <1>7

-----------------------------------------------------------------------------
\* Steps as the program sees them: loops, sorts with a key, extends.

\* What is left of t when its first i elements have been passed.
LEMMA RestMoves ==
  ASSUME NEW s \in Seq(Value), NEW t \in Seq(Value), NEW i \in Nat, i < Len(t)
  PROVE  Append(s, t[i + 1]) \o SubSeq(t, i + 1 + 1, Len(t)) = s \o SubSeq(t, i + 1, Len(t))
<1> DEFINE n == Len(t)
           k == i + 1
           e == t[k]
           one == SubSeq(t, k, k)
           rest == SubSeq(t, k + 1, n)
<1>1. n \in Nat /\ k \in 1 .. n /\ k \in Int /\ \A j \in 1 .. n : t[j] \in Value
  BY LenProperties, ElementOfSeq
<1>2. e \in Value /\ \A j \in k .. k : t[j] \in Value BY <1>1
<1>3. \A j \in k + 1 .. n : t[j] \in Value BY <1>1
<1>6. one \o rest = SubSeq(t, k, n)
  <2>1. k \in 1 .. Len(t) + 1 /\ k \in k - 1 .. Len(t) /\ n \in k .. Len(t) BY <1>1
  <2> QED BY <2>1, ConcatAdjacentSubSeq
<1> HIDE DEF k, n
<1>4. one = <<e>>
  <2>1. /\ one \in Seq(Value) /\ Len(one) = IF k <= k THEN k - k + 1 ELSE 0
        /\ \A j \in 1 .. k - k + 1 : one[j] = t[k + j - 1]
    BY <1>1, <1>2, SubSeqProperties
  <2>2. Len(one) = 1 BY <1>1, <2>1
  <2>3. one[1] = t[k + 1 - 1] /\ k + 1 - 1 = k BY <1>1, <2>1
  <2> HIDE DEF one, e
  <2>4. <<e>> \in Seq(Value) /\ Len(<<e>>) = 1 /\ <<e>>[1] = e BY <1>2
  <2>5. one[1] = <<e>>[1] BY <2>3, <2>4 DEF e
  <2> QED BY <2>1, <2>2, <2>4, <2>5, SeqEqual
<1>5. rest \in Seq(Value) /\ <<e>> \in Seq(Value)
  <2>1. k + 1 \in Int /\ n \in Int BY <1>1
  <2>2. rest \in Seq(Value) BY <1>3, <2>1, SubSeqProperties
  <2> QED BY <1>2, <2>2
<1> HIDE DEF one, rest, e
<1>7. Append(s, e) = s \o <<e>> BY <1>2, AppendIsConcat
<1>8. Append(s, e) \o rest = s \o (<<e>> \o rest) BY <1>5, <1>7, ConcatAssociative
<1>9. Append(s, e) \o rest = s \o SubSeq(t, k, n) BY <1>4, <1>6, <1>8
<1> QED BY <1>9 DEF e, rest, k, n

\* ... and nothing is left at the end, everything at the start.
LEMMA RestIs ==
  ASSUME NEW s \in Seq(Value), NEW t \in Seq(Value), NEW i \in Nat
  PROVE  /\ i >= Len(t) => s \o SubSeq(t, i + 1, Len(t)) = s
         /\ s \o SubSeq(t, 0 + 1, Len(t)) = s \o t
<1>1. Len(t) \in Nat BY LenProperties
<1>2. ASSUME i >= Len(t) PROVE s \o SubSeq(t, i + 1, Len(t)) = s
  <2> DEFINE a == i + 1
             n == Len(t)
  <2>1. a \in Int /\ n \in Int /\ n < a BY <1>1, <1>2
  <2> HIDE DEF a, n
  <2>2. SubSeq(t, a, n) = <<>> BY <2>1, SubSeqEmpty
  <2> QED BY <2>2, ConcatEmptySeq DEF a, n
<1>3. SubSeq(t, 1, Len(t)) = t BY SubSeqFull
<1> QED BY <1>2, <1>3

\* Below the frame that is pushed are the frames there were.
LEMMA UnderPushed ==
  ASSUME NEW fs \in Seq(Frame), NEW f \in Frame
  PROVE  /\ UnderIn(Append(fs, f)) = fs /\ TopOf(Append(fs, f)) = f /\ Append(fs, f) # <<>>
         /\ ExtendingIn(Append(fs, f)) <=> f.kind = "extend"
<1> DEFINE a == Append(fs, f)
           n == Len(fs)
           u == SubSeq(a, 1, n)
<1>1. n \in Nat /\ DOMAIN fs = 1 .. n /\ \A i \in 1 .. n : fs[i] \in Frame
  BY LenProperties, ElementOfSeq
<1>2. /\ a \in Seq(Frame) /\ Len(a) = n + 1 /\ a[n + 1] = f /\ \A i \in 1 .. n : a[i] = fs[i]
  BY AppendProperties
<1> HIDE DEF a, n
<1>3. n \in 0 .. Len(a) BY <1>1, <1>2
<1>4. u \in Seq(Frame) /\ Len(u) = n /\ \A i \in 1 .. n : u[i] = a[i] BY <1>2, <1>3, FirstFrames
<1>5. Len(a) - 1 = n BY <1>1, <1>2
<1> HIDE DEF u
<1>6. u = fs
  <2>1. Len(u) = Len(fs) /\ \A i \in 1 .. Len(u) : u[i] = fs[i] BY <1>2, <1>4 DEF n
  <2> QED BY <1>4, <2>1, SeqEqual
<1>7. UnderIn(a) = fs BY <1>5, <1>6 DEF UnderIn, u
<1>8. TopOf(a) = f BY <1>2 DEF TopOf
<1>9. a # <<>> BY <1>1, <1>2, EmptySeq
<1>10. ExtendingIn(a) <=> f.kind = "extend" BY <1>8, <1>9 DEF ExtendingIn
<1> QED BY <1>7, <1>8, <1>9, <1>10 DEF a

\* Below the top frame, nothing changes when it does.
LEMMA UnderMoved ==
  ASSUME NEW fs \in Seq(Frame), fs # <<>>, NEW f \in Frame
  PROVE  UnderIn([fs EXCEPT ![Len(fs)] = f]) = UnderIn(fs)
<1> DEFINE n == Len(fs)
           a == [fs EXCEPT ![n] = f]
           u == SubSeq(a, 1, n - 1)
           v == SubSeq(fs, 1, n - 1)
<1>1. n \in Nat /\ n # 0 /\ DOMAIN fs = 1 .. n BY LenProperties, EmptySeq
<1>2. n \in 1 .. n BY <1>1
<1>3. a \in Seq(Frame) /\ Len(a) = n BY <1>1, <1>2, ExceptSeq
<1>4. \A i \in 1 .. n : i # n => a[i] = fs[i] BY <1>1
<1> HIDE DEF a
<1>5. n - 1 \in 0 .. Len(a) /\ n - 1 \in 0 .. Len(fs) BY <1>1, <1>3
<1> DEFINE k == n - 1
<1> HIDE DEF n
<1>6. k \in Nat /\ \A i \in 1 .. k : i \in 1 .. n /\ i # n BY <1>1
<1>7. u \in Seq(Frame) /\ Len(u) = k /\ \A i \in 1 .. k : u[i] = a[i] BY <1>3, <1>5, FirstFrames
<1>8. v \in Seq(Frame) /\ Len(v) = k /\ \A i \in 1 .. k : v[i] = fs[i] BY <1>5, FirstFrames
<1> HIDE DEF u, v, k
<1>9. u = v
  <2>1. Len(u) = Len(v) /\ \A i \in 1 .. Len(u) : u[i] = v[i] BY <1>4, <1>6, <1>7, <1>8
  <2> QED BY <1>7, <1>8, <2>1, SeqEqual
<1> QED BY <1>3, <1>9 DEF UnderIn, a, u, v, n

\* The frames that are seen while user code runs.
LEMMA FramesSeen ==
  ASSUME MemoryOK, ~ExtendingIn(frames)
  PROVE  /\ UserFrames = PyFrames(frames) /\ Len(UserFrames) = Len(frames)
         /\ UserFrames # <<>> <=> frames # <<>>
         /\ frames # <<>> => UserFrames[Len(UserFrames)] = InPython(Top)
<1>1. frames \in Seq(Frame) BY DEF MemoryOK
<1>2. UserFrames = PyFrames(frames) BY ViewIs, UserView
<1> DEFINE T == {InPython(f) : f \in Frame}
<1>3. /\ PyFrames(frames) \in Seq(T) /\ Len(PyFrames(frames)) = Len(frames) /\ Len(frames) \in Nat
      /\ \A i \in 1 .. Len(frames) : PyFrames(frames)[i] = InPython(frames[i])
  BY <1>1, PyFramesAre
<1> HIDE DEF T
<1>4. PyFrames(frames) # <<>> <=> frames # <<>> BY <1>1, <1>3, EmptySeq
<1>5. ASSUME frames # <<>> PROVE PyFrames(frames)[Len(frames)] = InPython(Top)
  <2>1. Len(frames) \in 1 .. Len(frames) BY <1>1, <1>3, <1>5, EmptySeq
  <2> QED BY <1>3, <2>1 DEF Top
<1> QED BY <1>2, <1>3, <1>4, <1>5

\* A loop or a sort begins.
LEMMA PushView ==
  ASSUME MemoryOK, UseOK, ~ExtendingIn(frames), NEW f \in Frame, f.kind # "extend",
         frames' = Append(frames, f), heap' = heap, wild' \in BOOLEAN, wild => wild',
         ~wild' => (f.kind = "sort" => heap[f.of].len = f.n)
  PROVE  /\ UseOK' /\ Contents' = Contents /\ LiveLists' = LiveLists
         /\ UserFrames' = Append(UserFrames, InPython(f))
<1>1. MemoryIn(heap, frames) /\ UseIn(heap, frames, wild) /\ frames \in Seq(Frame)
  BY MemoryIs, UseIs DEF MemoryOK
<1>2. UseIn(heap, Append(frames, f), wild') BY <1>1, UsePush
<1>3. UseOK' BY <1>2, UseIs
<1>4. ~ExtendingIn(frames') BY <1>1, UnderPushed
<1>5. Contents' = Contents BY <1>4, ViewIs, UserView
<1>6. LiveLists' = LiveLists BY ViewIs
<1>7. UserFrames' = PyFrames(frames') /\ UserFrames = PyFrames(frames) BY <1>4, ViewIs, UserView
<1>8. UserFrames' = Append(UserFrames, InPython(f)) BY <1>1, <1>7, PyPush
<1> QED BY <1>3, <1>5, <1>6, <1>8

\* Loops and sorts are left, all but the first k.
LEMMA CutView ==
  ASSUME MemoryOK, UseOK, ~ExtendingIn(frames), NEW k \in 0 .. Len(frames) - 1,
         frames' = Cut(k), heap' = heap, wild' \in BOOLEAN, wild => wild'
  PROVE  /\ UseOK' /\ Contents' = Contents /\ LiveLists' = LiveLists
         /\ UserFrames' = SubSeq(UserFrames, 1, k)
<1>1. MemoryIn(heap, frames) /\ UseIn(heap, frames, wild) /\ frames \in Seq(Frame)
  BY MemoryIs, UseIs DEF MemoryOK
<1>2. UseIn(heap, SubSeq(frames, 1, k), wild') /\ ~ExtendingIn(SubSeq(frames, 1, k))
  BY <1>1, UseCut
<1>3. frames' = SubSeq(frames, 1, k) BY DEF Cut
<1>4. UseOK' /\ ~ExtendingIn(frames') BY <1>2, <1>3, UseIs
<1>5. Contents' = Contents BY <1>4, ViewIs, UserView
<1>6. LiveLists' = LiveLists BY ViewIs
<1>7. UserFrames' = PyFrames(frames') /\ UserFrames = PyFrames(frames) BY <1>4, ViewIs, UserView
<1>8. k \in 0 .. Len(frames)
  <2>1. Len(frames) \in Nat BY <1>1, LenProperties
  <2> QED BY <2>1
<1>9. UserFrames' = SubSeq(UserFrames, 1, k) BY <1>1, <1>3, <1>7, <1>8, PyCut
<1> QED BY <1>4, <1>5, <1>6, <1>9

\* The top frame goes on.
LEMMA MoveView ==
  ASSUME MemoryOK, UseOK, ~ExtendingIn(frames), frames # <<>>, NEW f \in Frame, SetTop(f),
         f.kind = Top.kind, f.of = Top.of, f.from = Top.from, f.n = Top.n,
         heap' = heap, wild' \in BOOLEAN, wild => wild'
  PROVE  /\ UseOK' /\ Contents' = Contents /\ LiveLists' = LiveLists
         /\ UserFrames' = [UserFrames EXCEPT ![Len(UserFrames)] = InPython(f)]
<1>1. MemoryIn(heap, frames) /\ UseIn(heap, frames, wild) /\ frames \in Seq(Frame)
      /\ Top = TopOf(frames)
  BY MemoryIs, UseIs, ViewIs DEF MemoryOK
<1> DEFINE a == [frames EXCEPT ![Len(frames)] = f]
<1>2. UseIn(heap, a, wild') /\ TopOf(a) = f /\ a # <<>> BY <1>1, UseMove
<1>3. frames' = a BY DEF SetTop
<1> HIDE DEF a
<1>4. UseOK' /\ ~ExtendingIn(frames') BY <1>1, <1>2, <1>3, UseIs DEF ExtendingIn
<1>5. Contents' = Contents BY <1>4, ViewIs, UserView
<1>6. LiveLists' = LiveLists BY ViewIs
<1>7. UserFrames' = PyFrames(frames') /\ UserFrames = PyFrames(frames) BY <1>4, ViewIs, UserView
<1>8. PyFrames(a) = [PyFrames(frames) EXCEPT ![Len(PyFrames(frames))] = InPython(f)]
  BY <1>1, PyMove DEF a
<1>9. UserFrames' = [UserFrames EXCEPT ![Len(UserFrames)] = InPython(f)] BY <1>3, <1>7, <1>8
<1> QED BY <1>4, <1>5, <1>6, <1>9

\* A step that only speaks, or does nothing.
LEMMA HistoryIs == ASSUME UseOK PROVE wild \in BOOLEAN
BY UseIs DEF UseIn

\* A break, a return or an exception gives up the loops and sorts above k.
LEMMA LeaveView ==
  ASSUME MemoryOK, UseOK, Leave PROVE UseOK' /\ AsPython
<1>1. PICK k \in 0 .. Len(frames) - 1 :
        UserRuns /\ frames' = Cut(k) /\ out' = Silent /\ heap' = heap /\ pc' = pc /\ wild' = wild
  BY DEF Leave
<1>2. ~ExtendingIn(frames) BY <1>1, RunsIs
<1>3. /\ wild' \in BOOLEAN
      /\ wild => wild'
  BY <1>1, HistoryIs
<1>4. /\ UseOK' /\ Contents' = Contents /\ LiveLists' = LiveLists
      /\ UserFrames' = SubSeq(UserFrames, 1, k)
  BY <1>1, <1>2, <1>3, CutView
<1>5. Len(UserFrames) = Len(frames) BY <1>2, FramesSeen
<1>6. k \in 0 .. Len(UserFrames) - 1 BY <1>5
<1>7. UNCHANGED <<LiveLists, Contents, pc>> BY <1>1, <1>4
<1>8. Python!Leave BY <1>1, <1>4, <1>6, <1>7 DEF Python!Leave, Silent, Python!Silent
<1> QED BY <1>4, <1>8 DEF AsPython, Python!Next

\* What is seen of a list while user code runs.
LEMMA SeenIs ==
  ASSUME MemoryOK, UseOK, ~ExtendingIn(frames), NEW l \in List
  PROVE  /\ Contents[l] = Own(heap[l]) /\ Len(Contents[l]) = heap[l].len
         /\ Contents[l] = <<>> <=> heap[l].len = 0
         /\ \A c \in Nat : c < heap[l].len => Contents[l][c + 1] = heap[l].data[c]
<1>1. Contents = [k \in List |-> Own(heap[k])] BY ViewIs, UserView
<1>2. Contents[l] = Own(heap[l]) BY <1>1
<1> DEFINE b == heap[l]
<1>3. BlockOK(b) BY LengthsFit
<1> HIDE DEF b
<1>4. /\ Len(Own(b)) = b.len /\ b.len \in Nat
      /\ \A i \in 1 .. b.len : Own(b)[i] = b.data[i - 1]
  BY <1>3, OwnIs
<1>5. Own(b) = <<>> <=> b.len = 0 BY <1>3, OwnNone
<1>6. ASSUME NEW c \in Nat, c < b.len PROVE Own(b)[c + 1] = b.data[c]
  <2>1. PICK i \in 1 .. b.len : i = c + 1 BY <1>4, <1>6
  <2>2. i - 1 = c BY <2>1
  <2> QED BY <1>4, <2>1, <2>2
<1> QED BY <1>2, <1>4, <1>5, <1>6 DEF b

\* A loop begins: at the first element, or not at all.
LEMMA WalkView ==
  ASSUME MemoryOK, UseOK, NEW l \in List, BeginWalk(l) PROVE UseOK' /\ AsPython
<1> DEFINE n == heap[l].len
           f == [kind |-> "walk", of |-> l, from |-> l, n |-> n, at |-> 1,
                 keys |-> <<>>, reverse |-> FALSE]
           p == [kind |-> "walk", of |-> l, n |-> Len(Contents[l]), at |-> 1,
                 keys |-> <<>>, reverse |-> FALSE]
<1>1. /\ On(l) /\ heap' = heap /\ pc' = pc
      /\ n = 0 => out' = Silent /\ frames' = frames
      /\ n # 0 => frames' = Append(frames, f) /\ out' = <<"next", heap[l].data[0]>>
  BY DEF BeginWalk
<1>2. /\ ~ExtendingIn(frames) /\ l \in LiveLists
      /\ wild' \in BOOLEAN
      /\ wild => wild'
  BY <1>1, OnIs
<1>3. n \in Nat BY LengthsFit
<1>4. Len(Contents[l]) = n /\ (Contents[l] = <<>> <=> n = 0)
      /\ (n # 0 => Contents[l][1] = heap[l].data[0])
  <2>1. \A c \in Nat : c < n => Contents[l][c + 1] = heap[l].data[c] BY <1>2, SeenIs
  <2>2. 0 \in Nat /\ 0 + 1 = 1 OBVIOUS
  <2>3. n # 0 => Contents[l][1] = heap[l].data[0] BY <1>3, <2>1, <2>2
  <2> QED BY <1>2, <2>3, SeenIs
<1>5. CASE n = 0
  <2>1. UseOK' /\ Contents' = Contents /\ LiveLists' = LiveLists /\ UserFrames' = UserFrames
    BY <1>1, <1>2, <1>5, SameView
  <2>2. UNCHANGED <<LiveLists, Contents, pc>> BY <1>1, <2>1
  <2>3. out' = Python!Silent BY <1>1, <1>5 DEF Silent, Python!Silent
  <2>4. Python!BeginWalk(l) BY <1>2, <1>4, <1>5, <2>1, <2>2, <2>3 DEF Python!BeginWalk
  <2> QED BY <2>1, <2>4 DEF AsPython, Python!Next
<1>6. CASE n # 0
  <2>1. f \in Frame /\ f.kind = "walk" BY <1>3, NewFrame
  <2>2. InPython(f) = p BY <1>4 DEF InPython
  <2>3. frames' = Append(frames, f) BY <1>1, <1>6
  <2> HIDE DEF f, p, n
  <2>4. /\ UseOK' /\ Contents' = Contents /\ LiveLists' = LiveLists
        /\ UserFrames' = Append(UserFrames, InPython(f))
    BY <1>1, <1>2, <2>1, <2>3, PushView
  <2>5. UNCHANGED <<LiveLists, Contents, pc>> BY <1>1, <2>4
  <2>6. UserFrames' = Append(UserFrames, p) BY <2>2, <2>4
  <2>7. Contents[l] # <<>> /\ out' = <<"next", Contents[l][1]>> BY <1>1, <1>4, <1>6
  <2>8. Python!BeginWalk(l) BY <1>2, <2>5, <2>6, <2>7 DEF Python!BeginWalk, p
  <2> QED BY <2>4, <2>8 DEF AsPython, Python!Next
<1> QED BY <1>5, <1>6

\* A sort with a key begins: with the first key, or done when there is nothing.
LEMMA SortBegins ==
  ASSUME MemoryOK, UseOK, NEW l \in List, BeginSort(l) PROVE UseOK' /\ AsPython
<1> DEFINE n == heap[l].len
           f(r) == [kind |-> "sort", of |-> l, from |-> l, n |-> n, at |-> 0,
                    keys |-> <<>>, reverse |-> r]
           p(r) == [kind |-> "sort", of |-> l, n |-> Len(Contents[l]), at |-> 0,
                    keys |-> <<>>, reverse |-> r]
<1>1. PICK reverse \in BOOLEAN :
        /\ On(l) /\ heap' = heap /\ pc' = pc
        /\ n < 2 => out' = <<"sorted", reverse>> /\ frames' = frames
        /\ ~(n < 2) => /\ frames' = Append(frames, f(reverse))
                       /\ out' = <<"sort", reverse, heap[l].data[0]>>
  BY DEF BeginSort
<1>2. /\ ~ExtendingIn(frames) /\ l \in LiveLists
      /\ wild' \in BOOLEAN
      /\ wild => wild'
  BY <1>1, OnIs
<1>3. n \in Nat BY LengthsFit
<1>4. Len(Contents[l]) = n /\ (~(n < 2) => Contents[l][1] = heap[l].data[0])
  <2>1. \A c \in Nat : c < n => Contents[l][c + 1] = heap[l].data[c] BY <1>2, SeenIs
  <2>2. 0 \in Nat /\ 0 + 1 = 1 OBVIOUS
  <2>3. ~(n < 2) => Contents[l][1] = heap[l].data[0] BY <1>3, <2>1, <2>2
  <2> QED BY <1>2, <2>3, SeenIs
<1>5. CASE n < 2
  <2>1. UseOK' /\ Contents' = Contents /\ LiveLists' = LiveLists /\ UserFrames' = UserFrames
    BY <1>1, <1>2, <1>5, SameView
  <2>2. UNCHANGED <<LiveLists, Contents, pc>> BY <1>1, <2>1
  <2>3. out' = <<"sorted", reverse>> BY <1>1, <1>5
  <2>4. Len(Contents[l]) < 2 BY <1>4, <1>5
  <2>5. Python!BeginSort(l) BY <1>2, <2>1, <2>2, <2>3, <2>4 DEF Python!BeginSort
  <2> QED BY <2>1, <2>5 DEF AsPython, Python!Next
<1>6. CASE ~(n < 2)
  <2> DEFINE g == f(reverse)
             q == p(reverse)
  <2>1. g \in Frame /\ g.kind = "sort" /\ g.of = l /\ g.n = n BY <1>3, NewFrame
  <2>2. InPython(g) = q BY <1>4 DEF InPython
  <2>3. frames' = Append(frames, g) BY <1>1, <1>6
  <2>9. heap[g.of].len = g.n BY <2>1
  <2> HIDE DEF g, q
  <2>4. /\ UseOK' /\ Contents' = Contents /\ LiveLists' = LiveLists
        /\ UserFrames' = Append(UserFrames, InPython(g))
    BY <1>1, <1>2, <2>1, <2>3, <2>9, PushView
  <2>5. UNCHANGED <<LiveLists, Contents, pc>> BY <1>1, <2>4
  <2>6. UserFrames' = Append(UserFrames, q) BY <2>2, <2>4
  <2>7. ~(Len(Contents[l]) < 2) /\ out' = <<"sort", reverse, Contents[l][1]>> BY <1>1, <1>4, <1>6
  <2>8. Python!BeginSort(l) BY <1>2, <2>5, <2>6, <2>7 DEF Python!BeginSort, q
  <2> QED BY <2>4, <2>8 DEF AsPython, Python!Next
<1> QED BY <1>5, <1>6

\* The top frame as it is seen.
LEMMA PyTop ==
  ASSUME MemoryOK, frames # <<>>, ~ExtendingIn(frames)
  PROVE  /\ UserFrames # <<>> /\ Python!Top = InPython(Top)
         /\ Python!Top.kind = Top.kind /\ Python!Top.of = Top.of /\ Python!Top.n = Top.n
         /\ Python!Top.at = Top.at /\ Python!Top.keys = Top.keys /\ Python!Top.reverse = Top.reverse
         /\ Python!Front(UserFrames) = SubSeq(UserFrames, 1, Len(frames) - 1)
<1>1. Top \in Frame BY TopIs
<1>2. UserFrames # <<>> /\ UserFrames[Len(UserFrames)] = InPython(Top) /\ Len(UserFrames) = Len(frames)
  BY FramesSeen
<1>3. Python!Top = InPython(Top) BY <1>2 DEF Python!Top
<1>4. Python!Front(UserFrames) = SubSeq(UserFrames, 1, Len(frames) - 1) BY <1>2 DEF Python!Front
<1> QED BY <1>1, <1>2, <1>3, <1>4, PyFields

\* A turn of a loop, or its end, is decided on the list as it is then.
LEMMA TurnView ==
  ASSUME MemoryOK, UseOK, Turn PROVE UseOK' /\ AsPython
<1> DEFINE b == heap[Top.of]
           f == [Top EXCEPT !.at = @ + 1]
<1>1. /\ pc = "run" /\ frames # <<>> /\ Top.kind = "walk"
      /\ wild' = (wild \/ InSort(Top.of) \/ b.len # Top.n)
  BY DEF Turn
<1>2. /\ wild' \in BOOLEAN
      /\ wild => wild'
      /\ ~wild' => b.len = Top.n
  BY <1>1
<1>3. ~ExtendingIn(frames) BY <1>1, ViewIs DEF ExtendingIn
<1>4. /\ Top.of \in List /\ Top.at \in Nat /\ Top.n \in Nat /\ Live(Top.of)
      /\ Len(frames) \in Nat \ {0}
  BY <1>1, TopIs
<1>5. b.len \in Nat BY <1>4, LengthsFit
<1>6. /\ UserFrames # <<>> /\ Python!Top = InPython(Top)
      /\ Python!Top.kind = "walk" /\ Python!Top.of = Top.of /\ Python!Top.at = Top.at
      /\ Python!Front(UserFrames) = SubSeq(UserFrames, 1, Len(frames) - 1)
  BY <1>1, <1>3, PyTop
<1>7. Len(Contents[Top.of]) = b.len BY <1>3, <1>4, SeenIs
<1> DEFINE t == Top.at
           n == Top.n
<1>8. CASE t >= n
  <2>1. frames' = Under /\ out' = Silent /\ heap' = heap /\ pc' = pc
    <3>1. ~(t < n) BY <1>4, <1>8
    <3> QED BY <1>8, <3>1 DEF Turn
  <2>2. frames' = Cut(Len(frames) - 1) /\ Len(frames) - 1 \in 0 .. Len(frames) - 1
    BY <1>4, <2>1 DEF Under
  <2>3. /\ UseOK' /\ Contents' = Contents /\ LiveLists' = LiveLists
        /\ UserFrames' = SubSeq(UserFrames, 1, Len(frames) - 1)
    BY <1>2, <1>3, <2>1, <2>2, CutView
  <2>4. UserFrames' = Python!Front(UserFrames) BY <1>6, <2>3
  <2>5. UNCHANGED <<LiveLists, Contents, pc>> BY <2>1, <2>3
  <2>6. out' = Python!Silent BY <2>1 DEF Silent, Python!Silent
  <2>7. ASSUME ~wild' PROVE ~(Python!Top.at < Len(Contents[Python!Top.of]))
    <3>1. b.len = n BY <1>2, <2>7
    <3> HIDE DEF b
    <3>2. ~(t < b.len) BY <1>4, <1>8, <3>1
    <3> QED BY <1>6, <1>7, <3>2 DEF b
  <2>8. ASSUME ~wild' PROVE Python!Turn
    BY <1>6, <2>4, <2>5, <2>6, <2>7, <2>8 DEF Python!Turn
  <2> QED BY <2>3, <2>8 DEF AsPython, Python!Next
<1>9. CASE t < n /\ t >= b.len
  <2>1. Abort(<<"range", t>>)
    <3>1. ~(t >= n) BY <1>4, <1>9
    <3> QED BY <1>9, <3>1 DEF Turn
  <2>2. heap' = heap /\ frames' = frames BY <2>1 DEF Abort
  <2>3. UseOK' BY <1>2, <1>3, <2>2, SameView
  <2>4. b.len # n BY <1>4, <1>5, <1>9
  <2> QED BY <1>2, <2>3, <2>4 DEF AsPython
<1>10. CASE ~(t >= n) /\ ~(t < n /\ t >= b.len)
  <2>1. SetTop(f) /\ out' = <<"next", b.data[t]>> /\ heap' = heap /\ pc' = pc
    BY <1>10 DEF Turn
  <2>2. f \in Frame /\ f.of = Top.of /\ f.from = Top.from /\ f.kind = Top.kind BY <1>1, NextTurn
  <2>3. f.n = Top.n
    <3>1. Top = [kind |-> Top.kind, of |-> Top.of, from |-> Top.from, n |-> Top.n,
                 at |-> Top.at, keys |-> Top.keys, reverse |-> Top.reverse]
      BY <1>1, TopIs
    <3> QED BY <3>1
  <2>9. InPython(f) = [Python!Top EXCEPT !.at = @ + 1]
    <3>1. Top \in Frame BY <1>1, TopIs
    <3>2. InPython(f) = [InPython(Top) EXCEPT !.at = @ + 1] BY <3>1, PyFields
    <3> QED BY <1>6, <3>2
  <2> HIDE DEF f
  <2>4. /\ UseOK' /\ Contents' = Contents /\ LiveLists' = LiveLists
        /\ UserFrames' = [UserFrames EXCEPT ![Len(UserFrames)] = InPython(f)]
    BY <1>1, <1>2, <1>3, <2>1, <2>2, <2>3, MoveView
  <2>5. t < b.len BY <1>4, <1>5, <1>10
  <2>6. Contents[Top.of][t + 1] = b.data[t] BY <1>3, <1>4, <2>5, SeenIs
  <2>7. Python!SetTop([Python!Top EXCEPT !.at = @ + 1])
    <3> DEFINE g == [Python!Top EXCEPT !.at = @ + 1]
    <3>1. UserFrames' = [UserFrames EXCEPT ![Len(UserFrames)] = g] BY <2>4, <2>9
    <3> HIDE DEF g
    <3>2. Python!SetTop(g) BY <3>1 DEF Python!SetTop
    <3> QED BY <3>2 DEF g
  <2>8. UNCHANGED <<LiveLists, Contents, pc>> BY <2>1, <2>4
  <2>10. Python!Top.at < Len(Contents[Python!Top.of]) BY <1>6, <1>7, <2>5
  <2>11. out' = <<"next", Contents[Python!Top.of][Python!Top.at + 1]>> BY <1>6, <2>1, <2>6
  <2>12. Python!Turn BY <1>6, <2>7, <2>8, <2>10, <2>11 DEF Python!Turn
  <2> QED BY <2>4, <2>12 DEF AsPython, Python!Next
<1> QED BY <1>8, <1>9, <1>10

\* A key that comes back: the next element's is asked for, or the sort is done.
LEMMA KeyView ==
  ASSUME MemoryOK, UseOK, KeyReturns PROVE UseOK' /\ AsPython
<1> DEFINE b == heap[Top.of]
           l == Top.of
           n == Top.n
           t == Top.at
<1>1. PICK k \in Key :
        LET keys == Append(Top.keys, k)
        IN  /\ pc = "run" /\ frames # <<>> /\ Top.kind = "sort" /\ pc' = pc /\ wild' = wild
            /\ IF t + 1 < n
                 THEN /\ SetTop([Top EXCEPT !.keys = keys, !.at = @ + 1])
                      /\ out' = <<"next", b.data[t + 1]>> /\ heap' = heap
                 ELSE /\ \E p \in Orders(n, [i \in 0 .. n - 1 |-> keys[i + 1]], Top.reverse) :
                           heap' = [heap EXCEPT ![l] = Permuted(b, n, p)]
                      /\ frames' = Under /\ out' = Silent
  BY DEF KeyReturns
<1> DEFINE keys == Append(Top.keys, k)
<1>2. /\ wild' \in BOOLEAN
      /\ wild => wild'
  BY <1>1, HistoryIs
<1>3. ~ExtendingIn(frames) BY <1>1, ViewIs DEF ExtendingIn
<1>4. /\ Top \in Frame /\ l \in List /\ t \in Nat /\ n \in Nat /\ Live(l) /\ Top.keys \in Seq(Key)
      /\ Len(frames) \in Nat \ {0} /\ Len(frames) \in DOMAIN frames /\ FrameIn(heap, Top)
      /\ Top.reverse \in BOOLEAN
      /\ Top = [kind |-> Top.kind, of |-> Top.of, from |-> Top.from, n |-> Top.n,
                at |-> Top.at, keys |-> Top.keys, reverse |-> Top.reverse]
  BY <1>1, TopIs DEF Frame
<1>5. b.len \in Nat /\ BlockOK(b) /\ b.len <= MaxLen BY <1>4, LengthsFit
<1>6. t < n /\ Len(Top.keys) = t /\ Written(b, n) BY <1>1, <1>4 DEF FrameIn
<1>7. keys \in Seq(Key) /\ Len(keys) = t + 1 BY <1>4, <1>6, AppendProperties
<1>8. /\ UserFrames # <<>> /\ Python!Top = InPython(Top)
      /\ Python!Top.kind = "sort" /\ Python!Top.of = l /\ Python!Top.keys = Top.keys
      /\ Python!Top.reverse = Top.reverse
      /\ Python!Front(UserFrames) = SubSeq(UserFrames, 1, Len(frames) - 1)
  BY <1>1, <1>3, PyTop
<1>9. Contents[l] = Own(b) /\ Len(Contents[l]) = b.len BY <1>3, <1>4, SeenIs
<1>10. ~wild' => b.len = n
  <2>1. UseIn(heap, frames, wild) BY UseIs
  <2> QED BY <1>1, <1>4, <2>1 DEF UseIn, Top
<1>11. CASE t + 1 < n
  <2> DEFINE f == [Top EXCEPT !.keys = keys, !.at = @ + 1]
             g == [kind |-> Top.kind, of |-> Top.of, from |-> Top.from, n |-> Top.n,
                   at |-> Top.at + 1, keys |-> keys, reverse |-> Top.reverse]
  <2>1. SetTop(f) /\ out' = <<"next", b.data[t + 1]>> /\ heap' = heap /\ pc' = pc
    BY <1>1, <1>11
  <2>2. InPython(f) = [Python!Top EXCEPT !.keys = keys, !.at = @ + 1]
    <3>1. InPython(f) = [InPython(Top) EXCEPT !.keys = keys, !.at = @ + 1] BY <1>4, PyFields
    <3> QED BY <1>8, <3>1
  <2>3. f = g
    <3> DEFINE u == Top
               x == [u EXCEPT !.keys = keys]
    <3>1. u = [kind |-> u.kind, of |-> u.of, from |-> u.from, n |-> u.n,
               at |-> u.at, keys |-> u.keys, reverse |-> u.reverse]
      BY <1>4
    <3>2. f = [x EXCEPT !.at = u.at + 1] OBVIOUS
    <3> HIDE DEF u, keys
    <3>3. x = [kind |-> u.kind, of |-> u.of, from |-> u.from, n |-> u.n,
               at |-> u.at, keys |-> keys, reverse |-> u.reverse]
      BY <3>1
    <3>4. [x EXCEPT !.at = u.at + 1]
            = [kind |-> u.kind, of |-> u.of, from |-> u.from, n |-> u.n,
               at |-> u.at + 1, keys |-> keys, reverse |-> u.reverse]
      <4> HIDE DEF x
      <4> QED BY <3>3
    <3> QED BY <3>2, <3>4 DEF u
  <2>4. g \in Frame
    <3> HIDE DEF keys
    <3> QED BY <1>4, <1>7 DEF Frame
  <2> HIDE DEF f
  <2>5. f \in Frame /\ f.kind = Top.kind /\ f.of = Top.of /\ f.from = Top.from /\ f.n = Top.n
    BY <2>3, <2>4
  <2>6. /\ UseOK' /\ Contents' = Contents /\ LiveLists' = LiveLists
        /\ UserFrames' = [UserFrames EXCEPT ![Len(UserFrames)] = InPython(f)]
    BY <1>1, <1>2, <1>3, <2>1, <2>5, MoveView
  <2>7. ASSUME ~wild' PROVE Python!KeyReturns
    <3>1. b.len = n BY <1>10, <2>7
    <3> HIDE DEF b, keys
    <3>2. Len(keys) < Len(Contents[l]) BY <1>7, <1>9, <1>11, <3>1
    <3>3. t + 1 \in Nat /\ t + 1 < b.len BY <1>4, <1>11, <3>1
    <3>4. Contents[l][t + 1 + 1] = b.data[t + 1] BY <1>3, <1>4, <3>3, SeenIs DEF b
    <3>5. out' = <<"next", Contents[l][Len(keys) + 1]>> BY <1>7, <2>1, <3>4
    <3>6. Python!SetTop([Python!Top EXCEPT !.keys = keys, !.at = @ + 1])
      <4> DEFINE q == [Python!Top EXCEPT !.keys = keys, !.at = @ + 1]
      <4>1. UserFrames' = [UserFrames EXCEPT ![Len(UserFrames)] = q] BY <2>2, <2>6
      <4> HIDE DEF q
      <4>2. Python!SetTop(q) BY <4>1 DEF Python!SetTop
      <4> QED BY <4>2 DEF q
    <3>7. UNCHANGED <<LiveLists, pc>> /\ Contents' = Contents BY <2>1, <2>6
    <3>8. keys = Append(Python!Top.keys, k) BY <1>8 DEF keys
    <3> DEFINE s == Contents[Python!Top.of]
    <3>9. s = Contents[l] BY <1>8
    <3>10. /\ UserFrames # <<>> /\ Python!Top.kind = "sort" /\ UNCHANGED <<LiveLists, pc>>
           /\ Len(keys) < Len(s) /\ out' = <<"next", s[Len(keys) + 1]>> /\ Contents' = Contents
           /\ Python!SetTop([Python!Top EXCEPT !.keys = keys, !.at = @ + 1])
      BY <1>8, <3>2, <3>5, <3>6, <3>7, <3>9
    <3> HIDE DEF s
    <3> QED BY <3>8, <3>10 DEF Python!KeyReturns, s
  <2> QED BY <2>6, <2>7 DEF AsPython, Python!Next
<1>12. CASE ~(t + 1 < n)
  <2> DEFINE index == [i \in 0 .. n - 1 |-> keys[i + 1]]
  <2>1. PICK p \in Orders(n, index, Top.reverse) : heap' = [heap EXCEPT ![l] = Permuted(b, n, p)]
    BY <1>1, <1>12
  <2>2. frames' = Under /\ out' = Silent /\ pc' = pc BY <1>1, <1>12
  <2> DEFINE o == Permuted(b, n, p)
             h == [heap EXCEPT ![l] = o]
  <2>3. heap' = h BY <2>1
  <2> HIDE DEF b, keys, l
  <2>4. o.len = b.len BY <1>5, SameLength
  <2>5. p \in [0 .. n - 1 -> 0 .. n - 1] BY OrdersAre
  <2>6. BlockOK(o) BY <1>4, <1>5, <1>6, <2>5, SortOK
  <2> HIDE DEF o
  <2>7. MemoryIn(heap, frames) /\ UseIn(heap, frames, wild) BY MemoryIs, UseIs
  <2>8. MemoryIn(h, frames)
    <3>1. Keeps(b, o) BY <1>4, <1>5, <1>6, <2>5, SortOK DEF o
    <3> QED BY <1>4, <2>6, <2>7, <3>1, HeapStep DEF b, l
  <2>9. UseIn(h, frames, wild')
    <3>1. heap[l] = b BY DEF b, l
    <3>2. /\ l \in List /\ o.len <= MaxLen
          /\ ~wild' /\ InSortIn(frames, l) => o.len = heap[l].len
      BY <1>3, <1>4, <1>5, <2>4, <3>1
    <3> QED BY <1>2, <2>7, <3>2, UseStore
  <2>10. Len(frames) - 1 \in 0 .. Len(frames) - 1 BY <1>4
  <2> DEFINE u == SubSeq(frames, 1, Len(frames) - 1)
  <2>11. frames' = u BY <2>2 DEF Under, Cut
  <2>a. DOMAIN heap = List BY <2>7 DEF MemoryIn
  <2>b. h[l] = o /\ \A m \in List : m # l => h[m] = heap[m] BY <1>4, <2>a
  <2> HIDE DEF h, u
  <2>12. UseIn(h, u, wild') /\ ~ExtendingIn(u)
    BY <1>2, <2>8, <2>9, <2>10, UseCut DEF u
  <2>13. UseOK' /\ ~ExtendingIn(frames') BY <2>3, <2>11, <2>12, UseIs
  <2>14. ASSUME ~wild' PROVE Python!KeyReturns
    <3>1. b.len = n BY <1>10, <2>14 DEF b
    <3>2. Len(keys) = n /\ ~(Len(keys) < Len(Contents[l])) BY <1>4, <1>6, <1>7, <1>9, <1>12, <3>1
    <3>3. \A i \in 0 .. n - 1 : index[i] \in Int /\ keys[i + 1] = index[i]
      <4>1. ASSUME NEW i \in 0 .. n - 1 PROVE keys[i + 1] \in Int
        <5>1. PICK j \in 1 .. n : j = i + 1 BY <1>4
        <5>2. keys[j] \in Key BY <1>7, <3>2, <5>1, ElementOfSeq
        <5> QED BY <5>1, <5>2, ListAssumption
      <4> QED BY <4>1
    <3>4. Own(o) = Python!SortedBy(Own(b), keys, Top.reverse)
      <4> HIDE DEF index
      <4> DEFINE r == Top.reverse
      <4>1. p \in Orders(b.len, index, r) /\ r \in BOOLEAN BY <1>4, <3>1
      <4>2. \A i \in 0 .. b.len - 1 : index[i] \in Int /\ keys[i + 1] = index[i] BY <3>1, <3>3
      <4> HIDE DEF r
      <4>3. Own(Permuted(b, b.len, p)) = Python!SortedBy(Own(b), keys, r)
        BY <1>5, <4>1, <4>2, OwnSort
      <4> QED BY <3>1, <4>3 DEF o, r
    <3>5. /\ Contents = [m \in List |-> Own(heap[m])]
          /\ Contents' = [m \in List |-> Own(h[m])]
          /\ UserFrames = PyFrames(frames) /\ UserFrames' = PyFrames(u)
      BY <1>3, <2>3, <2>11, <2>13, ViewIs, UserView
    <3>6. Contents' = [Contents EXCEPT ![l] = Own(o)] BY <2>b, <3>5
    <3>7. LiveLists' = LiveLists
      <4>1. o.cap > 0
        <5>1. Keeps(b, o) BY <1>4, <1>5, <1>6, <2>5, SortOK DEF o
        <5>2. b.cap > 0 BY <1>4 DEF Live, b, l
        <5>3. b.cap \in Nat /\ o.cap \in Nat BY <1>5, <2>6, Fields
        <5> QED BY <5>1, <5>2, <5>3 DEF Keeps
      <4>2. heap[l].cap > 0 BY <1>4 DEF Live, l
      <4>3. \A m \in List : h[m].cap > 0 <=> heap[m].cap > 0 BY <2>b, <4>1, <4>2
      <4> QED BY <2>3, <4>3, ViewIs DEF LiveIn
    <3>8. UserFrames' = Python!Front(UserFrames)
      <4>1. Len(frames) - 1 \in 0 .. Len(frames) /\ frames \in Seq(Frame)
        BY <1>4 DEF MemoryOK
      <4>2. PyFrames(u) = SubSeq(PyFrames(frames), 1, Len(frames) - 1) BY <4>1, PyCut DEF u
      <4> QED BY <1>8, <3>5, <4>2
    <3>9. keys = Append(Python!Top.keys, k) BY <1>8 DEF keys
    <3> DEFINE s == Contents[Python!Top.of]
    <3>10. s = Own(b) /\ s = Contents[l] BY <1>8, <1>9 DEF l
    <3>11. /\ UserFrames # <<>> /\ Python!Top.kind = "sort" /\ UNCHANGED <<LiveLists, pc>>
           /\ ~(Len(keys) < Len(s)) /\ out' = Python!Silent
           /\ UserFrames' = Python!Front(UserFrames)
           /\ Contents' = [Contents EXCEPT ![Python!Top.of]
                                              = Python!SortedBy(s, keys, Python!Top.reverse)]
      <4>1. out' = Python!Silent BY <2>2 DEF Silent, Python!Silent
      <4>2. Python!Top.of = l BY <1>8 DEF l
      <4> HIDE DEF s
      <4> QED BY <1>8, <2>2, <3>2, <3>4, <3>6, <3>7, <3>8, <3>10, <4>1, <4>2
    <3> HIDE DEF s
    <3> QED BY <3>9, <3>11 DEF Python!KeyReturns, s
  <2> QED BY <2>13, <2>14 DEF AsPython, Python!Next
<1> QED BY <1>11, <1>12

\* An extend begins: all it will do is seen at once.
LEMMA ExtendBegins ==
  ASSUME MemoryOK, UseOK, NEW l \in List, NEW m \in List, BeginExtend(l, m)
  PROVE  UseOK' /\ AsPython
<1> DEFINE f == [kind |-> "extend", of |-> l, from |-> m, n |-> 0, at |-> 0,
                 keys |-> <<>>, reverse |-> FALSE]
           a == Append(frames, f)
<1>1. /\ UserRuns /\ Live(l) /\ Live(m)
      /\ wild' = (wild \/ InSort(l) \/ InSort(m) \/ l = m)
      /\ frames' = a /\ out' = <<"extended", m>> /\ heap' = heap /\ pc' = pc
  BY DEF BeginExtend
<1>2. /\ wild' \in BOOLEAN
      /\ wild => wild'
      /\ ~wild' => l # m /\ ~InSortIn(frames, l)
  BY <1>1 DEF InSort, InSortIn
<1>3. ~ExtendingIn(frames) BY <1>1, RunsIs
<1>4. f \in Frame /\ f.kind = "extend" /\ f.of = l /\ f.from = m /\ f.at = 0 BY NewFrame
<1> HIDE DEF f
<1>5. MemoryIn(heap, frames) /\ UseIn(heap, frames, wild) /\ frames \in Seq(Frame)
  BY MemoryIs, UseIs DEF MemoryOK
<1>6. UseIn(heap, a, wild')
  <2>1. ~wild' => /\ f.kind = "sort" => heap[f.of].len = f.n
                  /\ f.kind = "extend" => f.from # f.of /\ ~InSortIn(frames, f.of)
    BY <1>1, <1>2, <1>4
  <2> QED BY <1>2, <1>3, <1>4, <1>5, <2>1, UsePush
<1>7. /\ UnderIn(a) = frames /\ TopOf(a) = f /\ a # <<>> /\ ExtendingIn(a)
  BY <1>4, <1>5, UnderPushed
<1> HIDE DEF a
<1>8. UseOK' BY <1>1, <1>6, UseIs
<1>9. ASSUME ~wild' PROVE Python!Change(l)
  <2>1. l # m BY <1>2, <1>9
  <2>2. /\ Contents = [k \in List |-> Own(heap[k])] /\ Contents' = ContentsIn(heap, a)
        /\ UserFrames = PyFrames(frames) /\ UserFrames' = UserFramesIn(a)
        /\ LiveLists' = LiveLists
    BY <1>1, <1>3, ViewIs, UserView
  <2>3. UserFrames' = UserFrames BY <1>7, <2>2 DEF UserFramesIn
  <2>4. \A k \in List \ {l} : Contents'[k] = Contents[k]
    BY <1>4, <1>7, <2>2 DEF ContentsIn, ElementsIn
  <2>5. Contents[l] = Own(heap[l]) /\ Contents[m] = Own(heap[m]) BY <2>2
  <2>6. /\ BlockOK(heap[l]) /\ BlockOK(heap[m]) BY LengthsFit
  <2>7. /\ Own(heap[l]) \in Seq(Value) /\ Own(heap[m]) \in Seq(Value)
        /\ Len(Own(heap[m])) = heap[m].len
    BY <2>6, OwnIs
  <2>8. Contents'[l] = Own(heap[l]) \o SubSeq(Own(heap[m]), 0 + 1, heap[m].len)
    BY <1>4, <1>7, <2>1, <2>2 DEF ContentsIn, ElementsIn
  <2>9. Contents'[l] = Own(heap[l]) \o Own(heap[m])
    <3>1. Own(heap[l]) \o SubSeq(Own(heap[m]), 0 + 1, Len(Own(heap[m])))
            = Own(heap[l]) \o Own(heap[m])
      <4>1. 0 \in Nat OBVIOUS
      <4> QED BY <2>7, <4>1, RestIs
    <3> QED BY <2>7, <2>8, <3>1
  <2>10. m \in LiveLists \ {l} /\ l \in LiveLists BY <1>1, <2>1 DEF LiveLists
  <2>11. Python!Alone(l) BY <1>1, <2>2, <2>3, <2>4, <2>10, AloneIs
  <2>12. Contents'[l] = Contents[l] \o Contents[m] BY <2>5, <2>9
  <2>13. out'[1] = "extended" /\ out'[2] = m BY <1>1
  <2> QED BY <2>10, <2>11, <2>12, <2>13 DEF Python!Change
<1> QED BY <1>8, <1>9 DEF AsPython, Python!Next

\* Of the turns of an extend nothing is seen: what is left of the source gets
\* shorter as the list gets longer.
LEMMA ExtendView ==
  ASSUME MemoryOK, UseOK, Extend PROVE UseOK' /\ AsPython
<1> DEFINE l == Top.of
           m == Top.from
           i == Top.at
           src == heap[m]
           b == heap[l]
           f == [Top EXCEPT !.at = @ + 1]
           o == spy_list_append(b, src.data[i])
           h == [heap EXCEPT ![l] = o]
           a == [frames EXCEPT ![Len(frames)] = f]
<1>1. /\ pc = "run" /\ frames # <<>> /\ Top.kind = "extend" /\ out' = out /\ wild' = wild
      /\ \/ /\ i < src.len /\ b.len < MaxLen /\ heap' = h /\ frames' = a /\ pc' = pc
         \/ m = l /\ heap' = heap /\ frames' = frames
         \/ i >= src.len /\ frames' = Under /\ heap' = heap /\ pc' = pc
  BY DEF Extend, SetTop
<1>2. /\ wild' \in BOOLEAN
      /\ wild => wild'
  BY <1>1, HistoryIs
<1>3. ExtendingIn(frames) /\ Top = TopOf(frames) BY <1>1, ViewIs DEF ExtendingIn
<1>4. /\ l \in List /\ m \in List /\ i \in Nat /\ Live(l) /\ Len(frames) \in Nat \ {0}
      /\ Top \in Frame
      /\ Top = [kind |-> Top.kind, of |-> Top.of, from |-> Top.from, n |-> Top.n,
                at |-> Top.at, keys |-> Top.keys, reverse |-> Top.reverse]
  BY <1>1, TopIs
<1>5. MemoryIn(heap, frames) /\ UseIn(heap, frames, wild) /\ frames \in Seq(Frame)
  BY MemoryIs, UseIs DEF MemoryOK
<1>6. ~wild => m # l /\ ~InSortIn(frames, l) BY <1>3, <1>5 DEF UseIn
<1>7. /\ BlockOK(b) /\ BlockOK(src) /\ b.len \in Nat /\ src.len \in Nat /\ MaxLen \in Nat
  BY <1>4, LengthsFit
<1>8. /\ Own(b) \in Seq(Value) /\ Own(src) \in Seq(Value) /\ Len(Own(src)) = src.len
      /\ Len(Own(b)) = b.len
  BY <1>7, OwnIs
<1>9. /\ f \in Frame /\ f.of = l /\ f.from = m /\ f.kind = "extend" /\ f.n = Top.n /\ f.at = i + 1
  <2>1. f \in Frame /\ f.of = l /\ f.from = m /\ f.kind = "extend" BY <1>1, NextTurn
  <2>2. f.n = Top.n /\ f.at = i + 1 BY <1>4
  <2> QED BY <2>1, <2>2
<1>a. DOMAIN heap = List BY <1>5 DEF MemoryIn
<1>b. /\ Contents = ContentsIn(heap, frames) /\ Contents' = ContentsIn(heap', frames')
      /\ LiveLists = LiveIn(heap) /\ LiveLists' = LiveIn(heap')
      /\ UserFrames = UserFramesIn(frames) /\ UserFrames' = UserFramesIn(frames')
      /\ Under = UnderIn(frames)
  BY ViewIs
<1>c. ASSUME ~wild'
      PROVE  Contents = [k \in List |-> IF k = l THEN Own(b) \o SubSeq(Own(src), i + 1, src.len)
                                        ELSE Own(heap[k])]
  BY <1>1, <1>b, <1>c, <1>3, <1>6 DEF ContentsIn, ElementsIn
<1>10. CASE i < src.len /\ b.len < MaxLen /\ heap' = h /\ frames' = a /\ pc' = pc
  <2> HIDE DEF f
  <2>1. UnderIn(a) = UnderIn(frames) BY <1>1, <1>5, <1>9, UnderMoved
  <2> HIDE DEF a
  <2>2. src.data[i] \in Value /\ Own(src)[i + 1] = src.data[i]
    <3> HIDE DEF src
    <3>1. PICK j \in 1 .. src.len : j = i + 1 BY <1>4, <1>7, <1>10
    <3>2. j - 1 = i BY <1>4, <3>1
    <3> QED BY <1>7, <3>1, <3>2, OwnIs
  <2> DEFINE v == src.data[i]
  <2>3. b.cap > 0 BY <1>4 DEF Live
  <2>4. BlockOK(o) /\ Keeps(b, o) /\ Own(o) = Append(Own(b), v)
    <3> HIDE DEF b, v
    <3> QED BY <1>7, <2>2, <2>3, AppendOK, OwnAppend DEF v
  <2> HIDE DEF o
  <2>5. o.len = b.len + 1 /\ o.cap > 0 /\ o.len <= MaxLen
    <3> HIDE DEF b, v
    <3>1. Len(Append(Own(b), v)) = b.len + 1 BY <1>8, AppendProperties
    <3>2. Len(Own(o)) = o.len BY <2>4, OwnIs
    <3>3. o.len = b.len + 1 BY <2>4, <3>1, <3>2
    <3>4. o.cap > 0
      <4>1. b.cap \in Nat /\ o.cap \in Nat /\ b.cap <= o.cap BY <1>7, <2>4, Fields DEF Keeps
      <4> QED BY <2>3, <4>1
    <3>5. o.len <= MaxLen BY <1>7, <1>10, <3>3
    <3> QED BY <3>3, <3>4, <3>5
  <2>6. h[l] = o /\ \A k \in List : k # l => h[k] = heap[k] BY <1>4, <1>a
  <2>7. MemoryIn(h, frames) BY <1>4, <1>5, <2>4, HeapStep
  <2>8. UseIn(h, frames, wild')
    <3>1. ~wild' /\ InSortIn(frames, l) => o.len = heap[l].len BY <1>1, <1>6
    <3>2. l \in List /\ o.len <= MaxLen BY <1>4, <2>5
    <3> HIDE DEF l
    <3> QED BY <1>2, <1>5, <3>1, <3>2, UseStore
  <2> HIDE DEF h
  <2>9. UseIn(h, a, wild') /\ TopOf(a) = f /\ a # <<>>
    BY <1>1, <1>2, <1>3, <1>9, <2>7, <2>8, UseMove DEF a
  <2>10. UseOK' BY <1>1, <1>10, <2>9, UseIs
  <2>11. ExtendingIn(a) BY <1>9, <2>9 DEF ExtendingIn
  <2>12. ASSUME ~wild' PROVE UNCHANGED <<LiveLists, Contents, UserFrames, out, pc>>
    <3>1. m # l BY <1>1, <1>6, <2>12
    <3>2. UserFrames' = UserFrames BY <1>3, <1>10, <1>b, <2>1, <2>11 DEF UserFramesIn
    <3>3. LiveLists' = LiveLists
      <4>1. \A k \in List : h[k].cap > 0 <=> heap[k].cap > 0 BY <2>3, <2>5, <2>6
      <4> QED BY <1>10, <1>b, <4>1 DEF LiveIn
    <3>4. h[m] = src BY <1>4, <2>6, <3>1
    <3>5. Contents' = [k \in List |-> IF k = l THEN Own(o) \o SubSeq(Own(src), i + 1 + 1, src.len)
                                      ELSE Own(heap[k])]
      <4> DEFINE c(k) == IF k = l THEN Own(o) \o SubSeq(Own(src), i + 1 + 1, src.len)
                         ELSE Own(heap[k])
      <4>1. ASSUME NEW k \in List PROVE ElementsIn(h, a, k) = c(k)
        <5>1. CASE k = l
          <6>1. ElementsIn(h, a, k) = Own(h[k]) \o SubSeq(Own(h[m]), i + 1 + 1, h[m].len)
            <7> HIDE DEF l, m, i
            <7> QED BY <1>9, <2>9, <2>11, <3>1, <5>1 DEF ElementsIn
          <6> HIDE DEF src
          <6> QED BY <2>6, <3>4, <5>1, <6>1
        <5>2. CASE k # l
          <6>1. ElementsIn(h, a, k) = Own(h[k])
            <7> HIDE DEF l, m, i
            <7> QED BY <1>9, <2>9, <5>2 DEF ElementsIn
          <6> QED BY <2>6, <5>2, <6>1
        <5> QED BY <5>1, <5>2
      <4>2. Contents' = [k \in List |-> ElementsIn(h, a, k)] BY <1>10, <1>b DEF ContentsIn
      <4> HIDE DEF c
      <4>3. Contents' = [k \in List |-> c(k)] BY <4>1, <4>2
      <4> QED BY <4>3 DEF c
    <3>6. Own(o) \o SubSeq(Own(src), i + 1 + 1, src.len)
            = Own(b) \o SubSeq(Own(src), i + 1, src.len)
      <4> DEFINE s == Own(b)
                 t == Own(src)
      <4>1. s \in Seq(Value) /\ t \in Seq(Value) /\ i < Len(t) /\ Len(t) = src.len /\ t[i + 1] = v
            /\ Own(o) = Append(s, v)
        BY <1>8, <1>10, <2>2, <2>4
      <4> HIDE DEF s, t, v
      <4>2. Append(s, t[i + 1]) \o SubSeq(t, i + 1 + 1, Len(t)) = s \o SubSeq(t, i + 1, Len(t))
        BY <1>4, <4>1, RestMoves
      <4>3. Own(o) \o SubSeq(t, i + 1 + 1, src.len) = s \o SubSeq(t, i + 1, src.len)
        BY <4>1, <4>2
      <4> QED BY <4>3 DEF s, t
    <3>7. Contents' = Contents BY <1>c, <2>12, <3>5, <3>6
    <3> QED BY <1>1, <1>10, <3>1, <3>2, <3>3, <3>7
  <2> QED BY <2>10, <2>12 DEF AsPython, Python!vars
<1>11. CASE m = l /\ heap' = heap /\ frames' = frames
  <2>1. wild BY <1>6, <1>11
  <2>2. UseIn(heap, frames, wild') BY <1>1, <1>2, <1>5, <2>1 DEF UseIn
  <2>3. UseOK' BY <1>11, <2>2, UseIs
  <2> QED BY <1>1, <2>1, <2>3 DEF AsPython
<1>12. CASE i >= src.len /\ frames' = Under /\ heap' = heap /\ pc' = pc
  <2> DEFINE u == SubSeq(frames, 1, Len(frames) - 1)
  <2>1. frames' = u /\ UnderIn(frames) = u BY <1>12 DEF Under, Cut, UnderIn
  <2>2. Len(frames) - 1 \in 0 .. Len(frames) - 1 BY <1>4
  <2> HIDE DEF u
  <2>3. UseIn(heap, u, wild') /\ ~ExtendingIn(u)
    BY <1>2, <1>5, <2>2, UseCut DEF u
  <2>4. UseOK' BY <1>12, <2>1, <2>3, UseIs
  <2>5. ASSUME ~wild' PROVE UNCHANGED <<LiveLists, Contents, UserFrames, out, pc>>
    <3>1. out' = out BY <1>1
    <3>2. Contents' = [k \in List |-> Own(heap[k])]
      BY <1>12, <1>b, <2>1, <2>3, UserView
    <3>3. Own(b) \o SubSeq(Own(src), i + 1, src.len) = Own(b)
      <4> DEFINE s == Own(b)
                 t == Own(src)
      <4>1. s \in Seq(Value) /\ t \in Seq(Value) /\ i >= Len(t) /\ Len(t) = src.len
        BY <1>8, <1>12
      <4> HIDE DEF s, t
      <4>2. s \o SubSeq(t, i + 1, Len(t)) = s BY <1>4, <4>1, RestIs
      <4>3. s \o SubSeq(t, i + 1, src.len) = s BY <4>1, <4>2
      <4> QED BY <4>3 DEF s, t
    <3>4. Contents' = Contents BY <1>c, <2>5, <3>2, <3>3
    <3>5. UserFrames' = UserFrames BY <1>3, <1>b, <2>1, <2>3 DEF UserFramesIn
    <3>6. LiveLists' = LiveLists BY <1>12, <1>b
    <3> QED BY <1>1, <1>12, <3>1, <3>4, <3>5, <3>6
  <2> QED BY <2>4, <2>5 DEF AsPython, Python!vars
<1> QED BY <1>1, <1>10, <1>11, <1>12

-----------------------------------------------------------------------------
\* The refinement.

\* Nothing there in the beginning, in Python as well.
LEMMA FirstView == Init => UseOK /\ Python!Init
<1> SUFFICES ASSUME Init PROVE UseOK /\ Python!Init OBVIOUS
<1>1. heap = [l \in List |-> Nothing] /\ frames = <<>> /\ out = Silent /\ pc = "run" /\ wild = FALSE
  BY DEF Init
<1>2. DOMAIN frames = {} /\ ~ExtendingIn(frames) BY <1>1 DEF ExtendingIn
<1>3. \A l \in List : heap[l] = Nothing BY <1>1
<1>4. Nothing.len = 0 /\ Nothing.cap = 0 /\ MaxLen \in Nat BY FitsIs DEF Nothing
<1>5. UseOK
  <2>1. \A l \in List : heap[l].len <= MaxLen BY <1>3, <1>4
  <2>2. UseIn(heap, frames, wild) BY <1>1, <1>2, <2>1 DEF UseIn
  <2> QED BY <2>2, UseIs
<1>6. LiveLists = {}
  <2>1. \A l \in List : ~(heap[l].cap > 0) BY <1>3, <1>4
  <2> QED BY <2>1 DEF LiveLists, Live
<1>7. Contents = [l \in List |-> <<>>]
  <2>1. Contents = [l \in List |-> Own(heap[l])] BY <1>2, ViewIs, UserView
  <2>2. Own(Nothing) = <<>> BY NewOK, OwnNone
  <2>3. \A l \in List : Own(heap[l]) = <<>> BY <1>3, <2>2
  <2> QED BY <2>1, <2>3
<1>8. UserFrames = <<>>
  <2>1. UserFrames = PyFrames(frames) BY <1>2, ViewIs, UserView
  <2>2. PyFrames(frames) = [i \in {} |-> InPython(frames[i])] BY <1>2 DEF PyFrames
  <2>3. frames \in Seq(Frame) /\ Len(frames) = 0 BY <1>1
  <2>4. PyFrames(frames) \in Seq({InPython(f) : f \in Frame}) /\ Len(PyFrames(frames)) = 0
    BY <2>3, PyFramesAre
  <2> QED BY <2>1, <2>4, EmptySeq
<1>9. out = Python!Silent /\ ~(pc = "abort") BY <1>1 DEF Silent, Python!Silent
<1>10. Python!Init BY <1>6, <1>7, <1>8, <1>9 DEF Python!Init
<1> QED BY <1>5, <1>10

\* Nothing done is nothing seen.
LEMMA NoStep ==
  ASSUME MemoryOK, UseOK, UNCHANGED vars PROVE UseOK' /\ AsPython
<1>1. /\ heap' = heap /\ frames' = frames /\ out' = out /\ pc' = pc /\ wild' = wild BY DEF vars
<1>2. UseOK' BY <1>1, UseIs
<1>3. LiveLists' = LiveLists /\ Contents' = Contents /\ UserFrames' = UserFrames BY <1>1, ViewIs
<1> QED BY <1>1, <1>2, <1>3 DEF AsPython, Python!vars

\* Every step keeps the use of lists as promised and is a step of Python.
LEMMA EveryStep == ASSUME MemoryOK, UseOK, [Next]_vars PROVE UseOK' /\ AsPython
<1>1. ASSUME NEW l \in List,
             \/ NewList(l) \/ Forget(l) \/ AppendTo(l) \/ Insert(l) \/ Pop(l)
             \/ Remove(l) \/ ReverseList(l) \/ Clear(l) \/ SetItem(l)
             \/ GetItem(l) \/ Index(l) \/ Count(l) \/ Sort(l)
      PROVE  UseOK' /\ AsPython
  BY <1>1, NewView, ForgetView, AppendView, InsertView, PopView, RemoveView, ReverseView, ClearView,
     SetView, GetView, IndexView, CountView, SortView
<1>2. ASSUME NEW l \in List, BeginWalk(l) \/ BeginSort(l) PROVE UseOK' /\ AsPython
  BY <1>2, WalkView, SortBegins
<1>3. ASSUME NEW l \in List, NEW m \in List, SliceOf(l, m) \/ BeginExtend(l, m)
      PROVE  UseOK' /\ AsPython
  BY <1>3, SliceView, ExtendBegins
<1>4. CASE Extend BY <1>4, ExtendView
<1>5. CASE Turn BY <1>5, TurnView
<1>6. CASE KeyReturns BY <1>6, KeyView
<1>7. CASE Leave BY <1>7, LeaveView
<1>8. CASE UNCHANGED vars BY <1>8, NoStep
<1> QED BY <1>1, <1>2, <1>3, <1>4, <1>5, <1>6, <1>7, <1>8 DEF Next

\* The list functions of the runtime and the loops, extends, slices and sorts with
\* a key the compiler makes of them are Python's for a program that keeps to what
\* is promised: in every step it sees the contents, the answers, the failures and
\* the order of the elements it would see in Python, however many lists it has,
\* however long they are and however deep its loops and sorts are nested.
THEOREM ListsImplementPython == Spec => ListsAsPython
<1>1. Init => UseOK /\ Python!Init BY FirstView
<1>2. MemoryOK /\ UseOK /\ [Next]_vars => UseOK' BY EveryStep
<1>3. MemoryOK /\ UseOK /\ [Next]_vars => [wild' \/ Python!Next]_(Python!vars)
  <2> SUFFICES ASSUME MemoryOK, UseOK, [Next]_vars PROVE [wild' \/ Python!Next]_(Python!vars)
    OBVIOUS
  <2>1. AsPython BY EveryStep
  <2> QED BY <2>1 DEF AsPython
<1>4. Spec => []MemoryOK BY ListsMemory
<1>5. Spec => []UseOK BY <1>1, <1>2, <1>4, PTL DEF Spec
<1> QED BY <1>1, <1>3, <1>4, <1>5, PTL DEF Spec, ListsAsPython
=============================================================================
