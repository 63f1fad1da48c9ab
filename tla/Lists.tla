-------------------------------- MODULE Lists --------------------------------
(***************************************************************************)
(* Lists: runtime/runtime.c (SpyList, slices, sort with a key) under the   *)
(* loops that codegen.go emits over them, and under user code, which runs  *)
(* in the body of such a loop and in the key function of a sort and may    *)
(* use any list in the meantime.                                           *)
(*                                                                         *)
(* The program is any: every operation may come next.  Integers of slices  *)
(* are W bits wide, and a signed overflow ends the model (pc = "undef").   *)
(***************************************************************************)
EXTENDS Integers, Sequences, FiniteSets

CONSTANTS List,      \* the list objects; two names of one list are one of them
          Value,     \* the elements
          Key,       \* what a key function returns
          InitCap,   \* the capacity of a new list; 8 in the code
          W,         \* the width of integers; 64 in the code
          Bound,     \* the bounds of slices that are tried, None among them
          Step,      \* the steps of slices that are tried, None among them
          MaxLen,    \* no list gets longer,
          MaxBoth,   \* and no two together by new elements
          MaxDepth,  \* active loops and sorts,
          MaxTurns,  \* the turns of any two of them,
          SliceDepth,\* and how many there are where slices are taken
          Junk,      \* the content of memory nobody has written
          None       \* a bound or step of a slice that is left out

ASSUME ListAssumption ==
  /\ InitCap \in Nat \ {0} /\ W \in Nat \ {0} /\ MaxLen \in Nat /\ MaxBoth \in Nat /\ MaxDepth \in Nat /\ MaxTurns \in Nat /\ SliceDepth \in Nat
  /\ MaxLen < 2 ^ (W - 1) - 1
  /\ Value \subseteq Int /\ Key \subseteq Int /\ Junk \notin Value
  /\ Bound \subseteq Int \cup {None} /\ Step \subseteq Int \cup {None}

VARIABLES heap,      \* the SpyList of each object; cap = 0 where there is none
          frames,    \* the loops and sorts that are active, with their locals
          out,       \* what the last operation was asked for and gave the program
          pc,        \* "run", "abort" (exit(1)), "undef" (undefined behaviour)
          wild       \* history: the program did what Unpromised names

vars == <<heap, frames, out, pc, wild>>
-----------------------------------------------------------------------------
(***************************************************************************)
(* The list in memory.                                                     *)
(***************************************************************************)
Silent == <<"none">>

Nothing == [len |-> 0, cap |-> 0, data |-> <<>>]

spy_list_new == [len |-> 0, cap |-> InitCap, data |-> [c \in 0 .. InitCap - 1 |-> Junk]]

\* The test in front of every write behind the end.
Roomy(o) ==
  IF o.len < o.cap THEN o
  ELSE [o EXCEPT !.cap = 2 * o.cap,
                 !.data = [c \in 0 .. 2 * o.cap - 1 |-> IF c < o.cap THEN o.data[c] ELSE Junk]]

spy_list_append(o, v) ==
  LET r == Roomy(o)
  IN  [r EXCEPT !.len = r.len + 1, !.data = [r.data EXCEPT ![r.len] = v]]

spy_list_insert(o, index, v) ==
  LET r  == Roomy(o)
      at == IF index < 0 THEN 0 ELSE IF index > o.len THEN o.len ELSE index
      cells == [c \in DOMAIN r.data |-> CASE c = at -> v
                                           [] c > at /\ c <= o.len -> r.data[c - 1]
                                           [] OTHER -> r.data[c]]
  IN  [r EXCEPT !.len = r.len + 1, !.data = cells]

\* The place of v; -1 where there is none.
spy_list_index(o, v) ==
  LET at == {c \in 0 .. o.len - 1 : o.data[c] = v}
  IN  IF at = {} THEN -1 ELSE CHOOSE c \in at : \A d \in at : c <= d

spy_list_count_elem(o, v) == Cardinality({c \in 0 .. o.len - 1 : o.data[c] = v})

\* The elements behind place c move up; the last cell keeps its content.
spy_list_remove(o, c) ==
  LET cells == [d \in DOMAIN o.data |-> IF d >= c /\ d < o.len - 1 THEN o.data[d + 1]
                                        ELSE o.data[d]]
  IN  [o EXCEPT !.len = o.len - 1, !.data = cells]

spy_list_reverse(o) ==
  [o EXCEPT !.data = [d \in DOMAIN o.data |-> IF d < o.len THEN o.data[o.len - 1 - d]
                                              ELSE o.data[d]]]

spy_list_pop(o) == [o EXCEPT !.len = o.len - 1]
ClearFrees(o) == spy_list_new
spy_list_clear(o) == [o EXCEPT !.len = 0]
spy_list_set(o, c, v) == [o EXCEPT !.data[c] = v]
-----------------------------------------------------------------------------
(***************************************************************************)
(* Sorting: qsort on the elements, or on an index into the keys.           *)
(***************************************************************************)
\* The comparator: no two indices are equal.
UnstableInReverse(keys, reverse, i, j) ==
  LET r == IF keys[i] > keys[j] THEN 1 ELSE IF keys[i] < keys[j] THEN -1 ELSE i - j
  IN  IF reverse THEN -r ELSE r
spy_sort_idx_cmp(keys, reverse, i, j) ==
  LET r == IF keys[i] > keys[j] THEN 1 ELSE IF keys[i] < keys[j] THEN -1 ELSE 0
      s == IF reverse THEN -r ELSE r
  IN  IF s # 0 THEN s ELSE i - j

\* What qsort may make of the indices 0 .. n - 1.
Orders(n, keys, reverse) ==
  {p \in [0 .. n - 1 -> 0 .. n - 1] :
     \A i, j \in 0 .. n - 1 : i < j => spy_sort_idx_cmp(keys, reverse, p[i], p[j]) < 0}

\* The first n cells, copied back in the order p.
Permuted(o, n, p) ==
  [o EXCEPT !.data = [c \in DOMAIN o.data |-> IF c < n THEN o.data[p[c]] ELSE o.data[c]]]
-----------------------------------------------------------------------------
(***************************************************************************)
(* Slices.                                                                 *)
(***************************************************************************)
MaxInt == 2 ^ (W - 1) - 1
Fits(x) == -MaxInt - 1 <= x /\ x <= MaxInt
Size(x) == IF x < 0 THEN -x ELSE x

\* A bound as an index: from the end if negative, then within the limits.
Clamped(bound, length, least, most) ==
  LET b == IF bound < 0 THEN bound + length ELSE bound
  IN  IF b < least THEN least ELSE IF b > most THEN most ELSE b

\* Where a slice starts, how far it goes at a time, and how long it is; an
\* intermediate result that does not fit is undefined.
spy_slice_resolve(length, low, high, step) ==
  LET by    == IF step = None THEN 1 ELSE step
      least == IF by > 0 THEN 0 ELSE -1
      most  == IF by > 0 THEN length ELSE length - 1
      lo == IF low # None THEN Clamped(low, length, least, most)
            ELSE IF by > 0 THEN 0 ELSE length - 1
      hi == IF high # None THEN Clamped(high, length, least, most)
            ELSE IF by > 0 THEN length ELSE -1
      pos  == Size(by)
      span == IF by > 0 THEN hi - lo ELSE lo - hi
  IN  [lo |-> lo, by |-> by, len |-> IF span > 0 THEN (span + pos - 1) \div pos ELSE 0,
       defined |-> Fits(pos) /\ (span > 0 => Fits(span + pos))]

spy_list_slice(o, s) ==
  LET cap == IF s.len > InitCap THEN s.len ELSE InitCap
  IN  [len |-> s.len, cap |-> cap,
       data |-> [c \in 0 .. cap - 1 |-> IF c < s.len THEN o.data[s.lo + c * s.by] ELSE Junk]]
-----------------------------------------------------------------------------
(***************************************************************************)
(* The program: which code runs, and what a step may do.                   *)
(***************************************************************************)
Live(l) == heap[l].cap > 0
Top == frames[Len(frames)]
Cut(k) == SubSeq(frames, 1, k)
Under == Cut(Len(frames) - 1)
SetTop(f) == frames' = [frames EXCEPT ![Len(frames)] = f]

\* User code runs, unless the runtime is in its loop of extend.
UserRuns == pc = "run" /\ (frames # <<>> => Top.kind # "extend")

InSort(l) == \E i \in DOMAIN frames : frames[i].kind = "sort" /\ frames[i].of = l
InUse(l) == \E i \in DOMAIN frames : l \in {frames[i].of, frames[i].from}

\* What nothing is promised of: a key function that uses the list being sorted.
\* Likewise a loop whose list has another length when a turn begins (Turn), a list
\* extended by itself (BeginExtend), and a step too large to be added to a length
\* (SliceOf).
Unpromised(l) == wild' = (wild \/ InSort(l))

Init == /\ heap = [l \in List |-> Nothing]
        /\ frames = <<>> /\ out = Silent /\ pc = "run" /\ wild = FALSE

\* exit(1) with a message about what was asked for.
Abort(about) == pc' = "abort" /\ out' = about /\ UNCHANGED <<heap, frames>>

Store(l, o, r) == heap' = [heap EXCEPT ![l] = o] /\ out' = r /\ UNCHANGED <<frames, pc>>

\* l may get n more elements.
RoomFor(l, n) == /\ heap[l].len + n <= MaxLen
                 /\ \A m \in List \ {l} : heap[l].len + heap[m].len + n <= MaxBoth

\* A loop of n turns may begin.
TimeFor(n) == Len(frames) < MaxDepth /\ \A i \in DOMAIN frames : frames[i].n + n <= MaxTurns
-----------------------------------------------------------------------------
(***************************************************************************)
(* Operations.                                                             *)
(***************************************************************************)
NewList(l) == UserRuns /\ ~Live(l) /\ Store(l, spy_list_new, Silent) /\ UNCHANGED wild

\* The last reference goes, and the collector takes the list.
Forget(l) == UserRuns /\ Live(l) /\ ~InUse(l) /\ Store(l, Nothing, Silent) /\ UNCHANGED wild

On(l) == UserRuns /\ Live(l) /\ Unpromised(l)

AppendTo(l) == \E v \in Value : /\ On(l) /\ RoomFor(l, 1)
                                /\ Store(l, spy_list_append(heap[l], v), <<"appended", v>>)

Insert(l) == \E i \in 0 .. MaxLen, v \in Value :
  /\ On(l) /\ RoomFor(l, 1)
  /\ Store(l, spy_list_insert(heap[l], i, v), <<"inserted", i, v>>)

Pop(l) ==
  /\ On(l)
  /\ IF heap[l].len = 0 THEN Abort(<<"empty">>)
     ELSE Store(l, spy_list_pop(heap[l]), <<"popped", heap[l].data[heap[l].len - 1]>>)

Remove(l) == \E v \in Value :
  LET c == spy_list_index(heap[l], v)
  IN  /\ On(l)
      /\ IF c < 0 THEN Abort(<<"absent", v>>)
         ELSE Store(l, spy_list_remove(heap[l], c), <<"removed", v>>)

ReverseList(l) == On(l) /\ Store(l, spy_list_reverse(heap[l]), <<"reversed">>)
Clear(l) == On(l) /\ Store(l, spy_list_clear(heap[l]), <<"cleared">>)

SetItem(l) == \E i \in 0 .. MaxLen, v \in Value :
  /\ On(l)
  /\ IF i >= heap[l].len THEN Abort(<<"range", i>>)
     ELSE Store(l, spy_list_set(heap[l], i, v), <<"set", i, v>>)

GetItem(l) == \E i \in 0 .. MaxLen :
  /\ On(l)
  /\ IF i >= heap[l].len THEN Abort(<<"range", i>>)
     ELSE Store(l, heap[l], <<"item", i, heap[l].data[i]>>)

Index(l) == \E v \in Value :
  /\ On(l) /\ spy_list_index(heap[l], v) >= 0
  /\ Store(l, heap[l], <<"index", v, spy_list_index(heap[l], v)>>)

Count(l) == \E v \in Value : On(l) /\ Store(l, heap[l], <<"count", v, spy_list_count_elem(heap[l], v)>>)

\* sort() and sort(reverse=...): the keys are the elements.
Sort(l) == \E reverse \in BOOLEAN :
  LET o == heap[l]
  IN  On(l) /\ \E p \in Orders(o.len, o.data, reverse) :
                   Store(l, Permuted(o, o.len, p), <<"sorted", reverse>>)

\* m = l[low:high:step]
SliceOf(l, m) == \E low, high \in Bound, step \in Step :
  LET s == spy_slice_resolve(heap[l].len, low, high, step)
  IN  /\ UserRuns /\ Live(l) /\ ~Live(m) /\ Len(frames) <= SliceDepth
      /\ wild' = (wild \/ InSort(l) \/ (step \notin {None, 0} /\ ~Fits(Size(step) + heap[l].len)))
      /\ IF step = 0 THEN Abort(<<"zero step">>)
         ELSE IF s.defined
           THEN Store(m, spy_list_slice(heap[l], s), <<"slice", low, high, step>>)
           ELSE pc' = "undef" /\ out' = Silent /\ UNCHANGED <<heap, frames>>
-----------------------------------------------------------------------------
(***************************************************************************)
(* Loops of the runtime and of the emitted code.                           *)
(***************************************************************************)
\* spy_list_extend; nothing runs between its turns.
BeginExtend(l, m) ==
  /\ UserRuns /\ Live(l) /\ Live(m) /\ wild' = (wild \/ InSort(l) \/ InSort(m) \/ l = m)
  /\ l # m => RoomFor(l, heap[m].len)
  /\ frames' = Append(frames, [kind |-> "extend", of |-> l, from |-> m, n |-> 0, at |-> 0,
                               keys |-> <<>>, reverse |-> FALSE])
  /\ out' = <<"extended", m>> /\ UNCHANGED <<heap, pc>>

\* The element is passed by its place in the source: when the two are one and
\* the block moves, that place is gone.
Extend ==
  LET dst == Top.of
      src == heap[Top.from]
  IN  /\ pc = "run" /\ frames # <<>> /\ Top.kind = "extend" /\ UNCHANGED <<out, wild>>
      /\ \/ /\ Top.at < src.len /\ (Top.from = dst => heap[dst].len < heap[dst].cap)
            /\ heap[dst].len < MaxLen
            /\ heap' = [heap EXCEPT ![dst] = spy_list_append(@, src.data[Top.at])]
            /\ SetTop([Top EXCEPT !.at = @ + 1]) /\ UNCHANGED pc
         \/ /\ Top.from = dst /\ heap[dst].len = heap[dst].cap
            /\ pc' = "undef" /\ UNCHANGED <<heap, frames>>
         \/ /\ Top.at >= src.len /\ frames' = Under /\ UNCHANGED <<heap, pc>>

\* for x in l, and the text of a list, whose elements' __str__ is user code: the
\* length is read once, and the first turn follows.
BeginWalk(l) ==
  /\ On(l) /\ TimeFor(heap[l].len) /\ UNCHANGED <<heap, pc>>
  /\ IF heap[l].len = 0
       THEN out' = Silent /\ UNCHANGED frames
       ELSE /\ frames' = Append(frames, [kind |-> "walk", of |-> l, from |-> l,
                                         n |-> heap[l].len, at |-> 1,
                                         keys |-> <<>>, reverse |-> FALSE])
            /\ out' = <<"next", heap[l].data[0]>>

\* The next turn, after the body or continue.
Turn ==
  LET o == heap[Top.of]
  IN  /\ pc = "run" /\ frames # <<>> /\ Top.kind = "walk"
      /\ wild' = (wild \/ InSort(Top.of) \/ o.len # Top.n)
      /\ CASE Top.at >= Top.n -> frames' = Under /\ out' = Silent /\ UNCHANGED <<heap, pc>>
           [] Top.at < Top.n /\ Top.at >= o.len -> Abort(<<"range", Top.at>>)
           [] OTHER -> /\ SetTop([Top EXCEPT !.at = @ + 1]) /\ out' = <<"next", o.data[Top.at]>>
                       /\ UNCHANGED <<heap, pc>>

\* spy_list_sort_key with a closure: the first call of it.
BeginSort(l) == \E reverse \in BOOLEAN :
  /\ On(l) /\ TimeFor(heap[l].len) /\ UNCHANGED <<heap, pc>>
  /\ IF heap[l].len < 2
       THEN out' = <<"sorted", reverse>> /\ UNCHANGED frames
       ELSE /\ frames' = Append(frames, [kind |-> "sort", of |-> l, from |-> l,
                                         n |-> heap[l].len, at |-> 0,
                                         keys |-> <<>>, reverse |-> reverse])
            /\ out' = <<"sort", reverse, heap[l].data[0]>>

\* The closure returns: the next call, or the sort of the first n cells.
KeyReturns == \E k \in Key :
  LET o    == heap[Top.of]
      keys == Append(Top.keys, k)
  IN  /\ pc = "run" /\ frames # <<>> /\ Top.kind = "sort" /\ UNCHANGED <<pc, wild>>
      /\ IF Top.at + 1 < Top.n
           THEN /\ SetTop([Top EXCEPT !.keys = keys, !.at = @ + 1])
                /\ out' = <<"next", o.data[Top.at + 1]>> /\ UNCHANGED heap
           ELSE /\ \E p \in Orders(Top.n, [i \in 0 .. Top.n - 1 |-> keys[i + 1]], Top.reverse) :
                     heap' = [heap EXCEPT ![Top.of] = Permuted(o, Top.n, p)]
                /\ frames' = Under /\ out' = Silent

\* break, return or an exception of user code; only the latter leaves a sort.
Leave == \E k \in 0 .. Len(frames) - 1 :
  UserRuns /\ frames' = Cut(k) /\ out' = Silent /\ UNCHANGED <<heap, pc, wild>>
-----------------------------------------------------------------------------
Next == \/ \E l \in List : \/ NewList(l) \/ Forget(l) \/ AppendTo(l) \/ Insert(l) \/ Pop(l)
                           \/ Remove(l) \/ ReverseList(l) \/ Clear(l) \/ SetItem(l)
                           \/ GetItem(l) \/ Index(l) \/ Count(l) \/ Sort(l)
                           \/ BeginWalk(l) \/ BeginSort(l)
        \/ \E l, m \in List : SliceOf(l, m) \/ BeginExtend(l, m)
        \/ Extend \/ Turn \/ KeyReturns \/ Leave

Spec == Init /\ [][Next]_vars
-----------------------------------------------------------------------------
\* Every program, whatever it does to a list while a loop, an extend or a sort
\* with a key works on it: the block of a list has its capacity, what the list
\* holds has been written, and so have the cells a sort will read although the
\* list may be shorter by then.  (runtime.c guards only spy_list_get and set.)
Written(o, n) == n <= o.cap /\ \A c \in 0 .. n - 1 : o.data[c] \in Value

BlockOK(o) == /\ o \in [len : Nat, cap : Nat, data : [0 .. o.cap - 1 -> Value \cup {Junk}]]
              /\ Written(o, o.len)

Frame == [kind : {"walk", "sort", "extend"}, of : List, from : List, n : Nat, at : Nat,
          keys : Seq(Key), reverse : BOOLEAN]

FrameOK(f) == /\ Live(f.of) /\ Live(f.from)
              /\ f.kind = "sort" => /\ f.at < f.n /\ Len(f.keys) = f.at
                                    /\ Written(heap[f.of], f.n)

MemoryOK == /\ heap = [l \in List |-> heap[l]] /\ frames \in Seq(Frame)
            /\ \A l \in List : BlockOK(heap[l])
            /\ \A i \in DOMAIN frames : FrameOK(frames[i])

\* What a list holds, and what the program sees of it: while an extend is under
\* way, the rest of its source too.
Own(o) == [i \in 1 .. o.len |-> o.data[i - 1]]
Extending == frames # <<>> /\ Top.kind = "extend"
Elements(l) ==
  IF Extending /\ Top.of = l /\ Top.from # l
    THEN Own(heap[l]) \o SubSeq(Own(heap[Top.from]), Top.at + 1, heap[Top.from].len)
    ELSE Own(heap[l])

LiveLists == {l \in List : Live(l)}
Contents == [l \in List |-> Elements(l)]
InPython(f) == [kind |-> f.kind, of |-> f.of, n |-> f.n, at |-> f.at,
                keys |-> f.keys, reverse |-> f.reverse]
PyFrames(fs) == [i \in DOMAIN fs |-> InPython(fs[i])]
UserFrames == PyFrames(IF Extending THEN Under ELSE frames)

Python == INSTANCE PyLists WITH live <- LiveLists, seq <- Contents, frames <- UserFrames,
                                stopped <- pc = "abort"

\* A program that keeps to what is promised sees lists as Python has them.
ListsAsPython == Python!Init /\ [][wild' \/ Python!Next]_(Python!vars)
=============================================================================
