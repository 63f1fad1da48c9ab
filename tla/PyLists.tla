------------------------------- MODULE PyLists -------------------------------
(***************************************************************************)
(* Lists as Python has them: a list is a sequence, with no block of memory *)
(* behind it; a loop over a list looks at its length in every turn; a sort *)
(* asks for the keys from left to right and is stable, in reverse too.     *)
(* Lists implements this.                                                  *)
(***************************************************************************)
EXTENDS Integers, Sequences, FiniteSets, SequencesExt

CONSTANTS List,        \* the list objects
          Value,       \* the elements, integers
          Key,         \* what a key function returns, integers
          None         \* a bound or step of a slice that is left out

VARIABLES live,        \* the lists there are
          seq,         \* their elements
          frames,      \* the loops and sorts that are active
          out,         \* what the last operation was asked for and gave the program
          stopped      \* whether it has ended the program with an error

vars == <<live, seq, frames, out, stopped>>
-----------------------------------------------------------------------------
Silent == <<"none">>

\* i comes before j in the order of the keys, and with equal keys as it was.
Before(keys, reverse, i, j) ==
  IF keys[i] = keys[j] THEN i < j ELSE (keys[i] < keys[j]) # reverse

\* Where i comes among the places then, and which of them comes at p.
Rank(places, keys, reverse, i) ==
  1 + Cardinality({j \in places : Before(keys, reverse, j, i)})
Placed(places, keys, reverse, p) ==
  CHOOSE i \in places : Rank(places, keys, reverse, i) = p

SortedBy(s, keys, reverse) == [p \in DOMAIN s |-> s[Placed(DOMAIN s, keys, reverse, p)]]

\* s[low:high:step]: of the places between the two bounds, which are neighbours,
\* every step-th from the first one in the direction of the step.
Places(length, low, high, by) ==
  LET At(b) == IF b < 0 THEN b + length ELSE b
  IN  {x \in 0 .. length - 1 :
         /\ low # None => IF by > 0 THEN x >= At(low) ELSE x <= At(low)
         /\ high # None => IF by > 0 THEN x < At(high) ELSE x > At(high)}

Foremost(places, by) ==
  CHOOSE x \in places : \A y \in places : IF by > 0 THEN x <= y ELSE x >= y

Slice(s, low, high, step) ==
  LET by == IF step = None THEN 1 ELSE step
      stride == IF by < 0 THEN -by ELSE by
      places == Places(Len(s), low, high, by)
  IN  [k \in 1 .. (Cardinality(places) + stride - 1) \div stride |->
         s[Foremost(places, by) + (k - 1) * by + 1]]

First(s, v) == CHOOSE i \in DOMAIN s : s[i] = v /\ \A j \in 1 .. i - 1 : s[j] # v
-----------------------------------------------------------------------------
Init == /\ live = {} /\ seq = [l \in List |-> <<>>]
        /\ frames = <<>> /\ out = Silent /\ ~stopped

\* Nothing but the elements of l changes.
Alone(l) == /\ l \in live /\ UNCHANGED <<live, frames, stopped>>
            /\ \A m \in List \ {l} : seq'[m] = seq[m]

NewList(l) == /\ l \notin live /\ live' = live \cup {l}
              /\ seq' = [seq EXCEPT ![l] = <<>>] /\ out' = Silent
              /\ UNCHANGED <<frames, stopped>>

Forget(l) == /\ l \in live /\ live' = live \ {l}
             /\ seq' = [seq EXCEPT ![l] = <<>>] /\ out' = Silent
             /\ UNCHANGED <<frames, stopped>>

SliceOf(l, m) == /\ l \in live /\ m \notin live /\ live' = live \cup {m}
                 /\ out'[1] = "slice"
                 /\ seq' = [seq EXCEPT ![m] = Slice(seq[l], out'[2], out'[3], out'[4])]
                 /\ UNCHANGED <<frames, stopped>>

\* Where an element goes that is inserted at i: behind the end is at the end.
Spot(s, i) == IF i > Len(s) THEN Len(s) ELSE i

\* From s to t, as was asked.
Change(l) ==
  LET s == seq[l]
      t == seq'[l]
      r == out'
  IN  /\ Alone(l)
      /\ \/ r[1] = "appended" /\ t = Append(s, r[2])
         \/ r[1] = "inserted" /\ t = InsertAt(s, Spot(s, r[2]) + 1, r[3])
         \/ r[1] = "set" /\ r[2] + 1 \in DOMAIN s /\ t = [s EXCEPT ![r[2] + 1] = r[3]]
         \/ r[1] = "removed" /\ r[2] \in Range(s) /\ t = RemoveAt(s, First(s, r[2]))
         \/ r[1] = "reversed" /\ t = Reverse(s)
         \/ r[1] = "cleared" /\ t = <<>>
         \/ r[1] = "extended" /\ r[2] \in live \ {l} /\ t = s \o seq[r[2]]
         \/ r[1] = "sorted" /\ t = SortedBy(s, s, r[2])

\* An answer, behind what was asked; pop changes the list too.
Ask(l) ==
  LET s == seq[l]
      t == seq'[l]
      r == out'
  IN  /\ Alone(l)
      /\ \/ s # <<>> /\ t = Front(s) /\ r = <<"popped", Last(s)>>
         \/ t = s /\ \E i \in DOMAIN s : r = <<"item", i - 1, s[i]>>
         \/ t = s /\ \E v \in Range(s) : r = <<"index", v, First(s, v) - 1>>
         \/ t = s /\ \E v \in Value :
                        r = <<"count", v, Cardinality({i \in DOMAIN s : s[i] = v})>>

\* The last element of none, an index that is no place of the list, an element
\* that is not in it, a slice that goes nowhere.
Fail(l) == /\ l \in live /\ stopped' = TRUE /\ UNCHANGED <<live, seq, frames>>
           /\ \/ seq[l] = <<>> /\ out' = <<"empty">>
              \/ out'[1] = "range" /\ out'[2] \notin 0 .. Len(seq[l]) - 1
              \/ out'[1] = "absent" /\ out'[2] \notin Range(seq[l])
              \/ out'[1] = "zero step"
-----------------------------------------------------------------------------
Top == frames[Len(frames)]
SetTop(f) == frames' = [frames EXCEPT ![Len(frames)] = f]

BeginWalk(l) ==
  /\ l \in live /\ UNCHANGED <<live, seq, stopped>>
  /\ IF seq[l] = <<>>
       THEN frames' = frames /\ out' = Silent
       ELSE /\ frames' = Append(frames, [kind |-> "walk", of |-> l, n |-> Len(seq[l]),
                                         at |-> 1, keys |-> <<>>, reverse |-> FALSE])
            /\ out' = <<"next", seq[l][1]>>

Turn ==
  /\ frames # <<>> /\ Top.kind = "walk" /\ UNCHANGED <<live, seq, stopped>>
  /\ IF Top.at < Len(seq[Top.of])
       THEN SetTop([Top EXCEPT !.at = @ + 1]) /\ out' = <<"next", seq[Top.of][Top.at + 1]>>
       ELSE frames' = Front(frames) /\ out' = Silent

\* A list with at most one element is left as it is without a call of the key.
BeginSort(l) ==
  \E reverse \in BOOLEAN :
    /\ l \in live /\ UNCHANGED <<live, seq, stopped>>
    /\ IF Len(seq[l]) < 2
         THEN frames' = frames /\ out' = <<"sorted", reverse>>
         ELSE /\ frames' = Append(frames, [kind |-> "sort", of |-> l, n |-> Len(seq[l]),
                                           at |-> 0, keys |-> <<>>, reverse |-> reverse])
              /\ out' = <<"sort", reverse, seq[l][1]>>

KeyReturns ==
  \E k \in Key :
    LET keys == Append(Top.keys, k)
        s    == seq[Top.of]
    IN  /\ frames # <<>> /\ Top.kind = "sort" /\ UNCHANGED <<live, stopped>>
        /\ IF Len(keys) < Len(s)
             THEN /\ SetTop([Top EXCEPT !.keys = keys, !.at = @ + 1])
                  /\ out' = <<"next", s[Len(keys) + 1]>> /\ seq' = seq
             ELSE /\ frames' = Front(frames) /\ out' = Silent
                  /\ seq' = [seq EXCEPT ![Top.of] = SortedBy(s, keys, Top.reverse)]

\* break, return and exceptions leave loops, exceptions leave sorts too: the
\* list of an abandoned sort is as it was.
Leave == /\ \E k \in 0 .. Len(frames) - 1 : frames' = SubSeq(frames, 1, k)
         /\ out' = Silent /\ UNCHANGED <<live, seq, stopped>>

Next == \/ \E l \in List : NewList(l) \/ Forget(l) \/ Change(l) \/ Ask(l) \/ Fail(l)
                           \/ BeginWalk(l) \/ BeginSort(l)
        \/ \E l, m \in List : SliceOf(l, m)
        \/ Turn \/ KeyReturns \/ Leave
=============================================================================
