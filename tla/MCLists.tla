------------------------------- MODULE MCLists -------------------------------
EXTENDS Lists, TLC

ListSymmetry == Permutations(List)

\* States are told apart only by what a property or a later step depends on: no
\* guard reads what the last operation gave (what it should have given is compared
\* in the step that gives it), and of a cell behind the end, or of any cell and
\* key once nothing is promised, it matters only whether it has been written.
Seen(o) == [o EXCEPT !.data =
              [c \in DOMAIN @ |-> IF (wild \/ c >= o.len) /\ @[c] # Junk THEN 0 ELSE @[c]]]
SeenFrame(f) == IF wild THEN [f EXCEPT !.keys = Len(@), !.reverse = FALSE] ELSE f
WhatMatters == <<[l \in List |-> Seen(heap[l])], [i \in DOMAIN frames |-> SeenFrame(frames[i])],
                 pc, wild>>

\* Integers of four bits: -8 .. 7.  Bounds before, at and behind both ends of a
\* list, and the ends of the range; every kind of step, the largest too.
MCBound == {None, -8, -4, -2, -1, 0, 1, 2, 4, 7}
MCStep  == {None, -8, -7, -3, -2, -1, 0, 1, 2, 3, 4, 7}
=============================================================================
