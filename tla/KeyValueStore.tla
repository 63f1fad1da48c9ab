--------------------------- MODULE KeyValueStore ---------------------------
(***************************************************************************)
(* What a dict or a set of the language promises: a finite function, or a  *)
(* finite set when there is but one value.  A call may take several steps; *)
(* it changes the entry of its key and no other, in one of them, and no    *)
(* other call begins before it returns.                                    *)
(***************************************************************************)
CONSTANTS Key, Val

VARIABLES store,     \* a set of entries, one at most for each key
          pending,   \* the entry that a call has still to store, if any
          leaving    \* a call has had its effect but has not returned

vars == <<store, pending, leaving>>

Init == store = {} /\ pending = {} /\ leaving = FALSE

Others(k) == {e \in store : e.key # k}

Free == pending = {} /\ ~leaving

BeginPut(e) == /\ Free
               /\ pending' = {e}
               /\ UNCHANGED <<store, leaving>>

Put(e) == /\ Free \/ pending = {e}
          /\ store' = Others(e.key) \cup {e}
          /\ pending' = {}
          /\ UNCHANGED leaving

Remove(k) == /\ Free
             /\ store' = Others(k)
             /\ leaving' \in BOOLEAN
             /\ UNCHANGED pending

Clear == /\ Free
         /\ store' = {}
         /\ UNCHANGED <<pending, leaving>>

Return == /\ leaving
          /\ leaving' = FALSE
          /\ UNCHANGED <<store, pending>>

Next == \/ \E e \in [key : Key, val : Val] : BeginPut(e) \/ Put(e)
        \/ \E k \in Key : Remove(k)
        \/ Clear \/ Return

Spec == Init /\ [][Next]_vars
=============================================================================
