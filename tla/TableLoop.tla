----------------------------- MODULE TableLoop -----------------------------
(***************************************************************************)
(* A for loop over a dict or a set, as codegen/codegen.go emits it (the    *)
(* index of the next slot to look at, spy_map_next or spy_set_next on every*)
(* turn), whose body is free to use the same HashTable.                    *)
(***************************************************************************)
EXTENDS HashTable

VARIABLES on,      \* control is inside the loop
          idx,     \* the first slot that the loop has not looked at
          watched, \* one of the keys in the table when the loop began
          runs,    \* how often the body has run for it
          steady   \* since then the table did not grow or lose an entry

loop    == <<on, idx, watched, runs, steady>>
allVars == <<vars, loop>>

Members == {e.key : e \in Content}

LoopInit == /\ Init
            /\ on = FALSE /\ idx = 0 /\ watched = Empty /\ runs = 0
            /\ steady = TRUE

\* Mutant: the map's protocol, previous index plus one, used with the set's start.
LoopStartAtOne == /\ Idle /\ ~on
                  /\ \E k \in Members : watched' = k
                  /\ on' = TRUE /\ idx' = 1 /\ runs' = 0
                  /\ steady' = TRUE
                  /\ UNCHANGED vars

\* The code before the loop: the index is set to the first slot.
LoopStart == /\ Idle /\ ~on
             /\ \E k \in Members : watched' = k
             /\ on' = TRUE /\ idx' = 0 /\ runs' = 0
             /\ steady' = TRUE
             /\ UNCHANGED vars

\* What spy_set_next(idx), spy_map_next(idx - 1) choose the first of.
Following == {p \in Occupied : p >= idx}

LoopTurn == /\ Idle /\ on
            /\ \E p \in Following :
                 /\ \A q \in Following : p <= q
                 /\ runs' = IF slots[p].key = watched THEN runs + 1 ELSE runs
                 /\ idx' = p + 1
            /\ UNCHANGED <<on, watched, steady, vars>>

LoopEnd == /\ Idle /\ on /\ Following = {}
           /\ on' = FALSE
           /\ UNCHANGED <<idx, watched, runs, steady, vars>>

\* The program uses the table, in the body of the loop or outside of it.
Use == /\ Next
       /\ IF on
          THEN /\ steady' = (steady /\ cap' = cap /\ op' # "discard" /\ len' >= len)
               /\ UNCHANGED <<on, idx, watched, runs>>
          ELSE /\ idx' = 0 /\ watched' = Empty /\ runs' = 0
               /\ steady' = TRUE
               /\ UNCHANGED on

LoopNext == LoopStart \/ LoopTurn \/ LoopEnd \/ Use

LoopSpec == LoopInit /\ [][LoopNext]_allVars

-----------------------------------------------------------------------------
\* A loop during which the table did not grow or lose an entry ran its body once
\* for every key that was there from the start, also when it added keys.
SteadyLoopIsExact == ~on /\ steady /\ watched # Empty => runs = 1
=============================================================================
