---------------------------- MODULE MCTableLoop ----------------------------
(***************************************************************************)
(* Instances of TableLoop for TLC.  With a table of four slots the fourth  *)
(* entry makes it grow.  The hashes collide at either size, at one of them *)
(* only, and send probes around the end of either table.                   *)
(***************************************************************************)
EXTENDS TableLoop, TLC

MCHashes == {0, 3, 4, 7}

KeySymmetry == Permutations(Key) \cup Permutations(Val)
=============================================================================
