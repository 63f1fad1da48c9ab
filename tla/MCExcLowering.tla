--------------------------- MODULE MCExcLowering ---------------------------
(***************************************************************************)
(* Instances of ExcLowering for TLC.                                       *)
(***************************************************************************)
EXTENDS ExcRefinement

CONSTANTS stop, err, null

MCExc == {stop, err}
=============================================================================
