------------------------- MODULE MCRollbackWrapper -------------------------
(***************************************************************************)
(* Two keys, two values, three contexts and three pending edits: enough for *)
(* a key to be overwritten inside, below and after a nested context.       *)
(***************************************************************************)
EXTENDS RollbackWrapper, TLC

CONSTANTS k1, k2, v1, v2, ancestor

AncestorData == ancestor :> (k1 :> v1 @@ k2 :> Absent)
=============================================================================
