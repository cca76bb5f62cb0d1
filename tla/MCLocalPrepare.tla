--------------------------- MODULE MCLocalPrepare ---------------------------
(***************************************************************************)
(* Instances of LocalPrepare for TLC.                                      *)
(***************************************************************************)
EXTENDS LocalPrepare, TLC

Symmetry == Permutations(Run)
=============================================================================
