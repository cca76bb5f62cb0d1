--------------------------- MODULE MCBuildTrigger ---------------------------
(***************************************************************************)
(* Instances of BuildTrigger for TLC: neither builds nor calls are told    *)
(* apart.                                                                  *)
(***************************************************************************)
EXTENDS BuildTrigger, TLC

Symmetry == Permutations(Build) \cup Permutations(Call)
=============================================================================
