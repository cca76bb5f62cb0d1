--------------------------- MODULE MCRecipeFilter ---------------------------
(***************************************************************************)
(* Instances of RecipeFilter for TLC.                                      *)
(***************************************************************************)
EXTENDS RecipeFilter, TLC

Symmetry == Permutations(Artifact)
=============================================================================
