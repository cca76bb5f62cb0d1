---------------------------- MODULE MCBuildWait ----------------------------
(***************************************************************************)
(* Instances of BuildWait for TLC: builds b1 and b2, of the same recipe or *)
(* of one recipe each.                                                     *)
(***************************************************************************)
EXTENDS BuildWait

CONSTANTS b1, b2

TwoBuilds == {b1, b2}

OneEach == [b \in Build |-> IF b = b1 THEN 1 ELSE 2]

SameRecipe == [b \in Build |-> 1]
=============================================================================
