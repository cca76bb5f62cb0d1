--------------------------- MODULE MCLocalServer ---------------------------
(***************************************************************************)
(* Instances of LocalServer for TLC.                                       *)
(***************************************************************************)
EXTENDS LocalServer, TLC

Symmetry == Permutations(Client) \cup Permutations(Server)
=============================================================================
