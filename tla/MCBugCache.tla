----------------------------- MODULE MCBugCache -----------------------------
(***************************************************************************)
(* Instances of BugCache for TLC.                                          *)
(***************************************************************************)
EXTENDS BugCache, TLC

Symmetry == Permutations(Client) \cup Permutations(Task) \cup Permutations(Status)
=============================================================================
