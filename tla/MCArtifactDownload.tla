------------------------- MODULE MCArtifactDownload -------------------------
(***************************************************************************)
(* Instances of ArtifactDownload for TLC: three files, the first and the   *)
(* last of them with the same destination.                                 *)
(***************************************************************************)
EXTENDS ArtifactDownload

CONSTANTS d1, d2

TwoDests == {d1, d2}

FirstAndLast == [f \in File |-> IF f = 2 THEN d2 ELSE d1]
=============================================================================
