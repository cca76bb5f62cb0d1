------------------------------ MODULE MCBugSync ------------------------------
(***************************************************************************)
(* Instances of BugSync for TLC: two source projects that share a          *)
(* Launchpad project, with a fix each and a partial fix of the first, and  *)
(* a run of one or of both.                                                *)
(***************************************************************************)
EXTENDS BugSync, TLC

CONSTANTS a, b, x, ka, kp, kb, r1, r2

MCLPOf == [p \in Project |-> {x}]
MCSeries == {1, 2}
MCStable == {1}
MCSupported == [l \in LP |-> {1, 2}]
MCFocus == [l \in LP |-> 2]
MCOnLP == Task
MCProjectOf == (ka :> a) @@ (kp :> a) @@ (kb :> b)
MCKindOf == (ka :> "Closes") @@ (kp :> "Partial") @@ (kb :> "Closes")

\* The branches of the three commits, the answers of the tags of a and b, and
\* whether the stable branch of a could be listed.
Seen(onA, onP, onB, tagA, tagB, listed) ==
  [on   |-> (ka :> onA) @@ (kp :> onP) @@ (kb :> onB),
   read |-> (a :> IF listed THEN {1} ELSE {}) @@ (b :> {1}),
   tags |-> [y \in Project \X Series |-> IF y[2] = 2 THEN {}
                                         ELSE IF y[1] = a THEN tagA ELSE tagB]]

\* A fix on main and on the stable branch, which is too old to count next to a
\* partial one, unless the branch is not listed; and a fix on the stable branches
\* that all revisions of a have, but not all of b.
MCEvidence ==
  {Seen({0, 1}, {0}, {0}, {}, {}, TRUE), Seen({0, 1}, {0}, {0}, {}, {}, FALSE),
   Seen({1}, {}, {1}, {TRUE}, BOOLEAN, TRUE)}

\* A bug of other projects; one that has a task of a series alone; and one with a
\* status that the evidence does not reach.
MCFound ==
  {None, (<<x, 1>> :> "In Progress") @@ None,
   (<<x, 0>> :> "Fix Released") @@ (<<x, 1>> :> "Fix Committed") @@ (<<x, 2>> :> "New")}
MCScope == {<<{a, b}, FALSE>>, <<{a}, TRUE>>}
Symmetry == Permutations(Run)
=============================================================================
