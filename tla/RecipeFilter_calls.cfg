SPECIFICATION FilterSpec
CONSTANTS
  Artifact = {a1, a2, a3}
  Caller = {c1, c2}
  MaxBegun = 3
INVARIANTS
  OnlyWanted
  WantedFirst
SYMMETRY Symmetry
CHECK_DEADLOCK FALSE
