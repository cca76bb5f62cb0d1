SPECIFICATION Spec
CONSTANTS
  Run = {r1, r2}
  None = None
  MaxCommits = 2
  MaxFaults = 3
INVARIANTS
  SourceOnLP
  RefsProcessed
  CheckoutRestored
SYMMETRY Symmetry
CHECK_DEADLOCK FALSE
