SPECIFICATION Spec
CONSTANTS
  Build = {b1, b2, b3}
  Call = {c1, c2}
  RetryLater = FALSE
  MaxCalls = 3
  MaxErrors = 2
INVARIANTS
  EffectiveCall
  DuplicateHasCause
SYMMETRY Symmetry
CHECK_DEADLOCK FALSE
