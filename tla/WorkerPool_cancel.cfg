SPECIFICATION FairPoolSpec
CONSTANTS
  Worker = {w1, w2, w3, w4}
  N = 6
INVARIANTS
  AllHandled
  StrandedByDrops
PROPERTIES
  PoolSettles
CHECK_DEADLOCK FALSE
