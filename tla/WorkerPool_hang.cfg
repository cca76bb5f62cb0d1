SPECIFICATION FairPoolSpec
CONSTANTS
  Worker = {w1, w2, w3, w4}
  N = 6
PROPERTIES
  PoolReturns
CHECK_DEADLOCK FALSE
