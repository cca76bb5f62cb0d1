SPECIFICATION FairSpec
CONSTANTS
  Flow = {f1, f2}
  Caller = {c1, c2}
  NoFlow = NoFlow
  MaxFaults = 1
  MaxExpiries = 1
INVARIANTS
  TypeOK
  NothingLost
  RefreshKeepsLogin
PROPERTIES
  CallsReturn
CHECK_DEADLOCK FALSE
