SPECIFICATION Spec
CONSTANTS
  a = a
  b = b
  x = x
  ka = ka
  kp = kp
  kb = kb
  r1 = r1
  r2 = r2
  Project = {a, b}
  LP = {x}
  LPOf <- MCLPOf
  Series <- MCSeries
  Stable <- MCStable
  Supported <- MCSupported
  Focus <- MCFocus
  OnLP <- MCOnLP
  Commit = {ka, kp, kb}
  ProjectOf <- MCProjectOf
  KindOf <- MCKindOf
  Evidence <- MCEvidence
  Found <- MCFound
  Scope <- MCScope
  Run = {r1, r2}
  MaxEvents = 1
INVARIANTS
  ReleasedIsShipped
  PlanIsWhatRuns
  CleanMeansDone
PROPERTIES
  NeverLowered
SYMMETRY Symmetry
CHECK_DEADLOCK FALSE
