SPECIFICATION ServerSpec
CONSTANTS
  Client = {c1, c2}
  Server = {s1, s2}
  NoServer = NoServer
  MaxFailures = 1
INVARIANTS
  OneServer
CHECK_DEADLOCK FALSE
SYMMETRY Symmetry
