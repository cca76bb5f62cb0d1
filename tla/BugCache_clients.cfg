SPECIFICATION Spec
CONSTANTS
  Task = {t1, t2}
  Status = {open, fixed}
  Absent = Absent
  Client = {c1, c2}
  MaxEdits = 3
INVARIANTS
  NothingForgotten
SYMMETRY Symmetry
CHECK_DEADLOCK FALSE
