SPECIFICATION Spec
CONSTANTS
  Local = {s, t}
  Slice = {}
  NoVal = NoVal
  Dialect <- BreakDialect
  MaxStmt = 4
  MaxNest = 2
  MaxTask = 2
SYMMETRY LocalSymmetry
INVARIANT
  FreedOnce
CHECK_DEADLOCK FALSE
