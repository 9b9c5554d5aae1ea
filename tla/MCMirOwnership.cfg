SPECIFICATION Spec
CONSTANTS
  Local = {s, t}
  Slice = {s, t}
  NoVal = NoVal
  Dialect <- AllDialects
  MaxStmt = 5
  MaxNest = 2
  MaxTask = 2
SYMMETRY LocalSymmetry
INVARIANTS
  TypeOK
  LivenessSolved
  DroppedUnused
  FaultExplained
  LostExplained
  Accepted
PROPERTY
  LiveGrows
CHECK_DEADLOCK FALSE
