SPECIFICATION Spec
CONSTANTS
  Task = {t1, t2}
  Name = {h, h2}
  Cell = {}
  Null = Null
  MaxDepth = 2
  MaxRc = 3
  MaxReady = 3
SYMMETRY TaskSymmetry
INVARIANTS
  TypeOK
  FaultOnlyEscaped
  EveryReferenceCounted
  RunsOnce
CHECK_DEADLOCK FALSE
