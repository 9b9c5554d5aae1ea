SPECIFICATION Spec
CONSTANTS
  Task = {t1, t2}
  Name = {h}
  Cell = {c}
  Null = Null
  MaxDepth = 2
  MaxRc = 2
  MaxReady = 2
INVARIANT CancelledIsTruthful
CHECK_DEADLOCK FALSE
