SPECIFICATION Spec
CONSTANTS
  Task = {t1}
  Name = {h, h2}
  Cell = {}
  Null = Null
  MaxDepth = 1
  MaxRc = 2
  MaxReady = 2
INVARIANT ResultOwnedOnce
CHECK_DEADLOCK FALSE
