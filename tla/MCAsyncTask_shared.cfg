SPECIFICATION Spec
CONSTANTS
  Task = {t1, t2}
  Name = {h}
  Cell = {c}
  Null = Null
  MaxDepth = 2
  MaxRc = 3
  MaxReady = 2
INVARIANTS
  IInv
  AwaitsAgree
PROPERTY
  CalledWithin
CHECK_DEADLOCK FALSE
