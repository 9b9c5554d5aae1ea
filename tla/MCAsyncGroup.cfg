SPECIFICATION FairSpec
CONSTANTS
  Var = {x, y}
  N = 3
  None = None
INVARIANTS
  IInv
  ReadsAsWritten
  EndsAsWritten
  AwaitedOnce
  NoTaskLeftBehind
  OverlapKept
PROPERTY GroupEnds
CHECK_DEADLOCK FALSE
