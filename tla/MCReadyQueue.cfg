CONSTANTS
  Task = {t1, t2}
  Null = Null
  Junk = Junk
  InitCap = 2
  MaxOutstanding = 5
SPECIFICATION Spec
INVARIANT TypeOK
PROPERTY Refines
