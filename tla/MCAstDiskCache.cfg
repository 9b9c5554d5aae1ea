SPECIFICATION Spec
CONSTANTS
  Key = {k1, k2, k3, k4, k5}
  Proc = {p1, p2}
  Capacity = 1
  Faults = 1
  None = None
SYMMETRY Symmetry
INVARIANTS
  TypeOK
  EntriesWhole
  TmpKept
  Bounded
  EvictTrims
  PutSticks
