SPECIFICATION FairSpec
CONSTANTS
  Uri = {u1}
  Text = {x, y, bad}
  Bad = {bad}
  Parse = {p1, p2, p3}
  None = None
INVARIANTS
  TypeOK
  NoEditMissed
  CleanIsConsistent
PROPERTY GetsIndexed
