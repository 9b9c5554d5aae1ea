CONSTANTS
  p1 = p1
  p2 = p2
  p3 = p3
  Pkg = {p1, p2, p3}
  Releases <- Graphs
  Plain <- PlainOf
  Archive <- ArchiveOf
  ByName <- Names
  None = None
  MaxDepth = 2
  MaxBuild = 2
SPECIFICATION FairSpec
INVARIANTS TypeOK GraphsClosed Complete NothingToDetect ErrorJustified
PROPERTY BuildEnds
CHECK_DEADLOCK FALSE
