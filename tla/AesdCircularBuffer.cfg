SPECIFICATION Spec
CONSTANTS
  MaxOps = 10
  NULL = NULL
  p1 = p1
  p2 = p2
  Entries <- TwoEntries
INVARIANTS
  TypeOK
  ShapeOK
  FindMatchesConcatenation
PROPERTIES
  ReturnsWhatItDrops
  ImplementsRecentEntries
