SPECIFICATION Spec
CONSTANTS
  Pair = {p1, p2, p3, p4}
  ChunkSize = 2
  MemoryFails = TRUE
INVARIANTS
  NoPairTwice
PROPERTY ImplementsSet
