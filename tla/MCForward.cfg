SPECIFICATION FairSpec
CONSTANTS
  Pair = {p1, p2}
  Channel = {c1, c2, c3}
  NoPair = NoPair
  NoChannel = NoChannel
  Modes = {"ALLOW", "FAKE", "NULL", "ECHO"}
  ChunkSize = 1
  MemoryFails = TRUE
INVARIANTS
  TypeOK
  CallbacksFindPair
  NothingLeaks
  SnapshotValid
  EofPassedOn
PROPERTIES
  OpenPairKept
  FreedOnceUnlessRefused
  PoolUsed
  EofReleases
