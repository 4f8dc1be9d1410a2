SPECIFICATION Spec
CONSTANTS
  IdleTimeout = 2
  SessionTimeout = 4
  CpuUsage = TRUE
  MAX_RETRIES = 3
  CallTimeout = 2
  FlushTimeout = 1
  MaxSkips = 1
INVARIANTS
  TypeOK
  ReleasedInOrder
  NoWaitAfterExpiry
  ClosedWaitBounded
