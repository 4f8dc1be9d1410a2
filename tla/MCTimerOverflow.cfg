SPECIFICATION Spec
CONSTANTS
  MaxInt = 31
  MsPerSec = 2
  UsPerMs = 3
  IdleTimeout = 3
  SessionTimeout = 17
  BootTime = 50
  MaxBusy = 4
  Moves <- Never
  MaxMoves = 2
  MaxTime = 50
INVARIANTS
  InactivityTimeout
