SPECIFICATION Spec
CONSTANTS
  MaxInt = 31
  MsPerSec = 2
  UsPerMs = 3
  IdleTimeout = 2
  SessionTimeout = 3
  BootTime = 50
  MaxBusy = 4
  Moves <- ForwardAndBack
  MaxMoves = 2
  MaxTime = 40
INVARIANTS
  TypeOK
  NotEarly
  NotLate
