SPECIFICATION Spec
CONSTANTS
  Signals <- All
  MaxSignals = 3
  MaxDead = 2
PROPERTIES
  StopSeen
