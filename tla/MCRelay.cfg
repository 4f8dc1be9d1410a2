SPECIFICATION Spec
CONSTANTS
  Modes <- All
  MaxSent = 2
  MaxWindow = 2
INVARIANTS
  PassedInOrder
  BlockingRestored
PROPERTIES
  ImplementsPipe
