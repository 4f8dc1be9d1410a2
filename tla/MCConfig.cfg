SPECIFICATION Spec
CONSTANTS
  MaxInt = 524287
  Numbers <- Edges
  Junk = Junk
  Strings <- Two
  MaxOptions = 3
INVARIANTS
  AcceptedUsable
  MeansWhatWasGiven
