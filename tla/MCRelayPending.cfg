SPECIFICATION FairSpec
CONSTANTS
  Modes <- Channel
  MaxSent = 2
  MaxWindow = 2
PROPERTIES
  PendingFlushed
