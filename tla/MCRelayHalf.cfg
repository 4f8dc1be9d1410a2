SPECIFICATION Spec
CONSTANTS
  Modes <- Allow
  MaxSent = 2
  MaxWindow = 2
PROPERTIES
  AllSent
