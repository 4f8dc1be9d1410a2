SPECIFICATION FairSpec
CONSTANTS
  Child = {c1}
  ConnLimit = 1
  Backlog = 1
  Foreground = FALSE
PROPERTY NoLockout
