SPECIFICATION FairSpec
CONSTANTS
  Child = {c1, c2}
  ConnLimit = 2
  Backlog = 1
  Foreground = FALSE
PROPERTY EintrNeverFatal
