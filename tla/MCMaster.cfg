SPECIFICATION FairSpec
CONSTANTS
  Child = {c1, c2, c3}
  ConnLimit = 2
  Backlog = 1
  Foreground = TRUE
INVARIANTS
  TypeOK
  DeathsCountedOnce
  LimitRespected
  TwoTombsEnough
PROPERTIES
  ImplementsAdmission
  ZombiesReaped
  StopObeyed
  EintrHarvests
