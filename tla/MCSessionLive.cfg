SPECIFICATION FairSpec
CONSTANTS
  IdleTimeout = 1
  SessionTimeout = 0
  CpuUsage = TRUE
  MAX_RETRIES = 2
  CallTimeout = 1
  FlushTimeout = 0
  MaxSkips = 1
PROPERTIES
  StopEnds
  TooManyTriesEnd
  UsageEndsLogin
  ImplementsLifecycle
