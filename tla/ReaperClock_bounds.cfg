CONSTANTS
  Idle = 2
  MaxRuntime = 3
  CrashGrace = 2
  FailureLinger = 2
  Interval = 1
  BootLimit = 1
  Work = 2
  ScrapeFails = TRUE
  CheckFails = TRUE
  TeardownFails = TRUE
  TraefikRestarts = TRUE
  Horizon = 10
  MaxRequests = 1
SPECIFICATION Spec
  
PROPERTIES IdleReapsQuiet CrashHonoursGrace
