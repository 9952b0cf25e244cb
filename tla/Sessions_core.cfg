CONSTANTS
  Session = {s1, s2, s3}
  MaxSessions = 2
  DockerFails = FALSE
  ReapsBooting = FALSE
  ShutsDown = TRUE
SPECIFICATION Spec
SYMMETRY Ids
INVARIANTS ActiveWithinCap StacksWithinCap FailedBootLeavesNothing LiveIsReachable CleanExit
