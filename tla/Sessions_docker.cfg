CONSTANTS
  Session = {s1, s2}
  MaxSessions = 1
  DockerFails = TRUE
  ReapsBooting = FALSE
  ShutsDown = FALSE
SPECIFICATION FairSpec
INVARIANTS ServedStacksStayVisible
PROPERTIES ImplementsLifecycle SessionsEnd
