SPECIFICATION FairSpec
CONSTANTS
  s1 = s1
  s2 = s2
  Session = {s1, s2}
  SlowBoots = {s2}
  Prefix <- MCPrefix
  Paths <- MCPaths
  Begins <- MCBegins
INVARIANTS ServedByItsOwn LiveHasBackends FinalPagesAreFinal
PROPERTY BootingPageResolves
