SPECIFICATION FairSpec
CONSTANTS
  Publish = {p1, p2, p3}
  Manifest = {1, 4}
  Grace = 2
  LongQueues = TRUE
  DbFails = TRUE
INVARIANTS OneBuildAtATime ReportedBuildIsPinned PublishedMatchesManifest
PROPERTIES GuestsKeepTheirVersion BuildsSettle
