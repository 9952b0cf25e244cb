SPECIFICATION FairSpec
CONSTANTS
  Play = {g1}
  Publish = {o1}
  Services <- MCServices
  RepoOf <- MCRepoOf
  MaxCommit = 2
  Pushed = {"shop.git"}
  MaxImages = 2
  Restarts = TRUE
INVARIANTS CachedIsOnHost  NoMixedRevisions
PROPERTIES NewcomerStays JobsEnd
