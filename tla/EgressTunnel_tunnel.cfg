SPECIFICATION FairSpec
CONSTANTS
  Allowlist <- Listed
  Requests <- AllRequests
  MaxChunks = 2
INVARIANTS NothingIsTruncated
PROPERTY TunnelsEnd
