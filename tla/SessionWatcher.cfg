SPECIFICATION FairSpec
CONSTANTS
  Sessions = {"f1", "f2"}
  Logs = {"f1"}
  Passes <- MCPasses
  Runs = {r1, r2}
  RepoOf <- MCRepoOf
  RawKey <- MCRawKey
  MarkKey <- MCMarkKey
  Known = {"f2"}
  Found = {"root"}
  Deletes <- MCThird
  MaxKeys = 1
  ScanLimit = 1
  AtStart = TRUE
  Faults = TRUE
  Gone <- MCThird
  Disposal = TRUE
CHECK_DEADLOCK FALSE
INVARIANTS FilteredWasSent ResentOnlyIfExposed
PROPERTY EveryActionSent
