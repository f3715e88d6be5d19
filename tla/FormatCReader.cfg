SPECIFICATION Spec
CONSTANTS
  MaxEdits = 2
  Succeeds <- MCSucceeds
  Runs = {r1, r2}
  RepoOf <- MCRepoOf
  RawKey <- MCRawKey
  RepoKey <- MCRepoKey
  MaxKeys = 1
  Faults = TRUE
  Again = {"sub"}
CHECK_DEADLOCK FALSE
SYMMETRY RunSymmetry
INVARIANTS NoLineSkipped ReadsTile EditsAccounted AllReadAtRest
PROPERTY NoCheckpointAfterDispose
