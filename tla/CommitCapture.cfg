SPECIFICATION Spec
CONSTANTS
  MaxMoves = 2
  Kinds = {"commit", "amend", "cherry-pick", "pull"}
  HasFlock = TRUE
  Faults = TRUE
CHECK_DEADLOCK FALSE
INVARIANTS OneHookAtATime PostedSawNote SpacedCommitsCaptured OverwrittenOnlyBesideExtension
