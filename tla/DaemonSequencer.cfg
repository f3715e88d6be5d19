SPECIFICATION Spec
CONSTANTS
  push = push
  tag = tag
  diff = diff
  h1 = h1
  h2 = h2
  Commands = {push, tag, diff}
  Checkpoints = {h1, h2}
  Slotted = {push, tag}
  Mutating = {push}
  Worker = worker
  Capacity = 1
  Budgets <- MCBudgets
INVARIANTS
  TypeOK
  OneAtATimeUnlessCollected
  CheckpointAfterEarlier
  CommandsInStartOrder
  RunsOnce
  NoOrphanSlot
PROPERTIES
  AllServed
CHECK_DEADLOCK FALSE
