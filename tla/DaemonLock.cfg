SPECIFICATION Spec
CONSTANTS
  push = push
  tag = tag
  diff = diff
  h1 = h1
  h2 = h2
  Commands = {push, tag, diff}
  Checkpoints = {h1, h2}
  Slotted = {push, tag}
  Mutating = {push}
  Worker = worker
  Capacity = 2
  Budgets <- MCBudgets
INVARIANTS
  OneAtATime
CHECK_DEADLOCK FALSE
