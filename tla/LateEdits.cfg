SPECIFICATION Spec
CONSTANTS
  a1 = a1
  a2 = a2
  h = h
  f1 = f1
  Agents = {a1, a2}
  Human = h
  Files = {f1}
  MaxLines = 2
  Place <- MCPlace
  MaxCommits = 2
  Budgets <- MCBudgets
CHECK_DEADLOCK FALSE
INVARIANT LateEditsCaptured
