SPECIFICATION Spec
CONSTANTS
  f1 = f1
  f2 = f2
  Files = {f1, f2}
  Place <- MCPlace
  MaxAI = 2
  MaxHuman = 1
  MaxCommits = 3
  MaxSteps = 6
SYMMETRY FileSymmetry
CHECK_DEADLOCK FALSE
INVARIANTS NoteNamesWriter NoteComplete UncommittedKnown StashKnown OnlyHeadLog
