SPECIFICATION RatioSpec
CONSTANTS
  MaxLines = 4
  MaxCommits = 3
INVARIANTS
  SumsOK
  ExtensionRatioInUnit
  RatioAtMostOne
CHECK_DEADLOCK FALSE
