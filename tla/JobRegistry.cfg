SPECIFICATION Spec
CONSTANTS
  Jobs = {j1, j2}
  Checkers = {c1, c2}
  NoRow = NoRow
  NoCheck = NoCheck
INVARIANT DoneHasCounts
INVARIANT NothingLeftUndecided
PROPERTY DoneIsFinal
CHECK_DEADLOCK FALSE
