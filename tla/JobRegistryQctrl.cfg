SPECIFICATION Spec
CONSTANTS
  Jobs = {j1}
  Checkers = {c1}
  NoRow = NoRow
  NoCheck = NoCheck
INVARIANT AcceptedStaysQueued
CHECK_DEADLOCK FALSE
