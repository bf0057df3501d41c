SPECIFICATION Spec
CONSTANTS
  Sessions = {s1, s2}
  Ids = {i, j}
  None = None
  NoId = NoId
  MaxLaunches = 3
INVARIANT NobodyFindsDestroyed
INVARIANT LiveSessionIsFound
INVARIANT OnlyLateLaunchHurts
PROPERTY LockIsReleased
CHECK_DEADLOCK FALSE
