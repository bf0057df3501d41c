SPECIFICATION Spec
CONSTANTS
  Commands = {"initialize", "configurationDone", "disconnect"}
  Misfits = {}
  MaxRequests = 2
PROPERTY ClosedSessionEnds
CHECK_DEADLOCK FALSE
