SPECIFICATION Spec
CONSTANTS
  Commands = {"initialize", "launch", "next", "disconnect", "configurationDone"}
  Misfits = {"disconnect"}
  MaxRequests = 3
INVARIANT AnswersInOrder
INVARIANT RequestsAccountedFor
INVARIANT EndingIsTheLastUse
PROPERTY DestructionEnds
PROPERTY TerminationIsServed
PROPERTY AcceptedIsAnswered
CHECK_DEADLOCK FALSE
