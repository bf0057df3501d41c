SPECIFICATION Spec
CONSTANTS
  Programs <- MCPrograms
  InitialLines <- MCInitialLines
  BreakpointSets <- MCBreakpointSets
  MaxLine = 4
  MaxLaunches = 2
  ContinueGuard = 4
INVARIANT ExecutedInOrder
INVARIANT InstructionModeLine
INVARIANT TerminatedMeansDone
INVARIANT ContinueSkipsNoBreakpoint
PROPERTY ContinueFindsNext
PROPERTY NextMakesProgress
PROPERTY ContinueReturns
CHECK_DEADLOCK FALSE
