SPECIFICATION Spec
CONSTANTS
  Texts = {bell, ghz, empty}
  Empty = empty
  Json = json
  None = none
  MaxImports = 4
  MaxRenders = 2
  MaxLoads = 2
INVARIANT SceneIsCurrent
INVARIANT ShownIsAlive
INVARIANT LeakNeedsOverlap
INVARIANT StatusTellsSource
CHECK_DEADLOCK FALSE
