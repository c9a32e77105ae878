CONSTANTS
  Worker = {w1}
  Client = {c1, c2}
  Size = 3
  ElementsPerThread = 1
  MaxElementsPerThread = 2
  MaxTag = 5
SPECIFICATION FairSpec
INVARIANTS TypeOK EachNodeOnce SizesExact
PROPERTIES OperationsEnd
CHECK_DEADLOCK FALSE
