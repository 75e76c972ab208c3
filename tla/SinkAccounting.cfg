SPECIFICATION Spec
CONSTANTS
  Capacity = 2
  NoBatch = NoBatch
  MaxPuts = 5
  MaxSize = 2
INVARIANTS
  StoredInOrder
  Accounted
  DrainedBeforeExit
PROPERTY StopEndsThread
\* The process ends.
CHECK_DEADLOCK FALSE
