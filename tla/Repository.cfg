SPECIFICATION WriteSpec
CONSTANTS
  Obs = {o1, o2, o3}
  Attempts = 3
INVARIANT
  TypeOK
PROPERTIES
  KeepsPromise
  CallEnds
\* A call ends.
CHECK_DEADLOCK FALSE
