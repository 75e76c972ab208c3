SPECIFICATION Spec
CONSTANTS
  Device = {d1, d2, d3}
  Workers = 2
  Commands = 2
INVARIANTS
  ExitCodeHonest
  FailuresIsolated
  SuccessMeansStored
  StoredIsPrefix
\* Caller and task end.
CHECK_DEADLOCK FALSE
