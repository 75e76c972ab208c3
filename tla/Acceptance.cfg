SPECIFICATION Spec
CONSTANTS
  None = None
  MaxRuns = 2
INVARIANTS
  PlanConsistent
  ReroutesAroundOneLink
  Restored
  OneFaultAtATime
PROPERTIES
  PassedMeansReal
  QuietTestPasses
CHECK_DEADLOCK FALSE
