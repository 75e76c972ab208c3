SPECIFICATION Spec
CONSTANTS
  Silence = 7
  FreshFor = 7
  DialTimeout = 3
  MaxDelay = 3
  SamplePeriod = 2
  MaxFaults = 2
INVARIANTS
  ConnectedMeansHeard
  StopsInTime
  RecoversInTime
PROPERTY Recovers
\* The worker ends after the stop event.
CHECK_DEADLOCK FALSE
