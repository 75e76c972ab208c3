SPECIFICATION InjectorSpec
CONSTANTS
  Environment <- MCEnvironment
  AsnSpace = 8
  PhaseCount = 8
INVARIANTS
  TypeOK
  AdvertisesThePrefix
  SentinelAndPool
\* The process ends.
CHECK_DEADLOCK FALSE
