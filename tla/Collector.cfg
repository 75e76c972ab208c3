SPECIFICATION Spec
CONSTANTS
  Device = {d1, d2}
  Ethernet = {ethernet}
  OtherInterface = {}
  Neighbor = {neighbor}
  State = {up}
  Partial = Partial
  Absent = Absent
  Deleted = Deleted
  Capacity = 3
  NoBatch = NoBatch
  MaxMessages = 4
INVARIANTS
  ExporterMirrorsCache
  HistoryFollowsSession
  LossAtStopBounded
\* The workers and the sink thread end.
CHECK_DEADLOCK FALSE
SYMMETRY AnyDevice
