SPECIFICATION Spec
CONSTANTS
  Device = {d1}
  Ethernet = {}
  OtherInterface = {i1, i2}
  Neighbor = {neighbor}
  State = {up}
  Partial = Partial
  Absent = Absent
  Deleted = Deleted
  Capacity = 1
  NoBatch = NoBatch
  MaxMessages = 4
INVARIANT RemovalIsRecorded
CHECK_DEADLOCK FALSE
SYMMETRY AnyInterface
