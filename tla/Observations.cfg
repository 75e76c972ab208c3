SPECIFICATION Spec
CONSTANTS
  Missing = Missing
  Unsupported = Unsupported
  Ethernets = {"Ethernet1"}
  Loopbacks = {"Loopback0"}
  Neighbors = {"peer"}
  Octets <- MCOctets
  Counts = {0, 900}
INVARIANTS
  SeriesSayWhatWasTold
  TransportsAgree
PROPERTY AppearsWhole
