SPECIFICATION Spec
CONSTANTS
  interface = interface
  neighbor = neighbor
  admin = admin
  oper = oper
  session = session
  prefixes = prefixes
  old = old
  new = new
  NoValue = NoValue
  Leaf <- MCLeaf
  Key <- MCKey
  Owner <- MCOwner
  Value <- MCValue
  DeletePath <- MCDeletePath
  Notification <- MCNotification
  MaxNotifications = 3
INVARIANTS
  TypeOK
  Converged
  ObservedAtCoversLeaves
PROPERTY ReportsEveryChange
SYMMETRY Symmetry
