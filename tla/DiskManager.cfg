CONSTANTS
  Disk = {d1, d2}
  NumPoints = 2
  MaxPlugs = 1
  MaxQueue = 1
SPECIFICATION Spec
INVARIANTS
  AgreesAtRest
  ListedIsMounted
CHECK_DEADLOCK FALSE
