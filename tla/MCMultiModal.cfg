SPECIFICATION Spec
CONSTANTS
  o = o
  a = a
  b = b
  None = None
  Point = {o, a, b}
  Maps <- BothMaps
  Area <- AreaA
  Requests <- Asked
INVARIANTS
  Inv
  OneArcTwoWays
PROPERTY RefetchAgrees
CHECK_DEADLOCK FALSE
