SPECIFICATION Spec
CONSTANTS
  Requests = {r1, r2, r3}
  NULL = NULL
  Values <- MCValues
  Homes <- MCHomes
  InRegion <- MCInRegion
  Known <- MCKnown
  Bodies <- MCBodies
  Blank <- MCBlank
SYMMETRY RequestSymmetry
PROPERTIES
  OnlySentChanges
  HomeChangesWhole
CHECK_DEADLOCK FALSE
