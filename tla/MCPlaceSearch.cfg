SPECIFICATION SearchSpec
CONSTANTS
  None = None
  Text <- Texts
  Short <- TooShort
  Finds <- Found
  MaxSearch = 4
INVARIANT LateOnlyWhenGivenUp
PROPERTY SearchEnds
CHECK_DEADLOCK FALSE
