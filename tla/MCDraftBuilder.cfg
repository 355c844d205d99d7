SPECIFICATION FairSpec
CONSTANTS
  Gazetteer <- Places
  Drafts <- Said
  Minutes = {0, 599, 1199, 1201, 1259, 1439}
  Garbled = Garbled
  Unclear = Unclear
  None = None
INVARIANTS
  Inv
  PlacesAskedForReason
PROPERTY EndsUnlessAmbiguous
CHECK_DEADLOCK FALSE
