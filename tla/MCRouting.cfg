SPECIFICATION FairSpec
CONSTANTS
  Mode = {"driving", "walking"}
  Tables <- CarAndFoot
  Tours <- Mixed
  Health = {"up", "failing", "hung"}
  Timeout = 1
  Attempts = 2
  Threshold = 2
  ResetAfter = 3
  MaxIdle = 2
  Plan = {p1}
  None = None
INVARIANTS
  CallsAreSpaced
  OpenMeansConsecutive
PROPERTIES
  OpenStaysOpen
  EveryPlanEnds
CHECK_DEADLOCK FALSE
