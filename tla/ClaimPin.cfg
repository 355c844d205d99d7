SPECIFICATION Spec
CONSTANTS
  p1 = p1
  p2 = p2
  p3 = p3
  k1 = k1
  o = o
  Unlimited = Unlimited
  None = None
  Poi = {p1, p2, p3, k1}
  Category = {"park", "cafe"}
  Place <- PlaceB
  DefaultVisit <- DefaultVisitB
  Origin = o
  Arc <- ArcB
  Granule = 30
  TourLength = 2
  Requests <- PinRequests
  HoursTables <- HoursB
  CandidateLimit = 2
  SolverProves = FALSE
  MaxReloads = 0
INVARIANT PinNeverDropped
CHECK_DEADLOCK FALSE
