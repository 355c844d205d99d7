SPECIFICATION FairSpec
CONSTANTS
  p1 = p1
  p2 = p2
  p3 = p3
  o = o
  Unlimited = Unlimited
  None = None
  Poi = {p1, p2, p3}
  Category = {"park", "cafe", "lake"}
  Place <- PlaceA
  DefaultVisit <- DefaultVisitA
  Origin = o
  Arc <- ArcA
  Granule = 30
  TourLength = 2
  Requests <- RequestsA
  HoursTables <- HoursA
  CandidateLimit = 2
  SolverProves = FALSE
  MaxReloads = 1
INVARIANTS
  NoPoiRepeated
  SavedHonoursRequest
  TimetableCanBeKept
  SavedIsReported
  RelaxationStaysWellFormed
  ValidatorAgreesWithSolver
  StaleOnlyAfterReading
PROPERTIES
  ImplementsTrip
  EventuallyAnswered
CHECK_DEADLOCK FALSE
