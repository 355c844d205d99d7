SPECIFICATION FairSpec
CONSTANTS
  Requests = {r1, r2, r3}
  Emails = {ann}
  MaxDays = 1
INVARIANTS
  PlanIsWhole
  OwnersExist
  DeletedIsGone
  OneAccountPerEmail
  ReadIsWholeOrGone
PROPERTIES
  EventuallyAnswered
  ImplementsPlanBook
CHECK_DEADLOCK FALSE
