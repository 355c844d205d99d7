SPECIFICATION Spec
CONSTANTS
  Account = {a, b}
  MaxPlans = 1
  MaxTokens = 2
  MaxMade = 2
  MaxFlights = 2
  None = None
SYMMETRY Emails
INVARIANT Inv
PROPERTIES
  OnlyLateAnswersMislead
  LostOnlyIfRejected
CHECK_DEADLOCK FALSE
