SPECIFICATION Spec
CONSTANTS
  Request = {q1, q2, q3}
  Room = {r1}
  Call <- LockBodies
  MaxAmount = 2
  CheckInSchema = TRUE
  Faults = FALSE
  NULL = NULL
PROPERTIES
  EveryRequestAnswered
