SPECIFICATION Spec
CONSTANTS
  Request = {q1, q2}
  Room = {r1}
  Call <- StayBodies
  MaxAmount = 2
  CheckInSchema = TRUE
  Faults = FALSE
  NULL = NULL
SYMMETRY Symmetry
PROPERTIES
  CheckOutIsCompleted
