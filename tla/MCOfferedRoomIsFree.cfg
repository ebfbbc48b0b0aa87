SPECIFICATION Spec
CONSTANTS
  Request = {q1, q2, q3}
  Room = {r1}
  Call <- SearchBodies
  MaxAmount = 2
  CheckInSchema = TRUE
  Faults = FALSE
  NULL = NULL
SYMMETRY Symmetry
PROPERTIES
  OfferedRoomIsFree
