SPECIFICATION Spec
CONSTANTS
  Request = {q1, q2, q3}
  Room = {r1}
  Call <- HandlerBodies
  MaxAmount = 2
  CheckInSchema = TRUE
  Faults = TRUE
  NULL = NULL
SYMMETRY Symmetry
INVARIANTS
  TypeOK
PROPERTIES
  LedgerSpec
