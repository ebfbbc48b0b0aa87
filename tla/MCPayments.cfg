SPECIFICATION Spec
CONSTANTS
  Request = {q1, q2, q3, q4}
  Room = {r1}
  Call <- PaymentBodies
  MaxAmount = 2
  CheckInSchema = TRUE
  Faults = TRUE
  NULL = NULL
SYMMETRY Symmetry
INVARIANTS
  SummaryAgreesWithHistory
  AcknowledgedPaymentIsCounted
