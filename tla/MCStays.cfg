SPECIFICATION Spec
CONSTANTS
  Request = {q1, q2, q3, q4}
  Room = {r1}
  Call <- StayBodies
  MaxAmount = 2
  CheckInSchema = TRUE
  Faults = TRUE
  NULL = NULL
SYMMETRY Symmetry
INVARIANTS
  LocksBelongToOpenTransactions
  WaitsAreShort
  CheckedStatusIsNotStale
  OneCheckInPerBooking
  AcknowledgedCheckInHolds
  QuickCheckInAllOrNothing
  WalkInRoomIsNotAvailable
PROPERTIES
  BookingNeverMovesBack
