CONSTANTS
  Request = {q1, q2}
  PoolMax <- MCPoolMax
  MultiDatabase = TRUE
  RetryAttempts = 1
  NULL = NULL
SPECIFICATION Spec
INVARIANT TypeOK
INVARIANT PoolsExistAndSuffice
INVARIANT AnsweredHoldsNoTransaction
INVARIANT AnswerTellsTheOutcome
INVARIANT LoggingNeverFailsARequest
INVARIANT CircularWaitNeedsTheSharedPool
PROPERTY StartUpEnds
PROPERTY EveryRequestIsAnswered
CHECK_DEADLOCK FALSE
