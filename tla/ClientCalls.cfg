SPECIFICATION ClientFairSpec
CONSTANTS
  Publishers = {p1, p2}
  MaxRetries = 3
  MaxConns = 3
INVARIANTS NoOrphanConnection PublishWritesOnce RetriesAreFutile
PROPERTIES WatchedLossHealed CloseEndsWatch
CHECK_DEADLOCK FALSE
