SPECIFICATION ClientFairSpec
CONSTANTS
  Publishers = {p1}
  MaxRetries = 2
  MaxConns = 3
PROPERTY EveryLossHealed
CHECK_DEADLOCK FALSE
