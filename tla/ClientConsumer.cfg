SPECIFICATION ClientFairSpec
CONSTANTS
  Publishers = {p1}
  MaxRetries = 2
  MaxConns = 3
PROPERTY ConsumerKeepsReading
CHECK_DEADLOCK FALSE
