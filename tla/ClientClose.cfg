SPECIFICATION ClientSpec
CONSTANTS
  Publishers = {p1}
  MaxRetries = 2
  MaxConns = 3
INVARIANT CloseLeavesNothing
CHECK_DEADLOCK FALSE
