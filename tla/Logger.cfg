SPECIFICATION LoggerSpec
CONSTANTS
  g1 = g1
  g2 = g2
  Goroutines = {g1, g2}
  PerGoroutine = 2
  ChanSize = 1
  BatchSize = 2
  MaxRetries = 2
  Odd <- OneOdd
INVARIANTS FieldsOwnOrDiscarded FateIsUnique
PROPERTIES QueueIsFlushed
CHECK_DEADLOCK FALSE
