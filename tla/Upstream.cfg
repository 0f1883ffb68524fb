SPECIFICATION Spec
CONSTANTS
  Requests = {r1, r2}
  MaxRetries = 2
  HalfOpenMaxSuccesses = 2
  None = None
INVARIANTS OneBreaker SendsBounded
PROPERTIES RequestEnds GaugesSettle BreakerRecovers
