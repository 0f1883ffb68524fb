SPECIFICATION Spec
CONSTANTS
  Instances = {i1, i2}
  Requests = {r1, r2}
  Tokens = {t1}
  RedisFails = FALSE
  DbFails = TRUE
INVARIANT ReplayRefused
