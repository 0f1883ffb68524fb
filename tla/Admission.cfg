SPECIFICATION Spec
CONSTANTS
  Requests = {r1, r2}
  Tokens = {t1}
  NoToken = NoToken
  CacheExpiration = 2
  Rate = 1
  Capacity = 2
  MaxLate = 2
  MaxTries = 2
INVARIANTS RateWithinBudget
PROPERTIES RevokedAgesOut RevocationTakesEffect
