SPECIFICATION Spec
CONSTANTS
  Requests = {r1, r2}
  Names = {n1}
  Passwords = {p1, p2}
  ClientIds = {c1}
  SeedNames = {n1}
  SeedPassword = p1
  SeedClients = {c1}
  MaxUsers = 3
  MaxClients = 3
  MaxRows = 4
  None = None
SYMMETRY Symmetry
INVARIANT RefusedOnMerits
