SPECIFICATION Spec
CONSTANTS
  N = 3
  Clients = {c1, c2}
  Lives = {1, 3}
  Second = 2
  Nobody = Nobody
  Stranger = Stranger
SYMMETRY Symmetry
INVARIANTS ExtendedIsOwned
