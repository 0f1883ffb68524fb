SPECIFICATION Spec
CONSTANTS
  N = 3
  Clients = {c1, c2}
  Lives = {1, 2}
  Second = 1
  Nobody = Nobody
  Stranger = Stranger
SYMMETRY Symmetry
INVARIANTS WholeLifeIsOwned
