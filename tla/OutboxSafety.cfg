SPECIFICATION Spec
CONSTANTS
  Orders = {o1, o2}
  Relays = {r1, r2}
  Times = {1, 2}
  BatchSize = 1
  Poison = {}
  Lossy = TRUE
  NoMsg = NoMsg
  MaxAborts = 1
SYMMETRY OrderSymmetry
INVARIANTS NoPhantomEvent KeptUntilPublished DuplicatesBounded
