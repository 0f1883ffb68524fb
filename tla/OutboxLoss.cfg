SPECIFICATION Spec
CONSTANTS
  Orders = {o1}
  Relays = {r1}
  Times = {1}
  BatchSize = 1
  Poison = {}
  Lossy = TRUE
  NoMsg = NoMsg
  MaxAborts = 1
INVARIANT AtLeastOnce
