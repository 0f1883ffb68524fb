SPECIFICATION FairSpec
CONSTANTS
  Orders = {o1, o2}
  Relays = {r1}
  Times = {1, 2}
  BatchSize = 2
  Poison = {o1}
  Lossy = FALSE
  NoMsg = NoMsg
  MaxAborts = 1
PROPERTIES EventDeliverySpec EventuallyHandled StopEndsLoop
