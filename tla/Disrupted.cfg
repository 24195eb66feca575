SPECIFICATION Spec
CONSTANTS
  Nodes = {0, 1}
  Items = {0, 1}
  InitialItems <- Swap
  ItemsPerNode = 2
  MaxAgents = 5
  GarbageIds = {0, 5}
  MaxClicks <- SearchCleared
  MaxFaults <- AnyFault
INVARIANTS
  ReservationInv
  BargainInv
  MarksExplained
  NoRefusedExchange
CHECK_DEADLOCK FALSE
