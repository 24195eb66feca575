SPECIFICATION Spec
CONSTANTS
  Nodes = {0, 1}
  Items = {0, 1, 2}
  InitialItems <- Swap
  ItemsPerNode = 3
  MaxAgents = 8
  GarbageIds = {0}
  MaxClicks <- Shopping
  MaxFaults <- NoFault
INVARIANTS
  TypeOK
  ExclusiveNegotiation
  ReservationExact
  NodeWealth
  ExchangeJustified
  PayerAlive
CHECK_DEADLOCK FALSE
