SPECIFICATION Spec
CONSTANTS
  Nodes = {0, 1}
  Items = {0, 1}
  InitialItems <- Swap
  ItemsPerNode = 2
  MaxAgents = 5
  GarbageIds = {0}
  MaxClicks <- OneOffer
  MaxFaults <- YellowPagesClosed
INVARIANTS
  ExchangeJustified
