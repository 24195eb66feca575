SPECIFICATION Spec
CONSTANTS
  Nodes = {0, 1, 2}
  Items = {0, 1, 2}
  InitialItems <- Market
  ItemsPerNode = 3
  MaxAgents = 8
  GarbageIds = {0}
  MaxClicks <- TwoSearches
  MaxFaults <- NoFault
INVARIANTS
  FairTrade
  Conservation
  NoOrphans
  Agreement
  ListedContributes
PROPERTIES
  ImplementsBarter
