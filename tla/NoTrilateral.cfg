SPECIFICATION FairSpec
CONSTANTS
  Nodes = {0, 1, 2}
  Items = {0, 1, 2}
  InitialItems <- Ring
  ItemsPerNode = 3
  MaxAgents = 7
  GarbageIds = {0}
  MaxClicks <- OneSearch
  MaxFaults <- NoFault
PROPERTIES
  TrilateralFound
