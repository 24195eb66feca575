SPECIFICATION Spec
CONSTANTS
  IdBits = 2
  MaxAgents = 3
  MaxCreated = 9
  AgentId = {1, 258}
  ItemId = {0, 3}
  Location <- MCLocation
  NotSet <- MCNotSet
  MaxListed = 2
  StreamSize = 40
  Garbage = {7}
INVARIANTS
  SocketsServed
  FoundIsMeant
  ReadAsWritten
  ReadInside
PROPERTIES
  AgentsStopFirst
  StaysFound
CHECK_DEADLOCK FALSE
