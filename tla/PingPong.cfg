SPECIFICATION FairSpec
CONSTANTS
  Client = {c1, c2, c3}
  Nobody = nobody
  MaxPings = 2
  Rounds = 3
  PingSize = 2
  MaxWaiting = 1
  MaxKills = 2
INVARIANTS
  TurnsTaken
  RoundsComplete
PROPERTIES
  PingsAnswered
  ClientsLetGo
CHECK_DEADLOCK FALSE
