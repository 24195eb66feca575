SPECIFICATION FairSpec
CONSTANTS
  MaxConns = 2
  HeaderSize = 1
  BodySize = 2
  RecvChunkSize = 4
  Client = {k1, k2}
  SentType = {"LoginRequest", "SendMessageRequest"}
  MaxPackets = 2
INVARIANTS
  TypeOK
  RecordsMatchSockets
  StoredInOrder
PROPERTIES
  MailArrives
CHECK_DEADLOCK FALSE
