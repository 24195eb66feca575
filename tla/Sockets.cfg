SPECIFICATION FairSpec
CONSTANTS
  HeaderSize = 2
  StreamCapacity = 2
  Process <- MCProcess
  Conn <- MCConn
  ClientOf <- MCClientOf
  ServerOf <- MCServerOf
  Request <- MCRequest
  Packet <- MCPacket
  Replies <- MCReplies
  BatchSize = 2
  SendPieces = {3}
  Quitters <- MCProcess
  Backlog = 1
  FinalRounds = 1
INVARIANTS
  TypeOK
  NoPacketLeftBehind
  LeakedByPeer
  SelectedExactly
PROPERTIES
  ImplementsPacketStreams
  RequestsArrive
CHECK_DEADLOCK FALSE
