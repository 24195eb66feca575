------------------------------ MODULE MailingApp ------------------------------
(***************************************************************************)
(* Clients of the mailing application (ModuleClient.cpp) and their server. *)
(* The calls of sendPacket() are left to the reader of the exercise in     *)
(* this code: a client connects, goes through its requests without sending *)
(* them, and waits for an inbox that never comes.  What a client sends     *)
(* that makes the calls is added from outside, as Transmit.                *)
(***************************************************************************)
EXTENDS MailServer

CONSTANTS
  Client,
  SentType,     \* bound: types of the packets sent
  MaxPackets    \* bound: packets sent

ASSUME SentAssumption == SentType \subseteq PacketType /\ MaxPackets \in Nat

VARIABLES
  state,            \* [Client -> ClientState]
  messengerState,   \* [Client -> MessengerState]
  connSocket,       \* [Client -> its latest connection]
  nextConn,         \* the connection to be made next
  sentPackets       \* history: [Conn -> Seq of packets sent on it]

clientVars == << state, messengerState, connSocket, nextConn, sentPackets >>
mailVars   == << serverVars, connVars, clientVars >>

Init ==
  /\ ServerInit
  /\ state          = [k \in Client |-> "Disconnected"]
  /\ messengerState = [k \in Client |-> "SendingLogin"]
  /\ connSocket     = [k \in Client |-> NoConn]
  /\ nextConn       = 1
  /\ sentPackets    = [c \in Conn |-> <<>>]

-----------------------------------------------------------------------------
(* The Connect button and connectToServer(), which runs in the same frame. *)
Connect(k) ==
  /\ state[k] = "Disconnected"
  /\ running /\ nextConn <= MaxConns
  /\ state' = [state EXCEPT ![k] = "Connected"]
  /\ messengerState' = [messengerState EXCEPT ![k] = "SendingLogin"]
  /\ connSocket' = [connSocket EXCEPT ![k] = nextConn]
  /\ nextConn' = nextConn + 1
  /\ waiting' = Append(waiting, nextConn)
  /\ clientEnd' = [clientEnd EXCEPT ![nextConn] = "open"]
  /\ serverEnd' = [serverEnd EXCEPT ![nextConn] = "open"]
  /\ UNCHANGED << running, clients, inFrame, readable, receiving, allMessages, transit,
                  sentPackets >>

(* No one listens: the client disconnects what it never connected.         *)
ConnectFails(k) ==
  /\ state[k] = "Disconnected"
  /\ ~running
  /\ state' = [state EXCEPT ![k] = "Disconnecting"]
  /\ connSocket' = [connSocket EXCEPT ![k] = NoConn]
  /\ UNCHANGED << messengerState, nextConn, sentPackets, serverVars, connVars >>

(* updateMessenger() in the states a client without an inbox can be in.    *)
UpdateMessenger(k) ==
  messengerState' = [messengerState EXCEPT ![k] =
    CASE @ = "SendingLogin"       -> "RequestingMessages"
      [] @ = "RequestingMessages" -> "ReceivingMessages"
      [] OTHER                    -> @]

(* A frame of a connected client: it receives, nothing or the end of the   *)
(* connection, and goes to its next request.                               *)
ClientFrame(k) ==
  /\ state[k] = "Connected"
  /\ state' = [state EXCEPT ![k] =
       IF serverEnd[connSocket[k]] = "open" THEN @ ELSE "Disconnecting"]
  /\ UpdateMessenger(k)
  /\ UNCHANGED << connSocket, nextConn, sentPackets, serverVars, connVars >>

PressDisconnect(k) ==
  /\ state[k] = "Connected"
  /\ state' = [state EXCEPT ![k] = "Disconnecting"]
  /\ UNCHANGED << messengerState, connSocket, nextConn, sentPackets, serverVars, connVars >>

(* Nothing is ever on its way to a client, so that it closes in order.     *)
DisconnectFromServer(k) ==
  /\ state[k] = "Disconnecting"
  /\ state' = [state EXCEPT ![k] = "Disconnected"]
  /\ clientEnd' = [c \in Conn |-> IF c = connSocket[k] THEN "closed" ELSE clientEnd[c]]
  /\ UNCHANGED << messengerState, connSocket, nextConn, sentPackets, serverVars, transit,
                  serverEnd >>

(* The program of a client is killed, and started again: what it sent and  *)
(* the server has not read is lost.                                        *)
KillClient(k) ==
  LET c == connSocket[k] IN
  /\ state[k] = "Connected"
  /\ state' = [state EXCEPT ![k] = "Disconnected"]
  /\ messengerState' = [messengerState EXCEPT ![k] = "SendingLogin"]
  /\ clientEnd' = [clientEnd EXCEPT ![c] = "reset"]
  /\ transit' = [transit EXCEPT ![c] = <<>>]
  /\ UNCHANGED << connSocket, nextConn, sentPackets, serverVars, serverEnd >>

(* Where the packets are that were sent.                                   *)
Sent == UNION {{c} \X (1..Len(sentPackets[c])) : c \in Conn}

(* A client hands a packet to send(), framed as sendPacket() frames it.    *)
Transmit(k, type) ==
  LET c == connSocket[k]
      packet == [type |-> type, conn |-> c, number |-> Len(sentPackets[c]) + 1]
  IN  /\ state[k] = "Connected"
      /\ serverEnd[c] = "open"
      /\ Cardinality(Sent) < MaxPackets
      /\ transit' = [transit EXCEPT ![c] = @ \o Bytes(packet)]
      /\ sentPackets' = [sentPackets EXCEPT ![c] = Append(@, packet)]
      /\ UNCHANGED << state, messengerState, connSocket, nextConn, serverVars,
                      clientEnd, serverEnd >>

ClientUpdates(k) == ClientFrame(k) \/ DisconnectFromServer(k)

ServerUpdates == ServerFrame /\ UNCHANGED clientVars
ServerButtons == (StartServer \/ StopServer) /\ UNCHANGED clientVars

Next ==
  \/ ServerUpdates \/ ServerButtons
  \/ \E k \in Client :
       \/ Connect(k) \/ ConnectFails(k) \/ ClientUpdates(k) \/ PressDisconnect(k)
       \/ KillClient(k)
  \/ \E k \in Client, type \in SentType : Transmit(k, type)

Spec == Init /\ [][Next]_mailVars

(* Both programs update once in a frame, and never wait in it.             *)
FairSpec ==
  Spec /\ WF_mailVars(ServerUpdates) /\ \A k \in Client : WF_mailVars(ClientUpdates(k))

-----------------------------------------------------------------------------

Packet  == [type : PacketType, conn : Conn, number : 1..MaxPackets]
Message == {packet \in Packet : packet.type = "SendMessageRequest"}

ClientType ==
  [ socket : Conn, recvBuffer : Seq(Packet \X (1..PacketSize)),
    loggedIn : BOOLEAN, invalid : BOOLEAN ]

TypeOK ==
  /\ running \in BOOLEAN /\ inFrame \in BOOLEAN
  /\ waiting \in Seq(Conn)
  /\ clients \in Seq(ClientType)
  /\ readable \in Seq(Conn \cup {Listen})
  /\ receiving \in Conn \cup {NoConn}
  /\ allMessages \in Seq(Packet)
  /\ transit \in [Conn -> Seq(Packet \X (1..PacketSize))]
  /\ clientEnd \in [Conn -> {"none", "open", "closed", "reset"}]
  /\ serverEnd \in [Conn -> {"none", "open", "closed", "reset"}]
  /\ state \in [Client -> {"Disconnected", "Connected", "Disconnecting"}]
  /\ messengerState \in [Client -> {"SendingLogin", "RequestingMessages", "ReceivingMessages"}]
  /\ connSocket \in [Client -> Conn \cup {NoConn}]
  /\ nextConn \in 1..(MaxConns + 1)
  /\ sentPackets \in [Conn -> Seq(Packet)]

(* The server keeps exactly one record for each connection it has accepted *)
(* and not closed, whatever clients come and go in a frame and however     *)
(* often it is stopped: what the assertions of                             *)
(* createClientStateInfoForSocket() and getClientStateInfoForSocket() need.*)
RecordsMatchSockets ==
  /\ \A i, j \in 1..Len(clients) : clients[i].socket = clients[j].socket => i = j
  /\ {clients[i].socket : i \in 1..Len(clients)}
       = {c \in Conn : serverEnd[c] = "open" /\ c \notin Range(waiting)}
  /\ \A s \in Range(readable) \ {Listen} : \E i \in 1..Len(clients) : clients[i].socket = s

(* The messages of a connection are stored once each and in the order they *)
(* were sent, none missing in between, however their bytes arrive          *)
(* (handleIncomingDataFromClient(), insertMessage()).                      *)
StoredInOrder ==
  \A c \in Conn :
    IsPrefix(Kept(allMessages, {m \in Message : m.conn = c}),
             Kept(sentPackets[c], Message))

(* A message that was sent is stored, even when its client disconnects     *)
(* right after, unless the server is stopped, the client is killed, or the *)
(* server reads a part of a packet and stays in its loop for ever          *)
(* (handleIncomingDataFromClient()).                                       *)
MailArrives ==
  \A m \in Message :
    m \in Range(sentPackets[m.conn])
      ~> \/ m \in Range(allMessages)
         \/ Frozen
         \/ serverEnd[m.conn] # "open" \/ clientEnd[m.conn] = "reset"

=============================================================================
