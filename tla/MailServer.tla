------------------------------ MODULE MailServer ------------------------------
(***************************************************************************)
(* The server of the mailing application (ModuleServer.cpp) and the        *)
(* connections it reads from.  In every frame it selects the sockets that  *)
(* have something to read, accepts or receives from each of them, hands    *)
(* over the packets a buffer holds and deletes the clients that are gone.  *)
(*                                                                         *)
(* A packet on its way is a sequence of bytes; a byte is a packet and a    *)
(* position in it, since no byte but those of the size is looked at while  *)
(* packets are told apart.  The size counts the header, too.               *)
(***************************************************************************)
EXTENDS Integers, Sequences, SequencesExt, Loops

CONSTANTS
  MaxConns,       \* bound: connections made
  HeaderSize,     \* bytes of the size
  BodySize,       \* bound: bytes after it
  RecvChunkSize   \* bytes one recv() takes

ASSUME MailAssumption ==
  /\ MaxConns \in Nat
  /\ HeaderSize \in Nat \ {0} /\ BodySize \in Nat \ {0} /\ RecvChunkSize \in Nat \ {0}

Conn   == 1..MaxConns
Listen == 0           \* the listening socket
NoConn == -1

VARIABLES
  running,      \* whether the server is Running or Off
  waiting,      \* Seq(Conn): connections to accept
  clients,      \* Seq of client states
  inFrame,      \* whether the server is within handleIncomingData()
  readable,     \* the sockets it has yet to read in this frame
  receiving,    \* the connection whose packets it is taking out
  allMessages,  \* the simulated database
  transit,      \* [Conn -> bytes sent and not received]
  clientEnd,    \* [Conn -> how the client's end is]
  serverEnd     \* [Conn -> how the server's end is]

serverVars == << running, waiting, clients, inFrame, readable, receiving, allMessages >>
connVars   == << transit, clientEnd, serverEnd >>

ServerInit ==
  /\ running     = FALSE
  /\ waiting     = <<>>
  /\ clients     = <<>>
  /\ inFrame     = FALSE
  /\ readable    = <<>>
  /\ receiving   = NoConn
  /\ allMessages = <<>>
  /\ transit     = [c \in Conn |-> <<>>]
  /\ clientEnd   = [c \in Conn |-> "none"]
  /\ serverEnd   = [c \in Conn |-> "none"]

-----------------------------------------------------------------------------
(* Packets: what login, query and message requests consist of.             *)

PacketType == {"LoginRequest", "QueryAllMessagesRequest", "SendMessageRequest"}

PacketSize == HeaderSize + BodySize

Bytes(packet) == [i \in 1..PacketSize |-> << packet, i >>]

(* createClientStateInfoForSocket().                                       *)
ClientStateInfo(c) ==
  [ socket |-> c, recvBuffer |-> <<>>, loggedIn |-> FALSE, invalid |-> FALSE ]

IndexOf(c) == CHOOSE i \in 1..Len(clients) : clients[i].socket = c

(* Who closes with bytes still to receive resets the connection.           *)
ClosedBy(unread) == IF unread = <<>> THEN "closed" ELSE "reset"

ServerCloses(conns) ==
  /\ serverEnd' = [c \in Conn |->
       IF c \in conns THEN ClosedBy(transit[c]) ELSE serverEnd[c]]
  /\ transit' = [c \in Conn |-> IF c \in conns THEN <<>> ELSE transit[c]]

-----------------------------------------------------------------------------
(* The buttons.  startServer() and stopServer() run in the frame of the    *)
(* click, before or instead of the reading.                                *)

StartServer ==
  /\ ~running
  /\ running' = TRUE
  /\ UNCHANGED << waiting, clients, inFrame, readable, receiving, allMessages, connVars >>

StopServer ==
  /\ running /\ ~inFrame
  /\ running' = FALSE
  /\ ServerCloses(Range(waiting) \cup {clients[i].socket : i \in 1..Len(clients)})
  /\ waiting' = <<>>
  /\ clients' = <<>>
  /\ UNCHANGED << inFrame, readable, receiving, allMessages, clientEnd >>

-----------------------------------------------------------------------------
(* handleIncomingData(), one socket after the other.  A frame that finds   *)
(* nothing to read changes nothing.                                        *)

Ready(s) ==
  IF s = Listen THEN waiting # <<>> ELSE transit[s] # <<>> \/ clientEnd[s] # "open"

(* Seeded bug: the last client is left out.                                *)
AllSocketsShort ==
  << Listen >> \o (IF clients = <<>> THEN <<>>
                   ELSE [i \in 1..(Len(clients) - 1) |-> clients[i].socket])

AllSockets == << Listen >> \o [i \in 1..Len(clients) |-> clients[i].socket]

SelectReadable ==
  /\ running /\ ~inFrame
  /\ readable' = Kept(AllSockets, {s \in Range(AllSockets) : Ready(s)})
  /\ readable' # <<>>
  /\ inFrame' = TRUE
  /\ UNCHANGED << running, waiting, clients, receiving, allMessages, connVars >>

Reading(s) == readable # <<>> /\ Head(readable) = s /\ receiving = NoConn

(* Seeded bug: the client is given the listening socket.                   *)
AcceptClientListening ==
  /\ Reading(Listen)
  /\ clients' = Append(clients, ClientStateInfo(Listen))
  /\ waiting' = Tail(waiting)
  /\ readable' = Tail(readable)
  /\ UNCHANGED << running, inFrame, receiving, allMessages, connVars >>

AcceptClient ==
  /\ Reading(Listen)
  /\ clients' = Append(clients, ClientStateInfo(Head(waiting)))
  /\ waiting' = Tail(waiting)
  /\ readable' = Tail(readable)
  /\ UNCHANGED << running, inFrame, receiving, allMessages, connVars >>

(* recv() returns some of the bytes, as many as fit the chunk at most.     *)
ReceiveBytes(c) ==
  /\ Reading(c)
  /\ \E n \in 1..Len(transit[c]) :
       /\ n <= RecvChunkSize
       /\ clients' = [clients EXCEPT ![IndexOf(c)].recvBuffer =
                        @ \o SubSeq(transit[c], 1, n)]
       /\ transit' = [transit EXCEPT ![c] = SubSeq(@, n + 1, Len(@))]
  /\ receiving' = c
  /\ UNCHANGED << running, waiting, inFrame, readable, allMessages, clientEnd, serverEnd >>

(* recv() returns 0 when the client has closed its end, and an error when  *)
(* it was reset.                                                           *)
ReceiveEnd(c) ==
  /\ Reading(c)
  /\ clientEnd[c] # "open" /\ transit[c] = <<>>
  /\ clients' = [clients EXCEPT ![IndexOf(c)].invalid = TRUE]
  /\ readable' = Tail(readable)
  /\ UNCHANGED << running, waiting, inFrame, receiving, allMessages, connVars >>

-----------------------------------------------------------------------------
(* The loop over the packets of a buffer.                                  *)

RecvWindow == clients[IndexOf(receiving)].recvBuffer

(* Seeded bug: the packet head advances by the payload only.               *)
DeliverUnheaded(packet) ==
  /\ allMessages' = IF packet.type = "SendMessageRequest"
                    THEN Append(allMessages, packet) ELSE allMessages
  /\ clients' = [clients EXCEPT ![IndexOf(receiving)] =
       [@ EXCEPT !.recvBuffer = SubSeq(@, BodySize + 1, Len(@)),
                 !.loggedIn = @ \/ packet.type = "LoginRequest"]]

(* The record of a client when the packet head has moved over a packet; if *)
(* it was a login, onPacketReceivedLogin() has set the name of the client. *)
Handled(info, packet) ==
  [info EXCEPT !.recvBuffer = SubSeq(@, PacketSize + 1, Len(@)),
               !.loggedIn = @ \/ packet.type = "LoginRequest"]

(* onPacketReceived().  The answer to a query is never written.            *)
Deliver(packet) ==
  /\ allMessages' = IF packet.type = "SendMessageRequest"
                    THEN Append(allMessages, packet) ELSE allMessages
  /\ clients' = [clients EXCEPT ![IndexOf(receiving)] = Handled(@, packet)]

TakePacket ==
  /\ receiving # NoConn
  /\ Len(RecvWindow) > HeaderSize /\ Len(RecvWindow) >= PacketSize
  /\ Deliver(RecvWindow[1][1])
  /\ UNCHANGED << running, waiting, inFrame, readable, receiving, connVars >>

(* The loop goes on for as long as more than a header is there.            *)
LoopEnds ==
  /\ receiving # NoConn
  /\ Len(RecvWindow) <= HeaderSize
  /\ receiving' = NoConn
  /\ readable' = Tail(readable)
  /\ UNCHANGED << running, waiting, clients, inFrame, allMessages, connVars >>

(* More than a header of a packet, and not all of it: the loop neither     *)
(* takes it out nor ends, and reads no more.                               *)
Frozen == receiving # NoConn /\ HeaderSize < Len(RecvWindow) /\ Len(RecvWindow) < PacketSize

(* Seeded bug: the sockets of invalid clients are closed, but only the     *)
(* last client in the list can be erased.                                  *)
DeleteInvalidSocketsLast ==
  /\ inFrame /\ readable = <<>>
  /\ ServerCloses({clients[i].socket : i \in {j \in 1..Len(clients) : clients[j].invalid}})
  /\ clients' = IF clients # <<>> /\ Last(clients).invalid THEN Front(clients) ELSE clients
  /\ inFrame' = FALSE
  /\ UNCHANGED << running, waiting, readable, receiving, allMessages, clientEnd >>

DeleteInvalidSockets ==
  /\ inFrame /\ readable = <<>>
  /\ ServerCloses({clients[i].socket : i \in {j \in 1..Len(clients) : clients[j].invalid}})
  /\ clients' = Kept(clients, {info \in Range(clients) : ~info.invalid})
  /\ inFrame' = FALSE
  /\ UNCHANGED << running, waiting, readable, receiving, allMessages, clientEnd >>

ServerFrame ==
  \/ SelectReadable \/ AcceptClient
  \/ \E c \in Conn : ReceiveBytes(c) \/ ReceiveEnd(c)
  \/ TakePacket \/ LoopEnds \/ DeleteInvalidSockets

=============================================================================
