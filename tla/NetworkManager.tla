---------------------------- MODULE NetworkManager ----------------------------
(***************************************************************************)
(* The network managers of several SiSiMEX processes and the TCP           *)
(* connections between them (TCPNetworkManager.cpp, SocketUtil.cpp and the *)
(* socket operations of Agent.cpp).  A process calls                       *)
(* HandleSocketOperations() once in a frame: it selects sockets, reads,    *)
(* hands packets to its delegate, writes, and drops sockets.               *)
(*                                                                         *)
(* All processes run on one host, so what a process has written is there   *)
(* for the other one to read.                                              *)
(***************************************************************************)
EXTENDS TcpSocket, Loops

CONSTANTS
  Process,        \* node cluster or yellow pages: each has a listening socket
  Conn,           \* bound: the connections agents open
  ClientOf,       \* [Conn -> Process]: whose agent opens it
  ServerOf,       \* [Conn -> Process]: who listens to it
  Request,        \* [Conn -> packet]: what the agent sends first
  Packet,
  Replies,        \* [Packet -> SUBSET Packet]: what may answer a packet
  BatchSize,      \* sockets select() takes: MAX_SOCKETS
  SendPieces,     \* bound: the sizes of an incomplete send()
  Quitters,       \* bound: the processes that may end
  Backlog,        \* connections that may wait to be accepted
  FinalRounds     \* rounds Finalize() gives to what is still to be sent

ASSUME ConnAssumption ==
  /\ ClientOf \in [Conn -> Process]
  /\ ServerOf \in [Conn -> Process]
  /\ Request \in [Conn -> Packet]
  /\ Replies \in [Packet -> SUBSET Packet]

(* A packet is not empty, and its size fits the header, of two bytes or,   *)
(* as in the code, four.                                                   *)
ASSUME PacketAssumption ==
  /\ HeaderSize \in {2, 4}
  /\ \A packet \in Packet :
       packet \in Seq(Word) \ {<<>>} /\ Len(Write(packet)) < 256^HeaderSize

ASSUME BoundsAssumption ==
  /\ BatchSize \in Nat \ {0} /\ Backlog \in Nat \ {0} /\ FinalRounds \in Nat
  /\ SendPieces \subseteq Nat \ {0} /\ Quitters \subseteq Process

Endpoint  == Conn \X {"client", "server"}
Client(c) == <<c, "client">>
Server(c) == <<c, "server">>
Owner(e)  == IF e[2] = "client" THEN ClientOf[e[1]] ELSE ServerOf[e[1]]
Peer(e)   == IF e[2] = "client" THEN Server(e[1]) ELSE Client(e[1])

Listener(p)    == <<p, "listener">>
IsListening(s) == s[2] = "listener"

VARIABLES
  sock,       \* [Endpoint -> socket]
  wire,       \* [Endpoint -> what it sent that its peer has not read]
  mSockets,   \* [Process -> Seq of sockets and listeners]
  backlog,    \* [Process -> Seq(Conn)]: connections to accept
  round,      \* [Process -> where HandleSocketOperations() stands]
  stage,      \* [Process -> whether it runs or finalizes]
  flushes,    \* [Process -> rounds of Finalize() so far]
  posted,     \* history: the packets SendPacket() was given, by sender
  taken       \* history: the packets OnPacketReceived() got, by sender

netVars == << sock, wire, mSockets, backlog, round, stage, flushes, posted, taken >>

-----------------------------------------------------------------------------

Between == [ busy |-> FALSE, readable |-> <<>>, writable |-> <<>>, parsing |-> FALSE ]

Init ==
  /\ sock     = [e \in Endpoint |-> NoSocket]
  /\ wire     = [e \in Endpoint |-> [bytes |-> <<>>, end |-> "open"]]
  /\ mSockets = [p \in Process |-> << Listener(p) >>]
  /\ backlog  = [p \in Process |-> <<>>]
  /\ round    = [p \in Process |-> Between]
  /\ stage    = [p \in Process |-> "running"]
  /\ flushes  = [p \in Process |-> 0]
  /\ posted   = [e \in Endpoint |-> <<>>]
  /\ taken    = [e \in Endpoint |-> <<>>]

(* Agents run between two rounds and inside OnPacketReceived().            *)
AgentsRun(p) ==
  stage[p] = "running" /\ (round[p].busy => round[p].readable # <<>>)

(* sendPacketToYellowPages() and sendPacketToAgent(): connect, which fails *)
(* when no one listens or too many wait, and leave the packet in the new   *)
(* socket.                                                                 *)
Open(c) ==
  LET p == ClientOf[c]
      q == ServerOf[c]
  IN  /\ AgentsRun(p)
      /\ sock[Client(c)] = NoSocket
      /\ stage[q] # "exited"
      /\ Len(backlog[q]) < Backlog
      /\ sock' = [sock EXCEPT ![Client(c)] = SendPacket(NewSocket, Request[c])]
      /\ posted' = [posted EXCEPT ![Client(c)] = Append(@, Request[c])]
      /\ mSockets' = [mSockets EXCEPT ![p] = Append(@, Client(c))]
      /\ backlog' = [backlog EXCEPT ![q] = Append(@, c)]
      /\ UNCHANGED << wire, round, stage, flushes, taken >>

(* destroy() of the agent that opened the connection.                      *)
Leave(c) ==
  /\ AgentsRun(ClientOf[c])
  /\ sock[Client(c)].handle = "open"
  /\ ~sock[Client(c)].toDisconnect
  /\ sock' = [sock EXCEPT ![Client(c)] = Disconnect(@)]
  /\ UNCHANGED << wire, mSockets, backlog, round, stage, flushes, posted, taken >>

-----------------------------------------------------------------------------
(* SocketUtil::Select(): the sockets of a list that are ready, found batch *)
(* by batch.                                                               *)

(* Seeded bug: the last socket of a batch is left out.                     *)
BatchShort(list, i) ==
  SubSeq(list, i * BatchSize + 1,
         IF (i + 1) * BatchSize < Len(list) THEN (i + 1) * BatchSize - 1 ELSE Len(list))

Batch(list, i) ==
  SubSeq(list, i * BatchSize + 1,
         IF (i + 1) * BatchSize < Len(list) THEN (i + 1) * BatchSize ELSE Len(list))

SelectReady(list, ready) ==
  LET batches == (Len(list) + BatchSize - 1) \div BatchSize
      found[i \in 0..batches] ==
        IF i = 0 THEN <<>> ELSE found[i - 1] \o Kept(Batch(list, i - 1), ready)
  IN  found[batches]

(* What select() reports.  A connection that ended is readable, too.       *)
Readable(p) ==
  {s \in Range(mSockets[p]) :
     IF IsListening(s) THEN backlog[p] # <<>>
     ELSE wire[Peer(s)].bytes # <<>> \/ wire[Peer(s)].end # "open"}

HasOutgoing(s) == ~IsListening(s) /\ HasOutgoingData(sock[s])

Pending(p) == \E s \in Range(mSockets[p]) : HasOutgoing(s)

(* Seeded bug: Finalize() waits until everything is sent.                  *)
FlushesForever(p) == Pending(p)

(* Finalize() goes on as long as something is to be sent, but not for ever.*)
Flushes(p) == Pending(p) /\ flushes[p] < FinalRounds

Select(p) ==
  /\ ~round[p].busy
  /\ \/ stage[p] \in {"running", "closing"} /\ flushes' = flushes
     \/ stage[p] = "flushing" /\ Flushes(p) /\ flushes' = [flushes EXCEPT ![p] = @ + 1]
  /\ LET writing == Kept(mSockets[p], {s \in Range(mSockets[p]) : HasOutgoing(s)})
     IN  round' = [round EXCEPT ![p] =
           [ busy     |-> TRUE,
             readable |-> SelectReady(mSockets[p], Readable(p)),
             writable |-> SelectReady(writing, Range(writing)),
             parsing  |-> FALSE ]]
  /\ UNCHANGED << sock, wire, mSockets, backlog, stage, posted, taken >>

-----------------------------------------------------------------------------
(* Reading: one socket after the other.  A listening socket accepts one    *)
(* connection.                                                             *)

Reads(p, s) == round[p].readable # <<>> /\ s = Head(round[p].readable)

NextReadable(p) ==
  [round EXCEPT ![p].readable = Tail(@), ![p].parsing = FALSE]

Accept(p) ==
  /\ Reads(p, Listener(p))
  /\ LET c == Head(backlog[p])
     IN  /\ sock' = [sock EXCEPT ![Server(c)] = NewSocket]
         /\ mSockets' = [mSockets EXCEPT ![p] = Append(@, Server(c))]
  /\ backlog' = [backlog EXCEPT ![p] = Tail(@)]
  /\ round' = NextReadable(p)
  /\ UNCHANGED << wire, stage, flushes, posted, taken >>

(* HandleIncomingData() receives the bytes that are there.                 *)
Receive(p, e) ==
  /\ Reads(p, e) /\ ~round[p].parsing
  /\ wire[Peer(e)].bytes # <<>>
  /\ sock' = [sock EXCEPT ![e].incoming = @ \o wire[Peer(e)].bytes]
  /\ wire' = [wire EXCEPT ![Peer(e)].bytes = <<>>]
  /\ round' = [round EXCEPT ![p].parsing = TRUE]
  /\ UNCHANGED << mSockets, backlog, stage, flushes, posted, taken >>

(* It finds the end of the connection after the last byte, or at once when *)
(* the connection was reset.                                               *)
ReceiveEnd(p, e) ==
  /\ Reads(p, e) /\ ~round[p].parsing
  /\ \/ wire[Peer(e)].end = "fin" /\ wire[Peer(e)].bytes = <<>>
     \/ wire[Peer(e)].end = "rst"
  /\ sock' = [sock EXCEPT ![e].disconnected = TRUE]
  /\ wire' = [wire EXCEPT ![Peer(e)].bytes = <<>>]
  /\ round' = NextReadable(p)
  /\ UNCHANGED << mSockets, backlog, stage, flushes, posted, taken >>

(* One packet is handed to the delegate, which may answer it on the same   *)
(* socket, unless the agent it is for is gone.                             *)
Hand(p, e) ==
  /\ Reads(p, e) /\ round[p].parsing
  /\ PacketReady(sock[e])
  /\ LET packet == ReceivedPacket(sock[e])
         rest   == AfterReceivePacket(sock[e])
     IN  /\ taken' = [taken EXCEPT ![Peer(e)] = Append(@, packet)]
         /\ \/ /\ sock' = [sock EXCEPT ![e] = rest]
               /\ posted' = posted
            \/ /\ ~rest.toDisconnect
               /\ \E reply \in Replies[packet] :
                    /\ sock' = [sock EXCEPT ![e] = SendPacket(rest, reply)]
                    /\ posted' = [posted EXCEPT ![e] = Append(@, reply)]
  /\ UNCHANGED << wire, mSockets, backlog, round, stage, flushes >>

NothingToHand(p, e) ==
  /\ Reads(p, e) /\ round[p].parsing
  /\ ~PacketReady(sock[e])
  /\ round' = NextReadable(p)
  /\ UNCHANGED << sock, wire, mSockets, backlog, stage, flushes, posted, taken >>

ReadStep(p) ==
  \/ Accept(p)
  \/ \E e \in Endpoint :
       Receive(p, e) \/ ReceiveEnd(p, e) \/ Hand(p, e) \/ NothingToHand(p, e)

-----------------------------------------------------------------------------
(* Writing, to the sockets that had something to send at the selection.    *)

Writes(p, e) ==
  /\ round[p].busy /\ round[p].readable = <<>>
  /\ round[p].writable # <<>> /\ e = Head(round[p].writable)

(* How many of the bytes one send() may take.  HandleOutgoingData() keeps  *)
(* the rest for the next round; the sockets are blocking, so that a part   *)
(* also stands for bytes that reach the peer in pieces.                    *)
Pieces(bytes) == {Len(bytes)} \cup {n \in SendPieces : n < Len(bytes)}

WriteStep(p) ==
  \E e \in Endpoint :
    /\ Writes(p, e)
    /\ round' = [round EXCEPT ![p].writable = Tail(@)]
    /\ UNCHANGED << mSockets, backlog, stage, flushes, posted, taken >>
    /\ \/ /\ sock[e].disconnected
          /\ UNCHANGED << sock, wire >>
       \/ /\ ~sock[e].disconnected /\ wire[Peer(e)].end = "open"
          /\ \E n \in Pieces(sock[e].outgoing) :
               /\ wire' = [wire EXCEPT ![e].bytes = @ \o SubSeq(sock[e].outgoing, 1, n)]
               /\ sock' = [sock EXCEPT ![e].outgoing = SubSeq(@, n + 1, Len(@))]
       \/ \* the peer is gone: its host answers the bytes with a reset
          /\ ~sock[e].disconnected /\ wire[Peer(e)].end = "fin"
          /\ wire' = [wire EXCEPT ![Peer(e)].end = "rst"]
          /\ sock' = [sock EXCEPT ![e].outgoing = <<>>]
       \/ /\ ~sock[e].disconnected /\ wire[Peer(e)].end = "rst"
          /\ sock' = [sock EXCEPT ![e].disconnected = TRUE]
          /\ UNCHANGED wire

-----------------------------------------------------------------------------
(* The end of a round.  The sockets in a set are closed: who closes with   *)
(* bytes still to read resets the connection.                              *)

CloseAll(closing) ==
  [e \in Endpoint |->
     [ bytes |-> IF Peer(e) \in closing THEN <<>> ELSE wire[e].bytes,
       end   |-> IF e \notin closing THEN wire[e].end
                 ELSE IF wire[Peer(e)].bytes # <<>> THEN "rst" ELSE "fin" ]]

(* Seeded bug: a socket is closed with what it has yet to send.            *)
ToCloseAtOnce(s) == ~IsListening(s) /\ sock[s].toDisconnect

ToClose(s) == ~IsListening(s) /\ sock[s].toDisconnect /\ ~HasOutgoingData(sock[s])

Swept(p) == round[p].busy /\ round[p].readable = <<>> /\ round[p].writable = <<>>

Sweep(p) ==
  /\ Swept(p) /\ stage[p] # "closing"
  /\ LET swept == [e \in Endpoint |->
                     IF e \in Range(mSockets[p]) /\ ToClose(e)
                     THEN CloseSocket(sock[e]) ELSE sock[e]]
     IN  /\ sock' = swept
         /\ wire' = CloseAll({e \in Endpoint :
                      sock[e].handle = "open" /\ swept[e].handle = "closed"})
         /\ mSockets' = [mSockets EXCEPT ![p] =
              Kept(@, {s \in Range(@) : IsListening(s) \/ ~swept[s].disconnected})]
  /\ round' = [round EXCEPT ![p] = Between]
  /\ UNCHANGED << backlog, stage, flushes, posted, taken >>

-----------------------------------------------------------------------------
(* The end of a process.  Its agents are stopped before its network        *)
(* manager, which then calls Finalize().                                   *)

DisconnectAll(sockets) ==
  sock' = [e \in Endpoint |-> IF e \in sockets THEN Disconnect(sock[e]) ELSE sock[e]]

Quit(p) ==
  /\ stage[p] = "running" /\ ~round[p].busy
  /\ stage' = [stage EXCEPT ![p] = "flushing"]
  /\ DisconnectAll({e \in Range(mSockets[p]) : e[2] = "client"})
  /\ UNCHANGED << wire, mSockets, backlog, round, flushes, posted, taken >>

Flushed(p) ==
  /\ stage[p] = "flushing" /\ ~round[p].busy /\ ~Flushes(p)
  /\ stage' = [stage EXCEPT ![p] = "closing"]
  /\ DisconnectAll(Range(mSockets[p]))
  /\ UNCHANGED << wire, mSockets, backlog, round, flushes, posted, taken >>

(* After the last round the sockets are destroyed, and the process leaves  *)
(* none of its handles open.                                               *)
Exit(p) ==
  /\ Swept(p) /\ stage[p] = "closing"
  /\ LET open    == {e \in Endpoint : Owner(e) = p /\ sock[e].handle = "open"}
         waiting == {Server(c) : c \in Range(backlog[p])}
     IN  /\ sock' = [e \in Endpoint |->
                       IF e \in open THEN [sock[e] EXCEPT !.handle = "closed",
                                                          !.disconnected = TRUE]
                       ELSE sock[e]]
         /\ wire' = CloseAll(open \cup waiting)
  /\ mSockets' = [mSockets EXCEPT ![p] = <<>>]
  /\ backlog' = [backlog EXCEPT ![p] = <<>>]
  /\ round' = [round EXCEPT ![p] = Between]
  /\ stage' = [stage EXCEPT ![p] = "exited"]
  /\ UNCHANGED << flushes, posted, taken >>

-----------------------------------------------------------------------------

Round(p) ==
  Select(p) \/ ReadStep(p) \/ WriteStep(p) \/ Sweep(p) \/ Flushed(p) \/ Exit(p)

Next ==
  \/ \E p \in Process : Round(p)
  \/ \E c \in Conn : Open(c)
  \/ \E c \in Conn : Leave(c)
  \/ \E p \in Quitters : Quit(p)

Spec == Init /\ [][Next]_netVars

(* A process calls HandleSocketOperations() in every frame and waits for   *)
(* nothing inside it.                                                      *)
FairSpec == Spec /\ \A p \in Process : WF_netVars(Round(p))

-----------------------------------------------------------------------------
(* Types.                                                                  *)

SocketType ==
  [ handle : {"none", "open", "closed"}, disconnected : BOOLEAN,
    toDisconnect : BOOLEAN, outgoing : Seq(Byte), incoming : Seq(Byte) ]

SocketsOf(p) == {Listener(p)} \cup {e \in Endpoint : Owner(e) = p}

TypeOK ==
  /\ sock \in [Endpoint -> SocketType]
  /\ \A e \in Endpoint : wire[e].bytes \in Seq(Byte) /\ wire[e].end \in {"open", "fin", "rst"}
  /\ \A p \in Process :
       /\ mSockets[p] \in Seq(SocketsOf(p))
       /\ round[p].readable \in Seq(SocketsOf(p))
       /\ round[p].writable \in Seq(SocketsOf(p))
       /\ Len(backlog[p]) <= Backlog
       /\ stage[p] \in {"running", "flushing", "closing", "exited"}
       /\ flushes[p] \in 0..FinalRounds
  /\ posted \in [Endpoint -> Seq(Packet)]
  /\ taken \in [Endpoint -> Seq(Packet)]

(* Between two rounds no packet waits as a whole in the buffer of a        *)
(* connected socket, unless it is longer than the stream it would be       *)
(* received into (ReceivePacket(), HandleSocketOperations()).              *)
NoPacketLeftBehind ==
  \A e \in Endpoint :
    LET sent == posted[Peer(e)]
        next == Len(taken[Peer(e)]) + 1
    IN  ( /\ ~round[Owner(e)].busy
          /\ sock[e].handle = "open"
          /\ ~sock[e].disconnected
          /\ next <= Len(sent)
          /\ Len(sock[e].incoming) >= HeaderSize + Len(Write(sent[next])) )
        => Len(Write(sent[next])) > StreamCapacity

(* A socket the manager has dropped while its handle stays open, and no    *)
(* one will close it, is one whose peer has gone first (CloseSocket()).    *)
LeakedByPeer ==
  \A e \in Endpoint :
    sock[e].handle = "open" /\ sock[e].disconnected
      => wire[Peer(e)].end # "open"

(* Selecting batch by batch finds every ready socket once and in order,    *)
(* whatever the sockets and whichever are ready (SocketUtil::Select()).    *)
SelectedExactly ==
  \A p \in Process : \A ready \in SUBSET Range(mSockets[p]) :
    SelectReady(mSockets[p], ready) = Kept(mSockets[p], ready)

Channels == INSTANCE PacketStreams WITH Channel <- Endpoint

(* Every socket hands over the packets posted at the other end, whole,     *)
(* once and in order, however the bytes are cut, answers overlap and       *)
(* connections end.                                                        *)
ImplementsPacketStreams == Channels!Spec

(* The request an agent sends arrives, though the agent may be destroyed   *)
(* right after, unless the server quits, or the agent's own process does   *)
(* and Finalize() runs out of rounds (Agent::destroy(),                    *)
(* HandleSocketOperations()).                                              *)
RequestsArrive ==
  \A c \in Conn :
    posted[Client(c)] # <<>>
      ~> \/ taken[Client(c)] # <<>>
         \/ stage[ServerOf[c]] # "running"
         \/ stage[ClientOf[c]] = "exited" /\ sock[Client(c)].outgoing # <<>>

=============================================================================
