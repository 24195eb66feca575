---------------------------- MODULE PacketFormats ----------------------------
(***************************************************************************)
(* What the packets of SiSiMEX look like on the wire (Packets.h,           *)
(* AgentLocation.h).  A sender writes field after field into a memory      *)
(* stream; the receiver reads the header, and by its type the fields that  *)
(* it expects, from a stream of a fixed size in which the bytes of earlier *)
(* packets are still there behind the ones of this packet.                 *)
(***************************************************************************)
EXTENDS Streams

CONSTANTS
  AgentId,      \* ids of agents
  ItemId,
  Location,     \* bound: locations of agents, the address as its bytes
  NotSet,       \* what is in a location that was never set
  MaxListed,    \* bound: MCCs in an answer of the yellow pages
  StreamSize,   \* DEFAULT_STREAM_SIZE: no packet of the model is longer
  Garbage       \* bytes an input stream may hold at first

PacketTypes ==
  << "RegisterMCC", "RegisterMCCAck", "UnregisterMCC",
     "QueryMCCsForItem", "ReturnMCCsForItem",
     "NegotiationRequest", "NegotiationRequestResult",
     "ItemRequest", "ConstraintRequest", "ConstraintAcceptance" >>

Code(type) == (CHOOSE i \in 1..Len(PacketTypes) : PacketTypes[i] = type) - 1

ItemTypes == {"RegisterMCC", "UnregisterMCC", "QueryMCCsForItem", "ConstraintRequest"}

NULL_AGENT_ID == 0
YellowPagesId == 65535    \* -1 as a uint16_t: the yellow pages do not look at it

-----------------------------------------------------------------------------
(* The packets agents and the yellow pages send.                           *)

NoData == [none |-> {}]

PacketOf(types, src, dst, data) ==
  [packetType : types, srcAgentId : src, dstAgentId : dst, data : data]

Packet ==
  UNION {
    PacketOf(ItemTypes \ {"ConstraintRequest"}, AgentId, {YellowPagesId}, [itemId : ItemId]),
    PacketOf({"RegisterMCCAck"}, {NULL_AGENT_ID}, AgentId, {NoData}),
    PacketOf({"ReturnMCCsForItem"}, {NULL_AGENT_ID}, AgentId,
             [mccAddresses : SeqOf(Location, MaxListed)]),
    PacketOf({"NegotiationRequest", "ItemRequest"}, AgentId, AgentId, {NoData}),
    PacketOf({"NegotiationRequestResult"}, AgentId, AgentId,
             [availableNegotiation : {TRUE}, location : Location]
               \cup [availableNegotiation : BOOLEAN, location : NotSet]),
    PacketOf({"ConstraintRequest"}, AgentId, AgentId, [itemId : ItemId]),
    PacketOf({"ConstraintAcceptance"}, AgentId, AgentId,
             [negotiationAccepted : BOOLEAN]) }

(* A count of listed MCCs, a port and an id have two bytes, a length four. *)
ASSUME FormatsAssumption ==
  /\ AgentId \cup ItemId \subseteq Word /\ MaxListed \in Word
  /\ Location \cup NotSet \subseteq [hostIP : Seq(Byte), hostPort : Word, agentId : Word]
  /\ \A l \in Location \cup NotSet : Len(l.hostIP) \in Word
  /\ StreamSize \in Nat /\ Garbage \subseteq Byte

-----------------------------------------------------------------------------
(* Writing.                                                                *)

WriteBool(b) == << IF b THEN 1 ELSE 0 >>

WriteString(s) == WriteWord(Len(s), 4) \o s

WriteHeader(p) ==
  WriteWord(Code(p.packetType), 4)
    \o WriteWord(p.srcAgentId, 2) \o WriteWord(p.dstAgentId, 2)

WriteLocation(l) ==
  WriteString(l.hostIP) \o WriteWord(l.hostPort, 2) \o WriteWord(l.agentId, 2)

WriteData(p) ==
  CASE p.packetType \in ItemTypes -> WriteWord(p.data.itemId, 2)
    [] p.packetType = "ReturnMCCsForItem" ->
         WriteWord(Len(p.data.mccAddresses), 2)
           \o FlattenSeq([i \in DOMAIN p.data.mccAddresses |->
                         WriteLocation(p.data.mccAddresses[i])])
    [] p.packetType = "NegotiationRequestResult" ->
         WriteBool(p.data.availableNegotiation) \o WriteLocation(p.data.location)
    [] p.packetType = "ConstraintAcceptance" -> WriteBool(p.data.negotiationAccepted)
    [] OTHER -> <<>>

-----------------------------------------------------------------------------
(* Reading: the value found at a position of the stream, and the position  *)
(* behind it.                                                              *)

VARIABLES
  stream,     \* the bytes of the input stream
  size,       \* how many of them the packet has
  head,       \* how far it is read
  stage,      \* what was done last: "start", "written", "header", "data"
  sent,       \* history: the packet that was written
  received    \* the fields read of it

packetVars == << stream, size, head, stage, sent, received >>

At(value, next) == [value |-> value, next |-> next]

ReadWordAt(i, n) == At(ReadWord(SubSeq(stream, i + 1, i + n), n), i + n)

ReadBool(i) == At(stream[i + 1] # 0, i + 1)

(* Seeded bug: a terminating zero is skipped that Write() never writes.    *)
ReadStringTerminated(i) ==
  LET count == ReadWordAt(i, 4)
      end   == count.next + count.value
  IN  At(SubSeq(stream, count.next + 1, end), end + 1)

ReadString(i) ==
  LET count == ReadWordAt(i, 4)
      end   == count.next + count.value
  IN  At(SubSeq(stream, count.next + 1, end), end)

(* Seeded bug: the port and the id are read the other way round.           *)
ReadLocationSwapped(i) ==
  LET ip   == ReadString(i)
      id   == ReadWordAt(ip.next, 2)
      port == ReadWordAt(id.next, 2)
  IN  At([hostIP |-> ip.value, hostPort |-> port.value, agentId |-> id.value], port.next)

ReadLocation(i) ==
  LET ip   == ReadString(i)
      port == ReadWordAt(ip.next, 2)
      id   == ReadWordAt(port.next, 2)
  IN  At([hostIP |-> ip.value, hostPort |-> port.value, agentId |-> id.value], id.next)

ReadItem(i) ==
  LET item == ReadWordAt(i, 2) IN At([itemId |-> item.value], item.next)

ReadLocations(i) ==
  LET count == ReadWordAt(i, 2)
      first[n \in 0..count.value] ==
        IF n = 0 THEN At(<<>>, count.next)
        ELSE LET l == ReadLocation(first[n - 1].next)
             IN  At(Append(first[n - 1].value, l.value), l.next)
      all == first[count.value]
  IN  At([mccAddresses |-> all.value], all.next)

ReadResult(i) ==
  LET available == ReadBool(i)
      location  == ReadLocation(available.next)
  IN  At([availableNegotiation |-> available.value, location |-> location.value],
         location.next)

ReadVerdict(i) ==
  LET accepted == ReadBool(i) IN At([negotiationAccepted |-> accepted.value], accepted.next)

(* What the receiver of a packet of some type reads behind the header.     *)
ReadData(type, i) ==
  CASE type \in ItemTypes -> ReadItem(i)
    [] type = "ReturnMCCsForItem" -> ReadLocations(i)
    [] type = "NegotiationRequestResult" -> ReadResult(i)
    [] type = "ConstraintAcceptance" -> ReadVerdict(i)
    [] OTHER -> At(NoData, i)

-----------------------------------------------------------------------------

FormatsInit ==
  /\ \E g \in Garbage : stream = [i \in 1..StreamSize |-> g]
  /\ size = 0 /\ head = 0
  /\ stage = "start"
  /\ sent = NoData /\ received = NoData

(* ReceivePacket() copies a packet over the beginning of the stream, which *)
(* is read from there.                                                     *)
Transmit(p, bytes) ==
  /\ stage \in {"start", "data"}
  /\ stream' = bytes \o SubSeq(stream, Len(bytes) + 1, StreamSize)
  /\ size' = Len(bytes) /\ head' = 0
  /\ stage' = "written"
  /\ sent' = p
  /\ received' = NoData

Send(p) == Transmit(p, WriteHeader(p) \o WriteData(p))

(* SendPacketFinishNegotiation() writes the header again, where the        *)
(* verdict of a deeper search belongs.  Whenever it is called the verdict  *)
(* is FALSE.                                                               *)
SendPacketFinishNegotiation(p) ==
  /\ p.packetType = "ConstraintAcceptance" /\ ~p.data.negotiationAccepted
  /\ Transmit(p, WriteHeader(p) \o WriteHeader(p))

(* The header leads the packet to its receiver.                            *)
ReadHeader ==
  /\ stage = "written"
  /\ LET type == ReadWordAt(0, 4)
         src  == ReadWordAt(type.next, 2)
         dst  == ReadWordAt(src.next, 2)
     IN  /\ received' = [ packetType |-> PacketTypes[type.value + 1],
                          srcAgentId |-> src.value,
                          dstAgentId |-> dst.value ]
         /\ head' = dst.next
  /\ stage' = "header"
  /\ UNCHANGED << stream, size, sent >>

ReadPacket ==
  /\ stage = "header"
  /\ LET data == ReadData(received.packetType, head)
     IN  /\ received' = [ packetType |-> received.packetType,
                          srcAgentId |-> received.srcAgentId,
                          dstAgentId |-> received.dstAgentId,
                          data       |-> data.value ]
         /\ head' = data.next
  /\ stage' = "data"
  /\ UNCHANGED << stream, size, sent >>

FormatsNext ==
  \/ \E p \in Packet : Send(p) \/ SendPacketFinishNegotiation(p)
  \/ ReadHeader
  \/ ReadPacket

-----------------------------------------------------------------------------
(* Properties.                                                             *)

(* What is read of a packet is what was written, whichever packet was in   *)
(* the stream before, also when the header stands where the verdict        *)
(* belongs (the Read() and Write() pairs of Packets.h).                    *)
ReadAsWritten ==
  stage = "data" => received = sent

(* No field is read from the remains of an earlier packet behind this one: *)
(* the assertion of InputMemoryStream::Read() only finds what lies behind  *)
(* the whole stream.                                                       *)
ReadInside == head <= size

=============================================================================
