------------------------------ MODULE TcpSocket ------------------------------
(***************************************************************************)
(* A TCPSocket (TCPSocket.cpp): its flags, its buffer of outgoing bytes    *)
(* and its buffer of incoming bytes.  A packet is preceded, in the stream  *)
(* of bytes, by a header: its size, in the platform's own byte order.      *)
(***************************************************************************)
EXTENDS Streams

CONSTANTS
  HeaderSize,       \* bytes of the header: sizeof(uint32_t)
  StreamCapacity    \* bytes of the stream a packet is received into

ASSUME FramingAssumption == HeaderSize \in Nat \ {0} /\ StreamCapacity \in Nat

(* The handle is the socket of the operating system.  The two flags are    *)
(* FlagDisconnected and FlagToDisconnect.                                  *)
Socket(handle) ==
  [ handle |-> handle, disconnected |-> FALSE, toDisconnect |-> FALSE,
    outgoing |-> <<>>, incoming |-> <<>> ]

NoSocket  == Socket("none")
NewSocket == Socket("open")

-----------------------------------------------------------------------------

(* What SendPacket() writes of a packet: the header, then the data.         *)
Header(packet) == Memory(Len(Write(packet)), HeaderSize)
Frame(packet)  == Header(packet) \o Write(packet)

SendPacket(s, packet) == [s EXCEPT !.outgoing = @ \o Frame(packet)]

HasOutgoingData(s) == s.outgoing # <<>>

(* The size that ReceivePacket() reads at the head of the incoming bytes.  *)
PacketSize(s) == Number(SubSeq(s.incoming, 1, HeaderSize))

(* Seeded bug: a packet is taken out only when more than it has arrived.   *)
PacketReadyStrict(s) ==
  /\ Len(s.incoming) > HeaderSize
  /\ Len(s.incoming) - HeaderSize > PacketSize(s)
  /\ PacketSize(s) <= StreamCapacity

(* ReceivePacket() takes a packet out when it is there as a whole and fits *)
(* in the stream.                                                          *)
PacketReady(s) ==
  /\ Len(s.incoming) > HeaderSize
  /\ Len(s.incoming) - HeaderSize >= PacketSize(s)
  /\ PacketSize(s) <= StreamCapacity

ReceivedPacket(s) ==
  Read(SubSeq(s.incoming, HeaderSize + 1, HeaderSize + PacketSize(s)))

(* Seeded bug: the head moves past the packet and not past its header.     *)
AfterReceivePacketHeaded(s) ==
  [s EXCEPT !.incoming = SubSeq(@, PacketSize(s) + 1, Len(@))]

AfterReceivePacket(s) ==
  [s EXCEPT !.incoming =
     SubSeq(@, HeaderSize + PacketSize(s) + 1, Len(@))]

Disconnect(s) == [s EXCEPT !.toDisconnect = TRUE]

(* Seeded bug: the flag is set first, and the handle never closed.         *)
CloseSocketFlagged(s) == [s EXCEPT !.disconnected = TRUE]

(* The handle of a socket that Receive() or Send() found disconnected is   *)
(* not closed any more.                                                    *)
CloseSocket(s) ==
  IF s.disconnected THEN s
  ELSE [s EXCEPT !.handle = "closed", !.disconnected = TRUE]

=============================================================================
