------------------------- MODULE MailingApp_proofs --------------------------
(***************************************************************************)
(* Proofs about the mailing application: every variable keeps its type, the*)
(* server has one record for every socket it took a connection on, and the *)
(* messages it stores are those a connection was sent, in the order sent.  *)
(***************************************************************************)
EXTENDS MailingApp, Loops_proofs, FiniteSetTheorems

-----------------------------------------------------------------------------
(* What holds of the records, the queue and the list of readable sockets.  *)

(* A byte of a packet, and the sockets that have a record.                 *)
PacketByte == Packet \X (1..PacketSize)

Sockets == {clients[i].socket : i \in 1..Len(clients)}

(* A client has no connection that is yet to be made, and a connected one  *)
(* has a connection.                                                       *)
Connected ==
  \A k \in Client :
    connSocket[k] < nextConn /\ (state[k] = "Connected" => connSocket[k] # NoConn)

(* A connection that was not made yet has no ends and no bytes.            *)
Unmade ==
  \A c \in Conn :
    c >= nextConn
      => /\ serverEnd[c] = "none" /\ clientEnd[c] = "none"
         /\ transit[c] = <<>> /\ sentPackets[c] = <<>>

(* The connections to accept are open, and wait once.                      *)
Queue ==
  \A i, j \in 1..Len(waiting) :
    /\ serverEnd[waiting[i]] = "open"
    /\ waiting[i] = waiting[j] => i = j

(* The server reads within a frame; a connection is accepted first.        *)
Frame ==
  /\ ~inFrame => readable = <<>>
  /\ receiving # NoConn => readable # <<>> /\ Head(readable) = receiving
  /\ \A i \in 1..Len(readable) : readable[i] = Listen => i = 1 /\ waiting # <<>>

(* The inductive invariant of the records.                                 *)
RecInv == TypeOK /\ RecordsMatchSockets /\ Connected /\ Unmade /\ Queue /\ Frame

(* The constants of the bytes.                                             *)
LEMMA Constants ==
  /\ Conn \subseteq Nat /\ Listen \notin Conn /\ NoConn \notin Conn
  /\ \A c \in Conn : c \in Int /\ c # Listen /\ c # NoConn
  /\ PacketSize \in Nat \ {0} /\ HeaderSize \in Nat \ {0} /\ BodySize \in Nat \ {0}
  /\ MaxConns \in Nat /\ MaxPackets \in Nat /\ HeaderSize < PacketSize
  BY MailAssumption, SentAssumption DEF Conn, Listen, NoConn, PacketSize

(* The record of a socket is where it is looked for.                       *)
LEMMA Found ==
  ASSUME NEW c \in Sockets
  PROVE  IndexOf(c) \in 1..Len(clients) /\ clients[IndexOf(c)].socket = c
  BY DEF Sockets, IndexOf

(* What is read is the listening socket or that of a record.               *)
LEMMA ReadingFacts ==
  ASSUME RecInv, readable # <<>>
  PROVE  /\ Head(readable) \in Sockets \cup {Listen}
         /\ Head(readable) = Listen => waiting # <<>>
         /\ Tail(readable) \in Seq(Conn \cup {Listen})
         /\ \A i \in 1..Len(Tail(readable)) : Tail(readable)[i] # Listen
         /\ Range(Tail(readable)) \subseteq Range(readable)
<1>1. readable \in Seq(Conn \cup {Listen})
  BY DEF RecInv, TypeOK
<1>2. PICK n \in Nat \ {0} : n = Len(readable)
  BY <1>1, EmptySeq
<1>3. /\ Head(readable) = readable[1] /\ 1 \in 1..n
      /\ DOMAIN readable = 1..n
  BY <1>1, <1>2
<1>4. PICK rest : rest = Tail(readable)
  OBVIOUS
<1>5. /\ rest \in Seq(Conn \cup {Listen}) /\ Len(rest) = n - 1
      /\ \A i \in 1..(n - 1) : rest[i] = readable[i + 1]
  BY <1>1, <1>2, <1>4, HeadTailProperties
<1>6. readable[1] \in Range(readable)
  BY <1>3 DEF Range
<1>7. readable[1] \in Sockets \cup {Listen}
  BY <1>6 DEF RecInv, RecordsMatchSockets, Sockets
<1>8. readable[1] = Listen => waiting # <<>>
  BY <1>2, <1>3 DEF RecInv, Frame
<1>9. ASSUME NEW i \in 1..Len(rest) PROVE rest[i] # Listen /\ rest[i] \in Range(readable)
  <2>1. i + 1 \in 1..n /\ i + 1 # 1 /\ rest[i] = readable[i + 1]
    BY <1>5
  <2>2. readable[i + 1] # Listen
    BY <1>2, <2>1 DEF RecInv, Frame
  <2> QED
    BY <1>3, <2>1, <2>2 DEF Range
<1>10. Range(rest) \subseteq Range(readable)
  <2>1. DOMAIN rest = 1..Len(rest)
    BY <1>5
  <2> QED
    BY <1>9, <2>1 DEF Range
<1> QED
  BY <1>3, <1>4, <1>5, <1>7, <1>8, <1>9, <1>10

(* The sockets of the records are as they were.                            *)
SameSockets ==
  /\ Len(clients') = Len(clients)
  /\ \A i \in 1..Len(clients) : clients'[i].socket = clients[i].socket

(* The server goes on with its list, or leaves it as it is.                *)
ReadsOn ==
  \/ readable' = readable /\ receiving' = receiving
  \/ readable' = readable /\ readable # <<>> /\ receiving' = Head(readable)
  \/ readable # <<>> /\ readable' = Tail(readable) /\ receiving' = NoConn

(* A step that opens and closes no connection.                             *)
LEMMA QuietRecords ==
  ASSUME RecInv, SameSockets, ReadsOn,
         waiting' = waiting, serverEnd' = serverEnd, inFrame' = inFrame
  PROVE  RecordsMatchSockets' /\ Queue' /\ Frame'
<1>1. Sockets' = Sockets
  BY DEF SameSockets, Sockets
<1>2. Range(readable') \subseteq Range(readable)
  BY ReadingFacts DEF ReadsOn
<1>3. RecordsMatchSockets'
  <2>1. Sockets' = {c \in Conn : serverEnd'[c] = "open" /\ c \notin Range(waiting')}
    BY <1>1 DEF RecInv, RecordsMatchSockets, Sockets
  <2>2. \A i, j \in 1..Len(clients') : clients'[i].socket = clients'[j].socket => i = j
    BY DEF RecInv, RecordsMatchSockets, SameSockets
  <2>3. Range(readable) \ {Listen} \subseteq Sockets
    BY DEF RecInv, RecordsMatchSockets, Sockets
  <2>4. \A s \in Range(readable)' \ {Listen} : s \in Sockets'
    <3>1. Range(readable)' = Range(readable')
      BY DEF Range
    <3> QED
      BY ONLY <1>1, <1>2, <2>3, <3>1
  <2> QED
    BY <2>1, <2>2, <2>4 DEF RecordsMatchSockets, Sockets
<1>4. Queue'
  BY DEF RecInv, Queue
<1>5. Frame'
  <2>1. CASE readable' = readable
    BY <2>1 DEF RecInv, Frame, ReadsOn
  <2>2. CASE readable' # readable
    <3>1. readable # <<>> /\ readable' = Tail(readable) /\ receiving' = NoConn
      BY <2>2 DEF ReadsOn
    <3>2. inFrame
      BY <3>1 DEF RecInv, Frame
    <3> QED
      BY <3>1, <3>2, ReadingFacts DEF Frame
  <2> QED
    BY <2>1, <2>2
<1> QED
  BY <1>3, <1>4, <1>5

(* A record that is updated stays the record of its socket.                *)
LEMMA UpdateRecord ==
  ASSUME RecInv, NEW c \in Sockets, NEW a, a \in ClientType, a.socket = c,
         clients' = [clients EXCEPT ![IndexOf(c)] = a]
  PROVE  clients' \in Seq(ClientType) /\ SameSockets
<1>1. IndexOf(c) \in 1..Len(clients) /\ clients[IndexOf(c)].socket = c
  BY Found
<1>2. PICK i : i = IndexOf(c)
  OBVIOUS
<1>3. clients \in Seq(ClientType)
  BY DEF RecInv, TypeOK
<1>4. /\ clients' \in Seq(ClientType) /\ Len(clients') = Len(clients)
      /\ \A j \in 1..Len(clients) : clients'[j] = IF j = i THEN a ELSE clients[j]
  BY <1>1, <1>2, <1>3, ExceptSeq
<1>5. \A j \in 1..Len(clients) : clients'[j].socket = clients[j].socket
  BY ONLY <1>1, <1>2, <1>4, a.socket = c
<1> QED
  BY ONLY <1>4, <1>5 DEF SameSockets

(* What may become of a record.                                            *)
LEMMA RecordTypes ==
  ASSUME NEW a \in ClientType
  PROVE  /\ a.socket \in Conn /\ a.recvBuffer \in Seq(PacketByte)
         /\ [a EXCEPT !.invalid = TRUE] \in ClientType
         /\ [a EXCEPT !.invalid = TRUE].socket = a.socket
         /\ [a EXCEPT !.invalid = TRUE].recvBuffer = a.recvBuffer
         /\ \A b \in Seq(PacketByte) :
              /\ [a EXCEPT !.recvBuffer = b] \in ClientType
              /\ [a EXCEPT !.recvBuffer = b].socket = a.socket
              /\ [a EXCEPT !.recvBuffer = b].recvBuffer = b
  BY DEF ClientType, PacketByte

(* The record that is read.                                                *)
LEMMA ReadRecord ==
  ASSUME RecInv, NEW c \in Conn, readable # <<>>, Head(readable) = c
  PROVE  /\ c \in Sockets /\ IndexOf(c) \in 1..Len(clients)
         /\ clients[IndexOf(c)] \in ClientType /\ clients[IndexOf(c)].socket = c
<1>1. c \in Sockets
  BY ReadingFacts, Constants
<1>2. clients \in Seq(ClientType)
  BY DEF RecInv, TypeOK
<1> QED
  BY <1>1, <1>2, Found, ElementOfSeq

(* Two sequences in one.                                                   *)
LEMMA Joined ==
  ASSUME NEW T, NEW a \in Seq(T), NEW b \in Seq(T), NEW n \in Nat, NEW m \in Nat,
         Len(a) = n, Len(b) = m, NEW c, c = a \o b
  PROVE  /\ c \in Seq(T) /\ Len(c) = n + m
         /\ \A i \in 1..(n + m) : c[i] = IF i <= n THEN a[i] ELSE b[i - n]
         /\ \A i \in 1..n : c[i] = a[i]
         /\ \A i \in 1..m : c[n + i] = b[i]
<1>1. /\ c \in Seq(T) /\ Len(c) = n + m
      /\ \A i \in 1..(n + m) : c[i] = IF i <= n THEN a[i] ELSE b[i - n]
  BY ConcatProperties
<1>2. \A i \in 1..n : i \in 1..(n + m) /\ i <= n
  OBVIOUS
<1>3. \A i \in 1..m : n + i \in 1..(n + m) /\ ~(n + i <= n) /\ n + i - n = i
  OBVIOUS
<1> QED
  BY ONLY <1>1, <1>2, <1>3

(* Bytes that are cut off at the front, and those that are left.           *)
LEMMA Cutting ==
  ASSUME NEW T, NEW s \in Seq(T), NEW n \in 0..Len(s)
  PROVE  /\ SubSeq(s, 1, n) \in Seq(T) /\ Len(SubSeq(s, 1, n)) = n
         /\ SubSeq(s, n + 1, Len(s)) \in Seq(T) /\ Len(SubSeq(s, n + 1, Len(s))) = Len(s) - n
         /\ SubSeq(s, 1, n) \o SubSeq(s, n + 1, Len(s)) = s
         /\ \A i \in 1..n : SubSeq(s, 1, n)[i] = s[i]
         /\ \A i \in 1..(Len(s) - n) : SubSeq(s, n + 1, Len(s))[i] = s[n + i]
<1>1. PICK l \in Nat : l = Len(s)
  OBVIOUS
<1>2. PICK a : a = SubSeq(s, 1, n)
  OBVIOUS
<1>3. PICK b : b = SubSeq(s, n + 1, l)
  OBVIOUS
<1>4. \A i \in 1..l : s[i] \in T
  BY <1>1, ElementOfSeq
<1>5. n \in Nat /\ n <= l
  BY <1>1
<1>6. /\ a \in Seq(T) /\ Len(a) = IF 1 <= n THEN n - 1 + 1 ELSE 0
      /\ \A i \in 1..(n - 1 + 1) : a[i] = s[1 + i - 1]
  <2>1. \A i \in 1..n : s[i] \in T
    BY <1>4, <1>5
  <2> QED
    BY <1>2, <1>5, <2>1, SubSeqProperties
<1>7. /\ b \in Seq(T) /\ Len(b) = IF n + 1 <= l THEN l - (n + 1) + 1 ELSE 0
      /\ \A i \in 1..(l - (n + 1) + 1) : b[i] = s[n + 1 + i - 1]
  <2>1. \A i \in (n + 1)..l : s[i] \in T
    BY <1>4, <1>5
  <2> QED
    BY <1>1, <1>3, <1>5, <2>1, SubSeqProperties
<1>8. Len(a) = n /\ \A i \in 1..n : a[i] = s[i]
  BY ONLY <1>5, <1>6
<1>9. Len(b) = l - n /\ \A i \in 1..(l - n) : b[i] = s[n + i]
  <2>1. l - (n + 1) + 1 = l - n /\ \A i \in 1..(l - n) : n + 1 + i - 1 = n + i
    BY ONLY <1>5, l \in Nat
  <2> QED
    BY ONLY <1>5, <1>7, <2>1, l \in Nat
<1>10. a \o b = s
  <2>1. PICK c : c = a \o b
    OBVIOUS
  <2>2. /\ c \in Seq(T) /\ Len(c) = n + (l - n)
        /\ \A i \in 1..(n + (l - n)) : c[i] = IF i <= n THEN a[i] ELSE b[i - n]
    <3>1. a \in Seq(T) /\ b \in Seq(T) /\ Len(a) = n /\ Len(b) = l - n /\ l - n \in Nat
      BY <1>5, <1>6, <1>7, <1>8, <1>9
    <3> QED
      BY ONLY <1>5, <2>1, <3>1, Joined
  <2>3. n + (l - n) = l
    BY <1>5
  <2>4. ASSUME NEW i \in 1..l PROVE c[i] = s[i]
    <3>1. CASE i <= n
      BY ONLY <1>5, <1>8, <2>2, <2>3, <3>1, i \in 1..l
    <3>2. CASE ~(i <= n)
      <4>1. c[i] = b[i - n] /\ i - n \in 1..(l - n) /\ n + (i - n) = i
        BY ONLY <1>5, <2>2, <2>3, <3>2, i \in 1..l
      <4>2. PICK j : j = i - n
        OBVIOUS
      <4>3. b[j] = s[n + j] /\ n + j = i
        BY ONLY <1>9, <4>1, <4>2
      <4> QED
        BY ONLY <4>1, <4>2, <4>3
    <3> QED
      BY <3>1, <3>2
  <2> QED
    BY <1>1, <2>1, <2>2, <2>3, <2>4, SeqEqual
<1> QED
  BY <1>1, <1>2, <1>3, <1>6, <1>7, <1>8, <1>9, <1>10

(* The record when a packet was taken out of it.                          *)
LEMMA RecordTaken ==
  ASSUME NEW a \in ClientType, Len(a.recvBuffer) >= PacketSize, NEW p
  PROVE  /\ Handled(a, p) \in ClientType
         /\ Handled(a, p).socket = a.socket
         /\ Handled(a, p).recvBuffer = SubSeq(a.recvBuffer, PacketSize + 1, Len(a.recvBuffer))
<1>1. a.recvBuffer \in Seq(PacketByte) /\ PacketSize \in 0..Len(a.recvBuffer)
  <2>1. PICK w \in Seq(PacketByte) : w = a.recvBuffer
    BY RecordTypes
  <2>2. Len(w) \in Nat /\ Len(w) >= PacketSize
    BY <2>1
  <2> QED
    BY ONLY <2>1, <2>2, Constants
<1>2. SubSeq(a.recvBuffer, PacketSize + 1, Len(a.recvBuffer)) \in Seq(PacketByte)
  BY <1>1, Cutting
<1> QED
  BY <1>2 DEF ClientType, PacketByte, Handled

-----------------------------------------------------------------------------

(* Bytes are appended to the buffer of a record.                           *)
LEMMA ReceiveBytesStep ==
  ASSUME RecInv, NEW c \in Conn, ReceiveBytes(c), UNCHANGED clientVars
  PROVE  RecInv'
<1>1. /\ readable # <<>> /\ Head(readable) = c /\ receiving = NoConn /\ receiving' = c
      /\ UNCHANGED << running, waiting, inFrame, readable, allMessages, clientEnd, serverEnd >>
  BY DEF ReceiveBytes, Reading
<1>2. PICK n \in 1..Len(transit[c]) :
         /\ clients' = [clients EXCEPT ![IndexOf(c)].recvBuffer = @ \o SubSeq(transit[c], 1, n)]
         /\ transit' = [transit EXCEPT ![c] = SubSeq(@, n + 1, Len(@))]
  BY DEF ReceiveBytes
<1>3. PICK t \in Seq(PacketByte) : t = transit[c]
  BY DEF RecInv, TypeOK, PacketByte
<1>4. PICK got, left : got = SubSeq(t, 1, n) /\ left = SubSeq(t, n + 1, Len(t))
  OBVIOUS
<1>5. got \in Seq(PacketByte) /\ left \in Seq(PacketByte)
  BY <1>2, <1>3, <1>4, Cutting, SMTT(30)
<1>6. PICK r \in ClientType : r = clients[IndexOf(c)] /\ r.socket = c
  BY <1>1, ReadRecord
<1>7. PICK a : a = [r EXCEPT !.recvBuffer = r.recvBuffer \o got]
  OBVIOUS
<1>8. a \in ClientType /\ a.socket = c
  BY <1>5, <1>6, <1>7, RecordTypes, ConcatProperties
<1>9. clients' = [clients EXCEPT ![IndexOf(c)] = a]
  BY <1>2, <1>3, <1>4, <1>6, <1>7
<1>10. clients' \in Seq(ClientType) /\ SameSockets
  BY <1>1, <1>8, <1>9, ReadRecord, UpdateRecord
<1>11. transit' \in [Conn -> Seq(PacketByte)]
  BY <1>2, <1>3, <1>4, <1>5 DEF RecInv, TypeOK, PacketByte
<1>12. TypeOK'
  BY <1>1, <1>10, <1>11 DEF RecInv, TypeOK, clientVars, PacketByte
<1>13. RecordsMatchSockets' /\ Queue' /\ Frame'
  BY <1>1, <1>10, QuietRecords DEF ReadsOn
<1>14. Connected' /\ Unmade'
  <2>1. c < nextConn
    BY <1>2, <1>3, EmptySeq, Constants, SMTT(30) DEF RecInv, Unmade, TypeOK
  <2> QED
    BY <1>1, <1>2, <2>1, Constants DEF RecInv, Connected, Unmade, clientVars, TypeOK
<1> QED
  BY <1>12, <1>13, <1>14 DEF RecInv

(* The end of the bytes, or an error, makes a record invalid.              *)
LEMMA ReceiveEndStep ==
  ASSUME RecInv, NEW c \in Conn, ReceiveEnd(c), UNCHANGED clientVars
  PROVE  RecInv'
<1>1. /\ readable # <<>> /\ Head(readable) = c /\ receiving = NoConn
      /\ readable' = Tail(readable)
      /\ UNCHANGED << running, waiting, inFrame, receiving, allMessages, connVars >>
      /\ clients' = [clients EXCEPT ![IndexOf(c)].invalid = TRUE]
  BY DEF ReceiveEnd, Reading
<1>2. PICK r \in ClientType : r = clients[IndexOf(c)] /\ r.socket = c
  BY <1>1, ReadRecord
<1>3. PICK a : a = [r EXCEPT !.invalid = TRUE]
  OBVIOUS
<1>4. a \in ClientType /\ a.socket = c
  BY <1>2, <1>3, RecordTypes
<1>5. clients' = [clients EXCEPT ![IndexOf(c)] = a]
  BY <1>1, <1>2, <1>3
<1>6. clients' \in Seq(ClientType) /\ SameSockets
  BY <1>1, <1>4, <1>5, ReadRecord, UpdateRecord
<1>7. TypeOK'
  BY <1>1, <1>6, ReadingFacts DEF RecInv, TypeOK, clientVars, connVars
<1>8. RecordsMatchSockets' /\ Queue' /\ Frame'
  BY <1>1, <1>6, QuietRecords DEF ReadsOn, connVars
<1>9. Connected' /\ Unmade'
  BY <1>1 DEF RecInv, Connected, Unmade, clientVars, connVars
<1> QED
  BY <1>7, <1>8, <1>9 DEF RecInv

(* What is taken out of a buffer is a packet.                              *)
LEMMA Taken ==
  ASSUME RecInv, TakePacket
  PROVE  /\ receiving \in Conn /\ readable # <<>> /\ Head(readable) = receiving
         /\ RecvWindow \in Seq(PacketByte) /\ Len(RecvWindow) >= PacketSize
         /\ RecvWindow[1] \in PacketByte /\ RecvWindow[1][1] \in Packet
<1>1. receiving \in Conn /\ readable # <<>> /\ Head(readable) = receiving
  BY DEF TakePacket, RecInv, Frame, TypeOK
<1>2. clients[IndexOf(receiving)] \in ClientType
  BY <1>1, ReadRecord
<1>3. RecvWindow \in Seq(PacketByte) /\ Len(RecvWindow) >= PacketSize
  BY <1>2, RecordTypes DEF RecvWindow, TakePacket
<1>4. RecvWindow[1] \in PacketByte
  BY <1>3, Constants, ElementOfSeq
<1> QED
  BY <1>1, <1>3, <1>4 DEF PacketByte

(* A packet is taken out of the buffer of a record.                        *)
LEMMA TakePacketStep ==
  ASSUME RecInv, TakePacket, UNCHANGED clientVars
  PROVE  RecInv'
<1>1. PICK c, w, p : c = receiving /\ w = RecvWindow /\ p = RecvWindow[1][1]
  OBVIOUS
<1>2. /\ c \in Conn /\ readable # <<>> /\ Head(readable) = c
      /\ w \in Seq(PacketByte) /\ Len(w) >= PacketSize /\ p \in Packet
  BY <1>1, Taken
<1>3. /\ allMessages' = IF p.type = "SendMessageRequest"
                        THEN Append(allMessages, p) ELSE allMessages
      /\ clients' = [clients EXCEPT ![IndexOf(c)] = Handled(@, p)]
      /\ UNCHANGED << running, waiting, inFrame, readable, receiving, connVars >>
  BY <1>1 DEF TakePacket, Deliver
<1>4. PICK r \in ClientType : r = clients[IndexOf(c)] /\ r.socket = c
  BY <1>2, ReadRecord
<1>5. w = r.recvBuffer
  BY <1>1, <1>4 DEF RecvWindow
<1>9. PICK a : a = Handled(r, p)
  OBVIOUS
<1>10. a \in ClientType /\ a.socket = c
  BY <1>2, <1>4, <1>5, <1>9, RecordTaken
<1>11. clients' = [clients EXCEPT ![IndexOf(c)] = a]
  BY <1>3, <1>4, <1>9
<1>12. clients' \in Seq(ClientType) /\ SameSockets
  BY <1>2, <1>10, <1>11, ReadRecord, UpdateRecord
<1>13. allMessages' \in Seq(Packet)
  BY <1>2, <1>3, AppendProperties DEF RecInv, TypeOK
<1>14. TypeOK'
  BY <1>3, <1>12, <1>13 DEF RecInv, TypeOK, clientVars, connVars
<1>15. RecordsMatchSockets' /\ Queue' /\ Frame'
  BY <1>3, <1>12, QuietRecords DEF ReadsOn, connVars
<1>16. Connected' /\ Unmade'
  BY <1>3 DEF RecInv, Connected, Unmade, clientVars, connVars
<1> QED
  BY <1>14, <1>15, <1>16 DEF RecInv

(* The server goes on to the next readable socket.                         *)
LEMMA LoopEndsStep ==
  ASSUME RecInv, LoopEnds, UNCHANGED clientVars
  PROVE  RecInv'
<1>1. /\ receiving # NoConn /\ receiving' = NoConn /\ readable' = Tail(readable)
      /\ UNCHANGED << running, waiting, clients, inFrame, allMessages, connVars >>
  BY DEF LoopEnds
<1>2. readable # <<>>
  BY <1>1 DEF RecInv, Frame
<1>3. TypeOK'
  BY <1>1, <1>2, ReadingFacts DEF RecInv, TypeOK, clientVars, connVars
<1>4. SameSockets
  BY <1>1 DEF SameSockets
<1>5. RecordsMatchSockets' /\ Queue' /\ Frame'
  BY <1>1, <1>2, <1>4, QuietRecords DEF ReadsOn, connVars
<1>6. Connected' /\ Unmade'
  BY <1>1 DEF RecInv, Connected, Unmade, clientVars, connVars
<1> QED
  BY <1>3, <1>5, <1>6 DEF RecInv

(* The members of a list, and of one that grew.                            *)
LEMMA RangeAppend ==
  ASSUME NEW T, NEW s \in Seq(T), NEW x \in T
  PROVE  /\ Append(s, x) \in Seq(T) /\ Len(Append(s, x)) = Len(s) + 1 /\ Append(s, x) # <<>>
         /\ Append(s, x)[Len(s) + 1] = x
         /\ \A i \in 1..Len(s) : Append(s, x)[i] = s[i]
         /\ Range(Append(s, x)) = Range(s) \cup {x}
<1>1. PICK n \in Nat : n = Len(s)
  OBVIOUS
<1>2. PICK t : t = Append(s, x)
  OBVIOUS
<1>3. /\ t \in Seq(T) /\ Len(t) = n + 1 /\ t[n + 1] = x /\ \A i \in 1..n : t[i] = s[i]
  BY <1>1, <1>2, AppendProperties
<1>4. t # <<>>
  BY <1>1, <1>3, EmptySeq
<1>5. DOMAIN t = 1..(n + 1) /\ DOMAIN s = 1..n
  BY <1>1, <1>3
<1>6. Range(t) = Range(s) \cup {x}
  <2>1. \A i \in 1..(n + 1) : i \in 1..n \/ i = n + 1
    BY ONLY n \in Nat
  <2>2. n + 1 \in 1..(n + 1) /\ \A i \in 1..n : i \in 1..(n + 1)
    BY ONLY n \in Nat
  <2> QED
    BY ONLY <1>3, <1>5, <2>1, <2>2 DEF Range
<1> QED
  BY <1>1, <1>2, <1>3, <1>4, <1>6

(* What RecordsMatchSockets says, with the sockets of the records.         *)
LEMMA Records ==
  RecordsMatchSockets
    <=> /\ \A i, j \in 1..Len(clients) : clients[i].socket = clients[j].socket => i = j
        /\ Sockets = {c \in Conn : serverEnd[c] = "open" /\ c \notin Range(waiting)}
        /\ Range(readable) \ {Listen} \subseteq Sockets
<1>1. \A s : s \in Sockets <=> \E i \in 1..Len(clients) : clients[i].socket = s
  BY DEF Sockets
<1> QED
  BY <1>1 DEF RecordsMatchSockets, Sockets

(* The server closes connections that are open.                            *)
LEMMA Closing ==
  ASSUME RecInv, NEW conns \in SUBSET Conn, ServerCloses(conns),
         \A c \in conns : serverEnd[c] = "open",
         clientEnd' = clientEnd, nextConn' = nextConn, sentPackets' = sentPackets
  PROVE  /\ transit' \in [Conn -> Seq(PacketByte)]
         /\ serverEnd' \in [Conn -> {"none", "open", "closed", "reset"}]
         /\ \A c \in Conn : serverEnd'[c] = "open" <=> serverEnd[c] = "open" /\ c \notin conns
         /\ \A c \in Conn \ conns : serverEnd'[c] = serverEnd[c] /\ transit'[c] = transit[c]
         /\ Unmade'
<1>1. /\ transit \in [Conn -> Seq(PacketByte)]
      /\ serverEnd \in [Conn -> {"none", "open", "closed", "reset"}]
  BY DEF RecInv, TypeOK, PacketByte
<1>2. /\ serverEnd' = [c \in Conn |-> IF c \in conns THEN ClosedBy(transit[c]) ELSE serverEnd[c]]
      /\ transit' = [c \in Conn |-> IF c \in conns THEN <<>> ELSE transit[c]]
  BY DEF ServerCloses
<1>3. \A b : ClosedBy(b) \in {"closed", "reset"}
  BY DEF ClosedBy
<1>4. transit' \in [Conn -> Seq(PacketByte)]
  BY <1>1, <1>2, EmptySeq
<1>5. \A c \in Conn :
        IF c \in conns THEN serverEnd'[c] \in {"closed", "reset"} /\ transit'[c] = <<>>
                      ELSE serverEnd'[c] = serverEnd[c] /\ transit'[c] = transit[c]
  BY <1>2, <1>3
<1>6. serverEnd' \in [Conn -> {"none", "open", "closed", "reset"}]
  <2>1. \A c \in Conn : serverEnd'[c] \in {"none", "open", "closed", "reset"}
    BY <1>1, <1>5
  <2>2. serverEnd' = [c \in Conn |-> serverEnd'[c]]
    BY <1>2
  <2> QED
    BY ONLY <2>1, <2>2
<1>7. Unmade'
  BY <1>5 DEF Unmade, RecInv
<1> QED
  BY <1>4, <1>5, <1>6, <1>7

(* The server starts to listen.                                            *)
LEMMA StartServerStep ==
  ASSUME RecInv, StartServer, UNCHANGED clientVars
  PROVE  RecInv'
<1>1. /\ running' = TRUE
      /\ UNCHANGED << waiting, clients, inFrame, readable, receiving, allMessages, connVars >>
  BY DEF StartServer
<1>2. SameSockets
  BY <1>1 DEF SameSockets
<1>3. RecordsMatchSockets' /\ Queue' /\ Frame'
  BY <1>1, <1>2, QuietRecords DEF ReadsOn, connVars
<1>4. TypeOK'
  BY <1>1 DEF RecInv, TypeOK, clientVars, connVars
<1>5. Connected' /\ Unmade'
  BY <1>1 DEF RecInv, Connected, Unmade, clientVars, connVars
<1> QED
  BY <1>3, <1>4, <1>5 DEF RecInv

(* The server closes all connections, and forgets the records.             *)
LEMMA StopServerStep ==
  ASSUME RecInv, StopServer, UNCHANGED clientVars
  PROVE  RecInv'
<1>1. PICK conns : conns = Range(waiting) \cup Sockets
  OBVIOUS
<1>2. /\ ~inFrame /\ running' = FALSE /\ ServerCloses(conns)
      /\ waiting' = <<>> /\ clients' = <<>>
      /\ UNCHANGED << inFrame, readable, receiving, allMessages, clientEnd >>
  BY <1>1 DEF StopServer, Sockets
<1>3. readable = <<>> /\ receiving = NoConn
  BY <1>2 DEF RecInv, Frame
<1>4. Range(waiting) \subseteq Conn /\ \A c \in Range(waiting) : serverEnd[c] = "open"
  <2>1. waiting \in Seq(Conn) /\ DOMAIN waiting = 1..Len(waiting)
    BY DEF RecInv, TypeOK
  <2> QED
    BY <2>1, ElementOfSeq DEF RecInv, Queue, Range
<1>5. Sockets = {c \in Conn : serverEnd[c] = "open" /\ c \notin Range(waiting)}
  BY Records DEF RecInv
<1>6. conns = {c \in Conn : serverEnd[c] = "open"}
  BY <1>1, <1>4, <1>5
<1>7. /\ transit' \in [Conn -> Seq(PacketByte)]
      /\ serverEnd' \in [Conn -> {"none", "open", "closed", "reset"}]
      /\ \A c \in Conn : serverEnd'[c] = "open" <=> serverEnd[c] = "open" /\ c \notin conns
      /\ Unmade'
  BY <1>2, <1>6, Closing DEF clientVars
<1>8. TypeOK'
  BY <1>2, <1>7, EmptySeq DEF RecInv, TypeOK, clientVars, PacketByte
<1>9. Len(clients') = 0 /\ Len(waiting') = 0 /\ readable' = <<>> /\ DOMAIN readable' = {}
  BY <1>2, <1>3
<1>10. Sockets' = {}
  BY <1>9 DEF Sockets
<1>11. RecordsMatchSockets'
  <2>1. Range(readable)' = {}
    BY <1>9 DEF Range
  <2>2. \A i, j \in 1..Len(clients') : clients'[i].socket = clients'[j].socket => i = j
    BY <1>9
  <2>3. {c \in Conn : serverEnd'[c] = "open" /\ c \notin Range(waiting)'} = {}
    BY <1>6, <1>7
  <2>4. Sockets' = {clients'[i].socket : i \in 1..Len(clients')}
    BY DEF Sockets
  <2> QED
    BY <1>10, <2>1, <2>2, <2>3, <2>4 DEF RecordsMatchSockets
<1>12. Queue' /\ Frame'
  BY <1>2, <1>3, <1>9 DEF Queue, Frame
<1>13. Connected'
  BY DEF RecInv, Connected, clientVars
<1> QED
  BY <1>7, <1>8, <1>11, <1>12, <1>13 DEF RecInv

(* The sockets that are selected from.                                     *)
LEMMA Selectable ==
  ASSUME RecInv
  PROVE  /\ AllSockets \in Seq(Conn \cup {Listen}) /\ Len(AllSockets) = Len(clients) + 1
         /\ Range(AllSockets) = Sockets \cup {Listen}
         /\ \A i \in 1..Len(AllSockets) : AllSockets[i] = Listen => i = 1
<1>1. clients \in Seq(ClientType)
  BY DEF RecInv, TypeOK
<1>2. PICK n \in Nat : n = Len(clients)
  BY <1>1
<1>3. PICK b : b = [i \in 1..n |-> clients[i].socket]
  OBVIOUS
<1>4. \A i \in 1..n : clients[i].socket \in Conn
  BY <1>1, <1>2, ElementOfSeq, RecordTypes
<1>5. /\ b \in Seq(Conn \cup {Listen}) /\ Len(b) = n
      /\ \A i \in 1..n : b[i] \in Sockets /\ b[i] # Listen
  BY <1>2, <1>3, <1>4, Constants DEF Sockets
<1>6. PICK a : a = << Listen >>
  OBVIOUS
<1>7. a \in Seq(Conn \cup {Listen}) /\ Len(a) = 1 /\ a[1] = Listen
  BY <1>6
<1>8. PICK all : all = AllSockets
  OBVIOUS
<1>9. all = a \o b
  BY <1>2, <1>3, <1>6, <1>8 DEF AllSockets
<1>10. /\ all \in Seq(Conn \cup {Listen}) /\ Len(all) = 1 + n
       /\ \A i \in 1..(1 + n) : all[i] = IF i <= 1 THEN a[i] ELSE b[i - 1]
  <2>1. PICK T : T = Conn \cup {Listen}
    OBVIOUS
  <2>2. a \in Seq(T) /\ b \in Seq(T) /\ Len(a) = 1 /\ Len(b) = n
    BY <1>5, <1>7, <2>1
  <2>3. PICK k \in Nat : k = 1
    OBVIOUS
  <2>4. /\ all \in Seq(T) /\ Len(all) = k + n
        /\ \A i \in 1..(k + n) : all[i] = IF i <= k THEN a[i] ELSE b[i - k]
    <3>1. a \in Seq(T) /\ b \in Seq(T) /\ Len(a) = k /\ Len(b) = n /\ k \in Nat
      BY <2>2, <2>3
    <3>2. \A x, y \in Seq(T) :
            /\ x \o y \in Seq(T) /\ Len(x \o y) = Len(x) + Len(y)
            /\ \A i \in 1..(Len(x) + Len(y)) :
                 (x \o y)[i] = IF i <= Len(x) THEN x[i] ELSE y[i - Len(x)]
      BY ONLY ConcatProperties
    <3>3. /\ a \o b \in Seq(T) /\ Len(a \o b) = Len(a) + Len(b)
          /\ \A i \in 1..(Len(a) + Len(b)) :
               (a \o b)[i] = IF i <= Len(a) THEN a[i] ELSE b[i - Len(a)]
      BY ONLY <3>1, <3>2
    <3> QED
      BY ONLY <1>9, <3>1, <3>3
  <2> QED
    BY <2>1, <2>3, <2>4
<1>11. ASSUME NEW i \in 1..(1 + n)
       PROVE  IF i = 1 THEN all[i] = Listen ELSE all[i] = b[i - 1] /\ i - 1 \in 1..n
  <2>1. CASE i = 1
    BY <1>7, <1>10, <2>1
  <2>2. CASE i # 1
    BY <1>10, <2>2
  <2> QED
    BY <2>1, <2>2
<1>12. \A j \in 1..n : all[j + 1] = b[j] /\ j + 1 \in 1..(1 + n)
  <2>1. ASSUME NEW j \in 1..n PROVE all[j + 1] = b[j] /\ j + 1 \in 1..(1 + n)
    <3>1. j + 1 \in 1..(1 + n) /\ j + 1 # 1 /\ j + 1 - 1 = j
      OBVIOUS
    <3> QED
      BY <1>11, <3>1
  <2> QED
    BY <2>1
<1>13. DOMAIN all = 1..(1 + n) /\ 1 \in 1..(1 + n)
  BY <1>10
<1>14. Range(all) = Sockets \cup {Listen}
  <2>1. Range(all) \subseteq Sockets \cup {Listen}
    BY <1>5, <1>11, <1>13 DEF Range
  <2>2. Listen \in Range(all)
    BY <1>11, <1>13 DEF Range
  <2>3. \A j \in 1..n : clients[j].socket \in Range(all)
    BY <1>3, <1>12, <1>13 DEF Range
  <2> QED
    BY <1>2, <2>1, <2>2, <2>3 DEF Sockets
<1>15. \A i \in 1..(1 + n) : all[i] = Listen => i = 1
  BY <1>5, <1>11
<1> QED
  BY <1>2, <1>8, <1>10, <1>14, <1>15

(* select() leaves listening and connected sockets, each once.             *)
LEMMA SelectReadableStep ==
  ASSUME RecInv, SelectReadable, UNCHANGED clientVars
  PROVE  RecInv'
<1>1. PICK all, S : all = AllSockets /\ S = {s \in Range(AllSockets) : Ready(s)}
  OBVIOUS
<1>2. PICK kept : kept = Kept(all, S)
  OBVIOUS
<1>3. /\ readable' = kept /\ kept # <<>> /\ inFrame' = TRUE /\ ~inFrame
      /\ UNCHANGED << running, waiting, clients, receiving, allMessages, connVars >>
  BY <1>1, <1>2 DEF SelectReadable
<1>4. /\ all \in Seq(Conn \cup {Listen}) /\ Range(all) = Sockets \cup {Listen}
      /\ \A i \in 1..Len(all) : all[i] = Listen => i = 1
  BY <1>1, Selectable
<1>5. PICK m \in Nat : m = Len(all)
  BY <1>4
<1>6. PICK at : kept \in Seq(Conn \cup {Listen}) /\ Picks(kept, all, S, at, m)
  BY <1>2, <1>4, <1>5, KeptPicks
<1>7. PICK n \in Nat : n = Len(kept)
  BY <1>6
<1>8. /\ at \in [1..n -> 1..m]
      /\ \A k \in 1..n : kept[k] = all[at[k]]
      /\ \A k, l \in 1..n : k < l => at[k] < at[l]
      /\ \A i \in 1..m : all[i] \in S <=> \E k \in 1..n : at[k] = i
  BY <1>6, <1>7 DEF Picks
<1>9. ASSUME NEW k \in 1..n
      PROVE  /\ kept[k] \in Sockets \cup {Listen}
             /\ kept[k] = Listen => k = 1 /\ waiting # <<>>
  <2>1. at[k] \in 1..m /\ kept[k] = all[at[k]] /\ all[at[k]] \in S
    BY <1>8
  <2>2. kept[k] \in Range(all) /\ Ready(kept[k])
    BY <1>1, <2>1
  <2>3. kept[k] = Listen => waiting # <<>>
    BY <2>2 DEF Ready
  <2>4. ASSUME kept[k] = Listen PROVE k = 1
    <3>1. at[k] = 1
      BY <1>4, <1>5, <2>1, <2>4
    <3>2. ASSUME k # 1 PROVE FALSE
      <4>1. 1 \in 1..n /\ 1 < k
        BY <3>2
      <4>2. at[1] < at[k] /\ at[1] \in 1..m
        BY <1>8, <4>1
      <4> QED
        BY <3>1, <4>2
    <3> QED
      BY <3>2
  <2> QED
    BY <1>4, <2>2, <2>3, <2>4
<1>10. receiving = NoConn
  BY <1>3 DEF RecInv, Frame
<1>11. Frame'
  BY <1>3, <1>7, <1>9, <1>10 DEF Frame
<1>12. Range(readable') \subseteq Sockets \cup {Listen}
  <2>1. DOMAIN kept = 1..n
    BY <1>6, <1>7
  <2> QED
    BY <1>3, <1>9, <2>1 DEF Range
<1>13. RecordsMatchSockets'
  BY <1>3, <1>12 DEF RecInv, RecordsMatchSockets, Sockets, connVars
<1>14. TypeOK'
  BY <1>3, <1>6 DEF RecInv, TypeOK, clientVars, connVars
<1>15. Connected' /\ Unmade' /\ Queue'
  BY <1>3 DEF RecInv, Connected, Unmade, Queue, clientVars, connVars
<1> QED
  BY <1>11, <1>13, <1>14, <1>15 DEF RecInv

(* An accepted connection gets a record of its own.                        *)
LEMMA AcceptClientStep ==
  ASSUME RecInv, AcceptClient, UNCHANGED clientVars
  PROVE  RecInv'
<1>1. PICK c, info : c = Head(waiting) /\ info = ClientStateInfo(c)
  OBVIOUS
<1>2. /\ readable # <<>> /\ Head(readable) = Listen /\ receiving = NoConn
      /\ clients' = Append(clients, info) /\ waiting' = Tail(waiting)
      /\ readable' = Tail(readable)
      /\ UNCHANGED << running, inFrame, receiving, allMessages, connVars >>
  BY <1>1 DEF AcceptClient, Reading
<1>3. waiting # <<>>
  BY <1>2, ReadingFacts
<1>4. waiting \in Seq(Conn) /\ clients \in Seq(ClientType)
  BY DEF RecInv, TypeOK
<1>5. PICK q \in Nat : q = Len(waiting)
  BY <1>4
<1>6. PICK rest : rest = Tail(waiting)
  OBVIOUS
<1>7. /\ rest \in Seq(Conn) /\ Len(rest) = q - 1 /\ q \in Nat \ {0}
      /\ \A i \in 1..(q - 1) : rest[i] = waiting[i + 1]
      /\ c = waiting[1] /\ c \in Conn
  <2>1. q # 0
    BY <1>3, <1>4, <1>5, EmptySeq
  <2>2. c = waiting[1] /\ 1 \in 1..q
    BY <1>1, <1>4, <1>5, <2>1
  <2>3. c \in Conn
    BY <1>4, <1>5, <2>2, ElementOfSeq
  <2> QED
    BY <1>3, <1>4, <1>5, <1>6, <2>1, <2>2, <2>3, HeadTailProperties
<1>8. \A i, j \in 1..q : serverEnd[waiting[i]] = "open" /\ (waiting[i] = waiting[j] => i = j)
  BY <1>5 DEF RecInv, Queue
<1>9. \A i \in 1..(q - 1) : i + 1 \in 1..q /\ i + 1 # 1
  BY <1>7
<1>10. Range(rest) = Range(waiting) \ {c}
  <2>1. DOMAIN rest = 1..(q - 1) /\ DOMAIN waiting = 1..q
    BY <1>4, <1>5, <1>7
  <2>2. 1 \in 1..q
    BY <1>7
  <2>3. \A i \in 1..(q - 1) : rest[i] \in Range(waiting) /\ rest[i] # c
    BY <1>7, <1>8, <1>9, <2>1, <2>2 DEF Range
  <2>4. ASSUME NEW i \in 1..q, waiting[i] # c PROVE \E j \in 1..(q - 1) : rest[j] = waiting[i]
    <3>1. i # 1
      BY <1>7, <2>4
    <3>2. i - 1 \in 1..(q - 1) /\ i - 1 + 1 = i
      BY <3>1
    <3> QED
      BY <1>7, <3>2
  <2>5. ASSUME NEW d \in Range(rest) PROVE d \in Range(waiting) \ {c}
    BY <2>1, <2>3 DEF Range
  <2>6. ASSUME NEW d \in Range(waiting) \ {c} PROVE d \in Range(rest)
    <3>1. PICK i \in 1..q : waiting[i] = d
      BY <2>1 DEF Range
    <3> QED
      BY <2>1, <2>4, <3>1 DEF Range
  <2> QED
    BY <2>5, <2>6
<1>11. c \in Range(waiting)
  BY <1>4, <1>5, <1>7 DEF Range
<1>12. serverEnd[c] = "open"
  BY <1>7, <1>8
<1>13. info \in ClientType /\ info.socket = c
  BY <1>1, <1>7, EmptySeq DEF ClientStateInfo, ClientType
<1>14. PICK n \in Nat : n = Len(clients)
  BY <1>4
<1>15. /\ clients' \in Seq(ClientType) /\ Len(clients') = n + 1
       /\ clients'[n + 1] = info /\ \A i \in 1..n : clients'[i] = clients[i]
  BY <1>2, <1>4, <1>13, <1>14, RangeAppend
<1>16. /\ \A i, j \in 1..n : clients[i].socket = clients[j].socket => i = j
       /\ Sockets = {d \in Conn : serverEnd[d] = "open" /\ d \notin Range(waiting)}
       /\ Range(readable) \ {Listen} \subseteq Sockets
  BY <1>14, Records DEF RecInv
<1>17. Sockets' = Sockets \cup {c}
  <2>1. /\ Sockets' = {clients'[i].socket : i \in 1..(n + 1)}
        /\ Sockets = {clients[i].socket : i \in 1..n}
    BY <1>14, <1>15 DEF Sockets
  <2>2. \A i \in 1..(n + 1) : i \in 1..n \/ i = n + 1
    OBVIOUS
  <2>3. n + 1 \in 1..(n + 1) /\ \A i \in 1..n : i \in 1..(n + 1)
    OBVIOUS
  <2> QED
    BY ONLY <1>13, <1>15, <2>1, <2>2, <2>3
<1>18. RecordsMatchSockets'
  <2>1. ASSUME NEW i \in 1..(n + 1), NEW j \in 1..(n + 1), clients'[i].socket = clients'[j].socket
        PROVE  i = j
    <3>1. \A k \in 1..n : clients[k].socket # c
      BY <1>11, <1>14, <1>16 DEF Sockets
    <3>2. (i \in 1..n \/ i = n + 1) /\ (j \in 1..n \/ j = n + 1)
      OBVIOUS
    <3> QED
      BY <1>13, <1>15, <1>16, <2>1, <3>1, <3>2
  <2>2. Sockets' = {d \in Conn : serverEnd'[d] = "open" /\ d \notin Range(waiting)'}
    <3>1. serverEnd' = serverEnd /\ Range(waiting)' = Range(rest)
      BY <1>2, <1>6 DEF connVars, Range
    <3> QED
      BY ONLY <1>7, <1>10, <1>11, <1>12, <1>16, <1>17, <3>1
  <2>3. Range(readable)' \ {Listen} \subseteq Sockets'
    <3>1. Range(readable)' = Range(Tail(readable))
      BY <1>2 DEF Range
    <3> QED
      BY <1>2, <1>16, <1>17, <3>1, ReadingFacts
  <2>4. \A s : s \in Sockets' <=> \E i \in 1..(n + 1) : clients'[i].socket = s
    BY <1>15 DEF Sockets
  <2> QED
    BY <1>15, <2>1, <2>2, <2>3, <2>4 DEF RecordsMatchSockets, Sockets
<1>19. Queue'
  BY <1>2, <1>6, <1>7, <1>8, <1>9 DEF Queue, connVars
<1>20. Frame'
  BY <1>2, ReadingFacts DEF RecInv, Frame
<1>21. TypeOK'
  BY <1>2, <1>6, <1>7, <1>15, ReadingFacts DEF RecInv, TypeOK, clientVars, connVars
<1>22. Connected' /\ Unmade'
  BY <1>2 DEF RecInv, Connected, Unmade, clientVars, connVars
<1> QED
  BY <1>18, <1>19, <1>20, <1>21, <1>22 DEF RecInv

(* The records of invalid sockets go with their sockets.                   *)
LEMMA DeleteInvalidSocketsStep ==
  ASSUME RecInv, DeleteInvalidSockets, UNCHANGED clientVars
  PROVE  RecInv'
<1>1. PICK conns, S :
        /\ conns = {clients[i].socket : i \in {j \in 1..Len(clients) : clients[j].invalid}}
        /\ S = {info \in Range(clients) : ~info.invalid}
  OBVIOUS
<1>2. PICK kept : kept = Kept(clients, S)
  OBVIOUS
<1>3. /\ inFrame /\ readable = <<>> /\ ServerCloses(conns) /\ clients' = kept /\ inFrame' = FALSE
      /\ UNCHANGED << running, waiting, readable, receiving, allMessages, clientEnd >>
  BY <1>1, <1>2 DEF DeleteInvalidSockets
<1>4. clients \in Seq(ClientType)
  BY DEF RecInv, TypeOK
<1>5. PICK m \in Nat : m = Len(clients)
  BY <1>4
<1>6. PICK at : kept \in Seq(ClientType) /\ Picks(kept, clients, S, at, m)
  BY <1>2, <1>4, <1>5, KeptPicks
<1>7. PICK n \in Nat : n = Len(kept)
  BY <1>6
<1>8. /\ at \in [1..n -> 1..m]
      /\ \A k \in 1..n : kept[k] = clients[at[k]]
      /\ \A k, l \in 1..n : k < l => at[k] < at[l]
      /\ \A i \in 1..m : clients[i] \in S <=> \E k \in 1..n : at[k] = i
  BY <1>6, <1>7 DEF Picks
<1>9. /\ \A i, j \in 1..m : clients[i].socket = clients[j].socket => i = j
      /\ Sockets = {c \in Conn : serverEnd[c] = "open" /\ c \notin Range(waiting)}
      /\ Sockets = {clients[i].socket : i \in 1..m}
  BY <1>5, Records DEF RecInv, Sockets
<1>10. ASSUME NEW i \in 1..m PROVE clients[i] \in S <=> clients[i].socket \notin conns
  <2>1. clients[i] \in Range(clients)
    BY <1>4, <1>5 DEF Range
  <2>2. clients[i].socket \in conns <=> clients[i].invalid
    BY <1>1, <1>5, <1>9
  <2> QED
    BY <1>1, <2>1, <2>2
<1>11. conns \subseteq Sockets /\ conns \subseteq Conn /\ \A c \in conns : serverEnd[c] = "open"
  BY <1>1, <1>5, <1>9
<1>12. /\ transit' \in [Conn -> Seq(PacketByte)]
       /\ serverEnd' \in [Conn -> {"none", "open", "closed", "reset"}]
       /\ \A c \in Conn : serverEnd'[c] = "open" <=> serverEnd[c] = "open" /\ c \notin conns
       /\ \A c \in Conn \ conns : serverEnd'[c] = serverEnd[c]
       /\ Unmade'
  BY <1>3, <1>11, Closing DEF clientVars
<1>13. {kept[k].socket : k \in 1..n} = Sockets \ conns
  <2>1. ASSUME NEW k \in 1..n PROVE kept[k].socket \in Sockets \ conns
    <3>1. at[k] \in 1..m /\ kept[k] = clients[at[k]] /\ clients[at[k]] \in S
      BY <1>8
    <3> QED
      BY <1>9, <1>10, <3>1
  <2>2. ASSUME NEW s \in Sockets \ conns PROVE \E k \in 1..n : kept[k].socket = s
    <3>1. PICK i \in 1..m : clients[i].socket = s
      BY <1>9
    <3>2. PICK k \in 1..n : at[k] = i
      BY <1>8, <1>10, <3>1
    <3> QED
      BY <1>8, <3>1, <3>2
  <2> QED
    BY <2>1, <2>2
<1>14. ASSUME NEW k \in 1..n, NEW l \in 1..n, kept[k].socket = kept[l].socket PROVE k = l
  <2>1. at[k] \in 1..m /\ at[l] \in 1..m /\ clients[at[k]].socket = clients[at[l]].socket
    BY <1>8, <1>14
  <2>2. at[k] = at[l]
    BY <1>9, <2>1
  <2> QED
    BY <1>8, <2>1, <2>2
<1>15. Range(waiting)' = Range(waiting) /\ Range(readable)' = {}
  <2>1. waiting' = waiting /\ readable' = <<>> /\ DOMAIN readable' = {}
    BY <1>3
  <2> QED
    BY <2>1 DEF Range
<1>16. RecordsMatchSockets'
  <2>1. Len(clients') = n /\ clients' = kept
    BY <1>3, <1>7
  <2>2. Sockets' = Sockets \ conns
    BY <1>13, <2>1 DEF Sockets
  <2>3. Sockets' = {c \in Conn : serverEnd'[c] = "open" /\ c \notin Range(waiting)'}
    BY ONLY <1>9, <1>12, <1>15, <2>2
  <2>4. \A s : s \in Sockets' <=> \E i \in 1..n : clients'[i].socket = s
    BY <2>1 DEF Sockets
  <2> QED
    BY <1>14, <1>15, <2>1, <2>3, <2>4 DEF RecordsMatchSockets, Sockets
<1>17. Queue'
  <2>1. ASSUME NEW i \in 1..Len(waiting) PROVE serverEnd'[waiting[i]] = "open"
    <3>1. waiting[i] \in Conn /\ waiting[i] \in Range(waiting)
      BY ElementOfSeq DEF RecInv, TypeOK, Range
    <3>2. waiting[i] \notin conns
      BY <1>9, <1>11, <3>1
    <3>3. serverEnd[waiting[i]] = "open"
      BY DEF RecInv, Queue
    <3> QED
      BY <1>12, <3>1, <3>2, <3>3
  <2> QED
    BY <1>3, <2>1 DEF Queue, RecInv
<1>18. Frame'
  BY <1>3 DEF RecInv, Frame
<1>19. TypeOK'
  BY <1>3, <1>6, <1>12 DEF RecInv, TypeOK, clientVars, PacketByte
<1>20. Connected'
  BY <1>3 DEF RecInv, Connected, clientVars
<1> QED
  BY <1>12, <1>16, <1>17, <1>18, <1>19, <1>20 DEF RecInv

(* Connections are numbers.                                                *)
LEMMA ConnNumbers ==
  ASSUME RecInv
  PROVE  /\ nextConn \in Int /\ NoConn < nextConn
         /\ \A k \in Client : connSocket[k] \in Conn \cup {NoConn} /\ connSocket[k] \in Int
<1>1. nextConn \in 1..(MaxConns + 1) /\ MaxConns \in Nat
  BY Constants DEF RecInv, TypeOK
<1>2. ASSUME NEW k \in Client
      PROVE  connSocket[k] \in Conn \cup {NoConn} /\ connSocket[k] \in Int
  <2>1. connSocket[k] \in Conn \cup {NoConn}
    BY DEF RecInv, TypeOK
  <2>2. Conn \cup {NoConn} \subseteq Int
    BY DEF Conn, NoConn
  <2> QED
    BY <2>1, <2>2
<1> QED
  BY <1>1, <1>2 DEF NoConn

(* A client makes a new connection, and it waits to be accepted.           *)
LEMMA ConnectStep ==
  ASSUME RecInv, NEW k \in Client, Connect(k)
  PROVE  RecInv'
<1>1. PICK c : c = nextConn
  OBVIOUS
<1>2. /\ running /\ nextConn <= MaxConns
      /\ state' = [state EXCEPT ![k] = "Connected"]
      /\ messengerState' = [messengerState EXCEPT ![k] = "SendingLogin"]
      /\ connSocket' = [connSocket EXCEPT ![k] = c]
      /\ nextConn' = c + 1
      /\ waiting' = Append(waiting, c)
      /\ clientEnd' = [clientEnd EXCEPT ![c] = "open"]
      /\ serverEnd' = [serverEnd EXCEPT ![c] = "open"]
      /\ UNCHANGED << running, clients, inFrame, readable, receiving, allMessages,
                      transit, sentPackets >>
  BY <1>1 DEF Connect
<1>3. c \in Conn /\ nextConn \in 1..(MaxConns + 1) /\ MaxConns \in Nat
  BY <1>1, <1>2, Constants DEF RecInv, TypeOK, Conn
<1>4. serverEnd[c] = "none" /\ clientEnd[c] = "none"
  BY <1>1, <1>3 DEF RecInv, Unmade, Conn
<1>5. waiting \in Seq(Conn) /\ clients \in Seq(ClientType)
  BY DEF RecInv, TypeOK
<1>6. PICK q \in Nat : q = Len(waiting)
  BY <1>5
<1>7. PICK more : more = Append(waiting, c)
  OBVIOUS
<1>8. /\ more \in Seq(Conn) /\ Len(more) = q + 1 /\ more # <<>> /\ more[q + 1] = c
      /\ \A i \in 1..q : more[i] = waiting[i]
      /\ Range(more) = Range(waiting) \cup {c}
  BY <1>3, <1>5, <1>6, <1>7, RangeAppend
<1>9. /\ serverEnd'[c] = "open" /\ \A d \in Conn \ {c} : serverEnd'[d] = serverEnd[d]
      /\ serverEnd' \in [Conn -> {"none", "open", "closed", "reset"}]
      /\ clientEnd' \in [Conn -> {"none", "open", "closed", "reset"}]
      /\ \A d \in Conn \ {c} : clientEnd'[d] = clientEnd[d]
  BY <1>2, <1>3 DEF RecInv, TypeOK
<1>10. \A i, j \in 1..q :
         /\ waiting[i] \in Conn \ {c} /\ serverEnd[waiting[i]] = "open"
         /\ waiting[i] = waiting[j] => i = j
  BY <1>4, <1>5, <1>6, ElementOfSeq DEF RecInv, Queue
<1>11. Queue'
  <2>1. \A i \in 1..(q + 1) : i \in 1..q \/ i = q + 1
    BY ONLY q \in Nat
  <2>2. ASSUME NEW i \in 1..(q + 1), NEW j \in 1..(q + 1)
        PROVE  serverEnd'[more[i]] = "open" /\ (more[i] = more[j] => i = j)
    BY <1>8, <1>9, <1>10, <2>1
  <2> QED
    BY <1>2, <1>7, <1>8, <2>2 DEF Queue
<1>12. Sockets = {d \in Conn : serverEnd[d] = "open" /\ d \notin Range(waiting)}
  BY Records DEF RecInv
<1>13. {d \in Conn : serverEnd'[d] = "open" /\ d \notin Range(more)} = Sockets
  BY <1>4, <1>8, <1>9, <1>12
<1>14. RecordsMatchSockets'
  <2>1. Sockets' = Sockets /\ Range(waiting)' = Range(more) /\ Range(readable)' = Range(readable)
    BY <1>2, <1>7 DEF Sockets, Range
  <2>2. Sockets' = {d \in Conn : serverEnd'[d] = "open" /\ d \notin Range(waiting)'}
    BY <1>13, <2>1
  <2> QED
    BY <1>2, <2>1, <2>2 DEF RecInv, RecordsMatchSockets, Sockets
<1>15. Frame'
  BY <1>2, <1>7, <1>8 DEF RecInv, Frame
<1>16. TypeOK'
  <2>1. nextConn' \in 1..(MaxConns + 1)
    BY <1>1, <1>2, <1>3
  <2>2. /\ state' \in [Client -> {"Disconnected", "Connected", "Disconnecting"}]
        /\ messengerState' \in
             [Client -> {"SendingLogin", "RequestingMessages", "ReceivingMessages"}]
        /\ connSocket' \in [Client -> Conn \cup {NoConn}]
    BY <1>2, <1>3 DEF RecInv, TypeOK
  <2>3. /\ running' \in BOOLEAN /\ inFrame' \in BOOLEAN
        /\ clients' \in Seq(ClientType)
        /\ readable' \in Seq(Conn \cup {Listen})
        /\ receiving' \in Conn \cup {NoConn}
        /\ allMessages' \in Seq(Packet)
        /\ transit' \in [Conn -> Seq(Packet \X (1..PacketSize))]
        /\ sentPackets' \in [Conn -> Seq(Packet)]
    BY <1>2 DEF RecInv, TypeOK
  <2>4. waiting' \in Seq(Conn)
    BY <1>2, <1>7, <1>8
  <2> QED
    BY <1>9, <2>1, <2>2, <2>3, <2>4 DEF TypeOK
<1>17. Connected'
  <2>1. ASSUME NEW l \in Client
        PROVE  connSocket'[l] < nextConn' /\ (state'[l] = "Connected" => connSocket'[l] # NoConn)
    <3>1. CASE l = k
      <4>1. connSocket'[l] = c /\ c # NoConn /\ c \in Int
        BY <1>2, <1>3, <3>1, Constants DEF RecInv, TypeOK
      <4> QED
        BY ONLY <1>2, <4>1
    <3>2. CASE l # k
      <4>1. connSocket'[l] = connSocket[l] /\ state'[l] = state[l]
        BY <1>2, <3>2 DEF RecInv, TypeOK
      <4>2. connSocket[l] < c /\ (state[l] = "Connected" => connSocket[l] # NoConn)
        BY <1>1 DEF RecInv, Connected
      <4>3. connSocket[l] \in Int /\ c \in Int
        BY <1>3, Constants, ConnNumbers
      <4> QED
        BY ONLY <1>2, <4>1, <4>2, <4>3
    <3> QED
      BY <3>1, <3>2
  <2> QED
    BY <2>1 DEF Connected
<1>18. Unmade'
  <2>1. ASSUME NEW d \in Conn, d >= c + 1 PROVE d # c /\ d >= nextConn
    BY <1>1, <1>3, <2>1, Constants
  <2> QED
    BY <1>2, <1>9, <2>1 DEF RecInv, Unmade
<1> QED
  BY <1>11, <1>14, <1>15, <1>16, <1>17, <1>18 DEF RecInv

(* A step of a client that connects nothing: the server keeps what it has. *)
LEMMA ClientKeeps ==
  ASSUME RecInv, UNCHANGED serverVars, serverEnd' = serverEnd
  PROVE  RecordsMatchSockets' /\ Queue' /\ Frame'
  BY DEF RecInv, RecordsMatchSockets, Queue, Frame, serverVars

(* A client that cannot connect has no socket.                             *)
LEMMA ConnectFailsStep ==
  ASSUME RecInv, NEW k \in Client, ConnectFails(k)
  PROVE  RecInv'
<1>1. /\ state' = [state EXCEPT ![k] = "Disconnecting"]
      /\ connSocket' = [connSocket EXCEPT ![k] = NoConn]
      /\ UNCHANGED << messengerState, nextConn, sentPackets, serverVars, connVars >>
  BY DEF ConnectFails
<1>2. RecordsMatchSockets' /\ Queue' /\ Frame'
  BY <1>1, ClientKeeps DEF connVars
<1>3. TypeOK'
  BY <1>1 DEF RecInv, TypeOK, serverVars, connVars
<1>4. Connected'
  BY <1>1, ConnNumbers DEF RecInv, Connected, TypeOK
<1>5. Unmade'
  BY <1>1 DEF RecInv, Unmade, connVars
<1> QED
  BY <1>2, <1>3, <1>4, <1>5 DEF RecInv

(* The messenger of a client sends what its state says.                    *)
LEMMA ClientFrameStep ==
  ASSUME RecInv, NEW k \in Client, ClientFrame(k)
  PROVE  RecInv'
<1>1. /\ state[k] = "Connected"
      /\ state' = [state EXCEPT ![k] =
                     IF serverEnd[connSocket[k]] = "open" THEN @ ELSE "Disconnecting"]
      /\ UpdateMessenger(k)
      /\ UNCHANGED << connSocket, nextConn, sentPackets, serverVars, connVars >>
  BY DEF ClientFrame
<1>2. RecordsMatchSockets' /\ Queue' /\ Frame'
  BY <1>1, ClientKeeps DEF connVars
<1>3. messengerState' \in [Client -> {"SendingLogin", "RequestingMessages", "ReceivingMessages"}]
  <2>1. PICK m : m = CASE messengerState[k] = "SendingLogin"       -> "RequestingMessages"
                       [] messengerState[k] = "RequestingMessages" -> "ReceivingMessages"
                       [] OTHER                                    -> messengerState[k]
    OBVIOUS
  <2>2. messengerState' = [messengerState EXCEPT ![k] = m]
    BY <1>1, <2>1 DEF UpdateMessenger
  <2>3. messengerState[k] \in {"SendingLogin", "RequestingMessages", "ReceivingMessages"}
    BY DEF RecInv, TypeOK
  <2>4. m \in {"SendingLogin", "RequestingMessages", "ReceivingMessages"}
    BY <2>1, <2>3
  <2> QED
    BY <2>2, <2>4 DEF RecInv, TypeOK
<1>4. state' \in [Client -> {"Disconnected", "Connected", "Disconnecting"}]
  BY <1>1 DEF RecInv, TypeOK
<1>5. TypeOK'
  BY <1>1, <1>3, <1>4 DEF RecInv, TypeOK, serverVars, connVars
<1>6. Connected'
  <2>1. \A l \in Client : state'[l] = "Connected" => state[l] = "Connected"
    BY <1>1 DEF RecInv, TypeOK
  <2> QED
    BY <1>1, <2>1 DEF RecInv, Connected
<1>7. Unmade'
  BY <1>1 DEF RecInv, Unmade, connVars
<1> QED
  BY <1>2, <1>5, <1>6, <1>7 DEF RecInv

(* A button of a client changes its state alone.                           *)
LEMMA PressDisconnectStep ==
  ASSUME RecInv, NEW k \in Client, PressDisconnect(k)
  PROVE  RecInv'
<1>1. /\ state' = [state EXCEPT ![k] = "Disconnecting"]
      /\ UNCHANGED << messengerState, connSocket, nextConn, sentPackets, serverVars, connVars >>
  BY DEF PressDisconnect
<1>2. RecordsMatchSockets' /\ Queue' /\ Frame'
  BY <1>1, ClientKeeps DEF connVars
<1>3. TypeOK'
  BY <1>1 DEF RecInv, TypeOK, serverVars, connVars
<1>4. Connected'
  BY <1>1 DEF RecInv, Connected, TypeOK
<1>5. Unmade'
  BY <1>1 DEF RecInv, Unmade, connVars
<1> QED
  BY <1>2, <1>3, <1>4, <1>5 DEF RecInv

(* A client closes its end of its connection.                              *)
LEMMA DisconnectFromServerStep ==
  ASSUME RecInv, NEW k \in Client, DisconnectFromServer(k)
  PROVE  RecInv'
<1>1. PICK c : c = connSocket[k]
  OBVIOUS
<1>2. /\ state' = [state EXCEPT ![k] = "Disconnected"]
      /\ clientEnd' = [d \in Conn |-> IF d = c THEN "closed" ELSE clientEnd[d]]
      /\ UNCHANGED << messengerState, connSocket, nextConn, sentPackets, serverVars,
                      transit, serverEnd >>
  BY <1>1 DEF DisconnectFromServer
<1>3. RecordsMatchSockets' /\ Queue' /\ Frame'
  BY <1>2, ClientKeeps
<1>4. clientEnd' \in [Conn -> {"none", "open", "closed", "reset"}]
  BY <1>2 DEF RecInv, TypeOK
<1>5. TypeOK'
  BY <1>2, <1>4 DEF RecInv, TypeOK, serverVars
<1>6. Connected'
  BY <1>2 DEF RecInv, Connected, TypeOK
<1>7. Unmade'
  <2>1. ASSUME NEW d \in Conn, d >= nextConn PROVE d # c
    <3>1. c < nextConn /\ nextConn \in Int /\ c \in Int
      BY <1>1, ConnNumbers DEF RecInv, Connected
    <3> QED
      BY <2>1, <3>1
  <2> QED
    BY <1>2, <2>1 DEF RecInv, Unmade
<1> QED
  BY <1>3, <1>5, <1>6, <1>7 DEF RecInv

(* A client that is killed may reset its connection.                       *)
LEMMA KillClientStep ==
  ASSUME RecInv, NEW k \in Client, KillClient(k)
  PROVE  RecInv'
<1>1. PICK c : c = connSocket[k]
  OBVIOUS
<1>2. /\ state[k] = "Connected"
      /\ state' = [state EXCEPT ![k] = "Disconnected"]
      /\ messengerState' = [messengerState EXCEPT ![k] = "SendingLogin"]
      /\ clientEnd' = [clientEnd EXCEPT ![c] = "reset"]
      /\ transit' = [transit EXCEPT ![c] = <<>>]
      /\ UNCHANGED << connSocket, nextConn, sentPackets, serverVars, serverEnd >>
  BY <1>1 DEF KillClient
<1>3. RecordsMatchSockets' /\ Queue' /\ Frame'
  BY <1>2, ClientKeeps
<1>4. /\ clientEnd' \in [Conn -> {"none", "open", "closed", "reset"}]
      /\ transit' \in [Conn -> Seq(PacketByte)]
  BY <1>2, EmptySeq DEF RecInv, TypeOK, PacketByte
<1>5. TypeOK'
  BY <1>2, <1>4 DEF RecInv, TypeOK, serverVars, PacketByte
<1>6. Connected'
  BY <1>2 DEF RecInv, Connected, TypeOK
<1>7. Unmade'
  <2>1. ASSUME NEW d \in Conn, d >= nextConn PROVE d # c
    <3>1. c < nextConn /\ nextConn \in Int /\ c \in Int
      BY <1>1, ConnNumbers DEF RecInv, Connected
    <3> QED
      BY <2>1, <3>1
  <2> QED
    BY <1>2, <2>1 DEF RecInv, Unmade, TypeOK
<1> QED
  BY <1>3, <1>5, <1>6, <1>7 DEF RecInv

(* The packets of one connection are some of those that were sent.         *)
LEMMA SentCount ==
  ASSUME RecInv, NEW c \in Conn, Cardinality(Sent) < MaxPackets
  PROVE  Len(sentPackets[c]) + 1 \in 1..MaxPackets
<1>1. PICK n \in Nat : n = Len(sentPackets[c])
  BY DEF RecInv, TypeOK
<1>2. PICK S : S = {{d} \X (1..Len(sentPackets[d])) : d \in Conn}
  OBVIOUS
<1>3. IsFiniteSet(S)
  <2>1. IsFiniteSet(Conn)
    BY FS_Interval, Constants DEF Conn
  <2> QED
    <3>1. PICK f : f = [d \in Conn |-> {d} \X (1..Len(sentPackets[d]))]
      OBVIOUS
    <3>2. f \in Surjection(Conn, S)
      BY <1>2, <3>1 DEF Surjection
    <3> QED
      BY <2>1, <3>2, FS_Surjection DEF ExistsSurjection
<1>4. ASSUME NEW d \in Conn
      PROVE  LET l == Len(sentPackets[d]) IN
             IsFiniteSet({d} \X (1..l)) /\ Cardinality({d} \X (1..l)) = l
  <2>1. PICK l \in Nat : l = Len(sentPackets[d])
    BY DEF RecInv, TypeOK
  <2>2. IsFiniteSet(1..l) /\ Cardinality(1..l) = l
    BY FS_Interval
  <2>3. IsFiniteSet({d}) /\ Cardinality({d}) = 1
    BY FS_Singleton
  <2>4. IsFiniteSet({d} \X (1..l)) /\ Cardinality({d} \X (1..l)) = 1 * l
    BY <2>2, <2>3, FS_Product
  <2> QED
    BY <2>1, <2>4
<1>5. IsFiniteSet(Sent)
  <2>1. \A T \in S : IsFiniteSet(T)
    BY <1>2, <1>4
  <2>2. IsFiniteSet(UNION S)
    BY <1>3, <2>1, FS_UNION
  <2> QED
    BY <1>2, <2>2 DEF Sent
<1>6. PICK own : own = {c} \X (1..n)
  OBVIOUS
<1>7. own \subseteq Sent /\ Cardinality(own) = n
  BY <1>1, <1>4, <1>6 DEF Sent
<1>8. Cardinality(own) <= Cardinality(Sent) /\ Cardinality(Sent) \in Nat
  BY <1>5, <1>7, FS_Subset, FS_CardinalityType
<1> QED
  BY <1>1, <1>7, <1>8, Constants

(* A packet is sent on the connection of a client.                         *)
LEMMA TransmitStep ==
  ASSUME RecInv, NEW k \in Client, NEW type \in SentType, Transmit(k, type)
  PROVE  RecInv'
<1>1. PICK c, p : /\ c = connSocket[k]
                  /\ p = [type |-> type, conn |-> c, number |-> Len(sentPackets[c]) + 1]
  OBVIOUS
<1>2. /\ state[k] = "Connected" /\ serverEnd[c] = "open" /\ Cardinality(Sent) < MaxPackets
      /\ transit' = [transit EXCEPT ![c] = @ \o Bytes(p)]
      /\ sentPackets' = [sentPackets EXCEPT ![c] = Append(@, p)]
      /\ UNCHANGED << state, messengerState, connSocket, nextConn, serverVars,
                      clientEnd, serverEnd >>
  BY <1>1 DEF Transmit
<1>3. c \in Conn /\ c < nextConn
  BY <1>1, <1>2, ConnNumbers DEF RecInv, Connected
<1>4. p \in Packet
  BY <1>1, <1>2, <1>3, SentCount, SentAssumption DEF Packet
<1>5. Bytes(p) \in Seq(PacketByte)
  BY <1>4, Constants DEF Bytes, PacketByte
<1>6. /\ transit' \in [Conn -> Seq(PacketByte)]
      /\ sentPackets' \in [Conn -> Seq(Packet)]
  <2>1. transit[c] \o Bytes(p) \in Seq(PacketByte)
    BY <1>3, <1>5, ConcatProperties DEF RecInv, TypeOK, PacketByte
  <2>2. Append(sentPackets[c], p) \in Seq(Packet)
    BY <1>3, <1>4, AppendProperties DEF RecInv, TypeOK
  <2> QED
    BY <1>2, <2>1, <2>2 DEF RecInv, TypeOK, PacketByte
<1>7. TypeOK'
  BY <1>2, <1>6 DEF RecInv, TypeOK, serverVars, PacketByte
<1>8. RecordsMatchSockets' /\ Queue' /\ Frame'
  BY <1>2, ClientKeeps
<1>9. Connected'
  BY <1>2 DEF RecInv, Connected
<1>10. Unmade'
  <2>1. ASSUME NEW d \in Conn, d >= nextConn PROVE d # c
    BY <1>3, <2>1, ConnNumbers, Constants
  <2> QED
    BY <1>2, <2>1 DEF RecInv, Unmade, TypeOK
<1> QED
  BY <1>7, <1>8, <1>9, <1>10 DEF RecInv

-----------------------------------------------------------------------------
(* The records, in all steps.                                              *)

(* At the start there are no records and no connections.                   *)
LEMMA StartRecords == Init => RecInv
<1> SUFFICES ASSUME Init PROVE RecInv
  OBVIOUS
<1>1. /\ running = FALSE /\ waiting = <<>> /\ clients = <<>> /\ inFrame = FALSE
      /\ readable = <<>> /\ receiving = NoConn /\ allMessages = <<>>
      /\ transit = [c \in Conn |-> <<>>]
      /\ clientEnd = [c \in Conn |-> "none"] /\ serverEnd = [c \in Conn |-> "none"]
      /\ state = [k \in Client |-> "Disconnected"]
      /\ messengerState = [k \in Client |-> "SendingLogin"]
      /\ connSocket = [k \in Client |-> NoConn]
      /\ nextConn = 1 /\ sentPackets = [c \in Conn |-> <<>>]
  BY DEF Init, ServerInit
<1>2. TypeOK
  <2>1. nextConn \in 1..(MaxConns + 1)
    BY <1>1, Constants
  <2>2. \A T : <<>> \in Seq(T)
    BY EmptySeq
  <2>3. /\ transit \in [Conn -> Seq(Packet \X (1..PacketSize))]
        /\ sentPackets \in [Conn -> Seq(Packet)]
        /\ clientEnd \in [Conn -> {"none", "open", "closed", "reset"}]
        /\ serverEnd \in [Conn -> {"none", "open", "closed", "reset"}]
    BY <1>1, <2>2
  <2>4. /\ state \in [Client -> {"Disconnected", "Connected", "Disconnecting"}]
        /\ messengerState \in
             [Client -> {"SendingLogin", "RequestingMessages", "ReceivingMessages"}]
        /\ connSocket \in [Client -> Conn \cup {NoConn}]
    BY <1>1
  <2> QED
    BY <1>1, <2>1, <2>2, <2>3, <2>4 DEF TypeOK
<1>3. Len(clients) = 0 /\ Len(waiting) = 0 /\ Len(readable) = 0 /\ DOMAIN readable = {}
  BY <1>1
<1>4. RecordsMatchSockets
  BY <1>1, <1>3 DEF RecordsMatchSockets, Range
<1>5. Connected /\ Unmade /\ Queue /\ Frame
  BY <1>1, <1>3 DEF Connected, Unmade, Queue, Frame, NoConn
<1> QED
  BY <1>2, <1>4, <1>5 DEF RecInv

(* Every step keeps the invariant of the records.                          *)
LEMMA RecordsStep == RecInv /\ [Next]_mailVars => RecInv'
<1> SUFFICES ASSUME RecInv, [Next]_mailVars PROVE RecInv'
  OBVIOUS
<1>1. CASE UNCHANGED mailVars
  <2>1. UNCHANGED << serverVars, connVars, clientVars >>
    BY <1>1 DEF mailVars
  <2>2. RecordsMatchSockets' /\ Queue' /\ Frame'
    BY <2>1, ClientKeeps DEF connVars
  <2>3. TypeOK' /\ Connected' /\ Unmade'
    BY <2>1 DEF RecInv, TypeOK, Connected, Unmade, serverVars, connVars, clientVars
  <2> QED
    BY <2>2, <2>3 DEF RecInv
<1>2. CASE ServerUpdates
  BY <1>2, SelectReadableStep, AcceptClientStep, ReceiveBytesStep, ReceiveEndStep, TakePacketStep,
     LoopEndsStep, DeleteInvalidSocketsStep DEF ServerUpdates, ServerFrame
<1>3. CASE ServerButtons
  BY <1>3, StartServerStep, StopServerStep DEF ServerButtons
<1>4. CASE \E k \in Client :
              \/ Connect(k) \/ ConnectFails(k) \/ ClientUpdates(k) \/ PressDisconnect(k)
              \/ KillClient(k)
  BY <1>4, ConnectStep, ConnectFailsStep, ClientFrameStep, DisconnectFromServerStep,
     PressDisconnectStep, KillClientStep DEF ClientUpdates
<1>5. CASE \E k \in Client, type \in SentType : Transmit(k, type)
  BY <1>5, TransmitStep
<1> QED
  BY <1>1, <1>2, <1>3, <1>4, <1>5 DEF Next

(* The invariant of the records holds.                                     *)
LEMMA RecordsInvariant == Spec => []RecInv
  BY StartRecords, RecordsStep, PTL DEF Spec

(* TypeOK: every variable keeps its type. A record is added only with      *)
(* accept() and updated only where its socket is found                     *)
(* (handleIncomingData, handleIncomingDataFromClient), the list that       *)
(* select() leaves names the listen socket and sockets with records, and a *)
(* client holds no connection beyond those that were made.                 *)
THEOREM MailTypes == Spec => []TypeOK
<1>1. RecInv => TypeOK
  BY DEF RecInv
<1> QED
  BY <1>1, RecordsInvariant, PTL

(* RecordsMatchSockets: the server has exactly one record for every socket *)
(* it took a connection on and did not close, in whatever order clients    *)
(* connect, disconnect, are killed, and the server is stopped and started: *)
(* createClientStateInfoForSocket() adds one with accept(),                *)
(* deleteInvalidSockets() and stopServer() close a socket and drop its     *)
(* record together.                                                        *)
THEOREM RecordsMatch == Spec => []RecordsMatchSockets
<1>1. RecInv => RecordsMatchSockets
  BY DEF RecInv
<1> QED
  BY <1>1, RecordsInvariant, PTL

-----------------------------------------------------------------------------
(* The bytes of a stream, and the packets they are of.                     *)

(* The bytes before packet q + 1 of a stream.                              *)
Before(q) == q * PacketSize

(* The bytes are those of the packets that were sent, from packet n + 1 on.*)
Follows(bytes, sent, n) ==
  \A q \in Nat : \A r \in 1..PacketSize :
    Before(q) + r <= Len(bytes)
      => n + q + 1 <= Len(sent) /\ bytes[Before(q) + r] = << sent[n + q + 1], r >>

(* The bytes of packet q + 1 come behind those of q packets.               *)
LEMMA Packing ==
  /\ Before(0) = 0
  /\ \A q \in Nat : Before(q) \in Nat /\ Before(q + 1) = Before(q) + PacketSize
  /\ \A p, q \in Nat : p < q => Before(p) + PacketSize <= Before(q)
<1>1. PICK s \in Nat : s = PacketSize
  BY Constants
<1>2. Before(0) = 0
  BY <1>1 DEF Before
<1>3. ASSUME NEW q \in Nat PROVE Before(q) \in Nat /\ Before(q + 1) = Before(q) + PacketSize
  <2>1. q * s \in Nat /\ (q + 1) * s = q * s + s
    OBVIOUS
  <2> QED
    BY <1>1, <2>1 DEF Before
<1>4. ASSUME NEW p \in Nat, NEW q \in Nat, p < q PROVE Before(p) + PacketSize <= Before(q)
  <2>1. PICK k \in Nat : k = q - p - 1
    BY <1>4
  <2>2. q = p + 1 + k
    BY <2>1
  <2>3. k * s \in Nat /\ (p + 1 + k) * s = p * s + s + k * s /\ p * s \in Nat
    OBVIOUS
  <2>4. q * s = p * s + s + k * s
    BY ONLY <2>2, <2>3
  <2>5. p * s + s <= q * s
    BY ONLY <2>3, <2>4, s \in Nat
  <2> QED
    BY ONLY <1>1, <2>5 DEF Before
<1> QED
  BY <1>2, <1>3, <1>4

(* Where a byte of a packet is.                                            *)
LEMMA Placed ==
  ASSUME NEW q \in Nat, NEW r \in 1..PacketSize
  PROVE  Before(q) + r \in Nat \ {0} /\ Before(q) \in Nat /\ r \in Nat
<1>1. PacketSize \in Nat
  BY Constants
<1>2. Before(q) \in Nat
  BY Packing
<1> QED
  BY ONLY <1>1, <1>2, r \in 1..PacketSize

(* Nothing, and the first of the bytes that follow.                        *)
LEMMA FollowsNone ==
  ASSUME NEW sent, NEW n \in Nat
  PROVE  Follows(<<>>, sent, n)
<1>1. Len(<<>>) = 0
  OBVIOUS
<1>2. ASSUME NEW q \in Nat, NEW r \in 1..PacketSize PROVE ~(Before(q) + r <= 0)
  BY Placed
<1> QED
  BY <1>1, <1>2 DEF Follows

(* What is left when bytes at the end are lost follows, too.               *)
LEMMA FollowsLess ==
  ASSUME NEW T, NEW bytes \in Seq(T), NEW fewer \in Seq(T), NEW sent, NEW n \in Nat,
         Follows(bytes, sent, n),
         Len(fewer) <= Len(bytes), \A i \in 1..Len(fewer) : fewer[i] = bytes[i]
  PROVE  Follows(fewer, sent, n)
<1>1. ASSUME NEW q \in Nat, NEW r \in 1..PacketSize, Before(q) + r <= Len(fewer)
      PROVE  n + q + 1 <= Len(sent) /\ fewer[Before(q) + r] = << sent[n + q + 1], r >>
  <2>1. PICK i \in Nat : i = Before(q) + r
    BY Placed
  <2>2. i \in 1..Len(fewer) /\ i <= Len(bytes)
    <3>1. i # 0
      BY <2>1, Placed
    <3>2. i <= Len(fewer) /\ Len(fewer) \in Nat /\ Len(bytes) \in Nat
      BY <1>1, <2>1
    <3> QED
      BY ONLY <3>1, <3>2, i \in Nat, Len(fewer) <= Len(bytes)
  <2>3. n + q + 1 <= Len(sent) /\ bytes[i] = << sent[n + q + 1], r >>
    BY <2>1, <2>2 DEF Follows
  <2> QED
    BY <2>1, <2>2, <2>3
<1> QED
  BY <1>1 DEF Follows

(* The first bytes are those of the first packet that follows.             *)
LEMMA FollowsFirst ==
  ASSUME NEW bytes, NEW sent, NEW n \in Nat,
         Follows(bytes, sent, n), Len(bytes) \in Nat, Len(bytes) >= PacketSize
  PROVE  n + 1 <= Len(sent) /\ bytes[1] = << sent[n + 1], 1 >>
<1>1. 1 \in 1..PacketSize /\ PacketSize \in Nat
  BY Constants
<1>2. Before(0) + 1 = 1 /\ n + 0 + 1 = n + 1 /\ 0 \in Nat
  BY Packing
<1>3. 1 <= Len(bytes)
  BY <1>1
<1>4. Before(0) + 1 <= Len(bytes)
        => n + 0 + 1 <= Len(sent) /\ bytes[Before(0) + 1] = << sent[n + 0 + 1], 1 >>
  BY <1>1, <1>2 DEF Follows
<1> QED
  BY ONLY <1>2, <1>3, <1>4

(* When a packet is taken out, the others follow.                          *)
LEMMA FollowsNext ==
  ASSUME NEW bytes, NEW later, NEW sent, NEW n \in Nat, NEW l \in Nat,
         Follows(bytes, sent, n), Len(bytes) = PacketSize + l, Len(later) = l,
         \A i \in 1..l : later[i] = bytes[PacketSize + i]
  PROVE  Follows(later, sent, n + 1)
<1>1. ASSUME NEW q \in Nat, NEW r \in 1..PacketSize, Before(q) + r <= Len(later)
      PROVE  n + 1 + q + 1 <= Len(sent) /\ later[Before(q) + r] = << sent[n + 1 + q + 1], r >>
  <2>1. PICK i \in Nat : i = Before(q) + r
    BY Placed
  <2>2. i \in 1..l
    <3>1. i # 0
      BY <2>1, Placed
    <3> QED
      BY <1>1, <2>1, <3>1
  <2>3. PICK p \in Nat : p = q + 1
    OBVIOUS
  <2>4. PICK j \in Nat : j = Before(p) + r
    BY Placed
  <2>5. j = PacketSize + i
    <3>1. Before(p) = Before(q) + PacketSize
      BY <2>3, Packing
    <3> QED
      BY ONLY <2>1, <2>4, <3>1, Placed, Constants
  <2>6. j <= Len(bytes)
    BY ONLY <2>2, <2>5, Constants, Len(bytes) = PacketSize + l, l \in Nat
  <2>7. n + p + 1 <= Len(sent) /\ bytes[j] = << sent[n + p + 1], r >>
    BY <2>4, <2>6 DEF Follows
  <2>8. n + p + 1 = n + 1 + q + 1
    BY <2>3
  <2>9. later[i] = bytes[j]
    BY ONLY <2>2, <2>5, \A k \in 1..l : later[k] = bytes[PacketSize + k]
  <2> QED
    BY ONLY <2>1, <2>7, <2>8, <2>9
<1> QED
  BY <1>1 DEF Follows

(* When a packet is sent and nothing was lost, its bytes follow.           *)
LEMMA FollowsSent ==
  ASSUME NEW T, NEW bytes \in Seq(T), NEW sent \in Seq(Packet), NEW packet \in Packet,
         NEW n \in 0..Len(sent), Bytes(packet) \in Seq(T),
         Follows(bytes, sent, n), Len(bytes) = Before(Len(sent) - n)
  PROVE  LET more == Append(sent, packet) IN
         /\ Follows(bytes \o Bytes(packet), more, n)
         /\ Len(bytes \o Bytes(packet)) = Before(Len(more) - n)
<1>1. PICK more : more = Append(sent, packet)
  OBVIOUS
<1>2. PICK m \in Nat : m = Len(sent)
  OBVIOUS
<1>3. Len(more) = m + 1 /\ more[m + 1] = packet /\ \A i \in 1..m : more[i] = sent[i]
  BY <1>1, <1>2, AppendProperties
<1>n. n \in Nat /\ n <= m
  BY <1>2
<1>4. PICK d \in Nat : d = m - n
  BY ONLY <1>n, m \in Nat
<1>5. PICK b : b = Bytes(packet)
  OBVIOUS
<1>6. PICK s \in Nat : s = PacketSize
  BY Constants
<1>7. b \in Seq(T) /\ Len(b) = s /\ \A r \in 1..s : b[r] = << packet, r >>
  BY <1>5, <1>6 DEF Bytes
<1>8. PICK c : c = bytes \o b
  OBVIOUS
<1>9. PICK l \in Nat : l = Len(bytes)
  OBVIOUS
<1>10. /\ Len(c) = l + s
       /\ \A i \in 1..l : c[i] = bytes[i]
       /\ \A i \in 1..s : c[l + i] = b[i]
  <2>1. /\ Len(bytes \o b) = Len(bytes) + Len(b)
        /\ \A i \in 1..Len(bytes) : (bytes \o b)[i] = bytes[i]
        /\ \A i \in 1..Len(b) : (bytes \o b)[Len(bytes) + i] = b[i]
    <3>1. bytes \in Seq(T) /\ b \in Seq(T)
      BY <1>7
    <3> QED
      BY ONLY <3>1, Joins
  <2>2. Len(b) = s /\ Len(bytes) = l /\ c = bytes \o b
    BY <1>7, <1>8, <1>9
  <2> QED
    BY ONLY <2>1, <2>2
<1>11. l = Before(d)
  BY <1>2, <1>4, <1>9
<1>12. Len(c) = Before(d + 1) /\ d + 1 = m + 1 - n
  BY <1>4, <1>6, <1>10, <1>11, Packing
<1>13. ASSUME NEW q \in Nat, NEW r \in 1..s, Before(q) + r <= l + s
       PROVE  n + q + 1 <= m + 1 /\ c[Before(q) + r] = << more[n + q + 1], r >>
  <2>1. PICK i \in Nat : i = Before(q) + r /\ i # 0
    BY <1>6, Placed
  <2>2. CASE q < d
    <3>1. Before(q) + s <= l
      BY <1>6, <1>11, <2>2, Packing
    <3>2. i \in 1..l
      <4>1. Before(q) \in Nat
        BY Packing
      <4> QED
        BY ONLY <2>1, <3>1, <4>1, r \in 1..s, s \in Nat, l \in Nat
    <3>3. n + q + 1 <= m /\ bytes[i] = << sent[n + q + 1], r >>
      <4>1. Before(q) + r <= Len(bytes)
        BY <1>9, <2>1, <3>2
      <4> QED
        BY <1>2, <1>6, <2>1, <4>1 DEF Follows
    <3>4. n + q + 1 \in 1..m
      BY <3>3
    <3> QED
      BY ONLY <1>3, <1>10, <2>1, <3>2, <3>3, <3>4, n \in Nat, q \in Nat, m \in Nat
  <2>3. CASE q = d
    <3>1. i = l + r
      BY <1>11, <2>1, <2>3
    <3>2. c[l + r] = << packet, r >>
      BY <1>7, <1>10
    <3>3. n + q + 1 = m + 1
      BY <1>4, <2>3
    <3>4. Before(q) + r = l + r /\ n + q + 1 = m + 1 /\ m + 1 <= m + 1
      BY ONLY <2>1, <3>1, <3>3, m \in Nat
    <3> QED
      BY ONLY <1>3, <3>2, <3>4
  <2>4. CASE q > d
    <3>1. l + s <= Before(q)
      BY <1>6, <1>11, <2>4, Packing
    <3>2. Before(q) \in Nat
      BY Packing
    <3> QED
      BY ONLY <1>13, <3>1, <3>2, r \in 1..s, s \in Nat, l \in Nat
  <2> QED
    BY <2>2, <2>3, <2>4
<1>14. Follows(c, more, n)
  BY <1>3, <1>6, <1>10, <1>13 DEF Follows
<1> QED
  BY <1>1, <1>3, <1>5, <1>8, <1>12, <1>14

-----------------------------------------------------------------------------
(* What a connection carries.                                              *)

(* What was received on a connection and is in no packet taken out: the    *)
(* buffer of its record, if it has one.                                    *)
Listed(list, c) == \E i \in 1..Len(list) : list[i].socket = c

(* The received bytes of connection c that the server keeps.               *)
Buffer(list, c) ==
  IF Listed(list, c)
  THEN list[CHOOSE i \in 1..Len(list) : list[i].socket = c].recvBuffer
  ELSE <<>>

(* The bytes of a connection between its client and the loop over packets. *)
Undelivered(c) == Buffer(clients, c) \o transit[c]

(* Neither end of the connection was closed.                               *)
Open(c) == clientEnd[c] = "open" /\ serverEnd[c] = "open"

(* The messages that are sent on a connection.                             *)
Of(c) == {m \in Message : m.conn = c}

(* The first n packets of a connection are delivered: their messages are   *)
(* stored, and the bytes of the others follow, all of them for as long as  *)
(* both ends are open.                                                     *)
Delivered(c, n) ==
  /\ Kept(allMessages, Of(c)) = Kept(SubSeq(sentPackets[c], 1, n), Message)
  /\ Follows(Undelivered(c), sentPackets[c], n)
  /\ Open(c) => Len(Undelivered(c)) = Before(Len(sentPackets[c]) - n)

(* On every connection some number of packets is delivered.                *)
Streaming == \A c \in Conn : \E n \in 0..Len(sentPackets[c]) : Delivered(c, n)

(* What is sent on a connection names it.                                  *)
Labelled == \A c \in Conn : \A i \in 1..Len(sentPackets[c]) : sentPackets[c][i].conn = c

(* A connected client has its end open, and a connection is one client's.  *)
Owned ==
  \A k \in Client :
    /\ state[k] = "Connected" => clientEnd[connSocket[k]] = "open"
    /\ \A l \in Client : connSocket[k] = connSocket[l] /\ k # l => connSocket[k] = NoConn

(* The inductive invariant of the messages.                                *)
MailInv == RecInv /\ Owned /\ Labelled /\ Streaming

-----------------------------------------------------------------------------

(* No two records of a list have the same socket.                          *)
Distinct(list) == \A i, j \in 1..Len(list) : list[i].socket = list[j].socket => i = j

(* The buffer of a record is that of its socket.                           *)
LEMMA Buffers ==
  ASSUME NEW list \in Seq(ClientType), Distinct(list)
  PROVE  /\ \A i \in 1..Len(list) : Buffer(list, list[i].socket) = list[i].recvBuffer
         /\ \A c : Buffer(list, c) \in Seq(PacketByte)
         /\ \A c : ~Listed(list, c) => Buffer(list, c) = <<>>
<1>1. ASSUME NEW i \in 1..Len(list) PROVE Buffer(list, list[i].socket) = list[i].recvBuffer
  <2>1. PICK s : s = list[i].socket
    OBVIOUS
  <2>2. PICK j : j = CHOOSE k \in 1..Len(list) : list[k].socket = s
    OBVIOUS
  <2>3. j \in 1..Len(list) /\ list[j].socket = s
    BY <2>1, <2>2
  <2>4. j = i
    BY <2>1, <2>3 DEF Distinct
  <2>5. Listed(list, s)
    BY <2>1 DEF Listed
  <2> QED
    BY <2>1, <2>2, <2>4, <2>5 DEF Buffer
<1>2. ASSUME NEW c PROVE Buffer(list, c) \in Seq(PacketByte)
  <2>1. CASE Listed(list, c)
    <3>1. PICK i \in 1..Len(list) : list[i].socket = c
      BY <2>1 DEF Listed
    <3>2. list[i] \in ClientType
      BY ElementOfSeq
    <3>3. list[i].recvBuffer \in Seq(PacketByte)
      BY <3>2, RecordTypes
    <3> QED
      BY <1>1, <3>1, <3>3
  <2>2. CASE ~Listed(list, c)
    BY <2>2, EmptySeq DEF Buffer
  <2> QED
    BY <2>1, <2>2
<1> QED
  BY <1>1, <1>2 DEF Buffer

(* Records that are distinct, and what is on its way.                      *)
LEMMA FlowTypes ==
  ASSUME RecInv
  PROVE  /\ clients \in Seq(ClientType) /\ Distinct(clients)
         /\ \A c : Listed(clients, c) <=> c \in Sockets
         /\ \A c \in Conn : /\ Buffer(clients, c) \in Seq(PacketByte)
                            /\ transit[c] \in Seq(PacketByte)
                            /\ Undelivered(c) \in Seq(PacketByte)
                            /\ sentPackets[c] \in Seq(Packet)
<1>1. clients \in Seq(ClientType) /\ Distinct(clients)
  BY DEF RecInv, TypeOK, RecordsMatchSockets, Distinct
<1>2. \A c : Listed(clients, c) <=> c \in Sockets
  BY DEF Listed, Sockets
<1>3. ASSUME NEW c \in Conn
      PROVE  /\ Buffer(clients, c) \in Seq(PacketByte)
             /\ transit[c] \in Seq(PacketByte)
             /\ Undelivered(c) \in Seq(PacketByte)
             /\ sentPackets[c] \in Seq(Packet)
  <2>1. Buffer(clients, c) \in Seq(PacketByte)
    BY <1>1, Buffers
  <2>2. transit[c] \in Seq(PacketByte) /\ sentPackets[c] \in Seq(Packet)
    BY DEF RecInv, TypeOK, PacketByte
  <2> QED
    BY <2>1, <2>2, ConcatProperties DEF Undelivered
<1> QED
  BY <1>1, <1>2, <1>3

(* A connection keeps what it carries, or loses a part of it and is over,  *)
(* or is made.                                                             *)
Keeps(c)  == Undelivered(c)' = Undelivered(c) /\ (Open(c)' => Open(c))
Breaks(c) ==
  /\ ~Open(c)'
  /\ Undelivered(c)' \in Seq(PacketByte) /\ Len(Undelivered(c)') <= Len(Undelivered(c))
  /\ \A i \in 1..Len(Undelivered(c)') : Undelivered(c)'[i] = Undelivered(c)[i]
Begins(c) == Undelivered(c)' = <<>> /\ sentPackets[c] = <<>>

(* When every connection keeps what it carries, is cut short and over, or  *)
(* is made, packets stay delivered.                                        *)
LEMMA StreamsOn ==
  ASSUME MailInv, sentPackets' = sentPackets, allMessages' = allMessages,
         \A c \in Conn : Keeps(c) \/ Breaks(c) \/ Begins(c)
  PROVE  Streaming' /\ Labelled'
<1>1. ASSUME NEW c \in Conn, NEW n \in 0..Len(sentPackets[c]), Delivered(c, n)
      PROVE  Delivered(c, n)'
  <2>1. PICK u, v, s : u = Undelivered(c) /\ v = Undelivered(c)' /\ s = sentPackets[c]
    OBVIOUS
  <2>2. /\ Kept(allMessages, Of(c)) = Kept(SubSeq(s, 1, n), Message)
        /\ Follows(u, s, n) /\ (Open(c) => Len(u) = Before(Len(s) - n))
    BY <1>1, <2>1 DEF Delivered
  <2>3. SUFFICES Follows(v, s, n) /\ (Open(c)' => Len(v) = Before(Len(s) - n))
    BY <2>1, <2>2 DEF Delivered, Of, Message, Packet
  <2>4. CASE Keeps(c)
    BY <2>1, <2>2, <2>4 DEF Keeps
  <2>5. CASE Breaks(c)
    <3>1. u \in Seq(PacketByte) /\ n \in Nat
      BY <2>1, FlowTypes DEF MailInv
    <3>2. /\ ~Open(c)' /\ v \in Seq(PacketByte) /\ Len(v) <= Len(u)
          /\ \A i \in 1..Len(v) : v[i] = u[i]
      BY <2>1, <2>5 DEF Breaks
    <3> QED
      BY <2>2, <3>1, <3>2, FollowsLess
  <2>6. CASE Begins(c)
    <3>1. v = <<>> /\ Len(s) = 0 /\ n = 0 /\ Len(v) = 0 /\ Len(s) - n = 0
      BY <2>1, <2>6 DEF Begins
    <3> QED
      BY <3>1, FollowsNone, Packing
  <2> QED
    BY <2>4, <2>5, <2>6
<1>2. Streaming'
  <2>1. ASSUME NEW c \in Conn PROVE \E n \in 0..Len(sentPackets'[c]) : Delivered(c, n)'
    <3>1. PICK n \in 0..Len(sentPackets[c]) : Delivered(c, n)
      BY DEF MailInv, Streaming
    <3> QED
      BY <1>1, <3>1
  <2> QED
    BY <2>1 DEF Streaming
<1>3. Labelled'
  BY DEF MailInv, Labelled
<1> QED
  BY <1>2, <1>3

(* A step that moves no bytes and opens nothing.                           *)
LEMMA NothingMoves ==
  ASSUME clients' = clients, transit' = transit, serverEnd' = serverEnd,
         \A c \in Conn : clientEnd'[c] = "open" => clientEnd[c] = "open"
  PROVE  \A c \in Conn : Keeps(c)
  BY DEF Keeps, Undelivered, Open

(* One record is updated.                                                  *)
LEMMA BufferUpdated ==
  ASSUME RecInv, RecInv', NEW c \in Sockets, NEW a, a \in ClientType, a.socket = c,
         clients' = [clients EXCEPT ![IndexOf(c)] = a]
  PROVE  /\ Buffer(clients', c) = a.recvBuffer
         /\ \A d : d # c => Buffer(clients', d) = Buffer(clients, d)
<1>1. IndexOf(c) \in 1..Len(clients) /\ clients[IndexOf(c)].socket = c
  BY Found
<1>2. PICK i : i = IndexOf(c)
  OBVIOUS
<1>3. PICK old, now : old = clients /\ now = clients'
  OBVIOUS
<1>4. old \in Seq(ClientType) /\ Distinct(old) /\ now \in Seq(ClientType) /\ Distinct(now)
  <2>1. clients \in Seq(ClientType) /\ Distinct(clients)
    BY FlowTypes
  <2>2. clients' \in Seq(ClientType)
    BY DEF RecInv, TypeOK
  <2>3. \A j, k \in 1..Len(clients') : clients'[j].socket = clients'[k].socket => j = k
    BY DEF RecInv, RecordsMatchSockets
  <2> QED
    BY <1>3, <2>1, <2>2, <2>3 DEF Distinct
<1>5. /\ Len(now) = Len(old)
      /\ \A j \in 1..Len(old) : now[j] = IF j = i THEN a ELSE old[j]
  BY <1>1, <1>2, <1>3, <1>4, ExceptSeq
<1>6. i \in 1..Len(old) /\ old[i].socket = c
  BY <1>1, <1>2, <1>3
<1>7. /\ \A j \in 1..Len(now) : Buffer(now, now[j].socket) = now[j].recvBuffer
      /\ \A d : ~Listed(now, d) => Buffer(now, d) = <<>>
  BY <1>4, Buffers
<1>8. /\ \A j \in 1..Len(old) : Buffer(old, old[j].socket) = old[j].recvBuffer
      /\ \A d : ~Listed(old, d) => Buffer(old, d) = <<>>
  BY <1>4, Buffers
<1>9. Buffer(now, c) = a.recvBuffer
  BY ONLY <1>5, <1>6, <1>7, a.socket = c
<1>10. ASSUME NEW d, d # c PROVE Buffer(now, d) = Buffer(old, d)
  <2>1. CASE Listed(old, d)
    <3>1. PICK j \in 1..Len(old) : old[j].socket = d
      BY <2>1 DEF Listed
    <3>2. j # i /\ now[j] = old[j]
      BY <1>5, <1>6, <1>10, <3>1
    <3> QED
      BY ONLY <1>5, <1>7, <1>8, <3>1, <3>2
  <2>2. CASE ~Listed(old, d)
    <3>1. ASSUME NEW j \in 1..Len(now) PROVE now[j].socket # d
      BY ONLY <1>5, <1>10, <2>2, a.socket = c, j \in 1..Len(now) DEF Listed
    <3>2. ~Listed(now, d)
      BY <3>1 DEF Listed
    <3> QED
      BY <1>7, <1>8, <2>2, <3>2
  <2> QED
    BY <2>1, <2>2
<1> QED
  BY <1>3, <1>9, <1>10

(* Starting to listen moves no bytes.                                      *)
LEMMA StartServerFlow ==
  ASSUME MailInv, StartServer, UNCHANGED clientVars
  PROVE  Streaming' /\ Labelled'
<1>1. UNCHANGED << clients, allMessages, connVars, sentPackets >>
  BY DEF StartServer, clientVars
<1> QED
  BY <1>1, NothingMoves, StreamsOn DEF connVars

(* Stopping the server closes every connection that has bytes.             *)
LEMMA StopServerFlow ==
  ASSUME MailInv, StopServer, UNCHANGED clientVars
  PROVE  Streaming' /\ Labelled'
<1>1. PICK conns : conns = Range(waiting) \cup Sockets
  OBVIOUS
<1>2. /\ ServerCloses(conns) /\ clients' = <<>>
      /\ UNCHANGED << allMessages, clientEnd, sentPackets >>
  BY <1>1 DEF StopServer, Sockets, clientVars
<1>3. ASSUME NEW c \in Conn PROVE Keeps(c) \/ Breaks(c)
  <2>1. Len(clients') = 0
    BY <1>2
  <2>2. Buffer(clients', c) = <<>>
    BY <2>1 DEF Buffer, Listed
  <2>3. /\ Buffer(clients, c) \in Seq(PacketByte) /\ transit[c] \in Seq(PacketByte)
        /\ Undelivered(c) \in Seq(PacketByte)
    BY FlowTypes DEF MailInv
  <2>4. CASE c \in conns
    <3>1. serverEnd'[c] = ClosedBy(transit[c]) /\ transit'[c] = <<>>
      BY <1>2, <2>4 DEF ServerCloses
    <3>2. Undelivered(c)' = <<>>
      BY <2>2, <3>1, ConcatEmptySeq, EmptySeq DEF Undelivered
    <3>3. Breaks(c)
      BY <2>3, <3>1, <3>2, EmptySeq DEF Breaks, Open, ClosedBy
    <3> QED
      BY <3>3
  <2>5. CASE c \notin conns
    <3>1. serverEnd'[c] = serverEnd[c] /\ transit'[c] = transit[c]
      BY <1>2, <2>5 DEF ServerCloses
    <3>2. Buffer(clients, c) = <<>>
      BY <1>1, <2>5, FlowTypes, Buffers DEF MailInv
    <3>3. Keeps(c)
      BY <1>2, <2>2, <3>1, <3>2 DEF Keeps, Undelivered, Open
    <3> QED
      BY <3>3
  <2> QED
    BY <2>4, <2>5
<1> QED
  BY <1>2, <1>3, StreamsOn

(* Selecting moves no bytes.                                               *)
LEMMA SelectReadableFlow ==
  ASSUME MailInv, SelectReadable, UNCHANGED clientVars
  PROVE  Streaming' /\ Labelled'
<1>1. UNCHANGED << clients, allMessages, connVars, sentPackets >>
  BY DEF SelectReadable, clientVars
<1> QED
  BY <1>1, NothingMoves, StreamsOn DEF connVars

(* A new record has an empty buffer.                                       *)
LEMMA AcceptClientFlow ==
  ASSUME MailInv, RecInv', AcceptClient, UNCHANGED clientVars
  PROVE  Streaming' /\ Labelled'
<1>1. PICK s : s = Head(waiting)
  OBVIOUS
<1>2. PICK info : info = ClientStateInfo(s)
  OBVIOUS
<1>3. /\ readable # <<>> /\ Head(readable) = Listen
      /\ clients' = Append(clients, info)
      /\ UNCHANGED << allMessages, connVars, sentPackets >>
  BY <1>1, <1>2 DEF AcceptClient, Reading, clientVars
<1>4. s \in Conn
  <2>1. waiting # <<>> /\ waiting \in Seq(Conn)
    BY <1>3, ReadingFacts DEF MailInv, RecInv, TypeOK
  <2> QED
    BY <1>1, <2>1, HeadTailProperties
<1>5. info \in ClientType /\ info.socket = s /\ info.recvBuffer = <<>>
  BY <1>2, <1>4, EmptySeq DEF ClientStateInfo, ClientType
<1>6. PICK old, now : old = clients /\ now = clients'
  OBVIOUS
<1>7. old \in Seq(ClientType) /\ Distinct(old) /\ now \in Seq(ClientType) /\ Distinct(now)
  <2>1. clients \in Seq(ClientType) /\ Distinct(clients)
    BY FlowTypes DEF MailInv
  <2>2. clients' \in Seq(ClientType)
    BY DEF RecInv, TypeOK
  <2>3. \A j, k \in 1..Len(clients') : clients'[j].socket = clients'[k].socket => j = k
    BY DEF RecInv, RecordsMatchSockets
  <2> QED
    BY <1>6, <2>1, <2>2, <2>3 DEF Distinct
<1>8. PICK n \in Nat : n = Len(old)
  BY <1>7
<1>9. /\ Len(now) = n + 1 /\ now[n + 1] = info
      /\ \A i \in 1..n : now[i] = old[i]
  BY <1>3, <1>5, <1>6, <1>7, <1>8, RangeAppend
<1>10. /\ \A j \in 1..(n + 1) : Buffer(now, now[j].socket) = now[j].recvBuffer
       /\ \A d : ~Listed(now, d) => Buffer(now, d) = <<>>
       /\ \A j \in 1..n : Buffer(old, old[j].socket) = old[j].recvBuffer
       /\ \A d : ~Listed(old, d) => Buffer(old, d) = <<>>
  BY <1>7, <1>8, <1>9, Buffers
<1>11. ASSUME NEW d \in Conn PROVE Buffer(now, d) = Buffer(old, d)
  <2>1. n + 1 \in 1..(n + 1) /\ \A i \in 1..n : i \in 1..(n + 1) /\ i # n + 1
    OBVIOUS
  <2>2. CASE Listed(old, d)
    <3>1. PICK j \in 1..n : old[j].socket = d
      BY <1>8, <2>2 DEF Listed
    <3> QED
      BY ONLY <1>9, <1>10, <2>1, <3>1
  <2>3. CASE ~Listed(old, d)
    <3>1. CASE d = s
      BY ONLY <1>5, <1>9, <1>10, <2>1, <2>3, <3>1
    <3>2. CASE d # s
      <4>1. ASSUME NEW j \in 1..(n + 1) PROVE now[j].socket # d
        <5>1. j \in 1..n \/ j = n + 1
          OBVIOUS
        <5> QED
          BY ONLY <1>5, <1>8, <1>9, <2>3, <3>2, <5>1 DEF Listed
      <4>2. ~Listed(now, d)
        BY <1>9, <4>1 DEF Listed
      <4> QED
        BY <1>10, <2>3, <4>2
    <3> QED
      BY <3>1, <3>2
  <2> QED
    BY <2>2, <2>3
<1>12. \A c \in Conn : Keeps(c)
  BY <1>3, <1>6, <1>11 DEF Keeps, Undelivered, Open, connVars
<1> QED
  BY <1>3, <1>12, StreamsOn

(* Bytes that are received come behind those in the buffer.                *)
LEMMA ReceiveBytesFlow ==
  ASSUME MailInv, RecInv', NEW c \in Conn, ReceiveBytes(c), UNCHANGED clientVars
  PROVE  Streaming' /\ Labelled'
<1>1. /\ readable # <<>> /\ Head(readable) = c
      /\ UNCHANGED << allMessages, clientEnd, serverEnd, sentPackets >>
  BY DEF ReceiveBytes, Reading, clientVars
<1>2. PICK n \in 1..Len(transit[c]) :
         /\ clients' = [clients EXCEPT ![IndexOf(c)].recvBuffer = @ \o SubSeq(transit[c], 1, n)]
         /\ transit' = [transit EXCEPT ![c] = SubSeq(@, n + 1, Len(@))]
  BY DEF ReceiveBytes
<1>3. PICK t \in Seq(PacketByte) : t = transit[c]
  BY FlowTypes DEF MailInv
<1>4. PICK got, left : got = SubSeq(t, 1, n) /\ left = SubSeq(t, n + 1, Len(t))
  OBVIOUS
<1>5. got \in Seq(PacketByte) /\ left \in Seq(PacketByte) /\ got \o left = t
  <2>1. n \in 0..Len(t)
    BY <1>3
  <2> QED
    BY ONLY <1>3, <1>4, <2>1, t \in Seq(PacketByte), Cutting
<1>6. PICK r \in ClientType : r = clients[IndexOf(c)] /\ r.socket = c
  BY <1>1, ReadRecord DEF MailInv
<1>7. PICK b \in Seq(PacketByte) : b = r.recvBuffer
  BY <1>6, RecordTypes
<1>8. PICK a : a = [r EXCEPT !.recvBuffer = b \o got]
  OBVIOUS
<1>9. a \in ClientType /\ a.socket = c /\ a.recvBuffer = b \o got
  BY <1>5, <1>6, <1>7, <1>8, RecordTypes, ConcatProperties, ZenonT(40)
<1>10. clients' = [clients EXCEPT ![IndexOf(c)] = a]
  BY <1>2, <1>3, <1>4, <1>6, <1>7, <1>8
<1>11. c \in Sockets /\ RecInv
  BY <1>1, ReadRecord DEF MailInv
<1>12. /\ Buffer(clients', c) = b \o got
       /\ \A d : d # c => Buffer(clients', d) = Buffer(clients, d)
  BY <1>9, <1>10, <1>11, BufferUpdated
<1>13. Buffer(clients, c) = b
  <2>1. IndexOf(c) \in 1..Len(clients)
    BY <1>11, Found
  <2> QED
    BY <1>6, <1>7, <1>11, <2>1, FlowTypes, Buffers
<1>14. transit'[c] = left /\ \A d \in Conn \ {c} : transit'[d] = transit[d]
  BY <1>2, <1>3, <1>4, <1>11, ZenonT(40) DEF RecInv, TypeOK
<1>15. Undelivered(c)' = Undelivered(c)
  <2>1. (b \o got) \o left = b \o (got \o left)
    <3>1. b \in Seq(PacketByte) /\ got \in Seq(PacketByte) /\ left \in Seq(PacketByte)
      BY <1>5, <1>7
    <3> QED
      BY ONLY <3>1, ConcatAssociative
  <2> QED
    BY <1>3, <1>5, <1>12, <1>13, <1>14, <2>1 DEF Undelivered
<1>16. \A d \in Conn : Keeps(d)
  BY <1>1, <1>12, <1>14, <1>15 DEF Keeps, Undelivered, Open
<1> QED
  BY <1>1, <1>16, StreamsOn

(* A connection that ends moves no bytes.                                  *)
LEMMA ReceiveEndFlow ==
  ASSUME MailInv, RecInv', NEW c \in Conn, ReceiveEnd(c), UNCHANGED clientVars
  PROVE  Streaming' /\ Labelled'
<1>1. /\ readable # <<>> /\ Head(readable) = c
      /\ UNCHANGED << allMessages, connVars, sentPackets >>
      /\ clients' = [clients EXCEPT ![IndexOf(c)].invalid = TRUE]
  BY DEF ReceiveEnd, Reading, clientVars
<1>2. PICK r \in ClientType : r = clients[IndexOf(c)] /\ r.socket = c
  BY <1>1, ReadRecord DEF MailInv
<1>3. PICK a : a = [r EXCEPT !.invalid = TRUE]
  OBVIOUS
<1>4. a \in ClientType /\ a.socket = c /\ a.recvBuffer = r.recvBuffer
  BY <1>2, <1>3, RecordTypes
<1>5. clients' = [clients EXCEPT ![IndexOf(c)] = a]
  BY <1>1, <1>2, <1>3
<1>6. c \in Sockets /\ RecInv
  BY <1>1, ReadRecord DEF MailInv
<1>7. /\ Buffer(clients', c) = r.recvBuffer
      /\ \A d : d # c => Buffer(clients', d) = Buffer(clients, d)
  BY <1>4, <1>5, <1>6, BufferUpdated
<1>8. Buffer(clients, c) = r.recvBuffer
  <2>1. IndexOf(c) \in 1..Len(clients)
    BY <1>6, Found
  <2> QED
    BY <1>2, <1>6, <2>1, FlowTypes, Buffers
<1>9. \A d \in Conn : Keeps(d)
  BY <1>1, <1>7, <1>8 DEF Keeps, Undelivered, Open, connVars
<1> QED
  BY <1>1, <1>9, StreamsOn

(* Going on to the next socket moves no bytes.                             *)
LEMMA LoopEndsFlow ==
  ASSUME MailInv, LoopEnds, UNCHANGED clientVars
  PROVE  Streaming' /\ Labelled'
<1>1. UNCHANGED << clients, allMessages, connVars, sentPackets >>
  BY DEF LoopEnds, clientVars
<1> QED
  BY <1>1, NothingMoves, StreamsOn DEF connVars

(* A buffer that goes with its record belongs to a connection that is      *)
(* closed.                                                                 *)
LEMMA DeleteInvalidSocketsFlow ==
  ASSUME MailInv, RecInv', DeleteInvalidSockets, UNCHANGED clientVars
  PROVE  Streaming' /\ Labelled'
<1>1. PICK conns, S :
        /\ conns = {clients[i].socket : i \in {j \in 1..Len(clients) : clients[j].invalid}}
        /\ S = {info \in Range(clients) : ~info.invalid}
  OBVIOUS
<1>2. PICK old, now : old = clients /\ now = Kept(clients, S)
  OBVIOUS
<1>3. /\ ServerCloses(conns) /\ clients' = now
      /\ UNCHANGED << allMessages, clientEnd, sentPackets >>
  BY <1>1, <1>2 DEF DeleteInvalidSockets, clientVars
<1>4. old \in Seq(ClientType) /\ Distinct(old) /\ now \in Seq(ClientType) /\ Distinct(now)
  <2>1. clients \in Seq(ClientType) /\ Distinct(clients)
    BY FlowTypes DEF MailInv
  <2>2. clients' \in Seq(ClientType)
    BY DEF RecInv, TypeOK
  <2>3. \A j, k \in 1..Len(clients') : clients'[j].socket = clients'[k].socket => j = k
    BY DEF RecInv, RecordsMatchSockets
  <2> QED
    BY <1>2, <1>3, <2>1, <2>2, <2>3 DEF Distinct
<1>5. PICK m \in Nat, n \in Nat : m = Len(old) /\ n = Len(now)
  BY <1>4
<1>6. PICK at : Picks(now, old, S, at, m)
  BY <1>2, <1>4, <1>5, KeptPicks
<1>7. /\ at \in [1..n -> 1..m]
      /\ \A k \in 1..n : now[k] = old[at[k]]
      /\ \A i \in 1..m : old[i] \in S <=> \E k \in 1..n : at[k] = i
  BY <1>5, <1>6 DEF Picks
<1>8. /\ \A k \in 1..n : Buffer(now, now[k].socket) = now[k].recvBuffer
      /\ \A d : Buffer(now, d) \in Seq(PacketByte) /\ (~Listed(now, d) => Buffer(now, d) = <<>>)
      /\ \A i \in 1..m : Buffer(old, old[i].socket) = old[i].recvBuffer
      /\ \A d : ~Listed(old, d) => Buffer(old, d) = <<>>
  BY <1>4, <1>5, Buffers
<1>9. ASSUME NEW i \in 1..m PROVE old[i] \in S <=> old[i].socket \notin conns
  <2>1. old[i] \in Range(clients)
    BY <1>2, <1>4, <1>5 DEF Range
  <2>2. old[i].socket \in conns <=> old[i].invalid
    BY <1>1, <1>2, <1>4, <1>5 DEF Distinct
  <2> QED
    BY <1>1, <2>1, <2>2
<1>10. ASSUME NEW d \in Conn, d \notin conns PROVE Buffer(now, d) = Buffer(old, d)
  <2>1. CASE Listed(old, d)
    <3>1. PICK i \in 1..m : old[i].socket = d
      BY <1>5, <2>1 DEF Listed
    <3>2. PICK k \in 1..n : at[k] = i
      BY <1>7, <1>9, <1>10, <3>1
    <3> QED
      BY ONLY <1>7, <1>8, <3>1, <3>2
  <2>2. CASE ~Listed(old, d)
    <3>1. ASSUME NEW k \in 1..n PROVE now[k].socket # d
      <4>1. at[k] \in 1..m /\ now[k] = old[at[k]]
        BY <1>7
      <4> QED
        BY <1>5, <2>2, <4>1 DEF Listed
    <3>2. ~Listed(now, d)
      BY <1>5, <3>1 DEF Listed
    <3> QED
      BY <1>8, <2>2, <3>2
  <2> QED
    BY <2>1, <2>2
<1>11. ASSUME NEW d \in Conn, d \in conns PROVE Buffer(now, d) = <<>>
  <2>1. ASSUME NEW k \in 1..n PROVE now[k].socket # d
    <3>1. at[k] \in 1..m /\ now[k] = old[at[k]] /\ old[at[k]] \in S
      BY <1>7
    <3> QED
      BY <1>9, <1>11, <3>1
  <2>2. ~Listed(now, d)
    BY <1>5, <2>1 DEF Listed
  <2> QED
    BY <1>8, <2>2
<1>12. ASSUME NEW c \in Conn PROVE Keeps(c) \/ Breaks(c)
  <2>1. CASE c \in conns
    <3>1. serverEnd'[c] = ClosedBy(transit[c]) /\ transit'[c] = <<>>
      BY <1>3, <2>1 DEF ServerCloses
    <3>2. Undelivered(c)' = <<>>
      BY <1>3, <1>11, <2>1, <3>1, ConcatEmptySeq, EmptySeq DEF Undelivered
    <3>3. Undelivered(c) \in Seq(PacketByte)
      BY FlowTypes DEF MailInv
    <3>4. Breaks(c)
      BY <3>1, <3>2, <3>3, EmptySeq DEF Breaks, Open, ClosedBy
    <3> QED
      BY <3>4
  <2>2. CASE c \notin conns
    <3>1. serverEnd'[c] = serverEnd[c] /\ transit'[c] = transit[c]
      BY <1>3, <2>2 DEF ServerCloses
    <3>2. Keeps(c)
      BY <1>2, <1>3, <1>10, <2>2, <3>1 DEF Keeps, Undelivered, Open
    <3> QED
      BY <3>2
  <2> QED
    BY <2>1, <2>2
<1> QED
  BY <1>3, <1>12, StreamsOn

(* A new connection has no bytes.                                          *)
LEMMA ConnectFlow ==
  ASSUME MailInv, NEW k \in Client, Connect(k)
  PROVE  Streaming' /\ Labelled'
<1>1. PICK c : c = nextConn
  OBVIOUS
<1>2. /\ nextConn <= MaxConns
      /\ clientEnd' = [clientEnd EXCEPT ![c] = "open"]
      /\ serverEnd' = [serverEnd EXCEPT ![c] = "open"]
      /\ UNCHANGED << clients, allMessages, transit, sentPackets >>
  BY <1>1 DEF Connect
<1>3. c \in Conn /\ c >= nextConn
  BY <1>1, <1>2, Constants DEF MailInv, RecInv, TypeOK, Conn
<1>4. serverEnd[c] = "none" /\ transit[c] = <<>> /\ sentPackets[c] = <<>>
  BY <1>3 DEF MailInv, RecInv, Unmade
<1>5. c \notin Sockets
  BY <1>4, Records DEF MailInv, RecInv
<1>6. Buffer(clients, c) = <<>>
  BY <1>5, FlowTypes, Buffers DEF MailInv
<1>7. Undelivered(c)' = <<>>
  BY <1>2, <1>4, <1>6, ConcatEmptySeq, EmptySeq DEF Undelivered
<1>8. \A d \in Conn : Keeps(d) \/ Begins(d)
  <2>1. ASSUME NEW d \in Conn, d # c PROVE Keeps(d)
    BY <1>2, <2>1 DEF Keeps, Undelivered, Open, MailInv, RecInv, TypeOK
  <2> QED
    BY <1>4, <1>7, <2>1 DEF Begins
<1> QED
  BY <1>2, <1>8, StreamsOn

(* A reset connection may lose bytes, and is over.                         *)
LEMMA KillClientFlow ==
  ASSUME MailInv, NEW k \in Client, KillClient(k)
  PROVE  Streaming' /\ Labelled'
<1>1. PICK c : c = connSocket[k]
  OBVIOUS
<1>2. /\ clientEnd' = [clientEnd EXCEPT ![c] = "reset"]
      /\ transit' = [transit EXCEPT ![c] = <<>>]
      /\ UNCHANGED << allMessages, clients, serverEnd, sentPackets >>
  BY <1>1 DEF KillClient, serverVars
<1>3. ASSUME NEW d \in Conn PROVE Keeps(d) \/ Breaks(d)
  <2>1. CASE d # c
    <3>1. Keeps(d)
      BY <1>2, <2>1 DEF Keeps, Undelivered, Open, MailInv, RecInv, TypeOK
    <3> QED
      BY <3>1
  <2>2. CASE d = c
    <3>1. PICK b, t : b = Buffer(clients, d) /\ t = transit[d]
      OBVIOUS
    <3>2. b \in Seq(PacketByte) /\ t \in Seq(PacketByte)
      BY <3>1, FlowTypes DEF MailInv
    <3>3. transit'[d] = <<>> /\ clientEnd'[d] = "reset"
      BY <1>2, <2>2 DEF MailInv, RecInv, TypeOK
    <3>4. Undelivered(d) = b \o t /\ Undelivered(d)' = b
      BY <1>2, <3>1, <3>2, <3>3, ConcatEmptySeq DEF Undelivered
    <3>5. Len(b) <= Len(b \o t) /\ \A i \in 1..Len(b) : b[i] = (b \o t)[i]
      <4>1. Len(b \o t) = Len(b) + Len(t) /\ \A i \in 1..Len(b) : (b \o t)[i] = b[i]
        BY ONLY <3>2, Joins
      <4>2. Len(b) \in Nat /\ Len(t) \in Nat
        BY <3>2
      <4> QED
        BY <4>1, <4>2
    <3>6. Breaks(d)
      BY <3>2, <3>3, <3>4, <3>5 DEF Breaks, Open
    <3> QED
      BY <3>6
  <2> QED
    BY <2>1, <2>2
<1> QED
  BY <1>2, <1>3, StreamsOn

(* Steps of a client that send nothing and end at most their own end.      *)
LEMMA ClientFlow ==
  ASSUME MailInv, NEW k \in Client,
         ConnectFails(k) \/ ClientFrame(k) \/ PressDisconnect(k) \/ DisconnectFromServer(k)
  PROVE  Streaming' /\ Labelled'
<1>1. /\ UNCHANGED << clients, allMessages, transit, serverEnd, sentPackets >>
      /\ \A c \in Conn : clientEnd'[c] = "open" => clientEnd[c] = "open"
  BY DEF ConnectFails, ClientFrame, PressDisconnect, DisconnectFromServer, serverVars, connVars
<1> QED
  BY <1>1, NothingMoves, StreamsOn

(* One packet more, of those from the start.                               *)
LEMMA OneMore ==
  ASSUME NEW T, NEW s \in Seq(T), NEW n \in 0..(Len(s) - 1)
  PROVE  SubSeq(s, 1, n + 1) = Append(SubSeq(s, 1, n), s[n + 1])
<1>1. n \in Nat /\ n \in 0..Len(s) /\ n + 1 \in 0..Len(s) /\ n + 1 \in 1..Len(s)
  OBVIOUS
<1>2. PICK a, b, x : a = SubSeq(s, 1, n) /\ b = SubSeq(s, 1, n + 1) /\ x = s[n + 1]
  OBVIOUS
<1>3. x \in T
  BY <1>1, <1>2, ElementOfSeq
<1>4. a \in Seq(T) /\ Len(a) = n /\ \A i \in 1..n : a[i] = s[i]
  BY <1>1, <1>2, Cutting
<1>5. b \in Seq(T) /\ Len(b) = n + 1 /\ \A i \in 1..(n + 1) : b[i] = s[i]
  <2>1. PICK m : m = n + 1
    OBVIOUS
  <2>2. m \in 0..Len(s) /\ b = SubSeq(s, 1, m)
    BY <1>1, <1>2, <2>1
  <2>3. b \in Seq(T) /\ Len(b) = m /\ \A i \in 1..m : b[i] = s[i]
    BY <2>2, Cutting
  <2> QED
    BY <2>1, <2>3
<1>6. PICK c : c = Append(a, x)
  OBVIOUS
<1>7. c \in Seq(T) /\ Len(c) = n + 1 /\ c[n + 1] = x /\ \A i \in 1..n : c[i] = a[i]
  BY <1>3, <1>4, <1>6, AppendProperties
<1>8. ASSUME NEW i \in 1..(n + 1) PROVE b[i] = c[i]
  <2>1. i \in 1..n \/ i = n + 1
    BY <1>1
  <2> QED
    BY ONLY <1>2, <1>4, <1>5, <1>7, <2>1, i \in 1..(n + 1)
<1>9. b = c
  BY <1>5, <1>7, <1>8, SeqEqual
<1> QED
  BY <1>2, <1>6, <1>9

(* The packets from the start are the same when one is sent.               *)
LEMMA SameStart ==
  ASSUME NEW T, NEW s \in Seq(T), NEW x \in T, NEW n \in 0..Len(s)
  PROVE  SubSeq(Append(s, x), 1, n) = SubSeq(s, 1, n)
<1>1. PICK m \in Nat : m = Len(s)
  OBVIOUS
<1>2. PICK l : l = Append(s, x)
  OBVIOUS
<1>3. l \in Seq(T) /\ Len(l) = m + 1 /\ \A i \in 1..m : l[i] = s[i]
  BY <1>1, <1>2, AppendProperties
<1>4. n \in Nat /\ n <= m /\ n \in 0..(m + 1)
  BY <1>1
<1>5. PICK a, b : a = SubSeq(s, 1, n) /\ b = SubSeq(l, 1, n)
  OBVIOUS
<1>6. a \in Seq(T) /\ Len(a) = n /\ \A i \in 1..n : a[i] = s[i]
  BY <1>5, Cutting
<1>7. b \in Seq(T) /\ Len(b) = n /\ \A i \in 1..n : b[i] = l[i]
  <2>1. n \in 0..Len(l)
    BY <1>3, <1>4
  <2> QED
    BY <1>3, <1>5, <2>1, Cutting
<1>8. \A i \in 1..n : i \in 1..m
  BY <1>4
<1>9. \A i \in 1..n : a[i] = b[i]
  BY ONLY <1>3, <1>6, <1>7, <1>8
<1>10. a = b
  BY <1>6, <1>7, <1>9, SeqEqual
<1> QED
  BY <1>2, <1>5, <1>10

(* The packet in front of the bytes is the next one that was sent; if it   *)
(* is a message, it is stored.                                             *)
LEMMA TakePacketFlow ==
  ASSUME MailInv, RecInv', TakePacket, UNCHANGED clientVars
  PROVE  Streaming' /\ Labelled'
<1>1. PICK c, w, p : c = receiving /\ w = RecvWindow /\ p = RecvWindow[1][1]
  OBVIOUS
<1>2. /\ c \in Conn /\ readable # <<>> /\ Head(readable) = c
      /\ w \in Seq(PacketByte) /\ Len(w) >= PacketSize /\ p \in Packet
  BY <1>1, Taken DEF MailInv
<1>3. /\ allMessages' = IF p.type = "SendMessageRequest"
                        THEN Append(allMessages, p) ELSE allMessages
      /\ clients' = [clients EXCEPT ![IndexOf(c)] = Handled(@, p)]
      /\ UNCHANGED << connVars, sentPackets >>
  BY <1>1 DEF TakePacket, Deliver, clientVars
<1>4. PICK r \in ClientType : r = clients[IndexOf(c)] /\ r.socket = c
  BY <1>2, ReadRecord DEF MailInv
<1>5. w = r.recvBuffer
  BY <1>1, <1>4 DEF RecvWindow
<1>6. PICK a, v : a = Handled(r, p) /\ v = SubSeq(w, PacketSize + 1, Len(w))
  OBVIOUS
<1>7. a \in ClientType /\ a.socket = c /\ a.recvBuffer = v
  BY <1>2, <1>4, <1>5, <1>6, RecordTaken
<1>8. c \in Sockets /\ RecInv
  BY <1>2, ReadRecord DEF MailInv
<1>9. clients' = [clients EXCEPT ![IndexOf(c)] = a]
  BY <1>3, <1>4, <1>6
<1>10. /\ Buffer(clients', c) = v
       /\ \A d : d # c => Buffer(clients', d) = Buffer(clients, d)
  BY <1>7, <1>8, <1>9, BufferUpdated
<1>11. Buffer(clients, c) = w
  <2>1. IndexOf(c) \in 1..Len(clients)
    BY <1>8, Found
  <2> QED
    BY <1>4, <1>5, <1>8, <2>1, FlowTypes, Buffers
<1>12. PICK s \in Nat : s = PacketSize /\ s # 0
  BY Constants
<1>13. PICK t \in Seq(PacketByte), sent \in Seq(Packet) : t = transit[c] /\ sent = sentPackets[c]
  BY <1>2, FlowTypes DEF MailInv
<1>14. PICK n \in 0..Len(sent) : Delivered(c, n)
  BY <1>2, <1>13 DEF MailInv, Streaming
<1>15. PICK u, left : u = w \o t /\ left = v \o t
  OBVIOUS
<1>16. Undelivered(c) = u /\ Undelivered(c)' = left
  BY <1>3, <1>10, <1>11, <1>13, <1>15 DEF Undelivered, connVars
<1>17. PICK lw \in Nat, lt \in Nat : lw = Len(w) /\ lt = Len(t)
  BY <1>2
<1>18. PICK lv \in Nat : lw = s + lv
  <2>1. lw >= s
    BY <1>2, <1>12, <1>17
  <2>2. lw - s \in Nat /\ lw = s + (lw - s)
    BY ONLY <2>1, lw \in Nat, s \in Nat
  <2> QED
    BY ONLY <2>2
<1>19. v \in Seq(PacketByte) /\ Len(v) = lv /\ \A i \in 1..lv : v[i] = w[s + i]
  <2>1. s \in 0..Len(w) /\ v = SubSeq(w, s + 1, Len(w)) /\ Len(w) - s = lv
    BY <1>6, <1>12, <1>17, <1>18
  <2> QED
    BY <1>2, <2>1, Cutting
<1>20. /\ u \in Seq(PacketByte) /\ Len(u) = lw + lt
       /\ \A i \in 1..lw : u[i] = w[i]
       /\ \A i \in 1..lt : u[lw + i] = t[i]
  <2>1. /\ w \o t \in Seq(PacketByte) /\ Len(w \o t) = Len(w) + Len(t)
        /\ \A i \in 1..Len(w) : (w \o t)[i] = w[i]
        /\ \A i \in 1..Len(t) : (w \o t)[Len(w) + i] = t[i]
    <3>1. w \in Seq(PacketByte) /\ t \in Seq(PacketByte)
      BY <1>2
    <3> QED
      BY ONLY <3>1, Joins
  <2> QED
    BY ONLY <1>15, <1>17, <2>1
<1>21. /\ left \in Seq(PacketByte) /\ Len(left) = lv + lt
       /\ \A i \in 1..lv : left[i] = v[i]
       /\ \A i \in 1..lt : left[lv + i] = t[i]
  <2>1. /\ v \o t \in Seq(PacketByte) /\ Len(v \o t) = Len(v) + Len(t)
        /\ \A i \in 1..Len(v) : (v \o t)[i] = v[i]
        /\ \A i \in 1..Len(t) : (v \o t)[Len(v) + i] = t[i]
    <3>1. v \in Seq(PacketByte) /\ t \in Seq(PacketByte)
      BY <1>19
    <3> QED
      BY ONLY <3>1, Joins
  <2> QED
    BY ONLY <1>15, <1>17, <1>19, <2>1
<1>22. PICK l \in Nat : l = lv + lt
  OBVIOUS
<1>23. Len(u) = s + l
  BY ONLY <1>18, <1>20, <1>22, lv \in Nat, lt \in Nat, s \in Nat
<1>24. ASSUME NEW i \in 1..l PROVE left[i] = u[s + i]
  <2>1. CASE i <= lv
    <3>1. i \in 1..lv /\ s + i \in 1..lw
      BY <1>18, <2>1
    <3> QED
      BY ONLY <1>19, <1>20, <1>21, <3>1
  <2>2. CASE i > lv
    <3>1. PICK j \in 1..lt : j = i - lv
      BY <1>22, <2>2
    <3>2. i = lv + j /\ s + i = lw + j
      BY <1>18, <3>1
    <3> QED
      BY ONLY <1>20, <1>21, <3>2, j \in 1..lt
  <2> QED
    BY <2>1, <2>2
<1>25. n \in Nat
  BY <1>14
<1>26. /\ Kept(allMessages, Of(c)) = Kept(SubSeq(sent, 1, n), Message)
       /\ Follows(u, sent, n)
       /\ Open(c) => Len(u) = Before(Len(sent) - n)
  BY <1>13, <1>14, <1>16 DEF Delivered
<1>27. n + 1 <= Len(sent) /\ u[1] = << sent[n + 1], 1 >>
  <2>1. Len(u) \in Nat /\ Len(u) >= PacketSize
    BY <1>12, <1>22, <1>23
  <2> QED
    BY <1>25, <1>26, <2>1, FollowsFirst
<1>28. p = sent[n + 1]
  <2>1. 1 \in 1..lw
    BY <1>12, <1>18
  <2>2. w[1] = << sent[n + 1], 1 >>
    BY ONLY <1>20, <1>27, <2>1
  <2>3. p = w[1][1]
    BY <1>1
  <2> QED
    BY <2>2, <2>3
<1>29. p.conn = c
  BY <1>2, <1>13, <1>25, <1>27, <1>28 DEF MailInv, Labelled
<1>30. Follows(left, sent, n + 1)
  <2>1. Len(u) = PacketSize + l /\ Len(left) = l /\ \A i \in 1..l : left[i] = u[PacketSize + i]
    BY ONLY <1>12, <1>21, <1>22, <1>23, <1>24
  <2> QED
    BY ONLY <1>25, <1>26, <2>1, l \in Nat, FollowsNext
<1>31. Open(c) => Len(left) = Before(Len(sent) - (n + 1))
  <2> SUFFICES ASSUME Open(c) PROVE Len(left) = Before(Len(sent) - (n + 1))
    OBVIOUS
  <2>1. PICK d \in Nat : d = Len(sent) - (n + 1)
    <3>1. PICK ls \in Nat : ls = Len(sent)
      OBVIOUS
    <3>2. n + 1 <= ls
      BY <1>27, <3>1
    <3>3. ls - (n + 1) \in Nat
      BY ONLY <1>25, <3>2, ls \in Nat
    <3> QED
      BY <3>1, <3>3
  <2>2. Len(sent) - n = d + 1
    <3>1. PICK ls \in Nat : ls = Len(sent)
      OBVIOUS
    <3>2. d = ls - (n + 1)
      BY <2>1, <3>1
    <3>3. ls - n = d + 1
      BY ONLY <1>25, <3>2, ls \in Nat
    <3> QED
      BY <3>1, <3>3
  <2>3. s + l = Before(d) + s /\ Before(d) \in Nat
    BY <1>12, <1>23, <1>26, <2>2, Packing
  <2>4. l = Before(d)
    BY ONLY <2>3, s \in Nat, l \in Nat
  <2> QED
    BY <1>21, <1>22, <2>1, <2>4
<1>32. p \in Message <=> p.type = "SendMessageRequest"
  BY <1>2 DEF Message
<1>33. allMessages \in Seq(Packet)
  BY <1>8 DEF RecInv, TypeOK
<1>34. Kept(allMessages', Of(c)) = Kept(SubSeq(sent, 1, n + 1), Message)
  <2>1. PICK b : b = SubSeq(sent, 1, n)
    OBVIOUS
  <2>2. SubSeq(sent, 1, n + 1) = Append(b, p)
    <3>1. n \in 0..(Len(sent) - 1)
      BY <1>25, <1>27
    <3> QED
      BY <1>28, <2>1, <3>1, OneMore
  <2>3. b \in Seq(Packet)
    BY <1>14, <2>1, Cutting
  <2>4. Kept(Append(b, p), Message) =
          IF p \in Message THEN Append(Kept(b, Message), p) ELSE Kept(b, Message)
    BY <1>2, <2>3, KeptAppend
  <2>5. Kept(Append(allMessages, p), Of(c))
          = IF p \in Of(c) THEN Append(Kept(allMessages, Of(c)), p) ELSE Kept(allMessages, Of(c))
    BY <1>2, <1>33, KeptAppend
  <2>6. p \in Of(c) <=> p \in Message
    BY <1>29 DEF Of
  <2>7. CASE p \in Message
    BY <1>3, <1>26, <1>32, <2>1, <2>2, <2>4, <2>5, <2>6, <2>7
  <2>8. CASE p \notin Message
    BY <1>3, <1>26, <1>32, <2>1, <2>2, <2>4, <2>8
  <2> QED
    BY <2>7, <2>8
<1>35. Delivered(c, n + 1)'
  <2>1. /\ Len(left) = l /\ (Open(c)' => Open(c)) /\ sentPackets'[c] = sent
        /\ Of(c)' = Of(c) /\ Message' = Message
    BY <1>3, <1>13, <1>21, <1>22 DEF Open, Of, Message, Packet, connVars
  <2>2. (n + 1)' = n + 1
    OBVIOUS
  <2> QED
    BY <1>16, <1>30, <1>31, <1>34, <2>1 DEF Delivered
<1>36. n + 1 \in 0..Len(sentPackets'[c])
  <2>1. n + 1 \in 0..Len(sent)
    BY <1>25, <1>27
  <2> QED
    BY <1>3, <1>13, <2>1
<1>37. ASSUME NEW d \in Conn, d # c, NEW k \in 0..Len(sentPackets[d]), Delivered(d, k)
       PROVE  Delivered(d, k)'
  <2>1. Undelivered(d)' = Undelivered(d) /\ (Open(d)' <=> Open(d)) /\ sentPackets' = sentPackets
    BY <1>3, <1>10, <1>37 DEF Undelivered, Open, connVars
  <2>2. p \notin Of(d)
    BY <1>29, <1>37 DEF Of
  <2>3. Kept(Append(allMessages, p), Of(d)) = Kept(allMessages, Of(d))
    BY <1>2, <1>33, <2>2, KeptAppend
  <2>4. Kept(allMessages', Of(d)) = Kept(allMessages, Of(d))
    BY <1>3, <2>3
  <2> QED
    BY <1>37, <2>1, <2>4 DEF Delivered, Of, Message, Packet
<1>38. Streaming'
  <2>1. ASSUME NEW d \in Conn PROVE \E k \in 0..Len(sentPackets'[d]) : Delivered(d, k)'
    <3>1. CASE d = c
      BY <1>35, <1>36, <3>1
    <3>2. CASE d # c
      <4>1. PICK k \in 0..Len(sentPackets[d]) : Delivered(d, k)
        BY DEF MailInv, Streaming
      <4> QED
        BY <1>3, <1>37, <3>2, <4>1
    <3> QED
      BY <3>1, <3>2
  <2> QED
    BY <2>1 DEF Streaming
<1>39. Labelled'
  BY <1>3 DEF MailInv, Labelled
<1> QED
  BY <1>38, <1>39

(* A packet that is sent comes behind all bytes of its connection.         *)
LEMMA TransmitFlow ==
  ASSUME MailInv, NEW k \in Client, NEW type \in SentType, Transmit(k, type)
  PROVE  Streaming' /\ Labelled'
<1>1. PICK c : c = connSocket[k]
  OBVIOUS
<1>2. PICK p : p = [type |-> type, conn |-> c, number |-> Len(sentPackets[c]) + 1]
  OBVIOUS
<1>3. /\ state[k] = "Connected" /\ serverEnd[c] = "open" /\ Cardinality(Sent) < MaxPackets
      /\ transit' = [transit EXCEPT ![c] = @ \o Bytes(p)]
      /\ sentPackets' = [sentPackets EXCEPT ![c] = Append(@, p)]
      /\ UNCHANGED << clients, allMessages, clientEnd, serverEnd >>
  BY <1>1, <1>2 DEF Transmit, serverVars
<1>4. c \in Conn /\ Open(c)
  <2>1. c # NoConn
    BY <1>1, <1>3 DEF MailInv, RecInv, Connected
  <2>2. c \in Conn
    BY <1>1, <2>1, ConnNumbers DEF MailInv
  <2> QED
    BY <1>1, <1>3, <2>2 DEF MailInv, Owned, Open
<1>5. p \in Packet /\ p.conn = c
  BY <1>2, <1>3, <1>4, SentCount, SentAssumption DEF Packet, MailInv
<1>6. PICK b, t : b = Buffer(clients, c) /\ t = transit[c]
  OBVIOUS
<1>7. PICK sent \in Seq(Packet) : sent = sentPackets[c]
  BY <1>4, FlowTypes DEF MailInv
<1>8. PICK bytes : bytes = Bytes(p)
  OBVIOUS
<1>9. /\ b \in Seq(PacketByte) /\ t \in Seq(PacketByte) /\ bytes \in Seq(PacketByte)
      /\ Undelivered(c) = b \o t /\ b \o t \in Seq(PacketByte)
  <2>1. bytes \in Seq(PacketByte)
    BY <1>5, <1>8, Constants DEF Bytes, PacketByte
  <2> QED
    BY <1>4, <1>6, <2>1, FlowTypes DEF MailInv, Undelivered
<1>10. /\ transit'[c] = t \o bytes /\ sentPackets'[c] = Append(sent, p)
       /\ \A d \in Conn \ {c} : transit'[d] = transit[d] /\ sentPackets'[d] = sentPackets[d]
  BY <1>3, <1>4, <1>6, <1>7, <1>8 DEF MailInv, RecInv, TypeOK
<1>11. PICK u : u = b \o t
  OBVIOUS
<1>12. Undelivered(c)' = u \o bytes
  <2>1. (b \o t) \o bytes = b \o (t \o bytes)
    <3>1. b \in Seq(PacketByte) /\ t \in Seq(PacketByte) /\ bytes \in Seq(PacketByte)
      BY <1>9
    <3> QED
      BY ONLY <3>1, ConcatAssociative
  <2> QED
    BY <1>3, <1>6, <1>10, <1>11, <2>1 DEF Undelivered
<1>13. PICK n \in 0..Len(sent) : Delivered(c, n)
  BY <1>4, <1>7 DEF MailInv, Streaming
<1>14. /\ Kept(allMessages, Of(c)) = Kept(SubSeq(sent, 1, n), Message)
       /\ Follows(u, sent, n) /\ Len(u) = Before(Len(sent) - n) /\ u \in Seq(PacketByte)
  BY <1>4, <1>7, <1>9, <1>11, <1>13 DEF Delivered
<1>15. PICK more : more = Append(sent, p)
  OBVIOUS
<1>16. Follows(u \o bytes, more, n) /\ Len(u \o bytes) = Before(Len(more) - n)
  BY <1>5, <1>8, <1>9, <1>14, <1>15, FollowsSent
<1>17. SubSeq(more, 1, n) = SubSeq(sent, 1, n)
  BY <1>5, <1>15, SameStart
<1>18. /\ Len(more) = Len(sent) + 1 /\ more[Len(sent) + 1] = p
       /\ \A i \in 1..Len(sent) : more[i] = sent[i]
  BY <1>5, <1>15, AppendProperties
<1>19. Delivered(c, n)' /\ n \in 0..Len(sentPackets'[c])
  <2>1. n \in 0..Len(more)
    BY <1>18
  <2>2. Of(c)' = Of(c) /\ Message' = Message
    BY DEF Of, Message, Packet
  <2> QED
    BY <1>3, <1>10, <1>12, <1>14, <1>15, <1>16, <1>17, <2>1, <2>2 DEF Delivered
<1>20. ASSUME NEW d \in Conn, d # c, NEW m \in 0..Len(sentPackets[d]), Delivered(d, m)
       PROVE  Delivered(d, m)'
  BY <1>3, <1>10, <1>20 DEF Delivered, Undelivered, Open, Of, Message, Packet
<1>21. Streaming'
  <2>1. ASSUME NEW d \in Conn PROVE \E m \in 0..Len(sentPackets'[d]) : Delivered(d, m)'
    <3>1. CASE d = c
      BY <1>19, <3>1
    <3>2. CASE d # c
      <4>1. PICK m \in 0..Len(sentPackets[d]) : Delivered(d, m)
        BY DEF MailInv, Streaming
      <4> QED
        BY <1>10, <1>20, <3>2, <4>1
    <3> QED
      BY <3>1, <3>2
  <2> QED
    BY <2>1 DEF Streaming
<1>22. Labelled'
  <2>1. ASSUME NEW d \in Conn, NEW i \in 1..Len(sentPackets'[d]) PROVE sentPackets'[d][i].conn = d
    <3>1. CASE d = c
      <4>1. i \in 1..Len(sent) \/ i = Len(sent) + 1
        BY <1>10, <1>15, <1>18, <3>1
      <4> QED
        BY <1>5, <1>7, <1>10, <1>15, <1>18, <3>1, <4>1 DEF MailInv, Labelled
    <3>2. CASE d # c
      BY <1>10, <3>2 DEF MailInv, Labelled
    <3> QED
      BY <3>1, <3>2
  <2> QED
    BY <2>1 DEF Labelled
<1> QED
  BY <1>21, <1>22

(* The ends of the clients.                                                *)
LEMMA OwnedStep ==
  ASSUME MailInv, Next
  PROVE  Owned'
<1>1. CASE UNCHANGED << clientVars, clientEnd >>
  BY <1>1 DEF MailInv, Owned, clientVars
<1>2. CASE ServerUpdates \/ ServerButtons
  <2>1. UNCHANGED << clientVars, clientEnd >>
    BY <1>2 DEF ServerUpdates, ServerButtons, ServerFrame, StartServer, StopServer, SelectReadable,
       AcceptClient, ReceiveBytes, ReceiveEnd, TakePacket, LoopEnds, DeleteInvalidSockets, connVars
  <2> QED
    BY <1>1, <2>1
<1>3. ASSUME NEW k \in Client, Connect(k) PROVE Owned'
  <2>1. PICK c : c = nextConn
    OBVIOUS
  <2>2. /\ nextConn <= MaxConns
        /\ state' = [state EXCEPT ![k] = "Connected"]
        /\ connSocket' = [connSocket EXCEPT ![k] = c]
        /\ clientEnd' = [clientEnd EXCEPT ![c] = "open"]
    BY <1>3, <2>1 DEF Connect
  <2>3. c \in Conn
    BY <2>1, <2>2, Constants DEF MailInv, RecInv, TypeOK, Conn
  <2>4. ASSUME NEW l \in Client PROVE connSocket[l] # c
    BY <2>1, ConnNumbers DEF MailInv, RecInv, Connected
  <2>5. clientEnd'[c] = "open" /\ \A d : d # c => clientEnd'[d] = clientEnd[d]
    BY <2>2, <2>3 DEF MailInv, RecInv, TypeOK
  <2>6. /\ connSocket'[k] = c
        /\ \A l \in Client \ {k} : connSocket'[l] = connSocket[l] /\ state'[l] = state[l]
    BY <2>2 DEF MailInv, RecInv, TypeOK
  <2> QED
    BY <2>4, <2>5, <2>6 DEF MailInv, Owned
<1>4. ASSUME NEW k \in Client, ConnectFails(k) PROVE Owned'
  <2>1. /\ state' = [state EXCEPT ![k] = "Disconnecting"]
        /\ connSocket' = [connSocket EXCEPT ![k] = NoConn] /\ clientEnd' = clientEnd
    BY <1>4 DEF ConnectFails, connVars
  <2>2. /\ connSocket'[k] = NoConn /\ state'[k] = "Disconnecting"
        /\ \A l \in Client \ {k} : connSocket'[l] = connSocket[l] /\ state'[l] = state[l]
    BY <2>1 DEF MailInv, RecInv, TypeOK
  <2> QED
    BY <2>1, <2>2 DEF MailInv, Owned
<1>5. ASSUME NEW k \in Client, ClientFrame(k) \/ PressDisconnect(k) PROVE Owned'
  <2>1. /\ \A l \in Client : state'[l] = "Connected" => state[l] = "Connected"
        /\ connSocket' = connSocket /\ clientEnd' = clientEnd
    BY <1>5 DEF ClientFrame, PressDisconnect, connVars, MailInv, RecInv, TypeOK
  <2> QED
    BY <2>1 DEF MailInv, Owned
<1>6. ASSUME NEW k \in Client, DisconnectFromServer(k) PROVE Owned'
  <2>1. PICK c : c = connSocket[k]
    OBVIOUS
  <2>2. /\ state' = [state EXCEPT ![k] = "Disconnected"] /\ connSocket' = connSocket
        /\ \A d \in Conn : d # c => clientEnd'[d] = clientEnd[d]
    BY <1>6, <2>1 DEF DisconnectFromServer
  <2>3. ASSUME NEW l \in Client, state'[l] = "Connected" PROVE clientEnd'[connSocket[l]] = "open"
    <3>1. l # k /\ state[l] = "Connected"
      BY <2>2, <2>3 DEF MailInv, RecInv, TypeOK
    <3>2. connSocket[l] # NoConn /\ connSocket[l] # c /\ connSocket[l] \in Conn
      BY <2>1, <3>1, ConnNumbers DEF MailInv, RecInv, Connected, Owned
    <3> QED
      BY <2>2, <3>1, <3>2 DEF MailInv, Owned
  <2> QED
    BY <2>2, <2>3 DEF MailInv, Owned
<1>7. ASSUME NEW k \in Client, KillClient(k) PROVE Owned'
  <2>1. PICK c : c = connSocket[k]
    OBVIOUS
  <2>2. /\ state' = [state EXCEPT ![k] = "Disconnected"] /\ connSocket' = connSocket
        /\ \A d \in Conn : d # c => clientEnd'[d] = clientEnd[d]
    BY <1>7, <2>1 DEF KillClient, MailInv, RecInv, TypeOK
  <2>3. ASSUME NEW l \in Client, state'[l] = "Connected" PROVE clientEnd'[connSocket[l]] = "open"
    <3>1. l # k /\ state[l] = "Connected"
      BY <2>2, <2>3 DEF MailInv, RecInv, TypeOK
    <3>2. connSocket[l] # NoConn /\ connSocket[l] # c /\ connSocket[l] \in Conn
      BY <2>1, <3>1, ConnNumbers DEF MailInv, RecInv, Connected, Owned
    <3> QED
      BY <2>2, <3>1, <3>2 DEF MailInv, Owned
  <2> QED
    BY <2>2, <2>3 DEF MailInv, Owned
<1>8. ASSUME NEW k \in Client, NEW type \in SentType, Transmit(k, type) PROVE Owned'
  BY <1>8 DEF Transmit, MailInv, Owned
<1> QED
  BY <1>2, <1>3, <1>4, <1>5, <1>6, <1>7, <1>8 DEF Next, ClientUpdates

-----------------------------------------------------------------------------
(* The messages, in all steps.                                             *)

(* At the start nothing was sent.                                          *)
LEMMA StartMail == Init => MailInv
<1> SUFFICES ASSUME Init PROVE MailInv
  OBVIOUS
<1>1. /\ clients = <<>> /\ allMessages = <<>>
      /\ transit = [c \in Conn |-> <<>>]
      /\ clientEnd = [c \in Conn |-> "none"]
      /\ state = [k \in Client |-> "Disconnected"]
      /\ connSocket = [k \in Client |-> NoConn]
      /\ sentPackets = [c \in Conn |-> <<>>]
  BY DEF Init, ServerInit
<1>2. Owned
  BY <1>1 DEF Owned
<1>3. Labelled
  <2>1. \A c \in Conn : Len(sentPackets[c]) = 0
    BY <1>1
  <2> QED
    BY <2>1 DEF Labelled
<1>4. ASSUME NEW c \in Conn PROVE Len(sentPackets[c]) = 0 /\ Delivered(c, 0)
  <2>1. sentPackets[c] = <<>> /\ Len(sentPackets[c]) = 0 /\ transit[c] = <<>> /\ ~Open(c)
    BY <1>1 DEF Open
  <2>2. Buffer(clients, c) = <<>>
    <3>1. Len(clients) = 0
      BY <1>1
    <3> QED
      BY <3>1 DEF Buffer, Listed
  <2>3. Undelivered(c) = <<>>
    BY <2>1, <2>2, ConcatEmptySeq, EmptySeq DEF Undelivered
  <2>4. SubSeq(<<>>, 1, 0) = <<>>
    OBVIOUS
  <2>5. Follows(<<>>, <<>>, 0)
    BY FollowsNone
  <2>6. Kept(allMessages, Of(c)) = Kept(SubSeq(sentPackets[c], 1, 0), Message)
    BY <1>1, <2>1, <2>4, KeptNone
  <2> QED
    BY <2>1, <2>3, <2>5, <2>6 DEF Delivered
<1>5. Streaming
  <2>1. ASSUME NEW c \in Conn PROVE 0 \in 0..Len(sentPackets[c]) /\ Delivered(c, 0)
    BY <1>4
  <2> QED
    BY <2>1 DEF Streaming
<1> QED
  BY <1>2, <1>3, <1>5, StartRecords DEF MailInv

(* Every step keeps the invariant of the messages.                         *)
LEMMA MailStep == MailInv /\ [Next]_mailVars => MailInv'
<1> SUFFICES ASSUME MailInv, [Next]_mailVars PROVE MailInv'
  OBVIOUS
<1>1. RecInv'
  BY RecordsStep DEF MailInv
<1>2. CASE UNCHANGED mailVars
  <2>1. UNCHANGED << clients, allMessages, transit, clientEnd, serverEnd, sentPackets,
                     state, connSocket >>
    BY <1>2 DEF mailVars, serverVars, connVars, clientVars
  <2>2. Streaming' /\ Labelled'
    BY <2>1, NothingMoves, StreamsOn
  <2>3. Owned'
    BY <2>1 DEF MailInv, Owned
  <2> QED
    BY <1>1, <2>2, <2>3 DEF MailInv
<1>3. CASE Next
  <2>1. CASE ServerUpdates
    BY <1>1, <2>1, SelectReadableFlow, AcceptClientFlow, ReceiveBytesFlow, ReceiveEndFlow,
       TakePacketFlow, LoopEndsFlow, DeleteInvalidSocketsFlow, <1>3, OwnedStep
       DEF ServerUpdates, ServerFrame, MailInv
  <2>2. CASE ServerButtons
    BY <1>1, <2>2, StartServerFlow, StopServerFlow, <1>3, OwnedStep DEF ServerButtons, MailInv
  <2>3. CASE \E k \in Client :
                \/ Connect(k) \/ ConnectFails(k) \/ ClientUpdates(k) \/ PressDisconnect(k)
                \/ KillClient(k)
    BY <1>1, <2>3, ConnectFlow, ClientFlow, KillClientFlow, <1>3, OwnedStep
       DEF ClientUpdates, MailInv
  <2>4. CASE \E k \in Client, type \in SentType : Transmit(k, type)
    BY <1>1, <2>4, TransmitFlow, <1>3, OwnedStep DEF MailInv
  <2> QED
    BY <1>3, <2>1, <2>2, <2>3, <2>4 DEF Next
<1> QED
  BY <1>2, <1>3

(* A sequence is a prefix of what it begins.                               *)
LEMMA Begun ==
  ASSUME NEW T, NEW a \in Seq(T), NEW b \in Seq(T)
  PROVE  IsPrefix(a, a \o b)
<1>1. PICK n \in Nat : n = Len(a)
  OBVIOUS
<1>2. PICK m \in Nat : m = Len(b)
  OBVIOUS
<1>3. PICK c : c = a \o b
  OBVIOUS
<1>4. c \in Seq(T) /\ Len(c) = n + m /\ \A i \in 1..n : c[i] = a[i]
  <2>1. /\ a \o b \in Seq(T) /\ Len(a \o b) = Len(a) + Len(b)
        /\ \A i \in 1..Len(a) : (a \o b)[i] = a[i]
    BY Joins
  <2> QED
    BY ONLY <1>1, <1>2, <1>3, <2>1
<1>5. PICK x, y : x = SubSeq(a, 1, n) /\ y = SubSeq(c, 1, n)
  OBVIOUS
<1>6. x \in Seq(T) /\ Len(x) = n /\ \A i \in 1..n : x[i] = a[i]
  <2>1. n \in 0..Len(a)
    BY <1>1
  <2> QED
    BY <1>5, <2>1, Cutting
<1>7. y \in Seq(T) /\ Len(y) = n /\ \A i \in 1..n : y[i] = c[i]
  <2>1. n \in 0..Len(c)
    BY <1>4
  <2> QED
    BY <1>4, <1>5, <2>1, Cutting
<1>8. \A i \in 1..n : x[i] = y[i]
  BY <1>4, <1>6, <1>7
<1>9. x = y
  BY <1>6, <1>7, <1>8, SeqEqual
<1> QED
  BY <1>1, <1>3, <1>4, <1>5, <1>9 DEF IsPrefix

(* What is stored are the messages of the packets that are delivered.      *)
LEMMA StoredSoFar == MailInv => StoredInOrder
<1> SUFFICES ASSUME MailInv, NEW c \in Conn
             PROVE  IsPrefix(Kept(allMessages, {m \in Message : m.conn = c}),
                             Kept(sentPackets[c], Message))
  BY DEF StoredInOrder
<1>1. PICK s \in Seq(Packet) : s = sentPackets[c]
  BY FlowTypes DEF MailInv
<1>2. PICK n \in 0..Len(s) : Kept(allMessages, Of(c)) = Kept(SubSeq(s, 1, n), Message)
  BY <1>1 DEF MailInv, Streaming, Delivered
<1>3. PICK a, b : a = SubSeq(s, 1, n) /\ b = SubSeq(s, n + 1, Len(s))
  OBVIOUS
<1>4. a \in Seq(Packet) /\ b \in Seq(Packet) /\ s = a \o b
  BY <1>3, Cutting
<1>5. Kept(s, Message) = Kept(a, Message) \o Kept(b, Message)
  BY <1>4, KeptJoin
<1>6. Kept(a, Message) \in Seq(Packet) /\ Kept(b, Message) \in Seq(Packet)
  BY <1>4, KeptPicks
<1>7. IsPrefix(Kept(a, Message), Kept(s, Message))
  BY <1>5, <1>6, Begun
<1> QED
  BY <1>1, <1>2, <1>3, <1>7 DEF Of

(* StoredInOrder: of every connection the server stores messages that were *)
(* sent on it, none lost between two others, none twice and none out of    *)
(* order, however TCP cuts the stream into receives:                       *)
(* handleIncomingDataFromClient() appends to the buffer of the socket and  *)
(* takes whole packets off its front, onPacketReceivedSendMessage() stores *)
(* them.                                                                   *)
THEOREM MailInOrder == Spec => []StoredInOrder
  BY StartMail, MailStep, StoredSoFar, PTL DEF Spec

=============================================================================
