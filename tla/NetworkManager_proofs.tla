------------------------ MODULE NetworkManager_proofs ------------------------
(***************************************************************************)
(* For any processes, connections, packets and sizes: the types, what a    *)
(* round leaves behind, that connections are streams of packets            *)
(* (PacketStreams), and which handles are leaked.                          *)
(*                                                                         *)
(* A stream is followed by what would complete it (Rests): bytes that,     *)
(* behind those received and those on the wire, carry the packets still to *)
(* be handed over.  Reading and writing move bytes from one part to the    *)
(* next and keep the rest; an end that is lost only loses bytes.           *)
(***************************************************************************)
EXTENDS NetworkManager, Loops_proofs

-----------------------------------------------------------------------------
(* The selection of sockets, batch by batch.                               *)

(* Selecting batch by batch finds sockets of the list that are ready.      *)
LEMMA SelectReadyType ==
  ASSUME NEW T, NEW L, NEW list \in Lists(T, L), NEW ready
  PROVE  SelectReady(list, ready) \in Lists(T \cap ready, L)
<1> DEFINE n == (Len(list) + BatchSize - 1) \div BatchSize
           part == [i \in 1..n |-> Kept(Batch(list, i - 1), ready)]
           Body(f) == f = [i \in 0..n |->
                             IF i = 0 THEN <<>> ELSE f[i - 1] \o Kept(Batch(list, i - 1), ready)]
           found == CHOOSE f : Body(f)
<1>1. list \in Seq(T) /\ Len(list) \in Nat /\ n \in Nat
  BY BoundsAssumption DEF Lists
<1>2. ASSUME NEW i \in 1..n
      PROVE  /\ i = 1 => part[i] \in Lists(T \cap ready, L)
             /\ i # 1 => part[i] \in Seq((T \cap ready) \ {L})
  <2>1. PICK b \in Nat : /\ b = (i - 1) * BatchSize
                         /\ i # 1 => b # 0
    BY <1>1, BoundsAssumption
  <2>2. PICK e \in Nat : /\ e <= Len(list)
                         /\ Batch(list, i - 1) = SubSeq(list, b + 1, e)
    <3>1. i * BatchSize = b + BatchSize
      BY <1>1, <2>1, BoundsAssumption
    <3>2. (i - 1 + 1) * BatchSize = b + BatchSize
      BY <1>1, <3>1
    <3>3. PICK e : e = IF b + BatchSize < Len(list) THEN b + BatchSize ELSE Len(list)
      OBVIOUS
    <3>4. e \in Nat /\ e <= Len(list)
      BY <1>1, <3>3, BoundsAssumption
    <3>5. Batch(list, i - 1) = SubSeq(list, b + 1, e)
      BY <2>1, <3>2, <3>3 DEF Batch
    <3> QED
      BY <3>4, <3>5
  <2>3. PICK batch : batch = SubSeq(list, b + 1, e)
    OBVIOUS
  <2>4. \A k \in (b + 1)..e : list[k] \in T /\ (k # 1 => list[k] # L)
    <3>1. ASSUME NEW k \in (b + 1)..e PROVE list[k] \in T /\ (k # 1 => list[k] # L)
      <4>1. k \in 1..Len(list) /\ (k # 1 => k \in 2..Len(list))
        BY <1>1, <2>2
      <4> QED
        BY <1>1, <4>1, ElementOfSeq DEF Lists
    <3> QED
      BY <3>1
  <2>5. part[i] = Kept(batch, ready)
    BY <2>2, <2>3
  <2>6. CASE i = 1
    <3>1. /\ batch \in Seq(T) /\ Len(batch) = IF b + 1 <= e THEN e - (b + 1) + 1 ELSE 0
          /\ \A k \in 1..(e - (b + 1) + 1) : batch[k] = list[b + 1 + k - 1]
      BY <2>3, <2>4, SubSeqProperties
    <3>2. ASSUME NEW k \in 2..Len(batch) PROVE batch[k] # L
      <4>1. k \in 1..(e - (b + 1) + 1) /\ b + 1 + k - 1 \in (b + 1)..e /\ b + 1 + k - 1 # 1
        BY <3>1
      <4> QED
        BY <2>4, <3>1, <4>1
    <3>3. batch \in Lists(T, L)
      BY <3>1, <3>2 DEF Lists
    <3> QED
      BY <2>5, <2>6, <3>3, KeptType
  <2>7. CASE i # 1
    <3>1. \A k \in (b + 1)..e : list[k] \in T \ {L}
      BY <2>1, <2>4, <2>7
    <3>2. batch \in Seq(T \ {L})
      BY <2>3, <3>1, SubSeqProperties
    <3>3. batch \in Lists(T \ {L}, L)
      BY <3>2, ListsJoin
    <3>4. Kept(batch, ready) \in Lists((T \ {L}) \cap ready, L)
      BY <3>3, KeptType
    <3>5. (T \ {L}) \cap ready = (T \cap ready) \ {L}
      OBVIOUS
    <3>6. Kept(batch, ready) \in Seq((T \cap ready) \ {L})
      BY <3>4, <3>5, ListsJoin
    <3> QED
      BY <2>5, <2>7, <3>6
  <2> QED
    BY <2>6, <2>7
<1>3. ASSUME NEW f PROVE Body(f) <=> Assembles(f, part, n)
  <2> HIDE DEF n
  <2>1. [i \in 0..n |-> IF i = 0 THEN <<>> ELSE f[i - 1] \o Kept(Batch(list, i - 1), ready)]
        = [i \in 0..n |-> IF i = 0 THEN <<>> ELSE f[i - 1] \o part[i]]
    BY <1>1
  <2> QED
    BY <2>1 DEF Assembles
<1>4. SelectReady(list, ready) = found[n]
  BY DEF SelectReady
<1> HIDE DEF n
<1>5. \E f : Assembles(f, part, n)
  <2> HIDE DEF part
  <2> QED
    BY <1>1, Assembling
<1>6. Body(found)
  <2> HIDE DEF Body, part
  <2> QED
    BY <1>3, <1>5
<1> HIDE DEF found, Body, part
<1>7. Assembles(found, part, n)
  BY <1>3, <1>6
<1>8. ASSUME NEW i \in 1..n, NEW a \in Lists(T \cap ready, L), i = 1 => a = <<>>
      PROVE  a \o part[i] \in Lists(T \cap ready, L)
  <2>1. CASE i = 1
    BY <1>2, <1>8, <2>1, ListsJoin
  <2>2. CASE i # 1
    BY <1>2, <2>2, ListsJoin
  <2> QED
    BY <2>1, <2>2
<1>9. \A i \in 0..n : found[i] \in Lists(T \cap ready, L)
  BY <1>1, <1>7, <1>8, ListsJoin, Assembled
<1>10. n \in 0..n
  BY <1>1
<1>11. found[n] \in Lists(T \cap ready, L)
  BY ONLY <1>9, <1>10
<1> QED
  BY ONLY <1>4, <1>11

(* Looping over a list batch by batch is looping over it.                  *)
LEMMA SelectReadyAll ==
  ASSUME NEW T, NEW list \in Seq(T), NEW ready
  PROVE  SelectReady(list, ready) = Kept(list, ready)
<1> DEFINE n == (Len(list) + BatchSize - 1) \div BatchSize
           part == [i \in 1..n |-> Kept(Batch(list, i - 1), ready)]
           Body(f) == f = [i \in 0..n |->
                             IF i = 0 THEN <<>> ELSE f[i - 1] \o Kept(Batch(list, i - 1), ready)]
           found == CHOOSE f : Body(f)
           Reached(i) == IF i * BatchSize < Len(list) THEN i * BatchSize ELSE Len(list)
<1>1. Len(list) \in Nat /\ n \in Nat /\ Reached(n) = Len(list) /\ Reached(0) = 0
  <2>1. BatchSize \in Nat \ {0}
    BY BoundsAssumption
  <2>2. PICK l \in Nat : l = Len(list)
    OBVIOUS
  <2>3. PICK q : q = (l + BatchSize - 1) \div BatchSize
    OBVIOUS
  <2>4. q \in Nat /\ q * BatchSize >= l
    BY ONLY <2>1, <2>2, <2>3
  <2> QED
    BY <2>1, <2>2, <2>3, <2>4
<1>2. PICK f : Assembles(f, Pushed(list, ready), Len(list)) /\ Kept(list, ready) = f[Len(list)]
  BY KeptAssembled
<1>3. ASSUME NEW i \in 0..(n - 1)
      PROVE  f[Reached(i + 1)] = f[Reached(i)] \o Kept(Batch(list, i), ready)
  <2>1. PICK l \in Nat : l = Len(list)
    OBVIOUS
  <2>2. PICK b : b = i * BatchSize
    OBVIOUS
  <2>3. /\ b \in Nat /\ b < l /\ BatchSize \in Nat \ {0}
        /\ (i + 1) * BatchSize = b + BatchSize
    <3>1. i \in Nat /\ i + 1 \in Nat /\ BatchSize \in Nat \ {0}
      BY <1>1, BoundsAssumption
    <3>2. PICK q : q = (l + BatchSize - 1) \div BatchSize
      OBVIOUS
    <3>3. i + 1 <= q /\ q \in Nat
      BY <1>1, <2>1, <3>2
    <3>4. q * BatchSize <= l + BatchSize - 1
      BY ONLY <2>1, <3>1, <3>2
    <3>5. (i + 1) * BatchSize <= q * BatchSize
      BY ONLY <3>1, <3>3
    <3>6. (i + 1) * BatchSize = b + BatchSize /\ b \in Nat
      BY ONLY <2>2, <3>1
    <3>7. q * BatchSize \in Nat
      BY ONLY <3>1, <3>3
    <3> QED
      BY ONLY <2>1, <3>1, <3>4, <3>5, <3>6, <3>7
  <2>4. PICK e : e = IF b + BatchSize < l THEN b + BatchSize ELSE l
    OBVIOUS
  <2>5. e \in Nat /\ b < e /\ e <= l
    BY ONLY <2>1, <2>3, <2>4
  <2>6. Reached(i) = b /\ Reached(i + 1) = e
    BY <2>1, <2>2, <2>3, <2>4
  <2>7. PICK batch : batch = SubSeq(list, b + 1, e)
    OBVIOUS
  <2>8. Batch(list, i) = batch
    BY <2>1, <2>2, <2>3, <2>4, <2>7 DEF Batch
  <2>9. batch \in Seq(T) /\ Len(batch) = e - b /\ \A j \in 1..(e - b) : batch[j] = list[b + j]
    <3>1. ASSUME NEW k \in (b + 1)..e PROVE list[k] \in T
      <4>1. k \in 1..Len(list)
        BY ONLY <2>1, <2>3, <2>5
      <4> QED
        BY <4>1, ElementOfSeq
    <3>2. /\ batch \in Seq(T) /\ Len(batch) = IF b + 1 <= e THEN e - (b + 1) + 1 ELSE 0
          /\ \A j \in 1..(e - (b + 1) + 1) : batch[j] = list[b + 1 + j - 1]
      BY <2>3, <2>5, <2>7, <3>1, SubSeqProperties
    <3>3. e - (b + 1) + 1 = e - b /\ b + 1 <= e /\ \A j \in 1..(e - b) : b + 1 + j - 1 = b + j
      BY ONLY <2>3, <2>5
    <3> QED
      BY ONLY <3>2, <3>3
  <2>10. PICK g : /\ Assembles(g, Pushed(batch, ready), Len(batch))
                  /\ Kept(batch, ready) = g[Len(batch)]
    BY <2>9, KeptAssembled
  <2>11. PICK m \in Nat : m = e - b
    BY <2>3, <2>5
  <2>12. \A j \in 1..m : Pushed(batch, ready)[j] = Pushed(list, ready)[b + j]
    <3>1. ASSUME NEW j \in 1..m PROVE Pushed(batch, ready)[j] = Pushed(list, ready)[b + j]
      <4>1. j \in 1..Len(batch) /\ b + j \in 1..Len(list) /\ batch[j] = list[b + j]
        BY ONLY <2>1, <2>3, <2>5, <2>9, <2>11
      <4> QED
        BY <4>1 DEF Pushed
    <3> QED
      BY <3>1
  <2>13. \A k \in 1..l : Pushed(list, ready)[k] \in Seq(T)
    <3>1. ASSUME NEW k \in 1..l PROVE Pushed(list, ready)[k] \in Seq(T)
      <4>1. list[k] \in T /\ k \in 1..Len(list)
        BY <2>1, ElementOfSeq
      <4> QED
        BY <4>1 DEF Pushed
    <3> QED
      BY <3>1
  <2>14. b + m = e /\ b + m <= l
    BY ONLY <2>3, <2>5, <2>11
  <2>15. Assembles(f, Pushed(list, ready), l) /\ Assembles(g, Pushed(batch, ready), m)
    BY <1>2, <2>1, <2>9, <2>10, <2>11
  <2>16. f[b + m] = f[b] \o g[m]
    <3>1. Parts(Pushed(list, ready), l, T)
      BY <2>13 DEF Parts
    <3>2. Behind(Pushed(list, ready), b, Pushed(batch, ready), m)
      BY <2>12 DEF Behind
    <3>3. Continues(f, b, g, m)
      BY ONLY <2>3, <2>14, <2>15, <3>1, <3>2, AssembledFurther
    <3> QED
      BY <3>3 DEF Continues
  <2> QED
    BY <2>6, <2>8, <2>9, <2>10, <2>11, <2>14, <2>16
<1>4. SelectReady(list, ready) = found[n]
  BY DEF SelectReady
<1>5. ASSUME NEW h PROVE Body(h) <=> Assembles(h, part, n)
  <2> HIDE DEF n
  <2>1. [i \in 0..n |-> IF i = 0 THEN <<>> ELSE h[i - 1] \o Kept(Batch(list, i - 1), ready)]
        = [i \in 0..n |-> IF i = 0 THEN <<>> ELSE h[i - 1] \o part[i]]
    BY <1>1
  <2> QED
    BY <2>1 DEF Assembles
<1> HIDE DEF n
<1>6. \E h : Assembles(h, part, n)
  <2> HIDE DEF part
  <2> QED
    BY <1>1, Assembling
<1>7. Body(found)
  <2> HIDE DEF Body, part
  <2> QED
    BY <1>5, <1>6
<1> HIDE DEF found
<1>8. \A i \in 0..n : found[i] = IF i = 0 THEN <<>>
                                 ELSE found[i - 1] \o Kept(Batch(list, i - 1), ready)
  BY <1>1, <1>7
<1> HIDE DEF Body, part, Reached
<1> DEFINE Good == {i \in 0..n : found[i] = f[Reached(i)]}
<1>9. 0 \in Good
  <2>1. f[0] = <<>>
    BY <1>1, <1>2 DEF Assembles
  <2> QED
    BY <1>1, <1>8, <2>1
<1>10. ASSUME NEW i \in 0..(n - 1), i \in Good PROVE i + 1 \in Good
  <2>1. i + 1 \in 0..n /\ i + 1 # 0 /\ i + 1 - 1 = i
    BY <1>1
  <2>2. PICK k : k = i + 1
    OBVIOUS
  <2>3. found[k] = found[k - 1] \o Kept(Batch(list, k - 1), ready)
    BY ONLY <1>8, <2>1, <2>2
  <2>4. k - 1 = i
    BY ONLY <2>1, <2>2
  <2> QED
    BY <1>3, <1>10, <2>1, <2>2, <2>3, <2>4
<1>11. n \in Good
  <2> HIDE DEF Good
  <2>1. n \in 0..n
    BY <1>1
  <2> QED
    BY <1>1, <1>9, <1>10, <2>1, Climb
<1> QED
  BY <1>1, <1>2, <1>4, <1>11

-----------------------------------------------------------------------------
(* Streams of packets.  Bytes carry packets when they are the frames of    *)
(* the packets, one after the other.                                       *)
Carries(bytes, packets) ==
  \E cut :
    /\ \A i \in 0..Len(packets) : cut[i] \in 0..Len(bytes)
    /\ cut[0] = 0 /\ cut[Len(packets)] = Len(bytes)
    /\ \A i \in 1..Len(packets) :
         /\ cut[i] = cut[i - 1] + Len(Frame(packets[i]))
         /\ \A j \in 1..Len(Frame(packets[i])) :
              bytes[cut[i - 1] + j] = Frame(packets[i])[j]

(* The data of a packet are read as they were written, and so is its size. *)
LEMMA PacketWritten ==
  ASSUME NEW m \in Packet
  PROVE  /\ Write(m) \in Seq(Byte) \ {<<>>} /\ Header(m) \in Seq(Byte)
         /\ Number(Header(m)) = Len(Write(m))
         /\ Read(Write(m)) = m
<1>1. m \in Seq(Word) /\ m # <<>> /\ Len(Write(m)) < 256^HeaderSize
  BY PacketAssumption
<1>2. Write(m) \in Seq(Byte) /\ Len(Write(m)) = 2 * Len(m) /\ Read(Write(m)) = m
  BY <1>1, WordsRead
<1>3. Write(m) # <<>>
  <2>1. Len(m) \in Nat \ {0}
    BY <1>1, EmptySeq
  <2>2. 2 * Len(m) # 0
    BY <2>1
  <2> QED
    BY <1>2, <2>2, EmptySeq
<1>4. PICK n \in Nat : n = Len(Write(m)) /\ n < 256^HeaderSize
  BY <1>1, <1>2
<1>5. Header(m) = Memory(n, HeaderSize)
  BY <1>4 DEF Header
<1>6. Header(m) \in Seq(Byte) /\ Number(Header(m)) = n
  <2>1. CASE HeaderSize = 2
    <3>1. n < 65536
      BY ONLY <1>4, <2>1, Powers
    <3>2. n \in Word
      BY ONLY <3>1, n \in Nat, WordNumbers
    <3>3. PICK a, b \in Byte : n = a + b * 256
      BY <3>2, TwoDigits
    <3>4. Header(m) = << a, b >>
      BY <1>5, <2>1, <3>3, MemoryOfTwo
    <3>5. Number(<< a, b >>) = n
      BY <3>3, NumberOfTwo, ByteNumbers
    <3> QED
      BY ONLY <3>4, <3>5, a \in Byte, b \in Byte
  <2>2. CASE HeaderSize = 4
    <3>1. n < 65536 * 65536
      <4>1. 256^4 = 65536 * 65536
        BY SMT
      <4> QED
        BY ONLY <1>4, <2>2, <4>1
    <3>2. n \in LongWord
      BY ONLY <3>1, n \in Nat DEF LongWord
    <3>3. PICK a, b, c, d \in Byte : n = a + b * 256 + c * 65536 + d * 16777216
      BY <3>2, FourDigits
    <3>4. Header(m) = << a, b, c, d >>
      BY <1>5, <2>2, <3>3, MemoryOfFour
    <3>5. a \in Nat /\ b \in Nat /\ c \in Nat /\ d \in Nat
      BY ByteNumbers
    <3>6. Number(<< a, b, c, d >>) = n
      BY <3>3, <3>5, NumberOfFour
    <3> QED
      BY ONLY <3>4, <3>6, a \in Byte, b \in Byte, c \in Byte, d \in Byte
  <2> QED
    BY <2>1, <2>2, PacketAssumption
<1> QED
  BY <1>2, <1>3, <1>4, <1>6

(* A frame is a header of a fixed size and the data behind it.             *)
LEMMA FrameParts ==
  ASSUME NEW m \in Packet
  PROVE  /\ Write(m) \in Seq(Byte) /\ Header(m) \in Seq(Byte) /\ Frame(m) \in Seq(Byte)
         /\ Len(Write(m)) \in Nat \ {0} /\ Len(Header(m)) = HeaderSize
         /\ Len(Frame(m)) = HeaderSize + Len(Write(m))
         /\ \A j \in 1..Len(Frame(m)) :
              Frame(m)[j] = IF j <= HeaderSize THEN Header(m)[j] ELSE Write(m)[j - HeaderSize]
<1>1. Write(m) \in Seq(Byte) /\ Write(m) # <<>> /\ Header(m) \in Seq(Byte)
  BY PacketWritten
<1>2. Len(Write(m)) \in Nat \ {0}
  BY <1>1, EmptySeq
<1>3. Len(Header(m)) = HeaderSize
  BY <1>1, FramingAssumption DEF Header, Memory
<1> QED
  BY <1>1, <1>2, <1>3, ConcatProperties DEF Frame

(* Without packets there are no bytes.                                     *)
LEMMA CarriesNothing ==
  ASSUME NEW bytes \in Seq(Byte)
  PROVE  Carries(bytes, <<>>) <=> bytes = <<>>
<1>1. ASSUME Carries(bytes, <<>>) PROVE bytes = <<>>
  <2>1. Len(bytes) = 0
    BY <1>1 DEF Carries
  <2> QED
    BY <2>1, EmptySeq
<1>2. ASSUME bytes = <<>> PROVE Carries(bytes, <<>>)
  <2>1. PICK cut : cut = [i \in 0..0 |-> 0]
    OBVIOUS
  <2> QED
    BY <1>2, <2>1 DEF Carries
<1> QED
  BY <1>1, <1>2

(* A frame behind the bytes carries one more packet (SendPacket()).        *)
LEMMA CarriesMore ==
  ASSUME NEW bytes \in Seq(Byte), NEW packets \in Seq(Packet), NEW m \in Packet,
         Carries(bytes, packets)
  PROVE  Carries(bytes \o Frame(m), Append(packets, m))
<1>1. PICK cut :
        /\ \A i \in 0..Len(packets) : cut[i] \in 0..Len(bytes)
        /\ cut[0] = 0 /\ cut[Len(packets)] = Len(bytes)
        /\ \A i \in 1..Len(packets) :
             /\ cut[i] = cut[i - 1] + Len(Frame(packets[i]))
             /\ \A j \in 1..Len(Frame(packets[i])) :
                  bytes[cut[i - 1] + j] = Frame(packets[i])[j]
  BY DEF Carries
<1>2. PICK n \in Nat : n = Len(packets)
  OBVIOUS
<1>3. PICK b \in Nat : b = Len(bytes)
  OBVIOUS
<1>4. PICK F \in Seq(Byte) : F = Frame(m)
  BY FrameParts
<1>5. PICK all : all = bytes \o F
  OBVIOUS
<1>6. PICK more : more = Append(packets, m)
  OBVIOUS
<1>7. PICK now : now = [i \in 0..(n + 1) |-> IF i = n + 1 THEN b + Len(F) ELSE cut[i]]
  OBVIOUS
<1>8. /\ Len(more) = n + 1 /\ more[n + 1] = m
      /\ \A i \in 1..n : more[i] = packets[i]
  BY <1>2, <1>6, AppendProperties
<1>9. /\ Len(F) \in Nat /\ Len(all) = b + Len(F)
      /\ \A j \in 1..b : all[j] = bytes[j]
      /\ \A j \in 1..Len(F) : all[b + j] = F[j]
  <2>1. \A j \in 1..(b + Len(F)) : all[j] = IF j <= b THEN bytes[j] ELSE F[j - b]
    BY <1>3, <1>5, ConcatProperties
  <2>2. Len(F) \in Nat /\ Len(all) = b + Len(F)
    BY <1>3, <1>5, ConcatProperties
  <2>3. ASSUME NEW j \in 1..Len(F) PROVE all[b + j] = F[j]
    <3>1. b + j \in 1..(b + Len(F)) /\ ~(b + j <= b) /\ b + j - b = j
      BY <2>2
    <3> QED
      BY <2>1, <3>1
  <2> QED
    BY <2>1, <2>2, <2>3
<1>10. \A i \in 0..(n + 1) : now[i] \in 0..Len(all)
  BY <1>1, <1>2, <1>3, <1>7, <1>9
<1>11. now[0] = 0 /\ now[n + 1] = Len(all)
  BY <1>1, <1>7, <1>9
<1>12. ASSUME NEW i \in 1..(n + 1)
       PROVE  /\ now[i] = now[i - 1] + Len(Frame(more[i]))
              /\ \A j \in 1..Len(Frame(more[i])) : all[now[i - 1] + j] = Frame(more[i])[j]
  <2>1. CASE i = n + 1
    <3>1. now[i] = b + Len(F) /\ now[i - 1] = b /\ Frame(more[i]) = F
      BY <1>1, <1>2, <1>3, <1>4, <1>7, <1>8, <2>1
    <3> QED
      BY <1>9, <3>1
  <2>2. CASE i # n + 1
    <3>1. i \in 1..n /\ now[i] = cut[i] /\ now[i - 1] = cut[i - 1] /\ more[i] = packets[i]
      BY <1>7, <1>8, <2>2
    <3>2. PICK f : f = Frame(packets[i])
      OBVIOUS
    <3>3. /\ cut[i] = cut[i - 1] + Len(f)
          /\ \A j \in 1..Len(f) : bytes[cut[i - 1] + j] = f[j]
          /\ cut[i] \in 0..b /\ cut[i - 1] \in 0..b
      BY <1>1, <1>2, <1>3, <3>1, <3>2
    <3>4. Len(f) \in Nat
      <4>1. packets[i] \in Packet
        BY <1>2, <3>1, ElementOfSeq
      <4> QED
        BY <3>2, <4>1, FrameParts
    <3>5. \A j \in 1..Len(f) : cut[i - 1] + j \in 1..b
      BY ONLY <1>3, <3>3, <3>4
    <3>6. \A j \in 1..Len(f) : all[cut[i - 1] + j] = f[j]
      BY ONLY <1>9, <3>3, <3>5
    <3> QED
      BY <3>1, <3>2, <3>3, <3>6
  <2> QED
    BY <2>1, <2>2
<1>13. Carries(all, more)
  <2>1. PICK k : k = Len(more)
    OBVIOUS
  <2>2. k = n + 1
    BY <1>8, <2>1
  <2>3. /\ \A i \in 0..k : now[i] \in 0..Len(all)
        /\ now[0] = 0 /\ now[k] = Len(all)
        /\ \A i \in 1..k :
             /\ now[i] = now[i - 1] + Len(Frame(more[i]))
             /\ \A j \in 1..Len(Frame(more[i])) : all[now[i - 1] + j] = Frame(more[i])[j]
    BY ONLY <1>10, <1>11, <1>12, <2>2
  <2> QED
    BY ONLY <2>1, <2>3 DEF Carries
<1> QED
  BY <1>4, <1>5, <1>6, <1>13

(* The first frame can be cut off with its packet (ReceivePacket()).       *)
LEMMA CarriesHead ==
  ASSUME NEW bytes \in Seq(Byte), NEW packets \in Seq(Packet), packets # <<>>,
         Carries(bytes, packets), NEW F, F = Frame(packets[1])
  PROVE  /\ Len(F) <= Len(bytes) /\ \A j \in 1..Len(F) : bytes[j] = F[j]
         /\ Carries(SubSeq(bytes, Len(F) + 1, Len(bytes)), Tail(packets))
<1>1. PICK cut :
        /\ \A i \in 0..Len(packets) : cut[i] \in 0..Len(bytes)
        /\ cut[0] = 0 /\ cut[Len(packets)] = Len(bytes)
        /\ \A i \in 1..Len(packets) :
             /\ cut[i] = cut[i - 1] + Len(Frame(packets[i]))
             /\ \A j \in 1..Len(Frame(packets[i])) :
                  bytes[cut[i - 1] + j] = Frame(packets[i])[j]
  BY DEF Carries
<1>2. PICK n \in Nat : n = Len(packets) /\ n # 0
  BY EmptySeq
<1>3. PICK b \in Nat : b = Len(bytes)
  OBVIOUS
<1>4. packets[1] \in Packet
  BY <1>2, ElementOfSeq
<1>5. PICK f \in Nat : f = Len(F)
  BY <1>4, FrameParts
<1>6. cut[1] = f /\ f <= b /\ \A j \in 1..f : bytes[j] = F[j]
  <2>1. /\ cut[1] = cut[0] + Len(F)
        /\ \A j \in 1..Len(F) : bytes[cut[0] + j] = F[j]
    BY <1>1, <1>2
  <2>2. \A j \in 1..f : bytes[j] = F[j]
    <3>1. \A j \in 1..f : 0 + j = j
      BY ONLY f \in Nat
    <3> QED
      BY ONLY <1>1, <1>5, <2>1, <3>1
  <2>3. cut[1] = f
    BY ONLY <1>1, <1>5, <2>1, f \in Nat
  <2>4. cut[1] \in 0..b
    BY <1>1, <1>2, <1>3
  <2> QED
    BY <2>2, <2>3, <2>4
<1>7. PICK left : left = SubSeq(bytes, f + 1, b)
  OBVIOUS
<1>8. PICK later : later = Tail(packets)
  OBVIOUS
<1>9. PICK now : now = [i \in 0..(n - 1) |-> cut[i + 1] - f]
  OBVIOUS
<1>10. Len(later) = n - 1 /\ \A i \in 1..(n - 1) : later[i] = packets[i + 1]
  BY <1>2, <1>8, HeadTailProperties
<1>11. Len(left) = b - f /\ \A j \in 1..(b - f) : left[j] = bytes[f + j]
  <2>1. \A i \in (f + 1)..b : bytes[i] \in Byte
    BY <1>3, <1>6, ElementOfSeq
  <2>2. /\ Len(SubSeq(bytes, f + 1, b)) = IF f + 1 <= b THEN b - (f + 1) + 1 ELSE 0
        /\ \A i \in 1..(b - (f + 1) + 1) : SubSeq(bytes, f + 1, b)[i] = bytes[f + 1 + i - 1]
    BY <2>1, SubSeqProperties
  <2>3. \A i \in 1..(b - f) : f + 1 + i - 1 = f + i
    OBVIOUS
  <2> QED
    BY <1>6, <1>7, <2>2, <2>3
<1>12. ASSUME NEW i \in 0..(n - 1) PROVE now[i] \in 0..Len(left)
  <2>1. f <= cut[i + 1] /\ cut[i + 1] \in 0..b
    <3>1. ASSUME NEW k \in 1..n PROVE f <= cut[k]
      <4> DEFINE Bad == {h \in 1..n : ~(f <= cut[h])}
      <4>1. SUFFICES ASSUME Bad # {} PROVE FALSE
        OBVIOUS
      <4>2. PICK h \in Bad : \A g \in Bad : h <= g
        <5>1. Bad \subseteq Nat
          OBVIOUS
        <5> HIDE DEF Bad
        <5> QED
          BY <4>1, <5>1, LeastNumber
      <4>3. h \in 1..n /\ ~(f <= cut[h]) /\ h # 1
        BY <1>6
      <4>4. h - 1 \in 1..n /\ f <= cut[h - 1]
        BY <4>2, <4>3
      <4>5. packets[h] \in Packet
        BY <1>2, <4>3, ElementOfSeq
      <4>6. Len(Frame(packets[h])) \in Nat
        BY <4>5, FrameParts
      <4>7. cut[h] = cut[h - 1] + Len(Frame(packets[h])) /\ cut[h - 1] \in 0..b
        BY <1>1, <1>2, <1>3, <4>3, <4>4
      <4> QED
        BY ONLY <4>3, <4>4, <4>6, <4>7, <1>5, <1>3
    <3>2. i + 1 \in 1..n
      OBVIOUS
    <3> QED
      BY <1>1, <1>2, <1>3, <3>1, <3>2
  <2> QED
    BY <1>3, <1>5, <1>6, <1>9, <1>11, <2>1
<1>13. now[0] = 0 /\ now[n - 1] = Len(left)
  <2>1. now[0] = cut[1] - f /\ now[n - 1] = cut[n] - f
    BY <1>2, <1>9
  <2> QED
    BY <1>1, <1>2, <1>3, <1>6, <1>11, <2>1
<1>14. ASSUME NEW i \in 1..(n - 1)
       PROVE  /\ now[i] = now[i - 1] + Len(Frame(later[i]))
              /\ \A j \in 1..Len(Frame(later[i])) : left[now[i - 1] + j] = Frame(later[i])[j]
  <2>1. /\ now[i] = cut[i + 1] - f /\ now[i - 1] = cut[i] - f
        /\ later[i] = packets[i + 1] /\ i + 1 \in 1..n /\ i \in 1..n
    <3>1. i - 1 \in 0..(n - 1) /\ i - 1 + 1 = i
      OBVIOUS
    <3> QED
      BY <1>9, <1>10, <3>1
  <2>2. PICK g : g = Frame(packets[i + 1])
    OBVIOUS
  <2>3. Len(g) \in Nat
    BY <1>2, <2>1, <2>2, ElementOfSeq, FrameParts
  <2>4. /\ cut[i + 1] = cut[i] + Len(g)
        /\ \A j \in 1..Len(g) : bytes[cut[i] + j] = g[j]
        /\ cut[i] \in 0..b /\ cut[i + 1] \in 0..b
    <3>1. PICK h \in 1..n : h = i + 1 /\ h - 1 = i /\ Frame(packets[h]) = g
      BY <2>1, <2>2
    <3>2. /\ cut[h] = cut[h - 1] + Len(Frame(packets[h]))
          /\ \A j \in 1..Len(Frame(packets[h])) :
               bytes[cut[h - 1] + j] = Frame(packets[h])[j]
      BY <1>1, <1>2
    <3>3. \A k \in 0..n : cut[k] \in 0..b
      BY <1>1, <1>2, <1>3
    <3>4. i \in 0..n /\ i + 1 \in 0..n
      OBVIOUS
    <3>5. cut[i] \in 0..b /\ cut[i + 1] \in 0..b
      BY ONLY <3>3, <3>4
    <3> QED
      BY ONLY <3>1, <3>2, <3>5
  <2>5. now[i - 1] \in 0..(b - f) /\ now[i] \in 0..(b - f)
    BY <1>11, <1>12
  <2>6. ASSUME NEW j \in 1..Len(g) PROVE left[now[i - 1] + j] = g[j]
    <3>1. now[i - 1] + j \in 1..(b - f) /\ f + (now[i - 1] + j) = cut[i] + j
      <4>1. PICK x \in 0..b : x = cut[i]
        BY <2>4
      <4>2. PICK y \in 0..b : y = cut[i + 1] /\ y = x + Len(g)
        BY <2>4, <4>1
      <4>3. now[i - 1] = x - f /\ now[i - 1] \in 0..(b - f)
        BY <2>1, <2>5, <4>1
      <4>4. PICK z \in 0..(b - f) : z = now[i - 1] /\ z = x - f
        BY <4>3
      <4>5. PICK l \in Nat : l = Len(g)
        BY <2>3
      <4>6. j \in 1..l /\ y = x + l /\ z = x - f
        BY <4>2, <4>4, <4>5
      <4>7. z + j \in 1..(b - f) /\ f + (z + j) = x + j
        BY ONLY <4>6, x \in 0..b, y \in 0..b, z \in 0..(b - f), l \in Nat, b \in Nat, f \in Nat
      <4> QED
        BY ONLY <4>1, <4>4, <4>7
    <3>2. left[now[i - 1] + j] = bytes[f + (now[i - 1] + j)]
      BY <1>11, <3>1
    <3> QED
      BY <2>4, <3>1, <3>2
  <2>7. now[i] = now[i - 1] + Len(g)
    BY ONLY <1>5, <2>1, <2>3, <2>4
  <2> QED
    BY <2>1, <2>2, <2>6, <2>7
<1>15. Carries(left, later)
  <2>1. PICK k : k = Len(later)
    OBVIOUS
  <2>2. k = n - 1
    BY <1>10, <2>1
  <2>3. /\ \A i \in 0..k : now[i] \in 0..Len(left)
        /\ now[0] = 0 /\ now[k] = Len(left)
        /\ \A i \in 1..k :
             /\ now[i] = now[i - 1] + Len(Frame(later[i]))
             /\ \A j \in 1..Len(Frame(later[i])) : left[now[i - 1] + j] = Frame(later[i])[j]
    BY ONLY <1>12, <1>13, <1>14, <2>2
  <2>4. /\ \A i \in 0..Len(later) : now[i] \in 0..Len(left)
        /\ now[0] = 0 /\ now[Len(later)] = Len(left)
        /\ \A i \in 1..Len(later) :
             /\ now[i] = now[i - 1] + Len(Frame(later[i]))
             /\ \A j \in 1..Len(Frame(later[i])) : left[now[i - 1] + j] = Frame(later[i])[j]
    BY ONLY <2>1, <2>3
  <2> QED
    BY ONLY <2>4, Zenon DEF Carries
<1>16. Len(F) <= Len(bytes) /\ \A j \in 1..Len(F) : bytes[j] = F[j]
  BY ONLY <1>3, <1>5, <1>6
<1>17. Carries(SubSeq(bytes, Len(F) + 1, Len(bytes)), Tail(packets))
  BY ONLY <1>3, <1>5, <1>7, <1>8, <1>15
<1> QED
  BY ONLY <1>16, <1>17

(* The elements of a list behind the first f ones, up to the last one of e.*)
Part(s, f, e) == SubSeq(s, f + 1, e)

(* A part is a sequence, as long as its bounds are apart.                  *)
LEMMA Cut ==
  ASSUME NEW T, NEW s \in Seq(T), NEW e \in 0..Len(s), NEW f \in 0..e
  PROVE  /\ Part(s, f, e) \in Seq(T) /\ Len(Part(s, f, e)) = e - f
         /\ \A j \in 1..(e - f) : Part(s, f, e)[j] = s[f + j]
<1>1. PICK l \in Nat : l = Len(s)
  OBVIOUS
<1>2. \A j \in (f + 1)..e : s[j] \in T
  BY <1>1, ElementOfSeq
<1>3. f \in Nat /\ e \in Nat /\ f <= e
  BY <1>1
<1>4. PICK c : c = SubSeq(s, f + 1, e)
  OBVIOUS
<1>5. /\ c \in Seq(T) /\ Len(c) = IF f + 1 <= e THEN e - (f + 1) + 1 ELSE 0
      /\ \A j \in 1..(e - (f + 1) + 1) : c[j] = s[f + 1 + j - 1]
  BY <1>2, <1>3, <1>4, SubSeqProperties
<1>6. e - (f + 1) + 1 = e - f /\ \A j \in 1..(e - f) : f + 1 + j - 1 = f + j
  BY ONLY <1>3
<1>7. Len(c) = e - f
  BY ONLY <1>3, <1>5, <1>6
<1>8. ASSUME NEW j \in 1..(e - f) PROVE c[j] = s[f + j]
  BY ONLY <1>5, <1>6, <1>8
<1>9. c = Part(s, f, e)
  BY ONLY <1>4 DEF Part
<1> QED
  BY ONLY <1>5, <1>7, <1>8, <1>9

(* It does not matter in which order bytes are joined.                     *)
Associates(x, y, z) == (x \o y) \o z = x \o (y \o z)

(* Joining bytes first on the left is joining them first on the right.     *)
LEMMA JoinsAssociate == \A x, y, z \in Seq(Byte) : Associates(x, y, z)
<1>1. SUFFICES ASSUME NEW x \in Seq(Byte), NEW y \in Seq(Byte), NEW z \in Seq(Byte)
               PROVE  Associates(x, y, z)
  OBVIOUS
<1>2. (x \o y) \o z = x \o (y \o z)
  BY ConcatAssociative
<1> QED
  BY ONLY <1>2 DEF Associates

(* What may follow the bytes received and the bytes on the wire, so that   *)
(* together they carry the packets.                                        *)
Rests(received, onWire, packets) ==
  {rest \in Seq(Byte) : Carries((received \o onWire) \o rest, packets)}

(* Bytes move from the wire into the buffer of incoming bytes.             *)
LEMMA RestsReceived ==
  ASSUME NEW a \in Seq(Byte), NEW b \in Seq(Byte), NEW packets
  PROVE  Rests(a \o b, <<>>, packets) = Rests(a, b, packets)
<1>1. a \o b \in Seq(Byte)
  BY ConcatProperties
<1>2. (a \o b) \o <<>> = a \o b
  BY <1>1, ConcatEmptySeq
<1> QED
  BY <1>2 DEF Rests

(* Bytes on the wire are lost, and others could still take their place.    *)
LEMMA RestsLost ==
  ASSUME NEW a \in Seq(Byte), NEW b \in Seq(Byte), NEW packets,
         Rests(a, b, packets) # {}
  PROVE  Rests(a, <<>>, packets) # {}
<1>1. PICK rest \in Seq(Byte) : Carries((a \o b) \o rest, packets)
  BY DEF Rests
<1>2. (a \o b) \o rest = a \o (b \o rest)
  BY ConcatAssociative
<1>3. a \o <<>> = a
  BY ConcatEmptySeq
<1>4. b \o rest \in Seq(Byte)
  BY ConcatProperties
<1>5. Carries((a \o <<>>) \o (b \o rest), packets)
  BY ONLY <1>1, <1>2, <1>3
<1> QED
  BY <1>4, <1>5 DEF Rests

(* The first bytes of what is to be sent move to the wire.                 *)
LEMMA RestsWritten ==
  ASSUME NEW a \in Seq(Byte), NEW b \in Seq(Byte), NEW packets,
         NEW out \in Rests(a, b, packets), NEW n \in 0..Len(out)
  PROVE  /\ SubSeq(out, 1, n) \in Seq(Byte) /\ SubSeq(out, n + 1, Len(out)) \in Seq(Byte)
         /\ SubSeq(out, n + 1, Len(out)) \in Rests(a, b \o SubSeq(out, 1, n), packets)
<1>1. out \in Seq(Byte) /\ Carries((a \o b) \o out, packets)
  BY DEF Rests
<1>2. PICK l \in Nat : l = Len(out)
  BY <1>1
<1>3. \A i \in 1..l : out[i] \in Byte
  BY <1>1, <1>2, ElementOfSeq
<1>4. PICK now : now = SubSeq(out, 1, n)
  OBVIOUS
<1>5. PICK later : later = SubSeq(out, n + 1, l)
  OBVIOUS
<1>6. now \in Seq(Byte)
  BY <1>2, <1>3, <1>4, SubSeqProperties
<1>7. later \in Seq(Byte)
  BY <1>2, <1>3, <1>5, SubSeqProperties
<1>8. now \o later = out
  <2>1. 1 \in 1..(Len(out) + 1) /\ n \in (1 - 1)..Len(out) /\ Len(out) \in n..Len(out)
    BY <1>2
  <2>2. SubSeq(out, 1, n) \o SubSeq(out, n + 1, Len(out)) = SubSeq(out, 1, Len(out))
    BY <1>1, <2>1, ConcatAdjacentSubSeq
  <2>3. SubSeq(out, 1, Len(out)) = out
    BY <1>1, SubSeqFull
  <2> QED
    BY <1>2, <1>4, <1>5, <2>2, <2>3
<1>9. (a \o (b \o now)) \o later = (a \o b) \o out
  <2>1. PICK ab \in Seq(Byte) : ab = a \o b
    BY ConcatProperties
  <2>2. Associates(a, b, now) /\ Associates(ab, now, later)
    BY ONLY a \in Seq(Byte), b \in Seq(Byte), ab \in Seq(Byte), <1>6, <1>7, JoinsAssociate
  <2>3. a \o (b \o now) = ab \o now /\ (ab \o now) \o later = ab \o (now \o later)
    BY ONLY <2>1, <2>2 DEF Associates
  <2> QED
    BY ONLY <1>8, <2>1, <2>3
<1>10. Carries((a \o (b \o now)) \o later, packets)
  BY ONLY <1>1, <1>9
<1>11. later \in Rests(a, b \o now, packets)
  BY <1>7, <1>10 DEF Rests
<1> QED
  BY <1>2, <1>4, <1>5, <1>6, <1>7, <1>11

(* A packet is sent: its frame is behind what was still to be sent.        *)
LEMMA RestsPosted ==
  ASSUME NEW a \in Seq(Byte), NEW b \in Seq(Byte), NEW packets \in Seq(Packet),
         NEW m \in Packet, NEW rest \in Rests(a, b, packets)
  PROVE  rest \o Frame(m) \in Rests(a, b, Append(packets, m))
<1>1. rest \in Seq(Byte) /\ Carries((a \o b) \o rest, packets)
  BY DEF Rests
<1>2. PICK F \in Seq(Byte) : F = Frame(m)
  BY FrameParts
<1>3. a \o b \in Seq(Byte) /\ rest \o F \in Seq(Byte)
  BY <1>1, ConcatProperties
<1>4. (a \o b) \o rest \in Seq(Byte)
  BY <1>1, <1>3, ConcatProperties
<1>5. Carries(((a \o b) \o rest) \o F, Append(packets, m))
  BY <1>1, <1>2, <1>4, CarriesMore
<1>6. ((a \o b) \o rest) \o F = (a \o b) \o (rest \o F)
  <2>1. PICK ab \in Seq(Byte) : ab = a \o b
    BY <1>3
  <2>2. Associates(ab, rest, F)
    BY ONLY ab \in Seq(Byte), F \in Seq(Byte), <1>1, JoinsAssociate
  <2> QED
    BY ONLY <2>1, <2>2 DEF Associates
<1>7. Carries((a \o b) \o (rest \o F), Append(packets, m))
  BY ONLY <1>5, <1>6
<1> QED
  BY <1>2, <1>3, <1>7 DEF Rests

(* When nothing is to be handed over, there are no bytes anywhere.         *)
LEMMA RestsNothing ==
  ASSUME NEW a \in Seq(Byte), NEW b \in Seq(Byte)
  PROVE  /\ \A rest \in Rests(a, b, <<>>) : a = <<>> /\ b = <<>> /\ rest = <<>>
         /\ <<>> \in Rests(<<>>, <<>>, <<>>)
<1>1. ASSUME NEW rest \in Rests(a, b, <<>>) PROVE a = <<>> /\ b = <<>> /\ rest = <<>>
  <2>1. rest \in Seq(Byte) /\ Carries((a \o b) \o rest, <<>>)
    BY DEF Rests
  <2>2. a \o b \in Seq(Byte)
    BY ConcatProperties
  <2>3. (a \o b) \o rest \in Seq(Byte)
    BY <2>1, <2>2, ConcatProperties
  <2>4. (a \o b) \o rest = <<>>
    BY <2>1, <2>3, CarriesNothing
  <2>5. a \o b = <<>> /\ rest = <<>>
    BY <2>1, <2>2, <2>4, ConcatEqualIffEmpty
  <2> QED
    BY <2>5, ConcatEqualIffEmpty
<1>2. <<>> \in Rests(<<>>, <<>>, <<>>)
  <2>1. <<>> \in Seq(Byte)
    BY EmptySeq
  <2>2. (<<>> \o <<>>) \o <<>> = <<>>
    BY <2>1, ConcatEmptySeq
  <2>3. Carries(<<>>, <<>>)
    BY <2>1, CarriesNothing
  <2>4. Carries((<<>> \o <<>>) \o <<>>, <<>>)
    BY ONLY <2>2, <2>3
  <2> QED
    BY <2>1, <2>4 DEF Rests
<1> QED
  BY <1>1, <1>2

(* The bytes of a socket whose stream is still to hand over packets: the   *)
(* first of them is what ReceivePacket() finds.                            *)
Whole(received) ==
  /\ Len(received) > HeaderSize
  /\ Len(received) - HeaderSize >= Number(SubSeq(received, 1, HeaderSize))
  /\ Number(SubSeq(received, 1, HeaderSize)) <= StreamCapacity

(* What is received agrees with the frame of the first packet as far as it *)
(* goes.                                                                   *)
LEMMA RestsBegin ==
  ASSUME NEW a \in Seq(Byte), NEW b \in Seq(Byte), NEW packets \in Seq(Packet),
         packets # <<>>, NEW rest \in Rests(a, b, packets),
         NEW F, F = Frame(packets[1]), Len(a) >= HeaderSize
  PROVE  /\ packets[1] \in Packet
         /\ SubSeq(a, 1, HeaderSize) = Header(packets[1])
         /\ Number(SubSeq(a, 1, HeaderSize)) = Len(Write(packets[1]))
         /\ Len(a) >= Len(F) =>
              /\ SubSeq(a, HeaderSize + 1, Len(F)) = Write(packets[1])
              /\ rest \in Rests(SubSeq(a, Len(F) + 1, Len(a)), b, Tail(packets))
<1>1. rest \in Seq(Byte) /\ Carries((a \o b) \o rest, packets)
  BY DEF Rests
<1>2. PICK m \in Packet : m = packets[1]
  <2>1. 1 \in 1..Len(packets)
    BY EmptySeq
  <2> QED
    BY <2>1, ElementOfSeq
<1>3. /\ Write(m) \in Seq(Byte) /\ Header(m) \in Seq(Byte) /\ F \in Seq(Byte)
      /\ Len(Write(m)) \in Nat \ {0} /\ Len(Header(m)) = HeaderSize
      /\ Len(F) = HeaderSize + Len(Write(m))
      /\ \A j \in 1..Len(F) : F[j] = IF j <= HeaderSize THEN Header(m)[j]
                                                      ELSE Write(m)[j - HeaderSize]
  BY <1>2, FrameParts
<1>4. PICK after \in Seq(Byte) : after = b \o rest
  BY <1>1, ConcatProperties
<1>5. PICK all \in Seq(Byte) : all = (a \o b) \o rest /\ all = a \o after
  <2>1. Associates(a, b, rest)
    BY ONLY a \in Seq(Byte), b \in Seq(Byte), <1>1, JoinsAssociate
  <2>2. a \o after \in Seq(Byte)
    BY ConcatProperties
  <2> QED
    BY ONLY <1>4, <2>1, <2>2 DEF Associates
<1>6. PICK l \in Nat : l = Len(a)
  OBVIOUS
<1>7. PICK o \in Nat : o = Len(after)
  OBVIOUS
<1>8. Len(all) = l + o /\ \A j \in 1..(l + o) : all[j] = IF j <= l THEN a[j] ELSE after[j - l]
  BY <1>5, <1>6, <1>7, ConcatProperties
<1>9. PICK f \in Nat : f = Len(F)
  BY <1>3
<1>10. /\ f <= l + o /\ \A j \in 1..f : all[j] = F[j]
       /\ Carries(SubSeq(all, f + 1, l + o), Tail(packets))
  <2>1. Carries(all, packets)
    BY <1>1, <1>5
  <2> QED
    BY <1>8, <1>9, <2>1, CarriesHead
<1>11. PICK h \in Nat : h = HeaderSize
  BY FramingAssumption
<1>12. SubSeq(a, 1, h) = Header(m)
  <2>1. h <= l /\ h <= f /\ f = h + Len(Write(m))
    BY <1>3, <1>6, <1>9, <1>11
  <2>2. \A j \in 1..h : a[j] = Header(m)[j] /\ a[j] \in Byte
    <3>1. ASSUME NEW j \in 1..h PROVE a[j] = Header(m)[j] /\ a[j] \in Byte
      <4>1. j \in 1..l /\ j \in 1..(l + o) /\ j \in 1..f /\ j <= l /\ j <= h
        BY <2>1
      <4>2. all[j] = a[j] /\ all[j] = F[j] /\ F[j] = Header(m)[j]
        BY <1>3, <1>8, <1>9, <1>10, <1>11, <4>1
      <4>3. a[j] \in Byte
        BY <1>6, <4>1, ElementOfSeq
      <4> QED
        BY <4>2, <4>3
    <3> QED
      BY <3>1
  <2>3. PICK s : s = SubSeq(a, 1, h)
    OBVIOUS
  <2>4. s \in Seq(Byte) /\ Len(s) = h /\ \A j \in 1..h : s[j] = a[j]
    <3>1. /\ s \in Seq(Byte) /\ Len(s) = IF 1 <= h THEN h - 1 + 1 ELSE 0
          /\ \A j \in 1..(h - 1 + 1) : s[j] = a[1 + j - 1]
      BY <2>2, <2>3, SubSeqProperties
    <3>2. h - 1 + 1 = h /\ \A j \in 1..h : 1 + j - 1 = j
      OBVIOUS
    <3> QED
      BY <3>1, <3>2
  <2>5. Len(s) = Len(Header(m)) /\ \A j \in 1..Len(s) : s[j] = Header(m)[j]
    BY <1>3, <1>11, <2>2, <2>4
  <2> QED
    BY <1>3, <2>3, <2>4, <2>5, SeqEqual
<1>13. Number(SubSeq(a, 1, h)) = Len(Write(m))
  BY <1>12, PacketWritten
<1>14. ASSUME f <= l
       PROVE  /\ SubSeq(a, h + 1, f) = Write(m)
              /\ rest \in Rests(SubSeq(a, f + 1, l), b, Tail(packets))
  <2>1. PICK s : s = SubSeq(a, h + 1, f)
    OBVIOUS
  <2>2. PICK w \in Nat : w = Len(Write(m)) /\ f = h + w
    BY <1>3, <1>9, <1>11
  <2>3. \A j \in 1..l : a[j] \in Byte
    BY <1>6, ElementOfSeq
  <2>4. s \in Seq(Byte) /\ Len(s) = w /\ \A j \in 1..w : s[j] = a[h + j]
    <3>1. f \in 0..Len(a) /\ h \in 0..f /\ f - h = w
      BY <1>6, <1>14, <2>2
    <3>2. s = Part(a, h, f)
      BY ONLY <2>1 DEF Part
    <3>3. s \in Seq(Byte) /\ Len(s) = f - h /\ \A j \in 1..(f - h) : s[j] = a[h + j]
      BY ONLY a \in Seq(Byte), <3>1, <3>2, Cut
    <3> QED
      BY ONLY <3>1, <3>3
  <2>5. \A j \in 1..w : s[j] = Write(m)[j]
    <3>1. ASSUME NEW j \in 1..w PROVE s[j] = Write(m)[j]
      <4>1. PICK i \in 1..f : i = h + j /\ ~(i <= h) /\ i - h = j /\ i <= l
        BY <1>14, <2>2
      <4>2. all[i] = a[i] /\ all[i] = F[i]
        BY <1>8, <1>10, <4>1
      <4>3. F[i] = Write(m)[i - HeaderSize]
        BY <1>3, <1>9, <1>11, <4>1
      <4> QED
        BY <1>11, <2>4, <4>1, <4>2, <4>3
    <3> QED
      BY <3>1
  <2>6. s = Write(m)
    BY <1>3, <2>2, <2>4, <2>5, SeqEqual
  <2>7. PICK left : left = SubSeq(a, f + 1, l)
    OBVIOUS
  <2>8. PICK k \in Nat : k = l - f /\ l = f + k
    <3>1. l - f \in Nat /\ l = f + (l - f)
      BY ONLY <1>14, l \in Nat, f \in Nat
    <3> QED
      BY ONLY <3>1
  <2>9. left \in Seq(Byte) /\ Len(left) = k /\ \A j \in 1..k : left[j] = a[f + j]
    <3>1. l \in 0..Len(a) /\ f \in 0..l
      BY ONLY <1>6, <1>14, l \in Nat, f \in Nat
    <3>2. left = Part(a, f, l)
      BY ONLY <2>7 DEF Part
    <3>3. left \in Seq(Byte) /\ Len(left) = l - f /\ \A j \in 1..(l - f) : left[j] = a[f + j]
      BY ONLY a \in Seq(Byte), <3>1, <3>2, Cut
    <3> QED
      BY ONLY <2>8, <3>3
  <2>10. PICK joined : joined = left \o after
    OBVIOUS
  <2>11. /\ joined \in Seq(Byte) /\ Len(joined) = k + o
         /\ \A j \in 1..(k + o) : joined[j] = IF j <= k THEN left[j] ELSE after[j - k]
    <3>1. /\ joined \in Seq(Byte) /\ Len(joined) = Len(left) + Len(after)
          /\ \A j \in 1..(Len(left) + Len(after)) :
               joined[j] = IF j <= Len(left) THEN left[j] ELSE after[j - Len(left)]
      BY ONLY after \in Seq(Byte), <2>9, <2>10, ConcatProperties
    <3> QED
      BY ONLY <1>7, <2>9, <3>1
  <2>12. PICK cut : cut = SubSeq(all, f + 1, l + o)
    OBVIOUS
  <2>13. /\ cut \in Seq(Byte) /\ Len(cut) = k + o
         /\ \A j \in 1..(k + o) : cut[j] = all[f + j]
    <3>1. PICK e \in Nat : e = l + o /\ e - f = k + o
      <4>1. l + o \in Nat /\ l + o - f = k + o
        BY ONLY <2>8, l \in Nat, o \in Nat, f \in Nat
      <4> QED
        BY ONLY <4>1
    <3>2. e \in 0..Len(all) /\ f \in 0..e
      <4>1. Len(all) = e /\ f <= e
        BY ONLY <1>8, <1>10, <3>1
      <4> QED
        BY ONLY <4>1, e \in Nat, f \in Nat
    <3>3. cut = Part(all, f, e)
      BY ONLY <2>12, <3>1 DEF Part
    <3>4. cut \in Seq(Byte) /\ Len(cut) = e - f /\ \A j \in 1..(e - f) : cut[j] = all[f + j]
      BY ONLY all \in Seq(Byte), <3>2, <3>3, Cut
    <3> QED
      BY ONLY <3>1, <3>4
  <2>14. cut = joined
    <3>1. ASSUME NEW j \in 1..(k + o) PROVE cut[j] = joined[j]
      <4>1. /\ f + j \in 1..(l + o)
            /\ IF j <= k THEN f + j <= l /\ j \in 1..k
               ELSE ~(f + j <= l) /\ f + j - l = j - k
        BY ONLY <2>8, j \in 1..(k + o), k \in Nat, o \in Nat, f \in Nat, l \in Nat
      <4>2. /\ cut[j] = all[f + j]
            /\ joined[j] = IF j <= k THEN left[j] ELSE after[j - k]
        BY ONLY <2>11, <2>13, j \in 1..(k + o)
      <4>3. all[f + j] = IF f + j <= l THEN a[f + j] ELSE after[f + j - l]
        BY ONLY <1>8, <4>1
      <4>4. CASE j <= k
        <5>1. left[j] = a[f + j]
          BY ONLY <2>9, <4>1, <4>4
        <5> QED
          BY ONLY <4>1, <4>2, <4>3, <4>4, <5>1
      <4>5. CASE ~(j <= k)
        BY ONLY <4>1, <4>2, <4>3, <4>5
      <4> QED
        BY ONLY <4>4, <4>5
    <3>2. cut \in Seq(Byte) /\ joined \in Seq(Byte) /\ Len(cut) = Len(joined)
      BY ONLY <2>11, <2>13
    <3>3. \A j \in 1..Len(cut) : cut[j] = joined[j]
      BY ONLY <2>13, <3>1
    <3> QED
      BY ONLY <3>2, <3>3, SeqEqual
  <2>15. (left \o b) \o rest = joined
    <3>1. left \in Seq(Byte) /\ rest \in Seq(Byte)
      BY ONLY <1>1, <2>9
    <3>2. Associates(left, b, rest)
      BY ONLY b \in Seq(Byte), <3>1, JoinsAssociate
    <3> QED
      BY ONLY <1>4, <2>10, <3>2 DEF Associates
  <2>16. Carries((left \o b) \o rest, Tail(packets))
    BY ONLY <1>10, <2>12, <2>14, <2>15
  <2>17. rest \in Rests(left, b, Tail(packets))
    BY ONLY <1>1, <2>16 DEF Rests
  <2> QED
    BY ONLY <2>1, <2>6, <2>7, <2>17
<1> QED
  BY <1>2, <1>6, <1>9, <1>11, <1>12, <1>13, <1>14

-----------------------------------------------------------------------------
(* The inductive invariant.                                                *)

(* The sockets a process may hold: those that were made for it.            *)
Held(p) ==
  {Listener(p)} \cup {e \in Endpoint : Owner(e) = p /\ sock[e].handle # "none"}

SocketLists(p) == Lists(Held(p), Listener(p))

WireType == [ bytes : Seq(Byte), end : {"open", "fin", "rst"} ]

RoundType(p) ==
  [ busy : BOOLEAN, readable : SocketLists(p), writable : SocketLists(p), parsing : BOOLEAN ]

NetTypes ==
  /\ sock \in [Endpoint -> SocketType]
  /\ wire \in [Endpoint -> WireType]
  /\ DOMAIN mSockets = Process /\ \A p \in Process : mSockets[p] \in SocketLists(p)
  /\ DOMAIN round = Process /\ \A p \in Process : round[p] \in RoundType(p)
  /\ backlog \in [Process -> Seq(Conn)] /\ \A p \in Process : Len(backlog[p]) <= Backlog
  /\ stage \in [Process -> {"running", "flushing", "closing", "exited"}]
  /\ posted \in [Endpoint -> Seq(Packet)]
  /\ taken \in [Endpoint -> Seq(Packet)]

(* A process parses what it has just received from the first of the        *)
(* sockets that are left to read, within a round.                          *)
InRound ==
  \A p \in Process :
    /\ round[p].readable # <<>> => round[p].busy
    /\ round[p].parsing => round[p].readable # <<>>
    /\ round[p].readable # <<>> /\ Head(round[p].readable) = Listener(p) => backlog[p] # <<>>

(* A socket that is not there yet has no bytes and no packets.             *)
Unopened ==
  \A e \in Endpoint :
    sock[e].handle = "none"
      => sock[e].incoming = <<>> /\ sock[e].outgoing = <<>> /\ posted[e] = <<>>

Fresh ==
  \A c \in Conn :
    sock[Client(c)].handle = "none"
      => /\ sock[Server(c)].handle = "none"
         /\ wire[Client(c)].end = "open" /\ wire[Server(c)].end = "open"

(* Who has ended a connection does not write to it any more.               *)
Ended ==
  \A e \in Endpoint :
    wire[e].end # "open" => sock[e].handle = "none" \/ sock[e].disconnected

(* The connections that wait to be accepted.                               *)
Backlogged ==
  \A p \in Process : \A i \in 1..Len(backlog[p]) :
    LET c == backlog[p][i]
    IN  /\ ServerOf[c] = p
        /\ sock[Server(c)].handle = "none" /\ wire[Server(c)].end = "open"
        /\ sock[Client(c)].handle # "none"
        /\ \A j \in 1..Len(backlog[p]) : backlog[p][j] = c => j = i

(* Only the socket that is being parsed may hold a packet as a whole.      *)
Parsed ==
  \A e \in Endpoint :
    Whole(sock[e].incoming)
      => /\ round[Owner(e)].parsing
         /\ round[Owner(e)].readable # <<>> /\ Head(round[Owner(e)].readable) = e

CanWrite(e) ==
  sock[e].handle # "none" /\ ~sock[e].disconnected /\ wire[Peer(e)].end = "open"

(* What is left of a list behind its first n elements.                     *)
Beyond(list, n) == SubSeq(list, n + 1, Len(list))

Remaining(e) == Beyond(posted[e], Len(taken[e]))

Following(e) == Rests(sock[Peer(e)].incoming, wire[e].bytes, Remaining(e))

(* What is received at the peer, what is on the wire, and something more   *)
(* carry the packets that are still to be handed over.  As long as the     *)
(* socket can write, it is what the socket has yet to send.                *)
Stream(e) ==
  /\ Len(taken[e]) <= Len(posted[e])
  /\ Following(e) # {}
  /\ CanWrite(e) => sock[e].outgoing \in Following(e)

StreamsHold == \A e \in Endpoint : Stream(e)

NetInv ==
  NetTypes /\ InRound /\ Unopened /\ Fresh /\ Ended /\ Backlogged /\ Parsed /\ StreamsHold

-----------------------------------------------------------------------------
(* Endpoints, sockets and lists.                                           *)

(* Who is at which end of which connection.                                *)
LEMMA EndpointFacts ==
  /\ \A e \in Endpoint :
       /\ Peer(e) \in Endpoint /\ Peer(Peer(e)) = e /\ Peer(e) # e
       /\ Owner(e) \in Process /\ ~IsListening(e)
       /\ \A p : e # Listener(p)
       /\ \E c \in Conn : e = Client(c) \/ e = Server(c)
  /\ \A c \in Conn :
       /\ Client(c) \in Endpoint /\ Server(c) \in Endpoint
       /\ Peer(Client(c)) = Server(c) /\ Peer(Server(c)) = Client(c)
       /\ Owner(Client(c)) = ClientOf[c] /\ Owner(Server(c)) = ServerOf[c]
       /\ \A d \in Conn : /\ Client(c) # Server(d)
                          /\ Client(c) = Client(d) => c = d
                          /\ Server(c) = Server(d) => c = d
  /\ \A p : IsListening(Listener(p))
<1>1. \A c \in Conn : ClientOf[c] \in Process /\ ServerOf[c] \in Process
  BY ConnAssumption
<1>2. \A e \in Endpoint : \E c \in Conn : e = Client(c) \/ e = Server(c)
  BY DEF Endpoint, Client, Server
<1>3. \A c \in Conn :
        /\ Client(c) \in Endpoint /\ Server(c) \in Endpoint
        /\ Peer(Client(c)) = Server(c) /\ Peer(Server(c)) = Client(c)
        /\ Owner(Client(c)) = ClientOf[c] /\ Owner(Server(c)) = ServerOf[c]
        /\ ~IsListening(Client(c)) /\ ~IsListening(Server(c))
        /\ \A p : Client(c) # Listener(p) /\ Server(c) # Listener(p)
        /\ \A d \in Conn : /\ Client(c) # Server(d)
                           /\ Client(c) = Client(d) => c = d
                           /\ Server(c) = Server(d) => c = d
  BY DEF Endpoint, Client, Server, Peer, Owner, IsListening, Listener
<1>4. \A p : IsListening(Listener(p))
  BY DEF IsListening, Listener
<1> QED
  BY <1>1, <1>2, <1>3, <1>4

(* What the operations of a socket do to it.                               *)
LEMMA NewSocketFacts ==
  /\ NoSocket \in SocketType /\ NewSocket \in SocketType
  /\ NoSocket.handle = "none" /\ NoSocket.incoming = <<>> /\ NoSocket.outgoing = <<>>
  /\ NewSocket.handle = "open" /\ NewSocket.incoming = <<>> /\ NewSocket.outgoing = <<>>
  /\ ~NoSocket.disconnected /\ ~NewSocket.disconnected
BY EmptySeq DEF NoSocket, NewSocket, Socket, SocketType

(* A packet that is sent is behind the outgoing bytes.                     *)
LEMMA SendPacketFacts ==
  ASSUME NEW s \in SocketType, NEW m \in Packet, NEW t, t = SendPacket(s, m)
  PROVE  /\ t \in SocketType /\ t.handle = s.handle /\ t.disconnected = s.disconnected
         /\ t.toDisconnect = s.toDisconnect /\ t.incoming = s.incoming
         /\ t.outgoing = s.outgoing \o Frame(m)
<1>1. s.outgoing \o Frame(m) \in Seq(Byte)
  BY FrameParts, ConcatProperties DEF SocketType
<1> HIDE DEF Frame
<1> QED
  BY <1>1 DEF SendPacket, SocketType

(* A socket that is to be disconnected keeps its bytes.                    *)
LEMMA DisconnectFacts ==
  ASSUME NEW s \in SocketType, NEW t, t = Disconnect(s)
  PROVE  /\ t \in SocketType /\ t.handle = s.handle /\ t.disconnected = s.disconnected
         /\ t.incoming = s.incoming /\ t.outgoing = s.outgoing
BY DEF Disconnect, SocketType

(* A socket that is closed keeps its bytes, too, and is disconnected.      *)
LEMMA CloseSocketFacts ==
  ASSUME NEW s \in SocketType, NEW t, t = CloseSocket(s)
  PROVE  /\ t \in SocketType /\ t.incoming = s.incoming /\ t.outgoing = s.outgoing
         /\ t.disconnected
         /\ s.handle # "none" => t.handle # "none"
BY DEF CloseSocket, SocketType

(* A packet that is received takes its bytes from the incoming ones.       *)
LEMMA AfterReceiveFacts ==
  ASSUME NEW s \in SocketType, NEW n \in Nat, PacketSize(s) = n,
         HeaderSize + n <= Len(s.incoming), NEW t, t = AfterReceivePacket(s)
  PROVE  /\ t \in SocketType /\ t.handle = s.handle /\ t.disconnected = s.disconnected
         /\ t.toDisconnect = s.toDisconnect /\ t.outgoing = s.outgoing
         /\ t.incoming = SubSeq(s.incoming, HeaderSize + n + 1, Len(s.incoming))
<1>1. s.incoming \in Seq(Byte)
  BY DEF SocketType
<1>2. SubSeq(s.incoming, HeaderSize + n + 1, Len(s.incoming)) \in Seq(Byte)
  <2>1. PICK k \in Nat : k = HeaderSize + n
    BY FramingAssumption
  <2>2. PICK all \in Seq(Byte) : all = s.incoming
    BY <1>1
  <2>3. PICK l \in Nat : l = Len(all)
    OBVIOUS
  <2>4. l \in 0..Len(all) /\ k \in 0..l
    BY <2>1, <2>2, <2>3
  <2>5. Part(all, k, l) \in Seq(Byte)
    BY ONLY all \in Seq(Byte), <2>4, Cut
  <2> QED
    BY ONLY <2>1, <2>2, <2>3, <2>5 DEF Part
<1> QED
  BY <1>2 DEF AfterReceivePacket, SocketType

(* A list that loses its head, or gets one more socket.                    *)
LEMMA ListsMove ==
  ASSUME NEW T, NEW L, NEW list \in Lists(T, L)
  PROVE  /\ \A U : T \subseteq U => list \in Lists(U, L)
         /\ \A s \in T : s # L => Append(list, s) \in Lists(T, L)
         /\ list # <<>> => /\ Head(list) \in T
                           /\ Tail(list) \in Lists(T, L)
                           /\ Tail(list) # <<>> => Head(Tail(list)) # L
<1>1. list \in Seq(T) /\ \A i \in 2..Len(list) : list[i] # L
  BY DEF Lists
<1>2. ASSUME NEW U, T \subseteq U PROVE list \in Lists(U, L)
  BY <1>1, <1>2, SeqMonotonic DEF Lists
<1>3. ASSUME NEW s \in T, s # L PROVE Append(list, s) \in Lists(T, L)
  <2>1. PICK n \in Nat : n = Len(list)
    BY <1>1
  <2>2. PICK more : more = Append(list, s)
    OBVIOUS
  <2>3. /\ more \in Seq(T) /\ Len(more) = n + 1 /\ more[n + 1] = s
        /\ \A i \in 1..n : more[i] = list[i]
    BY <1>1, <2>1, <2>2, AppendProperties
  <2>4. ASSUME NEW i \in 2..(n + 1) PROVE more[i] # L
    <3>1. CASE i = n + 1
      BY <1>3, <2>3, <3>1
    <3>2. CASE i # n + 1
      <4>1. i \in 2..n /\ i \in 1..n
        BY <3>2
      <4> QED
        BY <1>1, <2>1, <2>3, <4>1
    <3> QED
      BY <3>1, <3>2
  <2> QED
    BY <2>2, <2>3, <2>4 DEF Lists
<1>4. ASSUME list # <<>>
      PROVE  /\ Head(list) \in T /\ Tail(list) \in Lists(T, L)
             /\ Tail(list) # <<>> => Head(Tail(list)) # L
  <2>1. PICK n \in Nat : n = Len(list) /\ n # 0
    BY <1>1, <1>4, EmptySeq
  <2>2. PICK tail : tail = Tail(list)
    OBVIOUS
  <2>3. /\ Head(list) \in T /\ tail \in Seq(T) /\ Len(tail) = n - 1
        /\ \A i \in 1..(n - 1) : tail[i] = list[i + 1]
    BY <1>1, <1>4, <2>1, <2>2, HeadTailProperties
  <2>4. ASSUME NEW i \in 1..(n - 1) PROVE tail[i] # L
    <3>1. i + 1 \in 2..n
      OBVIOUS
    <3> QED
      BY <1>1, <2>1, <2>3, <3>1
  <2>5. tail \in Lists(T, L)
    <3>1. \A i \in 2..Len(tail) : tail[i] # L
      BY <2>3, <2>4
    <3> QED
      BY <2>3, <3>1 DEF Lists
  <2>6. tail # <<>> => Head(tail) # L
    <3>1. ASSUME tail # <<>> PROVE Head(tail) # L
      <4>1. Len(tail) # 0
        BY <2>3, <3>1, EmptySeq
      <4>2. 1 \in 1..(n - 1)
        BY <2>3, <4>1
      <4>3. Head(tail) = tail[1]
        BY <2>3, <3>1
      <4> QED
        BY <2>4, <4>2, <4>3
    <3> QED
      BY <3>1
  <2> QED
    BY <2>2, <2>3, <2>5, <2>6
<1> QED
  BY <1>2, <1>3, <1>4

(* The members of a list.                                                  *)
LEMMA ListMembers ==
  ASSUME NEW T, NEW list \in Seq(T)
  PROVE  \A s \in Range(list) : s \in T
<1> QED
  BY ElementOfSeq, LenProperties DEF Range

(* A connection that waits to be accepted.                                 *)
LEMMA Waiting ==
  ASSUME NetTypes, Backlogged, NEW r \in Process, NEW i \in 1..Len(backlog[r]),
         NEW d, d = backlog[r][i]
  PROVE  /\ d \in Conn /\ Client(d) \in Endpoint /\ Server(d) \in Endpoint
         /\ ServerOf[d] = r
         /\ sock[Server(d)].handle = "none" /\ wire[Server(d)].end = "open"
         /\ sock[Client(d)].handle # "none"
         /\ \A j \in 1..Len(backlog[r]) : backlog[r][j] = d => j = i
<1>1. backlog[r] \in Seq(Conn)
  BY DEF NetTypes
<1>2. d \in Conn
  BY <1>1, ElementOfSeq
<1>3. Client(d) \in Endpoint /\ Server(d) \in Endpoint
  BY ONLY <1>2, EndpointFacts
<1>4. /\ ServerOf[d] = r
      /\ sock[Server(d)].handle = "none" /\ wire[Server(d)].end = "open"
      /\ sock[Client(d)].handle # "none"
      /\ \A j \in 1..Len(backlog[r]) : backlog[r][j] = d => j = i
  BY DEF Backlogged
<1> QED
  BY ONLY <1>2, <1>3, <1>4

(* The bytes on the wire are read, or lost.                                *)
LEMMA WireEmptied ==
  ASSUME wire \in [Endpoint -> WireType], NEW f \in Endpoint,
         wire' = [wire EXCEPT ![f].bytes = <<>>]
  PROVE  /\ wire' \in [Endpoint -> WireType]
         /\ \A g \in Endpoint : g # f => wire'[g] = wire[g]
         /\ wire'[f].bytes = <<>> /\ \A g \in Endpoint : wire'[g].end = wire[g].end
<1>1. PICK w : w = [wire[f] EXCEPT !.bytes = <<>>]
  OBVIOUS
<1>2. wire' = [wire EXCEPT ![f] = w]
  BY <1>1
<1>3. w \in WireType /\ w.bytes = <<>> /\ w.end = wire[f].end
  BY <1>1, EmptySeq DEF WireType
<1>4. wire' \in [Endpoint -> WireType] /\ wire'[f] = w
  BY <1>2, <1>3
<1>5. \A g \in Endpoint : g # f => wire'[g] = wire[g]
  BY <1>2
<1> QED
  BY <1>3, <1>4, <1>5

-----------------------------------------------------------------------------
(* Streams that stay as they are, and steps that leave all of them so.     *)

(* What is left of a list when its end grows, and when its front is taken. *)
LEMMA Leftover ==
  ASSUME NEW P, NEW s \in Seq(P), NEW n \in 0..Len(s)
  PROVE  /\ Beyond(s, n) \in Seq(P)
         /\ \A m \in P : Beyond(Append(s, m), n) = Append(Beyond(s, n), m)
         /\ n < Len(s) => Beyond(s, n) # <<>>
         /\ Beyond(s, n) # <<>> => /\ n < Len(s) /\ Beyond(s, n)[1] = s[n + 1]
                                  /\ Beyond(s, n + 1) = Tail(Beyond(s, n))
<1>0. PICK r : r = SubSeq(s, n + 1, Len(s))
  OBVIOUS
<1>1. PICK l \in Nat : l = Len(s)
  OBVIOUS
<1>2. r \in Seq(P) /\ Len(r) = l - n /\ \A j \in 1..(l - n) : r[j] = s[n + j]
  <2>1. l \in 0..Len(s) /\ n \in 0..l
    BY <1>1
  <2>2. r = Part(s, n, l)
    BY <1>0, <1>1 DEF Part
  <2> QED
    BY ONLY s \in Seq(P), <2>1, <2>2, Cut
<1>3. ASSUME NEW m \in P PROVE SubSeq(Append(s, m), n + 1, Len(Append(s, m))) = Append(r, m)
  <2>1. PICK more : more = Append(s, m)
    OBVIOUS
  <2>2. /\ more \in Seq(P) /\ Len(more) = l + 1 /\ more[l + 1] = m
        /\ \A j \in 1..l : more[j] = s[j]
    BY <1>1, <2>1, AppendProperties
  <2>3. PICK cut : cut = SubSeq(more, n + 1, l + 1)
    OBVIOUS
  <2>4. cut \in Seq(P) /\ Len(cut) = l + 1 - n /\ \A j \in 1..(l + 1 - n) : cut[j] = more[n + j]
    <3>1. PICK e \in Nat : e = l + 1
      OBVIOUS
    <3>2. e \in 0..Len(more) /\ n \in 0..e
      BY <1>1, <2>2, <3>1
    <3>3. more \in Seq(P) /\ cut = Part(more, n, e)
      BY ONLY <2>2, <2>3, <3>1 DEF Part
    <3>4. cut \in Seq(P) /\ Len(cut) = e - n /\ \A j \in 1..(e - n) : cut[j] = more[n + j]
      BY ONLY <3>2, <3>3, Cut
    <3> QED
      BY ONLY <3>1, <3>4
  <2>5. PICK grown : grown = Append(r, m)
    OBVIOUS
  <2>6. PICK k \in Nat : k = Len(r) /\ k = l - n /\ l = n + k
    <3>1. n \in 0..l
      BY <1>1
    <3>2. PICK k \in Nat : k = l - n /\ l = n + k
      BY <3>1
    <3> QED
      BY ONLY <1>2, <3>2, k \in Nat
  <2>7. /\ grown \in Seq(P) /\ Len(grown) = k + 1 /\ grown[k + 1] = m
        /\ \A j \in 1..k : grown[j] = r[j]
    <3>1. /\ grown \in Seq(P) /\ Len(grown) = Len(r) + 1 /\ grown[Len(r) + 1] = m
          /\ \A j \in 1..Len(r) : grown[j] = r[j]
      BY ONLY m \in P, <1>2, <2>5, AppendProperties
    <3> QED
      BY ONLY <2>6, <3>1
  <2>8. ASSUME NEW j \in 1..(k + 1) PROVE cut[j] = grown[j]
    <3>0. n \in Nat
      BY <1>1
    <3>1. l = n + k /\ j \in 1..(l + 1 - n) /\ cut[j] = more[n + j]
      BY ONLY <2>4, <2>6, <3>0, l \in Nat, k \in Nat, j \in 1..(k + 1)
    <3>2. CASE j = k + 1
      <4>1. n + j = l + 1
        BY <1>1, <3>1, <3>2
      <4> QED
        BY <2>2, <2>7, <3>1, <3>2, <4>1
    <3>3. CASE j # k + 1
      <4>1. j \in 1..k /\ j \in 1..(l - n) /\ n + j \in 1..l
        BY <1>1, <3>1, <3>3
      <4> QED
        BY <1>2, <2>2, <2>7, <3>1, <4>1
    <3> QED
      BY <3>2, <3>3
  <2>9. Len(cut) = k + 1 /\ Len(grown) = k + 1
    <3>1. n \in Nat
      BY <1>1
    <3> QED
      BY ONLY <2>4, <2>6, <2>7, <3>1, l \in Nat, k \in Nat
  <2>10. cut = grown
    BY <2>4, <2>7, <2>8, <2>9, SeqEqual
  <2> QED
    BY <2>1, <2>2, <2>3, <2>5, <2>10
<1>4. n < Len(s) => r # <<>>
  <2>1. n < l => Len(r) # 0
    <3>1. n \in 0..l
      BY <1>1
    <3> QED
      BY ONLY <1>2, <3>1, l \in Nat
  <2> QED
    BY <1>1, <2>1, EmptySeq
<1>5. ASSUME r # <<>>
      PROVE  n < Len(s) /\ r[1] = s[n + 1] /\ SubSeq(s, n + 1 + 1, Len(s)) = Tail(r)
  <2>1. n < l
    <3>1. Len(r) \in Nat \ {0}
      BY <1>2, <1>5, EmptySeq
    <3> QED
      BY <1>1, <1>2, <3>1
  <2>2. PICK cut : cut = SubSeq(s, n + 1 + 1, l)
    OBVIOUS
  <2>3. /\ cut \in Seq(P) /\ Len(cut) = l - (n + 1)
        /\ \A j \in 1..(l - (n + 1)) : cut[j] = s[n + 1 + j]
    <3>1. PICK f \in Nat : f = n + 1
      BY <1>1
    <3>2. l \in 0..Len(s) /\ f \in 0..l
      BY <1>1, <2>1, <3>1
    <3>3. cut = Part(s, f, l)
      BY ONLY <2>2, <3>1 DEF Part
    <3>4. cut \in Seq(P) /\ Len(cut) = l - f /\ \A j \in 1..(l - f) : cut[j] = s[f + j]
      BY ONLY s \in Seq(P), <3>2, <3>3, Cut
    <3> QED
      BY ONLY <3>1, <3>4
  <2>4. PICK tail : tail = Tail(r)
    OBVIOUS
  <2>5. tail \in Seq(P) /\ Len(tail) = l - n - 1 /\ \A j \in 1..(l - n - 1) : tail[j] = r[j + 1]
    BY <1>2, <1>5, <2>4, HeadTailProperties
  <2>6. l - n - 1 = l - (n + 1)
    BY <1>1
  <2>7. ASSUME NEW j \in 1..(l - (n + 1)) PROVE cut[j] = tail[j]
    <3>1. j + 1 \in 1..(l - n) /\ j \in 1..(l - n - 1) /\ n + 1 + j = n + (j + 1)
      BY <1>1
    <3>2. cut[j] = s[n + 1 + j] /\ tail[j] = r[j + 1] /\ r[j + 1] = s[n + (j + 1)]
      BY <1>2, <2>3, <2>5, <3>1
    <3> QED
      BY <3>1, <3>2
  <2>8. cut = tail
    BY <2>3, <2>5, <2>6, <2>7, SeqEqual
  <2>9. r[1] = s[n + 1]
    <3>1. 1 \in 1..(l - n)
      BY <1>1, <2>1
    <3> QED
      BY <1>2, <3>1
  <2> QED
    BY <1>1, <2>1, <2>2, <2>4, <2>8, <2>9
<1>6. Beyond(s, n) = r
  BY <1>0 DEF Beyond
<1>7. \A m \in P : Beyond(Append(s, m), n) = SubSeq(Append(s, m), n + 1, Len(Append(s, m)))
  BY DEF Beyond
<1>8. Beyond(s, n + 1) = SubSeq(s, n + 1 + 1, Len(s))
  BY DEF Beyond
<1> QED
  BY ONLY <1>2, <1>3, <1>4, <1>5, <1>6, <1>7, <1>8

(* What is left to hand over is a sequence of packets.                     *)
LEMMA RemainingType ==
  ASSUME NetTypes, NEW e \in Endpoint, Len(taken[e]) <= Len(posted[e])
  PROVE  /\ posted[e] \in Seq(Packet) /\ taken[e] \in Seq(Packet)
         /\ Len(taken[e]) \in 0..Len(posted[e])
         /\ Remaining(e) \in Seq(Packet)
<1>1. posted[e] \in Seq(Packet) /\ taken[e] \in Seq(Packet)
  BY DEF NetTypes
<1>2. Len(taken[e]) \in 0..Len(posted[e])
  BY <1>1, LenProperties
<1>3. Remaining(e) \in Seq(Packet)
  BY <1>1, <1>2, Leftover DEF Remaining
<1> QED
  BY <1>1, <1>2, <1>3

(* The fields of one socket and of one direction of a connection.          *)
LEMMA StreamTypes ==
  ASSUME NetTypes, NEW e \in Endpoint
  PROVE  /\ sock[e] \in SocketType
         /\ sock[e].incoming \in Seq(Byte) /\ sock[e].outgoing \in Seq(Byte)
         /\ wire[e].bytes \in Seq(Byte) /\ wire[e].end \in {"open", "fin", "rst"}
         /\ sock[e].disconnected \in BOOLEAN /\ sock[e].toDisconnect \in BOOLEAN
         /\ sock[e].handle \in {"none", "open", "closed"}
BY DEF NetTypes, SocketType, WireType

(* A stream whose ends keep their bytes, or lose those on the wire when it *)
(* can not be written any more.                                            *)
LEMMA StreamStays ==
  ASSUME NetTypes, NEW e \in Endpoint, Stream(e),
         sock'[Peer(e)].incoming = sock[Peer(e)].incoming,
         posted'[e] = posted[e], taken'[e] = taken[e],
         \/ /\ wire'[e].bytes = wire[e].bytes
            /\ CanWrite(e)' => CanWrite(e) /\ sock'[e].outgoing = sock[e].outgoing
         \/ wire'[e].bytes = <<>> /\ ~CanWrite(e)'
  PROVE  Stream(e)'
<1>1. Remaining(e)' = Remaining(e)
  BY DEF Remaining
<1>2. CASE /\ wire'[e].bytes = wire[e].bytes
           /\ CanWrite(e)' => CanWrite(e) /\ sock'[e].outgoing = sock[e].outgoing
  <2>1. Following(e)' = Following(e)
    BY <1>1, <1>2 DEF Following
  <2> QED
    BY <1>2, <2>1 DEF Stream
<1>3. CASE wire'[e].bytes = <<>> /\ ~CanWrite(e)'
  <2>1. Following(e)' = Rests(sock[Peer(e)].incoming, <<>>, Remaining(e))
    BY <1>1, <1>3 DEF Following
  <2>2. sock[Peer(e)].incoming \in Seq(Byte) /\ wire[e].bytes \in Seq(Byte)
    BY EndpointFacts, StreamTypes
  <2>3. Following(e)' # {}
    BY <2>1, <2>2, RestsLost DEF Stream, Following
  <2> QED
    BY <1>3, <2>3 DEF Stream
<1> QED
  BY <1>2, <1>3

(* What an endpoint has to send stays, and so do the bytes on the wire,    *)
(* unless they are lost.                                                   *)
Calm(e) ==
  /\ sock'[e].outgoing = sock[e].outgoing \/ ~CanWrite(e)'
  /\ wire'[e].bytes = wire[e].bytes \/ (wire'[e].bytes = <<>> /\ ~CanWrite(e)')

(* A step that hands over and posts nothing, receives nothing, opens no    *)
(* socket, and takes no connection from a backlog but all of them.         *)
Quiet ==
  /\ sock' \in [Endpoint -> SocketType] /\ wire' \in [Endpoint -> WireType]
  /\ posted' = posted /\ taken' = taken
  /\ \A p \in Process : backlog'[p] \in {backlog[p], <<>>}
  /\ \A e \in Endpoint :
       /\ sock'[e].incoming = sock[e].incoming
       /\ sock'[e].handle = "none" <=> sock[e].handle = "none"
       /\ sock[e].disconnected => sock'[e].disconnected
       /\ sock'[e].outgoing = sock[e].outgoing \/ sock[e].handle # "none"
       /\ Calm(e) \/ Stream(e)'
       /\ wire[e].end # "open" => wire'[e].end # "open"
       /\ wire'[e].end # "open" /\ wire[e].end = "open"
            => \/ sock[e].handle # "none" /\ sock'[e].disconnected
               \/ \E p \in Process : \E c \in Range(backlog[p]) :
                    e = Server(c) /\ backlog'[p] = <<>>

(* A quiet step keeps what the invariant says of sockets and streams.      *)
LEMMA QuietStep ==
  ASSUME NetInv, Quiet
  PROVE  Unopened' /\ Fresh' /\ Ended' /\ Backlogged' /\ StreamsHold'
<1>0. \A p \in Process : \A c \in Range(backlog[p]) :
        \E i \in 1..Len(backlog[p]) : c = backlog[p][i] /\ c \in Conn
  BY ElementOfSeq, LenProperties DEF NetInv, NetTypes, Range
<1>1. Unopened'
  BY DEF Quiet, NetInv, Unopened
<1>2. ASSUME NEW e \in Endpoint, wire'[e].end # "open", wire[e].end = "open"
      PROVE  \/ sock[e].handle # "none" /\ sock'[e].disconnected
             \/ \E p \in Process : \E i \in 1..Len(backlog[p]) :
                  /\ backlog[p][i] \in Conn /\ e = Server(backlog[p][i])
                  /\ backlog'[p] = <<>>
  <2>1. \/ sock[e].handle # "none" /\ sock'[e].disconnected
        \/ \E p \in Process : \E c \in Range(backlog[p]) :
             e = Server(c) /\ backlog'[p] = <<>>
    BY <1>2 DEF Quiet
  <2>2. ASSUME NEW p \in Process, NEW c \in Range(backlog[p]), e = Server(c), backlog'[p] = <<>>
        PROVE  \E i \in 1..Len(backlog[p]) :
                 backlog[p][i] \in Conn /\ e = Server(backlog[p][i])
    BY <1>0, <2>2
  <2> QED
    BY <2>1, <2>2
<1>3. ASSUME NEW e \in Endpoint, wire'[e].end # "open", wire[e].end = "open",
             sock[e].handle = "none"
      PROVE  \E p \in Process : \E i \in 1..Len(backlog[p]) :
               /\ backlog[p][i] \in Conn /\ e = Server(backlog[p][i])
               /\ backlog'[p] = <<>> /\ ServerOf[backlog[p][i]] = p
               /\ sock[Client(backlog[p][i])].handle # "none"
               /\ sock[Server(backlog[p][i])].handle = "none"
  BY <1>2, <1>3 DEF NetInv, Backlogged
<1>4. Ended'
  <2>1. ASSUME NEW e \in Endpoint, wire'[e].end # "open"
        PROVE  sock'[e].handle = "none" \/ sock'[e].disconnected
    <3>1. CASE wire[e].end # "open"
      BY <3>1 DEF Quiet, NetInv, Ended
    <3>2. CASE wire[e].end = "open" /\ sock[e].handle = "none"
      BY <3>2 DEF Quiet
    <3>3. CASE wire[e].end = "open" /\ sock[e].handle # "none"
      <4>1. PICK t : t = sock'[e].disconnected
        OBVIOUS
      <4>2. \/ t
            \/ \E p \in Process : \E i \in 1..Len(backlog[p]) :
                 backlog[p][i] \in Conn /\ e = Server(backlog[p][i])
        BY <1>2, <2>1, <3>3, <4>1
      <4>3. ~ \E p \in Process : \E i \in 1..Len(backlog[p]) :
                backlog[p][i] \in Conn /\ e = Server(backlog[p][i])
        BY <3>3 DEF NetInv, Backlogged
      <4> QED
        BY <4>1, <4>2, <4>3
    <3> QED
      BY <3>1, <3>2, <3>3
  <2> QED
    BY <2>1 DEF Ended
<1>5. Fresh'
  <2>1. ASSUME NEW c \in Conn, sock'[Client(c)].handle = "none"
        PROVE  /\ sock'[Server(c)].handle = "none"
               /\ wire'[Client(c)].end = "open" /\ wire'[Server(c)].end = "open"
    <3>1. Client(c) \in Endpoint /\ Server(c) \in Endpoint
      BY EndpointFacts
    <3>2. /\ sock[Client(c)].handle = "none" /\ sock[Server(c)].handle = "none"
          /\ wire[Client(c)].end = "open" /\ wire[Server(c)].end = "open"
      BY <2>1, <3>1 DEF Quiet, NetInv, Fresh
    <3>3. wire'[Client(c)].end = "open"
      BY <1>3, <3>1, <3>2, EndpointFacts
    <3>4. wire'[Server(c)].end = "open"
      BY <1>3, <3>1, <3>2, EndpointFacts
    <3> QED
      BY <3>1, <3>2, <3>3, <3>4 DEF Quiet
  <2> QED
    BY <2>1 DEF Fresh
<1>6. Backlogged'
  <2>1. ASSUME NEW p \in Process, NEW i \in 1..Len(backlog'[p]), NEW c, c = backlog'[p][i]
        PROVE  /\ ServerOf[c] = p
               /\ sock'[Server(c)].handle = "none" /\ wire'[Server(c)].end = "open"
               /\ sock'[Client(c)].handle # "none"
               /\ \A j \in 1..Len(backlog'[p]) : backlog'[p][j] = c => j = i
    <3>1. backlog'[p] = backlog[p] /\ backlog'[p] # <<>>
      BY <2>1, EmptySeq DEF Quiet
    <3>2. /\ c \in Conn /\ ServerOf[c] = p
          /\ sock[Server(c)].handle = "none" /\ wire[Server(c)].end = "open"
          /\ sock[Client(c)].handle # "none"
          /\ \A j \in 1..Len(backlog[p]) : backlog[p][j] = c => j = i
      <4>1. NetTypes /\ Backlogged
        BY DEF NetInv
      <4> QED
        BY ONLY <2>1, <3>1, <4>1, p \in Process, i \in 1..Len(backlog'[p]), Waiting
    <3>3. Client(c) \in Endpoint /\ Server(c) \in Endpoint
      BY <3>2, EndpointFacts
    <3>4. wire'[Server(c)].end = "open"
      BY <1>3, <3>1, <3>2, <3>3, EndpointFacts
    <3> QED
      BY <3>1, <3>2, <3>3, <3>4 DEF Quiet
  <2> QED
    BY <2>1 DEF Backlogged
<1>7. ASSUME NEW e \in Endpoint PROVE Stream(e)'
  <2>1. Peer(e) \in Endpoint
    BY EndpointFacts
  <2>2. Stream(e) /\ NetTypes
    BY DEF NetInv, StreamsHold
  <2>3. CanWrite(e)' => CanWrite(e)
    BY <2>1 DEF Quiet, CanWrite
  <2>4. /\ sock'[Peer(e)].incoming = sock[Peer(e)].incoming
        /\ posted'[e] = posted[e] /\ taken'[e] = taken[e]
    BY <2>1 DEF Quiet
  <2>5. CASE Calm(e)
    BY <2>2, <2>3, <2>4, <2>5, StreamStays DEF Calm
  <2>6. CASE Stream(e)'
    BY <2>6
  <2> QED
    BY <2>5, <2>6 DEF Quiet
<1> QED
  BY <1>1, <1>4, <1>5, <1>6, <1>7 DEF StreamsHold

-----------------------------------------------------------------------------
(* Rounds.                                                                 *)

HandlesStay == \A e \in Endpoint : sock'[e].handle = "none" => sock[e].handle = "none"

(* A socket that was made for a process stays one that it may hold.        *)
LEMMA ListsStay ==
  ASSUME HandlesStay, NEW p
  PROVE  /\ Held(p) \subseteq Held(p)'
         /\ SocketLists(p) \subseteq SocketLists(p)'
<1>1. Held(p) \subseteq Held(p)'
  BY DEF HandlesStay, Held
<1> QED
  BY <1>1, ListsMove DEF SocketLists

(* The sockets a round is about were made for the process.                 *)
LEMMA InHeld ==
  ASSUME NetTypes, NEW p \in Process
  PROVE  /\ \A s \in Range(mSockets[p]) : s \in Held(p)
         /\ round[p].readable # <<>> => Head(round[p].readable) \in Held(p)
         /\ round[p].writable # <<>> => Head(round[p].writable) \in Held(p)
         /\ \A s \in Held(p) : s \in Endpoint => Owner(s) = p /\ sock[s].handle # "none"
<1>1. mSockets[p] \in Seq(Held(p))
  BY DEF NetTypes, SocketLists, Lists
<1>2. round[p].readable \in SocketLists(p) /\ round[p].writable \in SocketLists(p)
  BY DEF NetTypes, RoundType
<1>3. \A s \in Held(p) : s \in Endpoint => Owner(s) = p /\ sock[s].handle # "none"
  BY EndpointFacts DEF Held
<1> QED
  BY <1>1, <1>2, <1>3, ListMembers, ListsMove DEF SocketLists

(* The fields of a round.                                                  *)
LEMMA RoundFields ==
  ASSUME NetTypes, NEW p \in Process
  PROVE  /\ round[p].readable \in SocketLists(p) /\ round[p].writable \in SocketLists(p)
         /\ round[p].busy \in BOOLEAN /\ round[p].parsing \in BOOLEAN
BY DEF NetTypes, RoundType

(* The types after a step, when sockets, connections, lists, rounds and    *)
(* backlogs are each as they may be.                                       *)
LEMMA TypesAfter ==
  ASSUME NetTypes, HandlesStay,
         sock' \in [Endpoint -> SocketType], wire' \in [Endpoint -> WireType],
         DOMAIN mSockets' = Process /\ \A p \in Process : mSockets'[p] \in SocketLists(p)',
         DOMAIN round' = Process /\ \A p \in Process : round'[p] \in RoundType(p)',
         backlog' \in [Process -> Seq(Conn)] /\ \A p \in Process : Len(backlog'[p]) <= Backlog,
         stage' \in [Process -> {"running", "flushing", "closing", "exited"}],
         posted' \in [Endpoint -> Seq(Packet)], taken' \in [Endpoint -> Seq(Packet)]
  PROVE  NetTypes'
BY DEF NetTypes

(* Lists and rounds keep their types as sockets come and go.               *)
LEMMA RoundsStay ==
  ASSUME NetTypes, HandlesStay
  PROVE  /\ mSockets' = mSockets
              => DOMAIN mSockets' = Process /\ \A p \in Process : mSockets'[p] \in SocketLists(p)'
         /\ \A p \in Process : round[p] \in RoundType(p)'
         /\ \A p \in Process : mSockets[p] \in SocketLists(p)'
<1>1. ASSUME NEW p \in Process PROVE RoundType(p) \subseteq RoundType(p)'
  <2>1. SocketLists(p) \subseteq SocketLists(p)'
    BY ListsStay
  <2> QED
    BY <2>1 DEF RoundType
<1>2. \A p \in Process : round[p] \in RoundType(p) /\ mSockets[p] \in SocketLists(p)
  BY DEF NetTypes
<1>3. \A p \in Process : mSockets[p] \in SocketLists(p)'
  BY <1>2, ListsStay
<1>4. DOMAIN mSockets = Process
  BY DEF NetTypes
<1>5. \A p \in Process : round[p] \in RoundType(p)'
  BY <1>1, <1>2
<1> QED
  BY <1>3, <1>4, <1>5

(* The next socket is read.                                                *)
LEMMA ReadsOn ==
  ASSUME NetTypes, InRound, HandlesStay, NEW p \in Process, round[p].readable # <<>>,
         round' = NextReadable(p),
         \A q \in Process : q # p => backlog'[q] = backlog[q]
  PROVE  /\ DOMAIN round' = Process /\ \A q \in Process : round'[q] \in RoundType(q)'
         /\ \A q \in Process : q # p => round'[q] = round[q]
         /\ InRound'
<1>1. DOMAIN round = Process /\ round[p] \in RoundType(p)
  BY DEF NetTypes
<1>2. PICK r : r = [round[p] EXCEPT !.readable = Tail(@), !.parsing = FALSE]
  OBVIOUS
<1>3. round' = [round EXCEPT ![p] = r]
  BY <1>1, <1>2 DEF NextReadable, RoundType
<1>4. /\ r.readable = Tail(round[p].readable) /\ ~r.parsing /\ r.busy = round[p].busy
      /\ r.readable # <<>> => Head(r.readable) # Listener(p)
      /\ r \in RoundType(p)
  <2>1. /\ Tail(round[p].readable) \in SocketLists(p)
        /\ Tail(round[p].readable) # <<>> => Head(Tail(round[p].readable)) # Listener(p)
    BY RoundFields, ListsMove DEF SocketLists
  <2> QED
    BY <1>1, <1>2, <2>1 DEF RoundType
<1>5. r \in RoundType(p)'
  <2>1. SocketLists(p) \subseteq SocketLists(p)'
    BY ListsStay
  <2> QED
    BY <1>4, <2>1 DEF RoundType
<1>6. DOMAIN round' = Process /\ round'[p] = r
  BY <1>1, <1>3
<1>7. \A q \in Process : q # p => round'[q] = round[q]
  BY <1>1, <1>3
<1>8. ASSUME NEW q \in Process PROVE round'[q] \in RoundType(q)'
  BY <1>5, <1>6, <1>7, RoundsStay
<1>9. ASSUME NEW q \in Process
      PROVE  /\ round'[q].readable # <<>> => round'[q].busy
             /\ round'[q].parsing => round'[q].readable # <<>>
             /\ round'[q].readable # <<>> /\ Head(round'[q].readable) = Listener(q)
                  => backlog'[q] # <<>>
  <2>1. CASE q = p
    <3>1. round[p].busy
      BY DEF InRound
    <3> QED
      BY <1>4, <1>6, <2>1, <3>1
  <2>2. CASE q # p
    BY <1>7, <2>2 DEF InRound
  <2> QED
    BY <2>1, <2>2
<1>10. InRound'
  BY <1>9 DEF InRound
<1> QED
  BY <1>6, <1>7, <1>8, <1>10

BytesStay == \A e \in Endpoint : sock'[e].incoming = sock[e].incoming

ReadersStay ==
  \A e \in Endpoint : Whole(sock[e].incoming) => round'[Owner(e)] = round[Owner(e)]

(* No whole packet appears when no byte is received.                       *)
LEMMA ParsedStays ==
  ASSUME Parsed, BytesStay, ReadersStay
  PROVE  Parsed'
BY DEF Parsed, BytesStay, ReadersStay

(* A quiet step also leaves the types and the rounds in order.             *)
Orderly == NetTypes' /\ InRound' /\ Parsed'

(* A step that is quiet and orderly keeps the invariant.                   *)
LEMMA OrderlyQuiet ==
  ASSUME NetInv, Quiet, Orderly
  PROVE  NetInv'
BY QuietStep DEF NetInv, Orderly

(* A quiet step opens no socket.                                           *)
LEMMA QuietHandles ==
  ASSUME Quiet
  PROVE  HandlesStay
BY DEF Quiet, HandlesStay

(* A quiet step between two rounds, or in none.                            *)
LEMMA RoundKept ==
  ASSUME NetInv, Quiet, UNCHANGED << mSockets, backlog, round >>,
         stage' \in [Process -> {"running", "flushing", "closing", "exited"}]
  PROVE  NetInv'
<1>1. HandlesStay /\ NetTypes
  BY QuietHandles DEF NetInv
<1>2. /\ sock' \in [Endpoint -> SocketType] /\ wire' \in [Endpoint -> WireType]
      /\ posted' = posted /\ taken' = taken
      /\ \A e \in Endpoint : sock'[e].incoming = sock[e].incoming
  BY DEF Quiet
<1>3. NetTypes'
  <2>1. /\ backlog' \in [Process -> Seq(Conn)] /\ \A p \in Process : Len(backlog'[p]) <= Backlog
        /\ posted' \in [Endpoint -> Seq(Packet)] /\ taken' \in [Endpoint -> Seq(Packet)]
        /\ DOMAIN round' = Process
    BY <1>1, <1>2 DEF NetTypes
  <2>2. \A p \in Process : round'[p] \in RoundType(p)'
    BY <1>1, RoundsStay
  <2> QED
    BY <1>1, <1>2, <2>1, <2>2, RoundsStay, TypesAfter
<1>4. InRound'
  BY DEF NetInv, InRound
<1>5. Parsed'
  <2>1. BytesStay /\ ReadersStay /\ Parsed
    BY <1>2 DEF BytesStay, ReadersStay, NetInv
  <2> QED
    BY <2>1, ParsedStays
<1> QED
  BY <1>3, <1>4, <1>5, OrderlyQuiet DEF Orderly

(* A step of sockets that keep their bytes is quiet.                       *)
LEMMA StillQuiet ==
  ASSUME NetInv, UNCHANGED << sock, wire, posted, taken, backlog >>
  PROVE  Quiet
BY DEF NetInv, NetTypes, Quiet, Calm

(* A step that changes nothing keeps the invariant.                        *)
LEMMA StutterStep ==
  ASSUME NetInv, UNCHANGED netVars
  PROVE  NetInv'
<1>1. Quiet
  BY StillQuiet DEF netVars
<1> QED
  BY <1>1, RoundKept DEF netVars, NetInv, NetTypes

(* When no whole packet is left, the next socket is read.                  *)
LEMMA NothingToHandStep ==
  ASSUME NetInv, NEW p \in Process, NEW e \in Endpoint, NothingToHand(p, e)
  PROVE  NetInv'
<1>1. Quiet
  BY StillQuiet DEF NothingToHand
<1>2. HandlesStay /\ NetTypes /\ InRound /\ Parsed
  BY <1>1, QuietHandles DEF NetInv
<1>3. /\ round[p].readable # <<>> /\ e = Head(round[p].readable) /\ round' = NextReadable(p)
      /\ ~Whole(sock[e].incoming)
      /\ UNCHANGED << sock, wire, mSockets, backlog, stage, posted, taken >>
  BY DEF NothingToHand, Reads, PacketReady, PacketSize, Whole
<1>4. /\ DOMAIN round' = Process /\ \A q \in Process : round'[q] \in RoundType(q)'
      /\ \A q \in Process : q # p => round'[q] = round[q]
      /\ InRound'
  BY <1>2, <1>3, ReadsOn
<1>5. NetTypes'
  <2>1. /\ sock' \in [Endpoint -> SocketType] /\ wire' \in [Endpoint -> WireType]
        /\ backlog' \in [Process -> Seq(Conn)] /\ \A q \in Process : Len(backlog'[q]) <= Backlog
        /\ stage' \in [Process -> {"running", "flushing", "closing", "exited"}]
        /\ posted' \in [Endpoint -> Seq(Packet)] /\ taken' \in [Endpoint -> Seq(Packet)]
    BY <1>2, <1>3 DEF NetTypes
  <2> QED
    BY <1>2, <1>3, <1>4, <2>1, RoundsStay, TypesAfter
<1>6. Parsed'
  <2>1. ASSUME NEW f \in Endpoint, Whole(sock[f].incoming)
        PROVE  round'[Owner(f)] = round[Owner(f)]
    <3>1. Head(round[Owner(f)].readable) = f
      BY <1>2, <2>1 DEF Parsed
    <3>2. Owner(f) # p /\ Owner(f) \in Process
      BY <1>3, <2>1, <3>1, EndpointFacts
    <3> QED
      BY <1>4, <3>2
  <2>2. BytesStay /\ ReadersStay
    BY <1>3, <2>1 DEF BytesStay, ReadersStay
  <2> QED
    BY <1>2, <2>2, ParsedStays
<1> QED
  BY <1>1, <1>4, <1>5, <1>6, OrderlyQuiet DEF Orderly

-----------------------------------------------------------------------------
(* The steps, one after the other: those that are quiet first.             *)

(* A socket found disconnected keeps its bytes.                            *)
LEMMA DisconnectedFacts ==
  ASSUME NEW s \in SocketType, NEW t, t = [s EXCEPT !.disconnected = TRUE]
  PROVE  /\ t \in SocketType /\ t.disconnected /\ t.handle = s.handle
         /\ t.incoming = s.incoming /\ t.outgoing = s.outgoing
BY DEF SocketType

Stages == {"running", "flushing", "closing", "exited"}

(* Sockets are told to disconnect, which keeps their bytes.                *)
LEMMA DisconnectingStep ==
  ASSUME NetInv, NEW S, DisconnectAll(S),
         UNCHANGED << wire, mSockets, backlog, round, posted, taken >>,
         stage' \in [Process -> Stages]
  PROVE  NetInv'
<1>1. \A e \in Endpoint :
        /\ sock'[e] \in SocketType /\ sock'[e].handle = sock[e].handle
        /\ sock'[e].disconnected = sock[e].disconnected
        /\ sock'[e].incoming = sock[e].incoming /\ sock'[e].outgoing = sock[e].outgoing
  <2>1. ASSUME NEW e \in Endpoint
        PROVE  /\ sock'[e] \in SocketType /\ sock'[e].handle = sock[e].handle
               /\ sock'[e].disconnected = sock[e].disconnected
               /\ sock'[e].incoming = sock[e].incoming /\ sock'[e].outgoing = sock[e].outgoing
    <3>1. sock[e] \in SocketType
      BY StreamTypes DEF NetInv
    <3>2. sock'[e] = Disconnect(sock[e]) \/ sock'[e] = sock[e]
      BY DEF DisconnectAll
    <3> QED
      BY <3>1, <3>2, DisconnectFacts
  <2> QED
    BY <2>1
<1>2. sock' \in [Endpoint -> SocketType]
  BY <1>1 DEF DisconnectAll
<1>3. Quiet
  BY <1>1, <1>2 DEF Quiet, Calm, NetInv, NetTypes
<1> QED
  BY <1>3, RoundKept DEF Stages

(* An agent that leaves tells its socket to disconnect.                    *)
LEMMA LeaveStep ==
  ASSUME NetInv, NEW c \in Conn, Leave(c)
  PROVE  NetInv'
<1>1. Client(c) \in Endpoint
  BY EndpointFacts
<1>2. DisconnectAll({Client(c)})
  <2>1. sock \in [Endpoint -> SocketType]
    BY DEF NetInv, NetTypes
  <2> QED
    BY <1>1, <2>1 DEF Leave, DisconnectAll
<1>3. stage' \in [Process -> Stages]
  BY DEF Leave, NetInv, NetTypes, Stages
<1> QED
  BY <1>2, <1>3, DisconnectingStep DEF Leave

(* So does a process that ends, to all of its sockets.                     *)
LEMMA QuitStep ==
  ASSUME NetInv, NEW p \in Process, Quit(p) \/ Flushed(p)
  PROVE  NetInv'
<1>1. stage' \in [Process -> Stages]
  BY DEF Quit, Flushed, NetInv, NetTypes, Stages
<1> QED
  BY <1>1, DisconnectingStep DEF Quit, Flushed

(* A round begins with sockets the process holds.                          *)
LEMMA SelectStep ==
  ASSUME NetInv, NEW p \in Process, Select(p)
  PROVE  NetInv'
<1>1. Quiet
  BY StillQuiet DEF Select
<1>2. HandlesStay /\ NetTypes /\ InRound /\ Parsed
  BY <1>1, QuietHandles DEF NetInv
<1>3. PICK r :
        /\ r.busy = TRUE /\ r.parsing = FALSE
        /\ r.readable = SelectReady(mSockets[p], Readable(p))
        /\ \E all, ready : /\ r.writable = SelectReady(Kept(mSockets[p], all), ready)
        /\ DOMAIN r = {"busy", "readable", "writable", "parsing"}
        /\ r \in [ busy : {TRUE}, readable : {r.readable},
                   writable : {r.writable}, parsing : {FALSE} ]
        /\ round' = [round EXCEPT ![p] = r]
  BY DEF Select
<1>4. ~round[p].busy /\ UNCHANGED << sock, wire, mSockets, backlog, stage, posted, taken >>
  BY DEF Select
<1>5. mSockets[p] \in SocketLists(p)
  BY <1>2 DEF NetTypes
<1>6. r.readable \in Lists(Held(p) \cap Readable(p), Listener(p))
  BY <1>3, <1>5, SelectReadyType DEF SocketLists
<1>7. r.writable \in SocketLists(p)
  <2>1. PICK all, ready : r.writable = SelectReady(Kept(mSockets[p], all), ready)
    BY <1>3
  <2>2. Kept(mSockets[p], all) \in Lists(Held(p) \cap all, Listener(p))
    BY <1>5, KeptType DEF SocketLists
  <2>3. r.writable \in Lists((Held(p) \cap all) \cap ready, Listener(p))
    BY <2>1, <2>2, SelectReadyType
  <2> QED
    <3>1. PICK list : list = r.writable
      OBVIOUS
    <3>2. PICK T : T = (Held(p) \cap all) \cap ready /\ T \subseteq Held(p)
      OBVIOUS
    <3>3. list \in Lists(T, Listener(p))
      BY <2>3, <3>1, <3>2
    <3>4. list \in Lists(Held(p), Listener(p))
      BY <3>2, <3>3, ListsMove
    <3> QED
      BY <3>1, <3>4 DEF SocketLists
<1>8. r.readable \in SocketLists(p)
  BY <1>6, ListsMove DEF SocketLists
<1>9. r \in RoundType(p)
  BY <1>3, <1>7, <1>8 DEF RoundType
<1>10. r.readable # <<>> /\ Head(r.readable) = Listener(p) => backlog[p] # <<>>
  <2>1. r.readable # <<>> => Head(r.readable) \in Readable(p)
    <3>1. PICK list : list = r.readable
      OBVIOUS
    <3>2. PICK T : T = Held(p) \cap Readable(p)
      OBVIOUS
    <3>3. list \in Lists(T, Listener(p))
      BY <1>6, <3>1, <3>2
    <3>4. list # <<>> => Head(list) \in T
      BY <3>3, ListsMove
    <3> QED
      BY <3>1, <3>2, <3>4
  <2>2. Listener(p) \in Readable(p) => backlog[p] # <<>>
    BY EndpointFacts DEF Readable
  <2> QED
    BY <2>1, <2>2
<1>11. DOMAIN round' = Process /\ round'[p] = r /\ \A q \in Process : q # p => round'[q] = round[q]
  BY <1>2, <1>3 DEF NetTypes
<1>12. ASSUME NEW q \in Process PROVE round'[q] \in RoundType(q)'
  <2>1. round'[q] \in RoundType(q)
    BY <1>2, <1>9, <1>11 DEF NetTypes
  <2>2. SocketLists(q) \subseteq SocketLists(q)'
    BY <1>2, ListsStay
  <2> QED
    BY <2>1, <2>2 DEF RoundType
<1>13. NetTypes'
  <2>1. /\ sock' \in [Endpoint -> SocketType] /\ wire' \in [Endpoint -> WireType]
        /\ backlog' \in [Process -> Seq(Conn)] /\ \A q \in Process : Len(backlog'[q]) <= Backlog
        /\ stage' \in [Process -> {"running", "flushing", "closing", "exited"}]
        /\ posted' \in [Endpoint -> Seq(Packet)] /\ taken' \in [Endpoint -> Seq(Packet)]
    BY <1>2, <1>4 DEF NetTypes
  <2> QED
    BY <1>2, <1>4, <1>11, <1>12, <2>1, RoundsStay, TypesAfter
<1>14. InRound'
  <2>1. ASSUME NEW q \in Process
        PROVE  /\ round'[q].readable # <<>> => round'[q].busy
               /\ round'[q].parsing => round'[q].readable # <<>>
               /\ round'[q].readable # <<>> /\ Head(round'[q].readable) = Listener(q)
                    => backlog'[q] # <<>>
    <3>1. CASE q = p
      BY <1>3, <1>4, <1>10, <1>11, <3>1
    <3>2. CASE q # p
      BY <1>2, <1>4, <1>11, <3>2 DEF InRound
    <3> QED
      BY <3>1, <3>2
  <2> QED
    BY <2>1 DEF InRound
<1>15. Parsed'
  <2>1. ASSUME NEW f \in Endpoint, Whole(sock[f].incoming)
        PROVE  round'[Owner(f)] = round[Owner(f)]
    <3>1. Owner(f) \in Process
      BY EndpointFacts
    <3>2. round[Owner(f)].busy
      BY <1>2, <2>1, <3>1 DEF Parsed, InRound
    <3> QED
      BY <1>4, <1>11, <3>1, <3>2
  <2>2. BytesStay /\ ReadersStay
    BY <1>4, <2>1 DEF BytesStay, ReadersStay
  <2> QED
    BY <1>2, <2>2, ParsedStays
<1> QED
  BY <1>1, <1>13, <1>14, <1>15, OrderlyQuiet DEF Orderly

(* The end of a connection loses bytes nobody can follow any more.         *)
LEMMA ReceiveEndStep ==
  ASSUME NetInv, NEW p \in Process, NEW e \in Endpoint, ReceiveEnd(p, e)
  PROVE  NetInv'
<1>1. PICK f \in Endpoint : f = Peer(e) /\ e = Peer(f) /\ e # f
  BY EndpointFacts
<1>2. /\ round[p].readable # <<>> /\ e = Head(round[p].readable) /\ round' = NextReadable(p)
      /\ ~round[p].parsing
      /\ wire[f].end # "open" /\ (wire[f].end = "rst" \/ wire[f].bytes = <<>>)
      /\ sock' = [sock EXCEPT ![e].disconnected = TRUE]
      /\ wire' = [wire EXCEPT ![f].bytes = <<>>]
      /\ UNCHANGED << mSockets, backlog, stage, posted, taken >>
  BY <1>1 DEF ReceiveEnd, Reads
<1>3. NetTypes /\ InRound /\ Parsed /\ Ended
  BY DEF NetInv
<1>4. /\ sock' \in [Endpoint -> SocketType]
      /\ \A g \in Endpoint : g # e => sock'[g] = sock[g]
      /\ sock'[e].disconnected /\ sock'[e].handle = sock[e].handle
      /\ sock'[e].incoming = sock[e].incoming /\ sock'[e].outgoing = sock[e].outgoing
  <2>1. sock \in [Endpoint -> SocketType]
    BY <1>3 DEF NetTypes
  <2>2. PICK t : t = [sock[e] EXCEPT !.disconnected = TRUE]
    OBVIOUS
  <2>3. sock' = [sock EXCEPT ![e] = t]
    BY <1>2, <2>2
  <2>4. /\ t \in SocketType /\ t.disconnected /\ t.handle = sock[e].handle
        /\ t.incoming = sock[e].incoming /\ t.outgoing = sock[e].outgoing
    BY <2>1, <2>2, DisconnectedFacts
  <2> HIDE DEF SocketType
  <2>5. sock' \in [Endpoint -> SocketType] /\ sock'[e] = t
    BY ONLY <2>1, <2>3, <2>4, e \in Endpoint
  <2>6. \A g \in Endpoint : g # e => sock'[g] = sock[g]
    BY ONLY <2>1, <2>3, e \in Endpoint
  <2> QED
    BY <2>4, <2>5, <2>6
<1>5. /\ wire' \in [Endpoint -> WireType]
      /\ \A g \in Endpoint : g # f => wire'[g] = wire[g]
      /\ wire'[f].bytes = <<>> /\ wire'[f].end = wire[f].end
  <2>1. wire \in [Endpoint -> WireType]
    BY <1>3 DEF NetTypes
  <2> QED
    BY ONLY <1>2, <2>1, f \in Endpoint, WireEmptied
<1>6. ~CanWrite(f)'
  <2>1. sock[f].handle = "none" \/ sock[f].disconnected
    BY <1>2, <1>3 DEF Ended
  <2>2. sock'[f] = sock[f]
    BY <1>1, <1>4
  <2> QED
    BY <2>1, <2>2 DEF CanWrite
<1>7. Quiet
  <2>1. posted' = posted /\ taken' = taken /\ \A q \in Process : backlog'[q] \in {backlog[q], <<>>}
    BY <1>2
  <2>2. ASSUME NEW g \in Endpoint
        PROVE  /\ sock'[g].incoming = sock[g].incoming
               /\ sock'[g].handle = sock[g].handle
               /\ sock[g].disconnected => sock'[g].disconnected
               /\ sock'[g].outgoing = sock[g].outgoing
               /\ wire'[g].bytes = wire[g].bytes \/ (wire'[g].bytes = <<>> /\ ~CanWrite(g)')
               /\ wire'[g].end = wire[g].end
    <3>1. CASE g = e
      BY <1>1, <1>4, <1>5, <3>1
    <3>2. CASE g = f
      BY <1>1, <1>4, <1>5, <1>6, <3>2
    <3>3. CASE g # e /\ g # f
      BY <1>4, <1>5, <3>3
    <3> QED
      BY <3>1, <3>2, <3>3
  <2> QED
    BY <1>4, <1>5, <2>1, <2>2 DEF Quiet, Calm
<1>8. HandlesStay
  BY <1>7, QuietHandles
<1>9. /\ DOMAIN round' = Process /\ \A q \in Process : round'[q] \in RoundType(q)'
      /\ \A q \in Process : q # p => round'[q] = round[q]
      /\ InRound'
  BY <1>2, <1>3, <1>8, ReadsOn
<1>10. NetTypes'
  <2>1. /\ backlog' \in [Process -> Seq(Conn)] /\ \A q \in Process : Len(backlog'[q]) <= Backlog
        /\ stage' \in [Process -> {"running", "flushing", "closing", "exited"}]
        /\ posted' \in [Endpoint -> Seq(Packet)] /\ taken' \in [Endpoint -> Seq(Packet)]
    BY <1>2, <1>3 DEF NetTypes
  <2> QED
    BY <1>2, <1>3, <1>4, <1>5, <1>8, <1>9, <2>1, RoundsStay, TypesAfter
<1>11. Parsed'
  <2>1. ASSUME NEW g \in Endpoint, Whole(sock[g].incoming)
        PROVE  round'[Owner(g)] = round[Owner(g)]
    <3>1. Owner(g) \in Process /\ round[Owner(g)].parsing
      BY <1>3, <2>1, EndpointFacts DEF Parsed
    <3> QED
      BY <1>2, <1>9, <3>1
  <2>2. BytesStay /\ ReadersStay
    BY <1>7, <2>1 DEF BytesStay, ReadersStay, Quiet
  <2> QED
    BY <1>3, <2>2, ParsedStays
<1> QED
  BY <1>7, <1>9, <1>10, <1>11, OrderlyQuiet DEF Orderly

(* The next socket is written to.                                          *)
LEMMA WritesOn ==
  ASSUME NetInv, HandlesStay, BytesStay, NEW p \in Process,
         round[p].busy, round[p].readable = <<>>, round[p].writable # <<>>,
         round' = [round EXCEPT ![p].writable = Tail(@)], backlog' = backlog
  PROVE  /\ DOMAIN round' = Process /\ \A q \in Process : round'[q] \in RoundType(q)'
         /\ InRound' /\ Parsed'
<1>1. NetTypes /\ InRound /\ Parsed
  BY DEF NetInv
<1>2. DOMAIN round = Process /\ round[p] \in RoundType(p)
  BY <1>1 DEF NetTypes
<1>3. PICK r : r = [round[p] EXCEPT !.writable = Tail(@)]
  OBVIOUS
<1>4. Tail(round[p].writable) \in SocketLists(p)
  BY <1>1, RoundFields, ListsMove DEF SocketLists
<1>5. /\ r \in RoundType(p) /\ r.readable = round[p].readable /\ r.busy = round[p].busy
      /\ r.parsing = round[p].parsing
  BY <1>2, <1>3, <1>4 DEF RoundType
<1>6. /\ DOMAIN round' = Process /\ round'[p] = r
      /\ \A q \in Process : q # p => round'[q] = round[q]
  BY <1>2, <1>3
<1>7. ASSUME NEW q \in Process PROVE round'[q] \in RoundType(q)'
  <2>1. round'[q] \in RoundType(q)
    BY <1>1, <1>5, <1>6 DEF NetTypes
  <2>2. SocketLists(q) \subseteq SocketLists(q)'
    BY ListsStay
  <2> QED
    BY <2>1, <2>2 DEF RoundType
<1>8. ASSUME NEW q \in Process
      PROVE  /\ round'[q].readable = round[q].readable /\ round'[q].busy = round[q].busy
             /\ round'[q].parsing = round[q].parsing
  BY <1>5, <1>6
<1>9. InRound'
  BY <1>1, <1>8 DEF InRound
<1>10. Parsed'
  <2>1. ASSUME NEW g \in Endpoint, Whole(sock[g].incoming)
        PROVE  round'[Owner(g)] = round[Owner(g)]
    <3>1. Owner(g) \in Process /\ round[Owner(g)].readable # <<>>
      BY <1>1, <2>1, EndpointFacts DEF Parsed
    <3> QED
      BY <1>6, <3>1
  <2>2. ReadersStay
    BY <2>1 DEF ReadersStay
  <2> QED
    BY <1>1, <2>2, ParsedStays
<1> QED
  BY <1>6, <1>7, <1>9, <1>10

(* What a write does to the socket and to the connection.                  *)
LEMMA WriteQuiet ==
  ASSUME NetInv, NEW e \in Endpoint, sock[e].handle # "none",
         UNCHANGED << posted, taken, backlog >>,
         \/ UNCHANGED << sock, wire >>
         \/ /\ ~sock[e].disconnected /\ wire[Peer(e)].end = "open"
            /\ \E n \in Pieces(sock[e].outgoing) :
                 /\ wire' = [wire EXCEPT ![e].bytes = @ \o SubSeq(sock[e].outgoing, 1, n)]
                 /\ sock' = [sock EXCEPT ![e].outgoing = SubSeq(@, n + 1, Len(@))]
         \/ /\ wire[Peer(e)].end = "fin"
            /\ wire' = [wire EXCEPT ![Peer(e)].end = "rst"]
            /\ sock' = [sock EXCEPT ![e].outgoing = <<>>]
         \/ /\ sock' = [sock EXCEPT ![e].disconnected = TRUE]
            /\ UNCHANGED wire
  PROVE  Quiet
<1>1. PICK f \in Endpoint : f = Peer(e) /\ e = Peer(f) /\ e # f
  BY EndpointFacts
<1>2. /\ sock \in [Endpoint -> SocketType] /\ wire \in [Endpoint -> WireType] /\ NetTypes
      /\ backlog' = backlog
  BY DEF NetInv, NetTypes
<1>3. sock[e] \in SocketType /\ sock[e].outgoing \in Seq(Byte) /\ wire[e].bytes \in Seq(Byte)
  BY <1>2, StreamTypes
<1>4. CASE UNCHANGED << sock, wire >>
  BY <1>4, StillQuiet
<1>5. CASE /\ ~sock[e].disconnected /\ wire[Peer(e)].end = "open"
           /\ \E n \in Pieces(sock[e].outgoing) :
                /\ wire' = [wire EXCEPT ![e].bytes = @ \o SubSeq(sock[e].outgoing, 1, n)]
                /\ sock' = [sock EXCEPT ![e].outgoing = SubSeq(@, n + 1, Len(@))]
  <2>1. PICK out \in Seq(Byte) : out = sock[e].outgoing
    BY <1>3
  <2>2. PICK n \in Pieces(out) :
          /\ wire' = [wire EXCEPT ![e].bytes = @ \o SubSeq(sock[e].outgoing, 1, n)]
          /\ sock' = [sock EXCEPT ![e].outgoing = SubSeq(@, n + 1, Len(@))]
    BY <1>5, <2>1
  <2>3. n \in 0..Len(out)
    BY BoundsAssumption, LenProperties DEF Pieces
  <2>4. CanWrite(e) /\ Stream(e)
    BY <1>5 DEF CanWrite, NetInv, StreamsHold
  <2>5. out \in Rests(sock[f].incoming, wire[e].bytes, Remaining(e))
    BY <1>1, <2>1, <2>4 DEF Stream, Following
  <2>6. PICK now \in Seq(Byte) : now = wire[e].bytes \o SubSeq(out, 1, n)
    <3>1. SubSeq(out, 1, n) \in Seq(Byte)
      BY <1>1, <1>2, <1>3, <2>3, <2>5, StreamTypes, RestsWritten
    <3> QED
      BY <1>3, <3>1, ConcatProperties
  <2>7. PICK later \in Seq(Byte) : later = SubSeq(out, n + 1, Len(out))
    BY <1>1, <1>2, <1>3, <2>3, <2>5, StreamTypes, RestsWritten
  <2>8. later \in Rests(sock[f].incoming, now, Remaining(e))
    BY <1>1, <1>2, <1>3, <2>3, <2>5, <2>6, <2>7, StreamTypes, RestsWritten
  <2>9. PICK s : s = [sock[e] EXCEPT !.outgoing = later]
    OBVIOUS
  <2>10. PICK w : w = [wire[e] EXCEPT !.bytes = now]
    OBVIOUS
  <2>11. sock' = [sock EXCEPT ![e] = s] /\ wire' = [wire EXCEPT ![e] = w]
    BY <2>1, <2>2, <2>6, <2>7, <2>9, <2>10
  <2>12. /\ s \in SocketType /\ s.handle = sock[e].handle /\ s.disconnected = sock[e].disconnected
         /\ s.incoming = sock[e].incoming /\ s.outgoing = later
    BY <1>3, <2>9 DEF SocketType
  <2>13. w \in WireType /\ w.bytes = now /\ w.end = wire[e].end
    BY <1>2, <2>10 DEF WireType
  <2>14. /\ sock' \in [Endpoint -> SocketType] /\ wire' \in [Endpoint -> WireType]
         /\ sock'[e] = s /\ wire'[e] = w
         /\ \A g \in Endpoint : g # e => sock'[g] = sock[g] /\ wire'[g] = wire[g]
    BY <1>2, <2>11, <2>12, <2>13
  <2>15. Stream(e)'
    <3>1. Remaining(e)' = Remaining(e)
      BY DEF Remaining
    <3>2. sock'[f].incoming = sock[f].incoming
      BY <1>1, <2>14
    <3>3. Following(e)' = Rests(sock[f].incoming, now, Remaining(e))
      BY <1>1, <2>13, <2>14, <3>1, <3>2 DEF Following
    <3>4. later \in Following(e)' /\ sock'[e].outgoing = later
      BY <2>8, <2>12, <2>14, <3>3
    <3> QED
      BY <2>4, <3>4 DEF Stream
  <2>16. ASSUME NEW g \in Endpoint
         PROVE  /\ sock'[g].incoming = sock[g].incoming
                /\ sock'[g].handle = sock[g].handle
                /\ sock[g].disconnected => sock'[g].disconnected
                /\ sock'[g].outgoing = sock[g].outgoing \/ sock[g].handle # "none"
                /\ Calm(g) \/ Stream(g)'
                /\ wire'[g].end = wire[g].end
    <3>1. CASE g = e
      BY <2>12, <2>13, <2>14, <2>15, <3>1
    <3>2. CASE g # e
      BY <2>14, <3>2 DEF Calm
    <3> QED
      BY <3>1, <3>2
  <2> QED
    BY <1>2, <2>14, <2>16 DEF Quiet
<1>6. CASE /\ wire[Peer(e)].end = "fin"
           /\ wire' = [wire EXCEPT ![Peer(e)].end = "rst"]
           /\ sock' = [sock EXCEPT ![e].outgoing = <<>>]
  <2>1. PICK s : s = [sock[e] EXCEPT !.outgoing = <<>>]
    OBVIOUS
  <2>2. PICK w : w = [wire[f] EXCEPT !.end = "rst"]
    OBVIOUS
  <2>3. sock' = [sock EXCEPT ![e] = s] /\ wire' = [wire EXCEPT ![f] = w]
    BY <1>1, <1>6, <2>1, <2>2
  <2>4. /\ s \in SocketType /\ s.handle = sock[e].handle /\ s.disconnected = sock[e].disconnected
        /\ s.incoming = sock[e].incoming
    BY <1>3, <2>1, EmptySeq DEF SocketType
  <2>5. w \in WireType /\ w.bytes = wire[f].bytes /\ w.end = "rst"
    BY <1>2, <2>2 DEF WireType
  <2>6. /\ sock' \in [Endpoint -> SocketType] /\ wire' \in [Endpoint -> WireType]
        /\ sock'[e] = s /\ wire'[f] = w
        /\ \A g \in Endpoint : g # e => sock'[g] = sock[g]
        /\ \A g \in Endpoint : g # f => wire'[g] = wire[g]
    BY <1>2, <2>3, <2>4, <2>5
  <2>7. ~CanWrite(e)'
    BY <1>1, <2>5, <2>6 DEF CanWrite
  <2>8. ASSUME NEW g \in Endpoint
        PROVE  /\ sock'[g].incoming = sock[g].incoming
               /\ sock'[g].handle = sock[g].handle
               /\ sock[g].disconnected => sock'[g].disconnected
               /\ sock'[g].outgoing = sock[g].outgoing \/ sock[g].handle # "none"
               /\ Calm(g)
               /\ wire[g].end # "open" <=> wire'[g].end # "open"
    <3>1. CASE g = e
      BY <1>1, <2>4, <2>6, <2>7, <3>1 DEF Calm
    <3>2. CASE g = f
      BY <1>1, <1>6, <2>5, <2>6, <3>2 DEF Calm
    <3>3. CASE g # e /\ g # f
      BY <2>6, <3>3 DEF Calm
    <3> QED
      BY <3>1, <3>2, <3>3
  <2> QED
    BY <1>2, <2>6, <2>8 DEF Quiet
<1>7. CASE sock' = [sock EXCEPT ![e].disconnected = TRUE] /\ UNCHANGED wire
  <2>1. PICK s : s = [sock[e] EXCEPT !.disconnected = TRUE]
    OBVIOUS
  <2>2. sock' = [sock EXCEPT ![e] = s]
    BY <1>7, <2>1
  <2>3. /\ s \in SocketType /\ s.disconnected /\ s.handle = sock[e].handle
        /\ s.incoming = sock[e].incoming /\ s.outgoing = sock[e].outgoing
    BY <1>3, <2>1, DisconnectedFacts
  <2> HIDE DEF SocketType
  <2>4. sock' \in [Endpoint -> SocketType] /\ sock'[e] = s
    BY ONLY <1>2, <2>2, <2>3, e \in Endpoint
  <2>5. \A g \in Endpoint : g # e => sock'[g] = sock[g]
    BY ONLY <1>2, <2>2, e \in Endpoint
  <2>6. ASSUME NEW g \in Endpoint
        PROVE  /\ sock'[g].incoming = sock[g].incoming
               /\ sock'[g].handle = sock[g].handle
               /\ sock[g].disconnected => sock'[g].disconnected
               /\ sock'[g].outgoing = sock[g].outgoing
               /\ wire'[g] = wire[g]
    BY <1>7, <2>3, <2>4, <2>5
  <2> QED
    BY <1>2, <1>7, <2>4, <2>6 DEF Quiet, Calm
<1> QED
  BY <1>4, <1>5, <1>6, <1>7

(* A write moves outgoing bytes to the wire, or finds the peer gone.       *)
LEMMA WritingStep ==
  ASSUME NetInv, NEW p \in Process, WriteStep(p)
  PROVE  NetInv'
<1>1. PICK e \in Endpoint :
        /\ Writes(p, e)
        /\ round' = [round EXCEPT ![p].writable = Tail(@)]
        /\ UNCHANGED << mSockets, backlog, stage, posted, taken >>
        /\ \/ UNCHANGED << sock, wire >>
           \/ /\ ~sock[e].disconnected /\ wire[Peer(e)].end = "open"
              /\ \E n \in Pieces(sock[e].outgoing) :
                   /\ wire' = [wire EXCEPT ![e].bytes = @ \o SubSeq(sock[e].outgoing, 1, n)]
                   /\ sock' = [sock EXCEPT ![e].outgoing = SubSeq(@, n + 1, Len(@))]
           \/ /\ wire[Peer(e)].end = "fin"
              /\ wire' = [wire EXCEPT ![Peer(e)].end = "rst"]
              /\ sock' = [sock EXCEPT ![e].outgoing = <<>>]
           \/ /\ sock' = [sock EXCEPT ![e].disconnected = TRUE]
              /\ UNCHANGED wire
  BY DEF WriteStep
<1>2. /\ round[p].busy /\ round[p].readable = <<>>
      /\ round[p].writable # <<>> /\ e = Head(round[p].writable)
  BY <1>1 DEF Writes
<1>3. NetTypes
  BY DEF NetInv
<1>4. sock[e].handle # "none"
  BY <1>2, <1>3, InHeld
<1>5. Quiet
  BY <1>1, <1>4, WriteQuiet
<1>6. HandlesStay /\ BytesStay
  BY <1>5, QuietHandles DEF Quiet, BytesStay
<1>7. /\ DOMAIN round' = Process /\ \A q \in Process : round'[q] \in RoundType(q)'
      /\ InRound' /\ Parsed'
  BY <1>1, <1>2, <1>6, WritesOn
<1>8. NetTypes'
  <2>1. /\ sock' \in [Endpoint -> SocketType] /\ wire' \in [Endpoint -> WireType]
        /\ backlog' \in [Process -> Seq(Conn)] /\ \A q \in Process : Len(backlog'[q]) <= Backlog
        /\ stage' \in [Process -> {"running", "flushing", "closing", "exited"}]
        /\ posted' \in [Endpoint -> Seq(Packet)] /\ taken' \in [Endpoint -> Seq(Packet)]
    BY <1>1, <1>3, <1>5 DEF NetTypes, Quiet
  <2>2. mSockets' = mSockets
    BY <1>1
  <2> QED
    BY <1>3, <1>6, <1>7, <2>1, <2>2, RoundsStay, TypesAfter
<1> QED
  BY <1>5, <1>7, <1>8, OrderlyQuiet DEF Orderly

(* Between two rounds nothing is parsed.                                   *)
LEMMA RoundOver ==
  ASSUME NetInv, HandlesStay, BytesStay, NEW p \in Process,
         round[p].readable = <<>>, round' = [round EXCEPT ![p] = Between],
         \A q \in Process : q # p => backlog'[q] = backlog[q]
  PROVE  /\ DOMAIN round' = Process /\ \A q \in Process : round'[q] \in RoundType(q)'
         /\ InRound' /\ Parsed'
<1>1. NetTypes /\ InRound /\ Parsed
  BY DEF NetInv
<1>2. DOMAIN round = Process
  BY <1>1 DEF NetTypes
<1>3. /\ Between \in RoundType(p)' /\ Between.readable = <<>> /\ Between.parsing = FALSE
  <2>1. <<>> \in SocketLists(p)'
    BY ListsJoin DEF SocketLists
  <2> QED
    BY <2>1 DEF Between, RoundType
<1>4. /\ DOMAIN round' = Process /\ round'[p] = Between
      /\ \A q \in Process : q # p => round'[q] = round[q]
  BY <1>2
<1>5. ASSUME NEW q \in Process PROVE round'[q] \in RoundType(q)'
  BY <1>1, <1>3, <1>4, RoundsStay
<1>6. ASSUME NEW q \in Process
      PROVE  /\ round'[q].readable # <<>> => round'[q].busy
             /\ round'[q].parsing => round'[q].readable # <<>>
             /\ round'[q].readable # <<>> /\ Head(round'[q].readable) = Listener(q)
                  => backlog'[q] # <<>>
  <2>1. CASE q = p
    BY <1>3, <1>4, <2>1
  <2>2. CASE q # p
    BY <1>1, <1>4, <2>2 DEF InRound
  <2> QED
    BY <2>1, <2>2
<1>7. InRound'
  BY <1>6 DEF InRound
<1>8. Parsed'
  <2>1. ASSUME NEW g \in Endpoint, Whole(sock[g].incoming)
        PROVE  round'[Owner(g)] = round[Owner(g)]
    <3>1. Owner(g) \in Process /\ round[Owner(g)].readable # <<>>
      BY <1>1, <2>1, EndpointFacts DEF Parsed
    <3> QED
      BY <1>4, <3>1
  <2>2. ReadersStay
    BY <2>1 DEF ReadersStay
  <2> QED
    BY <1>1, <2>2, ParsedStays
<1> QED
  BY <1>4, <1>5, <1>7, <1>8

(* Closing ends connections, and loses what was to be read.                *)
LEMMA CloseAllFacts ==
  ASSUME NetTypes, NEW closing, wire' = CloseAll(closing)
  PROVE  /\ wire' \in [Endpoint -> WireType]
         /\ \A e \in Endpoint :
              /\ wire'[e].bytes = IF Peer(e) \in closing THEN <<>> ELSE wire[e].bytes
              /\ e \notin closing => wire'[e].end = wire[e].end
              /\ e \in closing => wire'[e].end # "open"
<1>1. ASSUME NEW e \in Endpoint
      PROVE  /\ wire'[e] \in WireType
             /\ wire'[e].bytes = IF Peer(e) \in closing THEN <<>> ELSE wire[e].bytes
             /\ e \notin closing => wire'[e].end = wire[e].end
             /\ e \in closing => wire'[e].end # "open"
  <2>1. wire[e].bytes \in Seq(Byte) /\ wire[e].end \in {"open", "fin", "rst"}
    BY StreamTypes
  <2>2. wire'[e] =
          [ bytes |-> IF Peer(e) \in closing THEN <<>> ELSE wire[e].bytes,
            end   |-> IF e \notin closing THEN wire[e].end
                      ELSE IF wire[Peer(e)].bytes # <<>> THEN "rst" ELSE "fin" ]
    BY DEF CloseAll
  <2>3. PICK b \in Seq(Byte) : b = IF Peer(e) \in closing THEN <<>> ELSE wire[e].bytes
    BY <2>1, EmptySeq
  <2>4. CASE e \notin closing
    <3>1. PICK d \in {"open", "fin", "rst"} : d = wire[e].end
      BY <2>1
    <3>2. wire'[e] = [bytes |-> b, end |-> d]
      BY <2>2, <2>3, <2>4, <3>1
    <3>3. /\ wire'[e] \in WireType /\ wire'[e].bytes = b /\ wire'[e].end = d
      BY <3>2 DEF WireType
    <3> QED
      BY <2>3, <2>4, <3>1, <3>3
  <2>5. CASE e \in closing
    <3>1. PICK d \in {"rst", "fin"} : wire'[e] = [bytes |-> b, end |-> d]
      BY <2>2, <2>3, <2>5
    <3> QED
      BY <2>3, <2>5, <3>1 DEF WireType
  <2> QED
    BY <2>4, <2>5
<1>2. wire' \in [Endpoint -> WireType]
  BY <1>1 DEF CloseAll
<1> QED
  BY <1>1, <1>2

(* Sockets are closed that were there, and the connections that waited for *)
(* a process that takes no more of them.                                   *)
LEMMA ClosingQuiet ==
  ASSUME NetInv, NEW closing, wire' = CloseAll(closing), posted' = posted, taken' = taken,
         \A p \in Process : backlog'[p] \in {backlog[p], <<>>},
         \A e \in Endpoint :
           /\ sock'[e] \in SocketType
           /\ sock'[e].incoming = sock[e].incoming /\ sock'[e].outgoing = sock[e].outgoing
           /\ sock'[e].handle = "none" <=> sock[e].handle = "none"
           /\ sock[e].disconnected => sock'[e].disconnected,
         \A e \in closing :
           \/ sock[e].handle # "none" /\ sock'[e].disconnected
           \/ \E p \in Process : \E c \in Range(backlog[p]) :
                e = Server(c) /\ backlog'[p] = <<>>,
         closing \subseteq Endpoint, DOMAIN sock' = Endpoint,
         sock' = [e \in Endpoint |-> sock'[e]]
  PROVE  Quiet
<1>1. NetTypes
  BY DEF NetInv
<1>2. /\ wire' \in [Endpoint -> WireType]
      /\ \A e \in Endpoint :
           /\ wire'[e].bytes = IF Peer(e) \in closing THEN <<>> ELSE wire[e].bytes
           /\ e \notin closing => wire'[e].end = wire[e].end
           /\ e \in closing => wire'[e].end # "open"
  BY <1>1, CloseAllFacts
<1>3. sock' \in [Endpoint -> SocketType]
  OBVIOUS
<1>4. ASSUME NEW e \in Endpoint PROVE Calm(e)
  <2>1. Peer(e) \in Endpoint
    BY EndpointFacts
  <2>2. Peer(e) \in closing => ~CanWrite(e)'
    BY <1>2, <2>1 DEF CanWrite
  <2> QED
    BY <1>2, <2>2 DEF Calm
<1>5. \A e \in Endpoint :
        /\ wire[e].end # "open" => wire'[e].end # "open"
        /\ wire'[e].end # "open" /\ wire[e].end = "open" => e \in closing
  BY <1>2
<1> QED
  BY <1>2, <1>3, <1>4, <1>5 DEF Quiet

(* The end of a round closes the sockets that are to be disconnected.      *)
LEMMA SweepStep ==
  ASSUME NetInv, NEW p \in Process, Sweep(p)
  PROVE  NetInv'
<1> DEFINE swept == [e \in Endpoint |->
                       IF e \in Range(mSockets[p]) /\ ToClose(e)
                       THEN CloseSocket(sock[e]) ELSE sock[e]]
           closing == {e \in Endpoint : sock[e].handle = "open" /\ swept[e].handle = "closed"}
           kept == {s \in Range(mSockets[p]) : IsListening(s) \/ ~swept[s].disconnected}
<1>1. /\ sock' = swept /\ wire' = CloseAll(closing)
      /\ mSockets' = [mSockets EXCEPT ![p] = Kept(mSockets[p], kept)]
      /\ round' = [round EXCEPT ![p] = Between] /\ round[p].readable = <<>>
      /\ UNCHANGED << backlog, stage, posted, taken >>
  BY DEF Sweep, Swept
<1>2. NetTypes
  BY DEF NetInv
<1>3. ASSUME NEW e \in Endpoint
      PROVE  /\ swept[e] \in SocketType
             /\ swept[e].incoming = sock[e].incoming /\ swept[e].outgoing = sock[e].outgoing
             /\ swept[e].handle = "none" <=> sock[e].handle = "none"
             /\ sock[e].disconnected => swept[e].disconnected
             /\ swept[e] # sock[e] => swept[e].disconnected
  <2>1. sock[e] \in SocketType
    BY <1>2, StreamTypes
  <2>2. CASE swept[e] = sock[e]
    BY <2>1, <2>2
  <2>3. CASE e \in Range(mSockets[p]) /\ swept[e] = CloseSocket(sock[e])
    <3>1. sock[e].handle # "none"
      BY <1>2, <2>3, InHeld
    <3>2. PICK s : s = swept[e]
      OBVIOUS
    <3>3. /\ s \in SocketType /\ s.incoming = sock[e].incoming /\ s.outgoing = sock[e].outgoing
          /\ s.disconnected /\ s.handle # "none"
      BY <2>1, <2>3, <3>1, <3>2, CloseSocketFacts
    <3> QED
      BY <3>1, <3>2, <3>3
  <2> QED
    BY <2>2, <2>3
<1>4. \A e \in closing : sock[e].handle # "none" /\ swept[e].disconnected
  BY <1>3
<1>5. closing \subseteq Endpoint /\ swept = [e \in Endpoint |-> swept[e]] /\ DOMAIN swept = Endpoint
  OBVIOUS
<1> HIDE DEF swept, closing
<1>6. Quiet
  <2>1. sock' = swept /\ wire' = CloseAll(closing) /\ posted' = posted /\ taken' = taken
        /\ \A q \in Process : backlog'[q] \in {backlog[q], <<>>}
    BY <1>1
  <2>2. \A e \in Endpoint :
          /\ sock'[e] \in SocketType
          /\ sock'[e].incoming = sock[e].incoming /\ sock'[e].outgoing = sock[e].outgoing
          /\ sock'[e].handle = "none" <=> sock[e].handle = "none"
          /\ sock[e].disconnected => sock'[e].disconnected
    BY <1>3, <2>1
  <2>3. \A e \in closing : sock[e].handle # "none" /\ sock'[e].disconnected
    BY <1>4, <2>1
  <2>4. DOMAIN sock' = Endpoint /\ sock' = [e \in Endpoint |-> sock'[e]]
    BY <1>5, <2>1
  <2> QED
    BY <1>5, <2>1, <2>2, <2>3, <2>4, ClosingQuiet
<1>7. HandlesStay /\ BytesStay
  BY <1>6, QuietHandles DEF Quiet, BytesStay
<1>8. /\ DOMAIN round' = Process /\ \A q \in Process : round'[q] \in RoundType(q)'
      /\ InRound' /\ Parsed'
  BY <1>1, <1>7, RoundOver
<1>9. DOMAIN mSockets' = Process /\ \A q \in Process : mSockets'[q] \in SocketLists(q)'
  <2>1. DOMAIN mSockets = Process /\ mSockets[p] \in SocketLists(p)
    BY <1>2 DEF NetTypes
  <2>2. PICK list : list = Kept(mSockets[p], kept)
    OBVIOUS
  <2>3. list \in Lists(Held(p) \cap kept, Listener(p))
    BY <2>1, <2>2, KeptType DEF SocketLists
  <2>4. list \in SocketLists(p)
    BY <2>3, ListsMove DEF SocketLists
  <2>5. list \in SocketLists(p)'
    BY <1>7, <2>4, ListsStay
  <2>6. mSockets' = [mSockets EXCEPT ![p] = list]
    BY <1>1, <2>2
  <2> QED
    BY <1>2, <1>7, <2>1, <2>5, <2>6, RoundsStay
<1>10. NetTypes'
  <2>1. /\ sock' \in [Endpoint -> SocketType] /\ wire' \in [Endpoint -> WireType]
        /\ backlog' \in [Process -> Seq(Conn)] /\ \A q \in Process : Len(backlog'[q]) <= Backlog
        /\ stage' \in [Process -> {"running", "flushing", "closing", "exited"}]
        /\ posted' \in [Endpoint -> Seq(Packet)] /\ taken' \in [Endpoint -> Seq(Packet)]
    BY <1>1, <1>2, <1>6 DEF NetTypes, Quiet
  <2> QED
    BY <1>2, <1>7, <1>8, <1>9, <2>1, TypesAfter
<1> QED
  BY <1>6, <1>8, <1>10, OrderlyQuiet DEF Orderly

(* The end of a process closes all its sockets and refuses who waits.      *)
LEMMA ExitStep ==
  ASSUME NetInv, NEW p \in Process, Exit(p)
  PROVE  NetInv'
<1> DEFINE open == {e \in Endpoint : Owner(e) = p /\ sock[e].handle = "open"}
           waiting == {Server(c) : c \in Range(backlog[p])}
           closing == open \cup waiting
<1>1. /\ sock' = [e \in Endpoint |->
                    IF e \in open THEN [sock[e] EXCEPT !.handle = "closed", !.disconnected = TRUE]
                    ELSE sock[e]]
      /\ wire' = CloseAll(closing)
      /\ mSockets' = [mSockets EXCEPT ![p] = <<>>]
      /\ backlog' = [backlog EXCEPT ![p] = <<>>]
      /\ round' = [round EXCEPT ![p] = Between] /\ round[p].readable = <<>>
      /\ stage' = [stage EXCEPT ![p] = "exited"]
      /\ posted' = posted /\ taken' = taken
  BY DEF Exit, Swept
<1>2. NetTypes
  BY DEF NetInv
<1>3. ASSUME NEW e \in Endpoint
      PROVE  /\ sock'[e] \in SocketType
             /\ sock'[e].incoming = sock[e].incoming /\ sock'[e].outgoing = sock[e].outgoing
             /\ sock'[e].handle = "none" <=> sock[e].handle = "none"
             /\ sock[e].disconnected => sock'[e].disconnected
             /\ e \in open => sock'[e].disconnected
  <2>1. sock[e] \in SocketType
    BY <1>2, StreamTypes
  <2>2. CASE e \notin open
    BY <1>1, <2>1, <2>2
  <2>3. CASE e \in open
    <3>1. PICK s : s = [sock[e] EXCEPT !.handle = "closed"]
      OBVIOUS
    <3>2. /\ s \in SocketType /\ s.handle = "closed" /\ s.incoming = sock[e].incoming
          /\ s.outgoing = sock[e].outgoing
      BY <2>1, <3>1 DEF SocketType
    <3>3. PICK t : t = [s EXCEPT !.disconnected = TRUE]
      OBVIOUS
    <3>4. sock'[e] = t
      BY <1>1, <2>3, <3>1, <3>3
    <3>5. /\ t \in SocketType /\ t.disconnected /\ t.handle = s.handle
          /\ t.incoming = s.incoming /\ t.outgoing = s.outgoing
      BY <3>2, <3>3, DisconnectedFacts
    <3> QED
      BY <2>3, <3>2, <3>4, <3>5
  <2> QED
    BY <2>2, <2>3
<1>4. DOMAIN backlog = Process /\ backlog'[p] = <<>>
      /\ \A q \in Process : q # p => backlog'[q] = backlog[q]
  BY <1>1, <1>2 DEF NetTypes
<1>5. \A e \in closing :
        \/ sock[e].handle # "none" /\ sock'[e].disconnected
        \/ \E q \in Process : \E c \in Range(backlog[q]) : e = Server(c) /\ backlog'[q] = <<>>
  <2>1. ASSUME NEW e \in open PROVE sock[e].handle # "none" /\ sock'[e].disconnected
    BY <1>3
  <2>2. ASSUME NEW e \in waiting
        PROVE  \E q \in Process : \E c \in Range(backlog[q]) : e = Server(c) /\ backlog'[q] = <<>>
    BY <1>4
  <2> QED
    BY <2>1, <2>2
<1>6. closing \subseteq Endpoint
  <2>1. \A c \in Range(backlog[p]) : c \in Conn
    BY <1>2, ListMembers DEF NetTypes
  <2> QED
    BY <2>1, EndpointFacts
<1>7. sock' = [e \in Endpoint |-> sock'[e]] /\ DOMAIN sock' = Endpoint
  BY <1>1
<1>8. \A q \in Process : backlog'[q] \in {backlog[q], <<>>}
  BY <1>4
<1> HIDE DEF closing
<1>9. Quiet
  BY <1>1, <1>3, <1>5, <1>6, <1>7, <1>8, ClosingQuiet
<1>10. HandlesStay /\ BytesStay
  BY <1>9, QuietHandles DEF Quiet, BytesStay
<1>11. /\ DOMAIN round' = Process /\ \A q \in Process : round'[q] \in RoundType(q)'
       /\ InRound' /\ Parsed'
  BY <1>1, <1>4, <1>10, RoundOver
<1>12. DOMAIN mSockets' = Process /\ \A q \in Process : mSockets'[q] \in SocketLists(q)'
  <2>1. DOMAIN mSockets = Process
    BY <1>2 DEF NetTypes
  <2>2. <<>> \in SocketLists(p)'
    BY ListsJoin DEF SocketLists
  <2> QED
    BY <1>1, <1>2, <1>10, <2>1, <2>2, RoundsStay
<1>13. NetTypes'
  <2>1. sock' \in [Endpoint -> SocketType] /\ wire' \in [Endpoint -> WireType]
    BY <1>9 DEF Quiet
  <2>2. backlog' \in [Process -> Seq(Conn)] /\ \A q \in Process : Len(backlog'[q]) <= Backlog
    <3>1. backlog \in [Process -> Seq(Conn)] /\ \A q \in Process : Len(backlog[q]) <= Backlog
      BY <1>2 DEF NetTypes
    <3>2. <<>> \in Seq(Conn) /\ Len(<<>>) <= Backlog
      BY EmptySeq, BoundsAssumption
    <3> QED
      BY <1>1, <1>4, <3>1, <3>2
  <2>3. stage' \in [Process -> {"running", "flushing", "closing", "exited"}]
    BY <1>1, <1>2 DEF NetTypes
  <2>4. posted' \in [Endpoint -> Seq(Packet)] /\ taken' \in [Endpoint -> Seq(Packet)]
    BY <1>1, <1>2 DEF NetTypes
  <2> QED
    BY <1>2, <1>10, <1>11, <1>12, <2>1, <2>2, <2>3, <2>4, TypesAfter
<1> QED
  BY <1>9, <1>11, <1>13, OrderlyQuiet DEF Orderly

-----------------------------------------------------------------------------
(* The steps that open a socket, receive bytes, or hand over a packet.     *)

(* A stream nothing was posted to has no bytes.                            *)
LEMMA Silent ==
  ASSUME NetTypes, NEW e \in Endpoint, Stream(e), posted[e] = <<>>
  PROVE  /\ <<>> \in Following(e)
         /\ sock[Peer(e)].incoming = <<>> /\ wire[e].bytes = <<>>
<1>1. /\ posted[e] \in Seq(Packet) /\ taken[e] \in Seq(Packet)
      /\ Len(taken[e]) \in 0..Len(posted[e])
  BY RemainingType DEF Stream
<1>2. Len(taken[e]) = 0 /\ Len(posted[e]) = 0
  <2>1. Len(posted[e]) = 0
    BY EmptySeq
  <2> QED
    BY <1>1, <2>1
<1>3. Remaining(e) = <<>>
  BY <1>2, SubSeqEmpty DEF Remaining, Beyond
<1>4. sock[Peer(e)].incoming \in Seq(Byte) /\ wire[e].bytes \in Seq(Byte)
  BY EndpointFacts, StreamTypes
<1>5. PICK rest \in Rests(sock[Peer(e)].incoming, wire[e].bytes, <<>>) : TRUE
  BY <1>3 DEF Stream, Following
<1>6. rest = <<>> /\ sock[Peer(e)].incoming = <<>> /\ wire[e].bytes = <<>>
  BY <1>4, <1>5, RestsNothing
<1> QED
  BY <1>3, <1>5, <1>6 DEF Following

(* A packet is posted to the socket at one end.                            *)
LEMMA Posts ==
  ASSUME NetTypes, NEW e \in Endpoint, Stream(e), NEW m \in Packet,
         posted'[e] = Append(posted[e], m), taken'[e] = taken[e],
         sock'[Peer(e)].incoming = sock[Peer(e)].incoming,
         wire'[e].bytes = wire[e].bytes,
         sock'[e].outgoing = sock[e].outgoing \o Frame(m),
         CanWrite(e)' => CanWrite(e) \/ (posted[e] = <<>> /\ sock[e].outgoing = <<>>)
  PROVE  Stream(e)'
<1>1. /\ posted[e] \in Seq(Packet) /\ taken[e] \in Seq(Packet)
      /\ Len(taken[e]) \in 0..Len(posted[e]) /\ Remaining(e) \in Seq(Packet)
  BY RemainingType DEF Stream
<1>2. Remaining(e)' = Append(Remaining(e), m)
  <2>1. PICK n \in 0..Len(posted[e]) : n = Len(taken[e])
    BY <1>1
  <2>2. Beyond(Append(posted[e], m), n) = Append(Beyond(posted[e], n), m)
    BY <1>1, Leftover
  <2> QED
    BY <2>1, <2>2 DEF Remaining
<1>3. Following(e)' = Rests(sock[Peer(e)].incoming, wire[e].bytes, Append(Remaining(e), m))
  BY <1>2 DEF Following
<1>4. sock[Peer(e)].incoming \in Seq(Byte) /\ wire[e].bytes \in Seq(Byte)
  BY EndpointFacts, StreamTypes
<1>5. ASSUME NEW rest \in Following(e) PROVE rest \o Frame(m) \in Following(e)'
  BY <1>1, <1>3, <1>4, RestsPosted DEF Following
<1>6. CanWrite(e)' => sock[e].outgoing \in Following(e)
  BY Silent DEF Stream
<1>7. Len(taken'[e]) <= Len(posted'[e])
  <2>1. Len(Append(posted[e], m)) = Len(posted[e]) + 1
    BY <1>1, AppendProperties
  <2> QED
    BY <1>1, <2>1
<1>8. Following(e)' # {}
  BY <1>5 DEF Stream
<1> QED
  BY <1>5, <1>6, <1>7, <1>8 DEF Stream

(* The packet that ReceivePacket() takes out of a socket is the first one  *)
(* its peer has posted and that has not been handed over.                  *)
LEMMA Hands ==
  ASSUME NetTypes, NEW f \in Endpoint, NEW e, e = Peer(f), Stream(f), PacketReady(sock[e]),
         NEW t, t = AfterReceivePacket(sock[e])
  PROVE  /\ Len(taken[f]) < Len(posted[f])
         /\ ReceivedPacket(sock[e]) = posted[f][Len(taken[f]) + 1]
         /\ ReceivedPacket(sock[e]) \in Packet
         /\ t \in SocketType /\ t.handle = sock[e].handle /\ t.disconnected = sock[e].disconnected
         /\ t.toDisconnect = sock[e].toDisconnect /\ t.outgoing = sock[e].outgoing
         /\ \A rest \in Following(f) :
              rest \in Rests(t.incoming, wire[f].bytes, Tail(Remaining(f)))
         /\ Beyond(posted[f], Len(taken[f]) + 1) = Tail(Remaining(f))
<1>1. /\ posted[f] \in Seq(Packet) /\ taken[f] \in Seq(Packet)
      /\ Len(taken[f]) \in 0..Len(posted[f]) /\ Remaining(f) \in Seq(Packet)
  BY RemainingType DEF Stream
<1>2. e \in Endpoint /\ sock[e] \in SocketType
  BY EndpointFacts, StreamTypes
<1>3. PICK a \in Seq(Byte) : a = sock[e].incoming
  BY <1>2, StreamTypes
<1>4. PICK b \in Seq(Byte) : b = wire[f].bytes
  BY StreamTypes
<1>5. PICK r \in Seq(Packet) : r = Remaining(f)
  BY <1>1
<1>6. Following(f) = Rests(a, b, r)
  BY <1>3, <1>4, <1>5 DEF Following
<1>7. PICK rest0 \in Rests(a, b, r) : TRUE
  BY <1>6 DEF Stream
<1>8. /\ Len(a) > HeaderSize
      /\ Len(a) - HeaderSize >= Number(SubSeq(a, 1, HeaderSize))
      /\ PacketSize(sock[e]) = Number(SubSeq(a, 1, HeaderSize))
  BY <1>3 DEF PacketReady, PacketSize
<1>9. Len(a) \in Nat /\ HeaderSize \in Nat
  BY FramingAssumption
<1>10. r # <<>>
  <2>1. SUFFICES ASSUME r = <<>> PROVE FALSE
    OBVIOUS
  <2>2. a = <<>>
    BY <1>7, <2>1, RestsNothing
  <2>3. Len(a) = 0
    BY <2>2, EmptySeq
  <2> QED
    BY <1>8, <1>9, <2>3
<1>11. PICK F : F = Frame(r[1])
  OBVIOUS
<1>12. Len(a) >= HeaderSize
  BY <1>8, <1>9
<1>13. ASSUME NEW rest \in Rests(a, b, r)
       PROVE  /\ r[1] \in Packet
              /\ Number(SubSeq(a, 1, HeaderSize)) = Len(Write(r[1]))
              /\ Len(a) >= Len(F) =>
                   /\ SubSeq(a, HeaderSize + 1, Len(F)) = Write(r[1])
                   /\ rest \in Rests(SubSeq(a, Len(F) + 1, Len(a)), b, Tail(r))
  BY <1>10, <1>11, <1>12, RestsBegin
<1>14. r[1] \in Packet /\ Number(SubSeq(a, 1, HeaderSize)) = Len(Write(r[1]))
  BY <1>7, <1>13
<1>15. PICK n \in Nat : n = Len(Write(r[1])) /\ Len(F) = HeaderSize + n
  BY <1>11, <1>14, FrameParts
<1>16. PacketSize(sock[e]) = n /\ HeaderSize + n <= Len(a) /\ Len(a) >= Len(F)
  BY <1>8, <1>9, <1>14, <1>15
<1>17. ReceivedPacket(sock[e]) = r[1]
  <2>1. SubSeq(a, HeaderSize + 1, Len(F)) = Write(r[1])
    BY <1>7, <1>13, <1>16
  <2>2. ReceivedPacket(sock[e]) = Read(SubSeq(a, HeaderSize + 1, HeaderSize + n))
    BY <1>3, <1>16 DEF ReceivedPacket
  <2>3. Read(Write(r[1])) = r[1]
    <3>1. PICK m \in Packet : m = r[1]
      BY <1>14
    <3>2. Read(Write(m)) = m
      BY PacketWritten
    <3> QED
      BY ONLY <3>1, <3>2
  <2> QED
    BY <1>15, <2>1, <2>2, <2>3
<1>18. /\ t \in SocketType /\ t.handle = sock[e].handle /\ t.disconnected = sock[e].disconnected
       /\ t.toDisconnect = sock[e].toDisconnect /\ t.outgoing = sock[e].outgoing
       /\ t.incoming = SubSeq(a, HeaderSize + n + 1, Len(a))
  BY <1>2, <1>3, <1>16, AfterReceiveFacts
<1>19. t.incoming = SubSeq(a, Len(F) + 1, Len(a))
  BY <1>15, <1>18
<1>20. /\ Len(taken[f]) < Len(posted[f]) /\ r[1] = posted[f][Len(taken[f]) + 1]
       /\ Beyond(posted[f], Len(taken[f]) + 1) = Tail(r)
  <2>1. PICK k \in 0..Len(posted[f]) : k = Len(taken[f])
    BY <1>1
  <2>2. r = Beyond(posted[f], k)
    BY <1>5, <2>1 DEF Remaining
  <2>3. /\ k < Len(posted[f]) /\ r[1] = posted[f][k + 1]
        /\ Beyond(posted[f], k + 1) = Tail(r)
    BY <1>1, <1>10, <2>2, Leftover
  <2> QED
    BY <2>1, <2>3
<1>21. \A rest \in Following(f) : rest \in Rests(t.incoming, b, Tail(r))
  BY <1>6, <1>13, <1>16, <1>19
<1> QED
  BY <1>4, <1>5, <1>14, <1>17, <1>18, <1>20, <1>21

(* A new connection waits for its server, and carries the request.         *)
LEMMA OpenStep ==
  ASSUME NetInv, NEW c \in Conn, Open(c)
  PROVE  NetInv'
<1>1. NetTypes /\ Unopened /\ Fresh /\ Ended /\ Backlogged /\ Parsed /\ InRound /\ StreamsHold
  BY DEF NetInv
<1>2. PICK e \in Endpoint, f \in Endpoint :
        /\ e = Client(c) /\ f = Server(c) /\ e = Peer(f) /\ f = Peer(e) /\ e # f
        /\ Owner(e) = ClientOf[c]
  BY EndpointFacts
<1>3. PICK p \in Process, q \in Process : p = ClientOf[c] /\ q = ServerOf[c]
  BY ConnAssumption
<1>4. PICK m \in Packet : m = Request[c]
  BY ConnAssumption
<1>5. PICK s : s = SendPacket(NewSocket, m)
  OBVIOUS
<1>6. /\ sock[e] = NoSocket /\ Len(backlog[q]) < Backlog
      /\ sock' = [sock EXCEPT ![e] = s]
      /\ posted' = [posted EXCEPT ![e] = Append(@, m)]
      /\ mSockets' = [mSockets EXCEPT ![p] = Append(@, e)]
      /\ backlog' = [backlog EXCEPT ![q] = Append(@, c)]
      /\ UNCHANGED << wire, round, stage, taken >>
  BY <1>2, <1>3, <1>4, <1>5 DEF Open
<1>7. /\ s \in SocketType /\ s.handle = "open" /\ ~s.disconnected /\ s.incoming = <<>>
      /\ s.outgoing = <<>> \o Frame(m)
  <2>1. PICK new \in SocketType :
          /\ new = NewSocket /\ new.handle = "open" /\ ~new.disconnected
          /\ new.incoming = <<>> /\ new.outgoing = <<>>
    BY NewSocketFacts
  <2>2. /\ s \in SocketType /\ s.handle = new.handle /\ s.disconnected = new.disconnected
        /\ s.incoming = new.incoming /\ s.outgoing = new.outgoing \o Frame(m)
    BY ONLY <1>5, <2>1, new \in SocketType, m \in Packet, SendPacketFacts
  <2> QED
    BY ONLY <2>1, <2>2
<1>8. /\ sock[e].handle = "none" /\ sock[e].incoming = <<>> /\ sock[e].outgoing = <<>>
      /\ posted[e] = <<>> /\ sock[f].handle = "none"
      /\ wire[e].end = "open" /\ wire[f].end = "open"
  BY <1>1, <1>2, <1>6, NewSocketFacts DEF Unopened, Fresh
<1>9. /\ sock' \in [Endpoint -> SocketType] /\ sock'[e] = s
      /\ \A g \in Endpoint : g # e => sock'[g] = sock[g]
  BY <1>1, <1>6, <1>7 DEF NetTypes
<1>10. /\ posted'[e] = Append(posted[e], m) /\ posted' \in [Endpoint -> Seq(Packet)]
       /\ \A g \in Endpoint : g # e => posted'[g] = posted[g]
  BY <1>1, <1>6, AppendProperties DEF NetTypes
<1>11. HandlesStay /\ BytesStay
  BY <1>7, <1>8, <1>9 DEF HandlesStay, BytesStay
<1>12. /\ backlog[q] \in Seq(Conn) /\ backlog'[q] = Append(backlog[q], c)
       /\ \A r \in Process : r # q => backlog'[r] = backlog[r]
  BY <1>1, <1>6 DEF NetTypes
<1>13. PICK n \in Nat : n = Len(backlog[q])
  BY <1>12
<1>14. /\ backlog'[q] \in Seq(Conn) /\ Len(backlog'[q]) = n + 1 /\ backlog'[q][n + 1] = c
       /\ backlog'[q] # <<>> /\ \A i \in 1..n : backlog'[q][i] = backlog[q][i]
  BY <1>12, <1>13, AppendProperties
<1>15. NetTypes'
  <2>1. backlog' \in [Process -> Seq(Conn)] /\ \A r \in Process : Len(backlog'[r]) <= Backlog
    <3>1. backlog \in [Process -> Seq(Conn)] /\ \A r \in Process : Len(backlog[r]) <= Backlog
      BY <1>1 DEF NetTypes
    <3>2. n + 1 <= Backlog
      BY <1>6, <1>13, BoundsAssumption
    <3>3. backlog' \in [Process -> Seq(Conn)]
      BY <1>6, <1>12, <1>14, <3>1
    <3> QED
      BY <1>12, <1>14, <3>1, <3>2, <3>3
  <2>2. DOMAIN mSockets' = Process /\ \A r \in Process : mSockets'[r] \in SocketLists(r)'
    <3>1. DOMAIN mSockets = Process /\ mSockets[p] \in SocketLists(p)'
      BY <1>1, <1>11, RoundsStay DEF NetTypes
    <3>2. e \in Held(p)'
      BY <1>2, <1>3, <1>7, <1>9 DEF Held
    <3>3. Append(mSockets[p], e) \in SocketLists(p)'
      BY <3>1, <3>2, EndpointFacts, ListsMove DEF SocketLists
    <3> QED
      BY <1>1, <1>6, <1>11, <3>1, <3>3, RoundsStay
  <2>3. /\ wire' \in [Endpoint -> WireType] /\ DOMAIN round' = Process
        /\ stage' \in [Process -> {"running", "flushing", "closing", "exited"}]
        /\ taken' \in [Endpoint -> Seq(Packet)]
    BY <1>1, <1>6 DEF NetTypes
  <2>4. \A r \in Process : round'[r] \in RoundType(r)'
    BY <1>1, <1>6, <1>11, RoundsStay
  <2> QED
    BY <1>1, <1>9, <1>10, <1>11, <2>1, <2>2, <2>3, <2>4, TypesAfter
<1>16. InRound'
  <2>1. \A r \in Process : backlog[r] # <<>> => backlog'[r] # <<>>
    BY <1>12, <1>14
  <2> QED
    BY <1>1, <1>6, <2>1 DEF InRound
<1>17. Unopened'
  BY <1>1, <1>7, <1>9, <1>10 DEF Unopened
<1>18. Fresh'
  <2>1. ASSUME NEW d \in Conn, sock'[Client(d)].handle = "none"
        PROVE  /\ sock'[Server(d)].handle = "none"
               /\ wire'[Client(d)].end = "open" /\ wire'[Server(d)].end = "open"
    <3>1. Client(d) \in Endpoint /\ Server(d) \in Endpoint /\ Server(d) # e
      BY <1>2, EndpointFacts
    <3>2. Client(d) # e
      BY <1>7, <1>9, <2>1
    <3>3. sock'[Client(d)] = sock[Client(d)] /\ sock'[Server(d)] = sock[Server(d)]
      BY <1>9, <3>1, <3>2
    <3> QED
      BY <1>1, <1>6, <2>1, <3>3 DEF Fresh
  <2> QED
    BY <2>1 DEF Fresh
<1>19. Ended'
  <2>1. ASSUME NEW g \in Endpoint, wire'[g].end # "open"
        PROVE  sock'[g].handle = "none" \/ sock'[g].disconnected
    <3>1. g # e /\ wire[g].end # "open"
      BY <1>6, <1>8, <2>1
    <3> QED
      BY <1>1, <1>9, <3>1 DEF Ended
  <2> QED
    BY <2>1 DEF Ended
<1>20. Backlogged'
  <2>1. ASSUME NEW r \in Process, NEW i \in 1..Len(backlog[r])
        PROVE  /\ backlog[r][i] \in Conn /\ ServerOf[backlog[r][i]] = r
               /\ backlog[r][i] # c
               /\ sock'[Server(backlog[r][i])].handle = "none"
               /\ wire'[Server(backlog[r][i])].end = "open"
               /\ sock'[Client(backlog[r][i])].handle # "none"
               /\ \A j \in 1..Len(backlog[r]) : backlog[r][j] = backlog[r][i] => j = i
    <3>1. PICK d : d = backlog[r][i]
      OBVIOUS
    <3>2. d \in Conn
      BY <1>1, <3>1, ElementOfSeq DEF NetTypes
    <3>3. /\ ServerOf[d] = r
          /\ sock[Server(d)].handle = "none" /\ wire[Server(d)].end = "open"
          /\ sock[Client(d)].handle # "none"
          /\ \A j \in 1..Len(backlog[r]) : backlog[r][j] = d => j = i
      BY <1>1, <3>1 DEF Backlogged
    <3>4. d # c /\ Client(d) # e /\ Server(d) # e
      <4>1. Client(d) # e
        BY <1>8, <3>3
      <4>2. d # c
        BY <1>2, <4>1
      <4>3. Client(c) # Server(d)
        BY <3>2, EndpointFacts
      <4> QED
        BY <1>2, <4>1, <4>2, <4>3
    <3>5. sock'[Client(d)] = sock[Client(d)] /\ sock'[Server(d)] = sock[Server(d)]
      BY <1>9, <3>2, <3>4, EndpointFacts
    <3> QED
      BY <1>6, <3>1, <3>2, <3>3, <3>4, <3>5
  <2>2. ASSUME NEW r \in Process, NEW i \in 1..Len(backlog'[r]), NEW d, d = backlog'[r][i]
        PROVE  /\ ServerOf[d] = r
               /\ sock'[Server(d)].handle = "none" /\ wire'[Server(d)].end = "open"
               /\ sock'[Client(d)].handle # "none"
               /\ \A j \in 1..Len(backlog'[r]) : backlog'[r][j] = d => j = i
    <3>1. CASE r # q
      BY <1>12, <2>1, <2>2, <3>1
    <3>2. CASE r = q /\ i # n + 1
      <4>1. i \in 1..n /\ d = backlog[q][i] /\ d # c
        BY <1>13, <1>14, <2>1, <2>2, <3>2
      <4>2. ASSUME NEW j \in 1..(n + 1), backlog'[q][j] = d PROVE j = i
        <5>1. j # n + 1
          BY <1>14, <4>1, <4>2
        <5>2. j \in 1..n
          BY <5>1
        <5> QED
          BY <1>13, <1>14, <2>1, <4>1, <4>2, <5>2
      <4> QED
        BY <1>13, <1>14, <2>1, <3>2, <4>1, <4>2
    <3>3. CASE r = q /\ i = n + 1
      <4>1. d = c
        BY <1>14, <2>2, <3>3
      <4>2. ASSUME NEW j \in 1..(n + 1), backlog'[q][j] = c PROVE j = n + 1
        <5>1. SUFFICES ASSUME j # n + 1 PROVE FALSE
          OBVIOUS
        <5>2. j \in 1..n /\ backlog[q][j] = c
          BY <1>14, <4>2, <5>1
        <5> QED
          BY <1>13, <2>1, <5>2
      <4>3. sock'[Server(c)].handle = "none" /\ wire'[Server(c)].end = "open"
        BY <1>2, <1>6, <1>8, <1>9
      <4>4. sock'[Client(c)].handle # "none"
        BY <1>2, <1>7, <1>9
      <4> QED
        BY <1>3, <1>14, <3>3, <4>1, <4>2, <4>3, <4>4
    <3> QED
      BY <3>1, <3>2, <3>3
  <2> QED
    BY <2>2 DEF Backlogged
<1>21. Parsed'
  <2>1. ReadersStay
    BY <1>6 DEF ReadersStay
  <2> QED
    BY <1>1, <1>11, <2>1, ParsedStays
<1>22. ASSUME NEW g \in Endpoint PROVE Stream(g)'
  <2>1. Stream(g) /\ Peer(g) \in Endpoint
    BY <1>1, EndpointFacts DEF StreamsHold
  <2>2. sock'[Peer(g)].incoming = sock[Peer(g)].incoming /\ taken'[g] = taken[g]
        /\ wire'[g].bytes = wire[g].bytes
    BY <1>6, <1>11, <2>1 DEF BytesStay
  <2>3. CASE g = e
    <3>1. sock'[e].outgoing = sock[e].outgoing \o Frame(m)
      BY <1>7, <1>8, <1>9
    <3> QED
      BY <1>1, <1>8, <1>10, <2>1, <2>2, <2>3, <3>1, Posts
  <2>4. CASE g # e
    <3>1. CanWrite(g)' => CanWrite(g) /\ sock'[g].outgoing = sock[g].outgoing
      BY <1>6, <1>9, <2>4 DEF CanWrite
    <3>2. posted'[g] = posted[g]
      BY <1>10, <2>4
    <3> QED
      BY <1>1, <2>1, <2>2, <3>1, <3>2, StreamStays
  <2> QED
    BY <2>3, <2>4
<1> QED
  BY <1>15, <1>16, <1>17, <1>18, <1>19, <1>20, <1>21, <1>22 DEF NetInv, StreamsHold

(* The connection that waits longest gets its socket.                      *)
LEMMA AcceptStep ==
  ASSUME NetInv, NEW p \in Process, Accept(p)
  PROVE  NetInv'
<1>1. NetTypes /\ Unopened /\ Fresh /\ Ended /\ Backlogged /\ Parsed /\ InRound /\ StreamsHold
  BY DEF NetInv
<1>2. /\ round[p].readable # <<>> /\ Head(round[p].readable) = Listener(p)
      /\ round' = NextReadable(p)
      /\ UNCHANGED << wire, stage, posted, taken >>
  BY DEF Accept, Reads
<1>3. backlog[p] # <<>> /\ backlog[p] \in Seq(Conn)
  BY <1>1, <1>2 DEF InRound, NetTypes
<1>4. PICK n \in Nat : n + 1 = Len(backlog[p])
  <2>1. Len(backlog[p]) \in Nat \ {0}
    BY <1>3, EmptySeq
  <2>2. Len(backlog[p]) - 1 \in Nat
    BY <2>1
  <2> QED
    BY <2>1, <2>2
<1>5. PICK c \in Conn : c = Head(backlog[p]) /\ c = backlog[p][1]
  <2>1. Head(backlog[p]) \in Conn
    BY <1>3, HeadTailProperties
  <2>2. Head(backlog[p]) = backlog[p][1]
    BY <1>3
  <2> QED
    BY <2>1, <2>2
<1>6. PICK e \in Endpoint, f \in Endpoint :
        /\ e = Server(c) /\ f = Client(c) /\ f = Peer(e) /\ e = Peer(f) /\ e # f
        /\ Owner(e) = ServerOf[c]
        /\ \A d \in Conn : Client(d) # e /\ (Server(d) = e => d = c)
  <2>1. \A d \in Conn : Client(d) # Server(c) /\ (Server(d) = Server(c) => d = c)
    BY DEF Client, Server
  <2> QED
    BY <2>1, EndpointFacts
<1>7. /\ sock' = [sock EXCEPT ![e] = NewSocket]
      /\ mSockets' = [mSockets EXCEPT ![p] = Append(@, e)]
      /\ backlog' = [backlog EXCEPT ![p] = Tail(@)]
  BY <1>5, <1>6 DEF Accept
<1>8. /\ ServerOf[c] = p /\ sock[e].handle = "none" /\ wire[e].end = "open"
      /\ sock[f].handle # "none"
      /\ \A j \in 1..(n + 1) : backlog[p][j] = c => j = 1
  <2>1. 1 \in 1..Len(backlog[p])
    BY <1>4
  <2>2. \A i \in 1..Len(backlog[p]) : backlog[p][i] = c =>
          /\ ServerOf[c] = p
          /\ sock[Server(c)].handle = "none" /\ wire[Server(c)].end = "open"
          /\ sock[Client(c)].handle # "none"
          /\ \A j \in 1..Len(backlog[p]) : backlog[p][j] = c => j = i
    BY <1>1 DEF Backlogged
  <2> QED
    BY ONLY <1>4, <1>5, <1>6, <2>1, <2>2
<1>9. sock[e].incoming = <<>> /\ posted[e] = <<>>
  BY <1>1, <1>8 DEF Unopened
<1>10. PICK s \in SocketType :
         /\ s = NewSocket /\ s.handle = "open" /\ s.incoming = <<>> /\ s.outgoing = <<>>
         /\ ~s.disconnected
  BY NewSocketFacts
<1>11. /\ sock' \in [Endpoint -> SocketType] /\ sock'[e] = s
       /\ \A g \in Endpoint : g # e => sock'[g] = sock[g]
  <2>1. sock \in [Endpoint -> SocketType] /\ sock' = [sock EXCEPT ![e] = s]
    BY <1>1, <1>7, <1>10 DEF NetTypes
  <2> HIDE DEF SocketType
  <2> QED
    BY ONLY <2>1, e \in Endpoint, s \in SocketType
<1>12. HandlesStay /\ BytesStay
  BY <1>8, <1>9, <1>10, <1>11 DEF HandlesStay, BytesStay
<1>13. /\ \A q \in Process : q # p => backlog'[q] = backlog[q]
       /\ backlog' \in [Process -> Seq(Conn)] /\ backlog'[p] = Tail(backlog[p])
       /\ Len(backlog'[p]) = n
       /\ \A i \in 1..n : backlog'[p][i] = backlog[p][i + 1]
  <2>1. backlog \in [Process -> Seq(Conn)]
    BY <1>1 DEF NetTypes
  <2>2. PICK t \in Seq(Conn) :
          /\ t = Tail(backlog[p]) /\ Len(t) = Len(backlog[p]) - 1
          /\ \A i \in 1..Len(t) : t[i] = backlog[p][i + 1]
    BY <1>3, HeadTailProperties
  <2>3. backlog' = [backlog EXCEPT ![p] = t]
    BY <1>7, <2>2
  <2>4. Len(t) = n
    BY <1>4, <2>2
  <2> QED
    BY <2>1, <2>2, <2>3, <2>4
<1>14. /\ DOMAIN round' = Process /\ \A q \in Process : round'[q] \in RoundType(q)'
       /\ \A q \in Process : q # p => round'[q] = round[q]
       /\ InRound'
  BY <1>1, <1>2, <1>12, <1>13, ReadsOn
<1>15. NetTypes'
  <2>1. \A r \in Process : Len(backlog'[r]) <= Backlog
    <3>1. \A r \in Process : Len(backlog[r]) <= Backlog
      BY <1>1 DEF NetTypes
    <3>2. n <= Backlog
      BY <1>4, <3>1, BoundsAssumption
    <3> QED
      BY <1>13, <3>1, <3>2
  <2>2. DOMAIN mSockets' = Process /\ \A r \in Process : mSockets'[r] \in SocketLists(r)'
    <3>1. DOMAIN mSockets = Process /\ mSockets[p] \in SocketLists(p)'
      BY <1>1, <1>12, RoundsStay DEF NetTypes
    <3>2. e \in Held(p)'
      BY <1>6, <1>8, <1>10, <1>11 DEF Held
    <3>3. Append(mSockets[p], e) \in SocketLists(p)'
      BY <3>1, <3>2, EndpointFacts, ListsMove DEF SocketLists
    <3> QED
      BY <1>1, <1>7, <1>12, <3>1, <3>3, RoundsStay
  <2>3. /\ wire' \in [Endpoint -> WireType]
        /\ stage' \in [Process -> {"running", "flushing", "closing", "exited"}]
        /\ posted' \in [Endpoint -> Seq(Packet)] /\ taken' \in [Endpoint -> Seq(Packet)]
    BY <1>1, <1>2 DEF NetTypes
  <2> QED
    BY <1>1, <1>11, <1>12, <1>13, <1>14, <2>1, <2>2, <2>3, TypesAfter
<1>16. Unopened'
  BY <1>1, <1>2, <1>10, <1>11 DEF Unopened
<1>17. Fresh'
  <2>1. ASSUME NEW d \in Conn, sock'[Client(d)].handle = "none"
        PROVE  /\ sock'[Server(d)].handle = "none"
               /\ wire'[Client(d)].end = "open" /\ wire'[Server(d)].end = "open"
    <3>1. /\ Client(d) \in Endpoint /\ Server(d) \in Endpoint /\ Client(d) # e
          /\ Server(d) = e => d = c
      <4>1. Client(d) \in Endpoint /\ Server(d) \in Endpoint
        BY EndpointFacts
      <4> QED
        BY <1>6, <4>1
    <3>2. sock[Client(d)].handle = "none"
      BY <1>11, <2>1, <3>1
    <3>3. Server(d) # e
      BY <1>6, <1>8, <3>1, <3>2
    <3>4. sock'[Server(d)] = sock[Server(d)]
      BY <1>11, <3>1, <3>3
    <3> QED
      BY <1>1, <1>2, <3>2, <3>4 DEF Fresh
  <2> QED
    BY <2>1 DEF Fresh
<1>18. Ended'
  <2>1. ASSUME NEW g \in Endpoint, wire'[g].end # "open"
        PROVE  sock'[g].handle = "none" \/ sock'[g].disconnected
    <3>1. g # e /\ wire[g].end # "open"
      BY <1>2, <1>8, <2>1
    <3> QED
      BY <1>1, <1>11, <3>1 DEF Ended
  <2> QED
    BY <2>1 DEF Ended
<1>19. Backlogged'
  <2>1. ASSUME NEW r \in Process, NEW k \in 1..Len(backlog[r]),
               NEW d, d = backlog[r][k], d # c
        PROVE  /\ ServerOf[d] = r
               /\ sock'[Server(d)].handle = "none" /\ wire'[Server(d)].end = "open"
               /\ sock'[Client(d)].handle # "none"
               /\ \A j \in 1..Len(backlog[r]) : backlog[r][j] = d => j = k
    <3>1. d \in Conn
      BY <1>1, <2>1, ElementOfSeq DEF NetTypes
    <3>2. /\ ServerOf[d] = r
          /\ sock[Server(d)].handle = "none" /\ wire[Server(d)].end = "open"
          /\ sock[Client(d)].handle # "none"
          /\ \A j \in 1..Len(backlog[r]) : backlog[r][j] = d => j = k
      BY <1>1, <2>1 DEF Backlogged
    <3>3. Client(d) # e /\ Server(d) # e
      BY <1>6, <2>1, <3>1
    <3>4. sock'[Client(d)] = sock[Client(d)] /\ sock'[Server(d)] = sock[Server(d)]
      BY <1>11, <3>1, <3>3, EndpointFacts
    <3> QED
      BY <1>2, <3>2, <3>4
  <2>2. ASSUME NEW r \in Process, NEW i \in 1..Len(backlog'[r]), NEW d, d = backlog'[r][i]
        PROVE  /\ ServerOf[d] = r
               /\ sock'[Server(d)].handle = "none" /\ wire'[Server(d)].end = "open"
               /\ sock'[Client(d)].handle # "none"
               /\ \A j \in 1..Len(backlog'[r]) : backlog'[r][j] = d => j = i
    <3>1. CASE r # p
      <4>1. backlog'[r] = backlog[r]
        BY <1>13, <3>1
      <4>2. i \in 1..Len(backlog[r]) /\ d = backlog[r][i]
        BY <2>2, <4>1
      <4>3. ServerOf[d] = r
        BY ONLY <1>1, <4>2, r \in Process, Waiting
      <4>4. d # c
        BY ONLY <1>8, <3>1, <4>3
      <4> QED
        BY <2>1, <4>1, <4>2, <4>4
    <3>2. CASE r = p
      <4>1. i \in 1..n /\ i + 1 \in 1..(n + 1) /\ i + 1 # 1
        <5>1. i \in 1..n
          BY <1>13, <2>2, <3>2
        <5> QED
          BY <5>1
      <4>2. d = backlog[p][i + 1] /\ d # c
        BY <1>8, <1>13, <2>2, <3>2, <4>1
      <4>3. /\ ServerOf[d] = p
            /\ sock'[Server(d)].handle = "none" /\ wire'[Server(d)].end = "open"
            /\ sock'[Client(d)].handle # "none"
            /\ \A j \in 1..(n + 1) : backlog[p][j] = d => j = i + 1
        BY <1>4, <2>1, <4>1, <4>2
      <4>4. ASSUME NEW j \in 1..n, backlog'[p][j] = d PROVE j = i
        <5>1. j + 1 \in 1..(n + 1) /\ backlog[p][j + 1] = d
          BY <1>13, <4>4
        <5>2. j + 1 = i + 1
          BY <4>3, <5>1
        <5> QED
          BY <4>1, <5>2
      <4> QED
        BY <1>13, <3>2, <4>3, <4>4
    <3> QED
      BY <3>1, <3>2
  <2> QED
    BY <2>2 DEF Backlogged
<1>20. Parsed'
  <2>1. ASSUME NEW g \in Endpoint, Whole(sock[g].incoming)
        PROVE  round'[Owner(g)] = round[Owner(g)]
    <3>1. Head(round[Owner(g)].readable) = g /\ Owner(g) \in Process
      BY <1>1, <2>1, EndpointFacts DEF Parsed
    <3>2. Owner(g) # p
      BY <1>2, <3>1, EndpointFacts
    <3> QED
      BY <1>14, <3>1, <3>2
  <2>2. ReadersStay
    BY <2>1 DEF ReadersStay
  <2> QED
    BY <1>1, <1>12, <2>2, ParsedStays
<1>21. ASSUME NEW g \in Endpoint PROVE Stream(g)'
  <2>1. Stream(g) /\ Peer(g) \in Endpoint
    BY <1>1, EndpointFacts DEF StreamsHold
  <2>2. sock'[Peer(g)].incoming = sock[Peer(g)].incoming /\ taken'[g] = taken[g]
        /\ wire'[g].bytes = wire[g].bytes /\ posted'[g] = posted[g]
    BY <1>2, <1>12, <2>1 DEF BytesStay
  <2>3. CASE g = e
    <3>1. <<>> \in Following(e)
      BY <1>1, <1>9, <2>1, <2>3, Silent
    <3>2. Following(e)' = Following(e)
      BY <2>2, <2>3 DEF Following, Remaining
    <3>3. sock'[e].outgoing = <<>>
      BY <1>10, <1>11
    <3> QED
      BY <2>1, <2>2, <2>3, <3>1, <3>2, <3>3 DEF Stream
  <2>4. CASE g # e
    <3>1. CanWrite(g)' => CanWrite(g) /\ sock'[g].outgoing = sock[g].outgoing
      BY <1>2, <1>11, <2>4 DEF CanWrite
    <3> QED
      BY <1>1, <2>1, <2>2, <3>1, StreamStays
  <2> QED
    BY <2>3, <2>4
<1> QED
  BY <1>14, <1>15, <1>16, <1>17, <1>18, <1>19, <1>20, <1>21 DEF NetInv, StreamsHold

(* The bytes on the wire become incoming ones, and parsing begins.         *)
LEMMA ReceiveStep ==
  ASSUME NetInv, NEW p \in Process, NEW e \in Endpoint, Receive(p, e)
  PROVE  NetInv'
<1>1. NetTypes /\ Unopened /\ Fresh /\ Ended /\ Backlogged /\ Parsed /\ InRound /\ StreamsHold
  BY DEF NetInv
<1>2. PICK f \in Endpoint : f = Peer(e) /\ e = Peer(f) /\ e # f
  BY EndpointFacts
<1>3. /\ round[p].readable # <<>> /\ e = Head(round[p].readable) /\ ~round[p].parsing
      /\ sock' = [sock EXCEPT ![e].incoming = @ \o wire[f].bytes]
      /\ wire' = [wire EXCEPT ![f].bytes = <<>>]
      /\ round' = [round EXCEPT ![p].parsing = TRUE]
      /\ UNCHANGED << mSockets, backlog, stage, posted, taken >>
  BY <1>2 DEF Receive, Reads
<1>4. Owner(e) = p /\ sock[e].handle # "none"
  BY <1>1, <1>3, InHeld
<1>5. PICK a \in Seq(Byte) : a = sock[e].incoming
  BY <1>1, StreamTypes
<1>6. PICK b \in Seq(Byte) : b = wire[f].bytes
  BY <1>1, StreamTypes
<1>7. PICK s : s = [sock[e] EXCEPT !.incoming = a \o b]
  OBVIOUS
<1>8. /\ s \in SocketType /\ s.handle = sock[e].handle /\ s.disconnected = sock[e].disconnected
      /\ s.incoming = a \o b /\ s.outgoing = sock[e].outgoing
  <2>1. a \o b \in Seq(Byte)
    BY ConcatProperties
  <2>2. sock[e] \in SocketType
    BY <1>1, StreamTypes
  <2> QED
    BY <1>7, <2>1, <2>2 DEF SocketType
<1>9. /\ sock' \in [Endpoint -> SocketType] /\ sock'[e] = s
      /\ \A g \in Endpoint : g # e => sock'[g] = sock[g]
  <2>1. sock \in [Endpoint -> SocketType] /\ sock' = [sock EXCEPT ![e] = s]
    BY <1>1, <1>3, <1>5, <1>6, <1>7 DEF NetTypes
  <2> HIDE DEF SocketType
  <2> QED
    BY ONLY <2>1, <1>8, e \in Endpoint
<1>10. /\ wire' \in [Endpoint -> WireType]
       /\ \A g \in Endpoint : g # f => wire'[g] = wire[g]
       /\ wire'[f].bytes = <<>> /\ \A g \in Endpoint : wire'[g].end = wire[g].end
  <2>1. wire \in [Endpoint -> WireType]
    BY <1>1 DEF NetTypes
  <2> QED
    BY ONLY <1>3, <2>1, f \in Endpoint, WireEmptied
<1>11. \A g \in Endpoint :
         /\ sock'[g].handle = sock[g].handle /\ sock'[g].disconnected = sock[g].disconnected
         /\ sock'[g].outgoing = sock[g].outgoing
         /\ g # e => sock'[g].incoming = sock[g].incoming
  BY <1>8, <1>9
<1>12. HandlesStay
  BY <1>11 DEF HandlesStay
<1>13. /\ DOMAIN round' = Process
       /\ \A q \in Process : q # p => round'[q] = round[q]
       /\ round'[p].parsing /\ round'[p].readable = round[p].readable
       /\ round'[p].busy = round[p].busy /\ round'[p] \in RoundType(p)
  <2>1. DOMAIN round = Process /\ round[p] \in RoundType(p)
    BY <1>1 DEF NetTypes
  <2>2. PICK t : t = TRUE
    OBVIOUS
  <2>3. PICK r : r = [round[p] EXCEPT !.parsing = t]
    OBVIOUS
  <2>4. /\ r \in RoundType(p) /\ r.parsing = t /\ r.readable = round[p].readable
        /\ r.busy = round[p].busy
    <3>1. t \in BOOLEAN
      BY <2>2
    <3> QED
      BY <2>1, <2>3, <3>1 DEF RoundType
  <2>5. round' = [round EXCEPT ![p] = r]
    BY <1>3, <2>2, <2>3
  <2>6. round'[p] = r /\ DOMAIN round' = Process /\ \A q \in Process : q # p => round'[q] = round[q]
    BY <2>1, <2>5
  <2> QED
    BY <2>2, <2>4, <2>6
<1>14. NetTypes'
  <2>1. ASSUME NEW q \in Process PROVE round'[q] \in RoundType(q)'
    <3>1. round'[q] \in RoundType(q)
      BY <1>1, <1>13 DEF NetTypes
    <3>2. SocketLists(q) \subseteq SocketLists(q)'
      BY <1>12, ListsStay
    <3> QED
      BY <3>1, <3>2 DEF RoundType
  <2>2. /\ backlog' \in [Process -> Seq(Conn)] /\ \A q \in Process : Len(backlog'[q]) <= Backlog
        /\ stage' \in [Process -> {"running", "flushing", "closing", "exited"}]
        /\ posted' \in [Endpoint -> Seq(Packet)] /\ taken' \in [Endpoint -> Seq(Packet)]
    BY <1>1, <1>3 DEF NetTypes
  <2> QED
    BY <1>1, <1>3, <1>9, <1>10, <1>12, <1>13, <2>1, <2>2, RoundsStay, TypesAfter
<1>15. InRound'
  <2>1. ASSUME NEW q \in Process
        PROVE  /\ round'[q].readable # <<>> => round'[q].busy
               /\ round'[q].parsing => round'[q].readable # <<>>
               /\ round'[q].readable # <<>> /\ Head(round'[q].readable) = Listener(q)
                    => backlog'[q] # <<>>
    <3>1. /\ round'[q].readable = round[q].readable /\ round'[q].busy = round[q].busy
          /\ backlog'[q] = backlog[q]
          /\ round'[q].parsing => round[q].parsing \/ q = p
      BY <1>3, <1>13
    <3>2. /\ round[q].readable # <<>> => round[q].busy
          /\ round[q].parsing => round[q].readable # <<>>
          /\ round[q].readable # <<>> /\ Head(round[q].readable) = Listener(q)
               => backlog[q] # <<>>
      BY <1>1 DEF InRound
    <3>3. round[p].readable # <<>>
      BY ONLY <1>3
    <3> QED
      BY ONLY <3>1, <3>2, <3>3
  <2> QED
    BY <2>1 DEF InRound
<1>16. Unopened' /\ Fresh' /\ Ended'
  <2>1. Unopened'
    BY <1>1, <1>3, <1>4, <1>11 DEF Unopened
  <2>2. Fresh'
    BY <1>1, <1>10, <1>11, EndpointFacts DEF Fresh
  <2>3. Ended'
    BY <1>1, <1>10, <1>11 DEF Ended
  <2> QED
    BY <2>1, <2>2, <2>3
<1>17. Backlogged'
  <2>1. ASSUME NEW r \in Process, NEW i \in 1..Len(backlog[r]), NEW d, d = backlog[r][i]
        PROVE  /\ ServerOf[d] = r
               /\ sock'[Server(d)].handle = "none" /\ wire'[Server(d)].end = "open"
               /\ sock'[Client(d)].handle # "none"
               /\ \A j \in 1..Len(backlog[r]) : backlog[r][j] = d => j = i
    <3>1. /\ Client(d) \in Endpoint /\ Server(d) \in Endpoint
          /\ ServerOf[d] = r
          /\ sock[Server(d)].handle = "none" /\ wire[Server(d)].end = "open"
          /\ sock[Client(d)].handle # "none"
          /\ \A j \in 1..Len(backlog[r]) : backlog[r][j] = d => j = i
      BY ONLY <1>1, <2>1, r \in Process, i \in 1..Len(backlog[r]), Waiting
    <3> QED
      BY <1>10, <1>11, <3>1
  <2> QED
    BY <1>3, <2>1 DEF Backlogged
<1>18. Parsed'
  <2>1. ASSUME NEW g \in Endpoint, Whole(sock'[g].incoming)
        PROVE  /\ round'[Owner(g)].parsing
               /\ round'[Owner(g)].readable # <<>> /\ Head(round'[Owner(g)].readable) = g
    <3>1. CASE g = e
      BY <1>3, <1>4, <1>13, <3>1
    <3>2. CASE g # e
      <4>1. /\ round[Owner(g)].parsing /\ Owner(g) \in Process
            /\ round[Owner(g)].readable # <<>> /\ Head(round[Owner(g)].readable) = g
        BY <1>1, <1>11, <2>1, <3>2, EndpointFacts DEF Parsed
      <4> QED
        BY <1>3, <1>13, <4>1
    <3> QED
      BY <3>1, <3>2
  <2> QED
    BY <2>1 DEF Parsed
<1>19. ASSUME NEW g \in Endpoint PROVE Stream(g)'
  <2>1. Stream(g) /\ Peer(g) \in Endpoint
    BY <1>1, EndpointFacts DEF StreamsHold
  <2>2. CanWrite(g)' = CanWrite(g) /\ sock'[g].outgoing = sock[g].outgoing
        /\ posted'[g] = posted[g] /\ taken'[g] = taken[g]
    BY <1>3, <1>10, <1>11, <2>1 DEF CanWrite
  <2>3. CASE g = f
    <3>1. Following(f)' = Rests(a \o b, <<>>, Remaining(f))
      BY <1>2, <1>8, <1>9, <1>10, <2>2, <2>3 DEF Following, Remaining
    <3>2. Following(f) = Rests(a, b, Remaining(f))
      BY <1>2, <1>5, <1>6 DEF Following
    <3>3. Following(f)' = Following(f)
      BY <3>1, <3>2, RestsReceived
    <3> QED
      BY <2>1, <2>2, <2>3, <3>3 DEF Stream
  <2>4. CASE g # f
    <3>1. Peer(g) # e
      BY <1>2, <2>4, EndpointFacts
    <3>2. sock'[Peer(g)].incoming = sock[Peer(g)].incoming /\ wire'[g].bytes = wire[g].bytes
      BY <1>10, <1>11, <2>1, <2>4, <3>1
    <3> QED
      BY <1>1, <2>1, <2>2, <3>2, StreamStays
  <2> QED
    BY <2>3, <2>4
<1> QED
  BY <1>14, <1>15, <1>16, <1>17, <1>18, <1>19 DEF NetInv, StreamsHold

(* What a hand-over does: a packet is taken out of the socket, and the     *)
(* socket may be given an answer.                                          *)
LEMMA HandFacts ==
  ASSUME NetInv, NEW p \in Process, NEW e \in Endpoint, Hand(p, e),
         NEW f \in Endpoint, f = Peer(e), e = Peer(f), e # f
  PROVE  \E s \in SocketType, t \in SocketType, packet \in Packet :
           /\ t = AfterReceivePacket(sock[e]) /\ packet = ReceivedPacket(sock[e])
           /\ sock' = [sock EXCEPT ![e] = s]
           /\ s.handle = sock[e].handle /\ s.disconnected = sock[e].disconnected
           /\ s.incoming = t.incoming
           /\ taken' = [taken EXCEPT ![f] = Append(@, packet)]
           /\ \/ s.outgoing = sock[e].outgoing /\ posted' = posted
              \/ \E reply \in Packet :
                   /\ s.outgoing = sock[e].outgoing \o Frame(reply)
                   /\ posted' = [posted EXCEPT ![e] = Append(@, reply)]
<1>1. NetTypes /\ Stream(f) /\ PacketReady(sock[e])
  BY DEF NetInv, StreamsHold, Hand
<1>2. PICK t : t = AfterReceivePacket(sock[e])
  OBVIOUS
<1>3. PICK packet : packet = ReceivedPacket(sock[e])
  OBVIOUS
<1>4. /\ t \in SocketType /\ t.handle = sock[e].handle /\ t.disconnected = sock[e].disconnected
      /\ t.outgoing = sock[e].outgoing /\ packet \in Packet
  BY <1>1, <1>2, <1>3, Hands
<1>5. /\ taken' = [taken EXCEPT ![f] = Append(@, packet)]
      /\ \/ sock' = [sock EXCEPT ![e] = t] /\ posted' = posted
         \/ \E reply \in Replies[packet] :
              /\ sock' = [sock EXCEPT ![e] = SendPacket(t, reply)]
              /\ posted' = [posted EXCEPT ![e] = Append(@, reply)]
  BY <1>2, <1>3 DEF Hand
<1>6. CASE sock' = [sock EXCEPT ![e] = t] /\ posted' = posted
  BY <1>2, <1>3, <1>4, <1>5, <1>6
<1>7. CASE \E reply \in Replies[packet] :
             /\ sock' = [sock EXCEPT ![e] = SendPacket(t, reply)]
             /\ posted' = [posted EXCEPT ![e] = Append(@, reply)]
  <2>1. PICK reply \in Replies[packet] :
          /\ sock' = [sock EXCEPT ![e] = SendPacket(t, reply)]
          /\ posted' = [posted EXCEPT ![e] = Append(@, reply)]
    BY <1>7
  <2>2. reply \in Packet
    BY <1>4, ConnAssumption
  <2>3. PICK s : s = SendPacket(t, reply)
    OBVIOUS
  <2>4. /\ s \in SocketType /\ s.handle = t.handle /\ s.disconnected = t.disconnected
        /\ s.incoming = t.incoming /\ s.outgoing = t.outgoing \o Frame(reply)
    <3>1. t \in SocketType
      BY <1>4
    <3> QED
      BY ONLY <2>2, <2>3, <3>1, SendPacketFacts, Zenon
  <2>5. sock' = [sock EXCEPT ![e] = s]
    BY <2>1, <2>3
  <2> HIDE DEF SocketType
  <2>6. /\ s.handle = sock[e].handle /\ s.disconnected = sock[e].disconnected
        /\ s.outgoing = sock[e].outgoing \o Frame(reply)
    BY ONLY <1>4, <2>4
  <2> QED
    BY ONLY <1>2, <1>3, <1>4, <1>5, <2>1, <2>2, <2>4, <2>5, <2>6
<1> QED
  BY <1>5, <1>6, <1>7

(* A packet is handed over, and may be answered.                           *)
LEMMA HandStep ==
  ASSUME NetInv, NEW p \in Process, NEW e \in Endpoint, Hand(p, e)
  PROVE  NetInv'
<1>1. NetTypes /\ Unopened /\ Fresh /\ Ended /\ Backlogged /\ Parsed /\ InRound /\ StreamsHold
  BY DEF NetInv
<1>2. PICK f \in Endpoint : f = Peer(e) /\ e = Peer(f) /\ e # f
  BY EndpointFacts
<1>3. /\ round[p].readable # <<>> /\ e = Head(round[p].readable) /\ round[p].parsing
      /\ PacketReady(sock[e])
      /\ UNCHANGED << wire, mSockets, backlog, round, stage >>
  BY DEF Hand, Reads
<1>4. Owner(e) = p /\ sock[e].handle # "none"
  BY <1>1, <1>3, InHeld
<1>5. PICK s \in SocketType, t \in SocketType, packet \in Packet :
           /\ t = AfterReceivePacket(sock[e]) /\ packet = ReceivedPacket(sock[e])
           /\ sock' = [sock EXCEPT ![e] = s]
           /\ s.handle = sock[e].handle /\ s.disconnected = sock[e].disconnected
           /\ s.incoming = t.incoming
           /\ taken' = [taken EXCEPT ![f] = Append(@, packet)]
           /\ \/ s.outgoing = sock[e].outgoing /\ posted' = posted
              \/ \E reply \in Packet :
                   /\ s.outgoing = sock[e].outgoing \o Frame(reply)
                   /\ posted' = [posted EXCEPT ![e] = Append(@, reply)]
  BY <1>2, HandFacts
<1>6. /\ sock' \in [Endpoint -> SocketType] /\ sock'[e] = s
      /\ \A g \in Endpoint : g # e => sock'[g] = sock[g]
  <2>1. sock \in [Endpoint -> SocketType]
    BY <1>1 DEF NetTypes
  <2> HIDE DEF SocketType
  <2> QED
    BY ONLY <2>1, <1>5, e \in Endpoint
<1>7. \A g \in Endpoint :
        /\ sock'[g].handle = sock[g].handle /\ sock'[g].disconnected = sock[g].disconnected
        /\ g # e => sock'[g].outgoing = sock[g].outgoing
        /\ g # e => sock'[g].incoming = sock[g].incoming
  BY <1>5, <1>6
<1>8. HandlesStay
  BY <1>7 DEF HandlesStay
<1>9. /\ taken' \in [Endpoint -> Seq(Packet)] /\ taken'[f] = Append(taken[f], packet)
      /\ \A g \in Endpoint : g # f => taken'[g] = taken[g]
  BY <1>1, <1>5, AppendProperties DEF NetTypes
<1>10. /\ posted' \in [Endpoint -> Seq(Packet)]
       /\ \A g \in Endpoint : g # e => posted'[g] = posted[g]
  <2>1. posted \in [Endpoint -> Seq(Packet)]
    BY <1>1 DEF NetTypes
  <2>2. CASE posted' = posted
    BY <2>1, <2>2
  <2>3. ASSUME NEW reply \in Packet, posted' = [posted EXCEPT ![e] = Append(@, reply)]
        PROVE  /\ posted' \in [Endpoint -> Seq(Packet)]
               /\ \A g \in Endpoint : g # e => posted'[g] = posted[g]
    BY <2>1, <2>3, AppendProperties
  <2> QED
    BY <1>5, <2>2, <2>3
<1>11. NetTypes'
  <2>1. /\ backlog' \in [Process -> Seq(Conn)] /\ \A q \in Process : Len(backlog'[q]) <= Backlog
        /\ stage' \in [Process -> {"running", "flushing", "closing", "exited"}]
        /\ wire' \in [Endpoint -> WireType] /\ DOMAIN round' = Process
    BY <1>1, <1>3 DEF NetTypes
  <2>2. \A q \in Process : round'[q] \in RoundType(q)'
    BY <1>1, <1>3, <1>8, RoundsStay
  <2> QED
    BY <1>1, <1>3, <1>6, <1>8, <1>9, <1>10, <2>1, <2>2, RoundsStay, TypesAfter
<1>12. InRound'
  BY <1>1, <1>3 DEF InRound
<1>13. Unopened' /\ Fresh' /\ Ended'
  <2>1. Unopened'
    BY <1>1, <1>4, <1>7, <1>10 DEF Unopened
  <2>2. Fresh'
    BY <1>1, <1>3, <1>7, EndpointFacts DEF Fresh
  <2>3. Ended'
    BY <1>1, <1>3, <1>7 DEF Ended
  <2> QED
    BY <2>1, <2>2, <2>3
<1>14. Backlogged'
  <2>1. ASSUME NEW r \in Process, NEW i \in 1..Len(backlog[r]), NEW d, d = backlog[r][i]
        PROVE  /\ ServerOf[d] = r
               /\ sock'[Server(d)].handle = "none" /\ wire'[Server(d)].end = "open"
               /\ sock'[Client(d)].handle # "none"
               /\ \A j \in 1..Len(backlog[r]) : backlog[r][j] = d => j = i
    <3>1. /\ Client(d) \in Endpoint /\ Server(d) \in Endpoint
          /\ ServerOf[d] = r
          /\ sock[Server(d)].handle = "none" /\ wire[Server(d)].end = "open"
          /\ sock[Client(d)].handle # "none"
          /\ \A j \in 1..Len(backlog[r]) : backlog[r][j] = d => j = i
      BY ONLY <1>1, <2>1, r \in Process, i \in 1..Len(backlog[r]), Waiting
    <3> QED
      BY <1>3, <1>7, <3>1
  <2> QED
    BY <1>3, <2>1 DEF Backlogged
<1>15. Parsed'
  <2>1. ASSUME NEW g \in Endpoint, Whole(sock'[g].incoming)
        PROVE  /\ round'[Owner(g)].parsing
               /\ round'[Owner(g)].readable # <<>> /\ Head(round'[Owner(g)].readable) = g
    <3>1. CASE g = e
      BY <1>3, <1>4, <3>1
    <3>2. CASE g # e
      BY <1>1, <1>3, <1>7, <2>1, <3>2 DEF Parsed
    <3> QED
      BY <3>1, <3>2
  <2> QED
    BY <2>1 DEF Parsed
<1>16. ASSUME NEW g \in Endpoint PROVE Stream(g)'
  <2>1. Stream(g) /\ Peer(g) \in Endpoint
    BY <1>1, EndpointFacts DEF StreamsHold
  <2>2. CanWrite(g)' = CanWrite(g) /\ wire'[g].bytes = wire[g].bytes
    BY <1>3, <1>7, <2>1 DEF CanWrite
  <2>3. CASE g = f
    <3>1. /\ Len(taken[f]) < Len(posted[f])
          /\ \A rest \in Following(f) :
               rest \in Rests(t.incoming, wire[f].bytes, Tail(Remaining(f)))
          /\ Beyond(posted[f], Len(taken[f]) + 1) = Tail(Remaining(f))
      BY <1>1, <1>2, <1>3, <1>5, <2>1, <2>3, Hands
    <3>2. PICK n \in Nat : n = Len(taken[f]) /\ Len(taken'[f]) = n + 1
      BY <1>1, <1>9, AppendProperties, LenProperties DEF NetTypes
    <3>3. Len(posted[f]) \in Nat
      BY <1>1, LenProperties DEF NetTypes
    <3>4. posted'[f] = posted[f] /\ sock'[f].outgoing = sock[f].outgoing
      BY <1>2, <1>7, <1>10
    <3>5. Remaining(f)' = Tail(Remaining(f))
      BY <3>1, <3>2, <3>4 DEF Remaining
    <3>6. Following(f)' = Rests(t.incoming, wire[f].bytes, Tail(Remaining(f)))
      BY <1>2, <1>5, <1>6, <2>2, <2>3, <3>5 DEF Following
    <3>7. Following(f) \subseteq Following(f)'
      BY <3>1, <3>6
    <3>8. Len(taken'[f]) <= Len(posted'[f])
      BY <3>1, <3>2, <3>3, <3>4
    <3> QED
      BY <2>1, <2>2, <2>3, <3>4, <3>7, <3>8 DEF Stream
  <2>4. CASE g = e
    <3>1. sock'[f].incoming = sock[f].incoming /\ taken'[e] = taken[e]
      BY <1>2, <1>7, <1>9
    <3>2. CASE s.outgoing = sock[e].outgoing /\ posted' = posted
      BY <1>1, <1>2, <1>6, <2>1, <2>2, <2>4, <3>1, <3>2, StreamStays
    <3>3. CASE \E reply \in Packet :
                 /\ s.outgoing = sock[e].outgoing \o Frame(reply)
                 /\ posted' = [posted EXCEPT ![e] = Append(@, reply)]
      <4>1. PICK reply \in Packet :
              /\ s.outgoing = sock[e].outgoing \o Frame(reply)
              /\ posted'[e] = Append(posted[e], reply)
        BY <1>1, <3>3 DEF NetTypes
      <4> QED
        BY <1>1, <1>2, <1>6, <2>1, <2>2, <2>4, <3>1, <4>1, Posts
    <3> QED
      BY <1>5, <3>2, <3>3
  <2>5. CASE g # e /\ g # f
    <3>1. Peer(g) # e
      BY <1>2, <2>5, EndpointFacts
    <3>2. sock'[Peer(g)].incoming = sock[Peer(g)].incoming /\ sock'[g].outgoing = sock[g].outgoing
      BY <1>7, <2>1, <2>5, <3>1
    <3> QED
      BY <1>1, <1>9, <1>10, <2>1, <2>2, <2>5, <3>2, StreamStays
  <2> QED
    BY <2>3, <2>4, <2>5
<1> QED
  BY <1>11, <1>12, <1>13, <1>14, <1>15, <1>16 DEF NetInv, StreamsHold

-----------------------------------------------------------------------------
(* The invariant and what follows from it.                                 *)

(* At the start nothing is open, and every stream carries nothing.         *)
LEMMA NetInit ==
  ASSUME Init
  PROVE  NetInv
<1>1. /\ sock = [e \in Endpoint |-> NoSocket]
      /\ wire = [e \in Endpoint |-> [bytes |-> <<>>, end |-> "open"]]
      /\ mSockets = [p \in Process |-> << Listener(p) >>]
      /\ backlog = [p \in Process |-> <<>>]
      /\ round = [p \in Process |-> Between]
      /\ stage = [p \in Process |-> "running"]
      /\ posted = [e \in Endpoint |-> <<>>]
      /\ taken = [e \in Endpoint |-> <<>>]
  BY DEF Init
<1>2. \A e \in Endpoint :
        /\ sock[e] \in SocketType /\ sock[e].handle = "none"
        /\ sock[e].incoming = <<>> /\ sock[e].outgoing = <<>>
        /\ wire[e].bytes = <<>> /\ wire[e].end = "open"
        /\ posted[e] = <<>> /\ taken[e] = <<>>
  BY <1>1, NewSocketFacts
<1>3. \A p \in Process :
        /\ ~round[p].busy /\ ~round[p].parsing
        /\ round[p].readable = <<>> /\ backlog[p] = <<>>
  BY <1>1 DEF Between
<1>4. NetTypes
  <2>1. sock \in [Endpoint -> SocketType]
    BY <1>1, NewSocketFacts
  <2>2. wire \in [Endpoint -> WireType]
    BY <1>1, EmptySeq DEF WireType
  <2>3. ASSUME NEW p \in Process
        PROVE  mSockets[p] \in SocketLists(p) /\ round[p] \in RoundType(p)
    <3>1. <<>> \in SocketLists(p)
      BY ListsJoin DEF SocketLists
    <3>2. << Listener(p) >> \in Seq(Held(p)) /\ Len(<< Listener(p) >>) = 1
      BY DEF Held
    <3>3. << Listener(p) >> \in SocketLists(p)
      BY <3>2 DEF SocketLists, Lists
    <3> QED
      BY <1>1, <3>1, <3>3 DEF RoundType, Between
  <2>4. DOMAIN mSockets = Process /\ DOMAIN round = Process
    BY <1>1
  <2>5. backlog \in [Process -> Seq(Conn)] /\ \A p \in Process : Len(backlog[p]) <= Backlog
    <3>1. \A p \in Process : Len(backlog[p]) = 0
      BY <1>3, EmptySeq
    <3>2. backlog \in [Process -> Seq(Conn)]
      BY <1>1, EmptySeq
    <3> QED
      BY <3>1, <3>2, BoundsAssumption
  <2>6. stage \in [Process -> {"running", "flushing", "closing", "exited"}]
    BY <1>1
  <2>7. posted \in [Endpoint -> Seq(Packet)] /\ taken \in [Endpoint -> Seq(Packet)]
    BY <1>1, EmptySeq
  <2> QED
    BY <2>1, <2>2, <2>3, <2>4, <2>5, <2>6, <2>7 DEF NetTypes
<1>5. InRound
  BY <1>3 DEF InRound
<1>6. Unopened /\ Fresh /\ Ended
  BY <1>2, EndpointFacts DEF Unopened, Fresh, Ended
<1>7. Backlogged
  <2>1. \A p \in Process : Len(backlog[p]) = 0
    BY <1>3, EmptySeq
  <2> QED
    BY <2>1 DEF Backlogged
<1>8. Parsed
  <2>1. ~Whole(<<>>)
    <3>1. Len(<<>>) = 0
      BY EmptySeq
    <3> QED
      BY <3>1, FramingAssumption DEF Whole
  <2> QED
    BY <1>2, <2>1 DEF Parsed
<1>9. ASSUME NEW e \in Endpoint PROVE Stream(e)
  <2>1. Len(taken[e]) = 0 /\ Len(posted[e]) = 0
    BY <1>2, EmptySeq
  <2>2. Remaining(e) = <<>>
    BY <2>1, SubSeqEmpty DEF Remaining, Beyond
  <2>3. Following(e) = Rests(<<>>, <<>>, <<>>)
    BY <1>2, <2>2, EndpointFacts DEF Following
  <2>4. <<>> \in Following(e)
    BY <2>3, EmptySeq, RestsNothing
  <2> QED
    BY <1>2, <2>1, <2>4 DEF Stream
<1> QED
  BY <1>4, <1>5, <1>6, <1>7, <1>8, <1>9 DEF NetInv, StreamsHold

(* Every step keeps the invariant.                                         *)
LEMMA NetStep ==
  ASSUME NetInv, [Next]_netVars
  PROVE  NetInv'
<1>1. CASE UNCHANGED netVars
  BY <1>1, StutterStep
<1>2. CASE Next
  <2>1. ASSUME NEW p \in Process, Round(p) PROVE NetInv'
    <3>1. CASE Select(p)
      BY <3>1, SelectStep
    <3>2. CASE ReadStep(p)
      BY <3>2, AcceptStep, ReceiveStep, ReceiveEndStep, HandStep, NothingToHandStep
         DEF ReadStep
    <3>3. CASE WriteStep(p)
      BY <3>3, WritingStep
    <3>4. CASE Sweep(p)
      BY <3>4, SweepStep
    <3>5. CASE Flushed(p)
      BY <3>5, QuitStep
    <3>6. CASE Exit(p)
      BY <3>6, ExitStep
    <3> QED
      BY <2>1, <3>1, <3>2, <3>3, <3>4, <3>5, <3>6 DEF Round
  <2>2. ASSUME NEW c \in Conn, Open(c) \/ Leave(c) PROVE NetInv'
    BY <2>2, OpenStep, LeaveStep
  <2>3. ASSUME NEW p \in Quitters, Quit(p) PROVE NetInv'
    BY <2>3, QuitStep, BoundsAssumption
  <2> QED
    BY <1>2, <2>1, <2>2, <2>3 DEF Next
<1> QED
  BY <1>1, <1>2

(* The network manager is in order in every state (NetInv): whole packets  *)
(* appear only in the socket being parsed, and what is received, on the wire*)
(* and to be sent carries what is still to be handed over.                 *)
THEOREM NetInvariant == Spec => []NetInv
<1>1. Init => NetInv
  BY NetInit
<1>2. NetInv /\ [Next]_netVars => NetInv'
  BY NetStep
<1> QED
  BY <1>1, <1>2, PTL DEF Spec

-----------------------------------------------------------------------------

(* A process that ends has flushed no more often than it may.              *)
RoundsGiven == flushes \in [Process -> 0..FinalRounds]

(* Only Finalize() counts its rounds, and it counts no further than given. *)
LEMMA FlushesBounded == Spec => []RoundsGiven
<1>1. Init => RoundsGiven
  BY BoundsAssumption DEF Init, RoundsGiven
<1>2. RoundsGiven /\ [Next]_netVars => RoundsGiven'
  <2>1. SUFFICES ASSUME RoundsGiven, [Next]_netVars PROVE RoundsGiven'
    OBVIOUS
  <2>2. ASSUME NEW p \in Process, Select(p) PROVE RoundsGiven'
    <3>1. \/ flushes' = flushes
          \/ flushes[p] < FinalRounds /\ flushes' = [flushes EXCEPT ![p] = @ + 1]
      BY <2>2 DEF Select, Flushes
    <3> QED
      BY ONLY <2>1, <3>1, BoundsAssumption DEF RoundsGiven
  <2>3. ASSUME NEW p \in Process,
               ReadStep(p) \/ WriteStep(p) \/ Sweep(p) \/ Flushed(p) \/ Exit(p)
        PROVE  flushes' = flushes
    BY <2>3 DEF ReadStep, Accept, Receive, ReceiveEnd, Hand, NothingToHand, WriteStep,
                Sweep, Flushed, Exit
  <2>4. ASSUME NEW c \in Conn, Open(c) \/ Leave(c) PROVE flushes' = flushes
    BY <2>4 DEF Open, Leave
  <2>5. ASSUME NEW p \in Quitters, Quit(p) PROVE flushes' = flushes
    BY <2>5 DEF Quit
  <2>6. CASE UNCHANGED netVars
    BY <2>1, <2>6 DEF netVars, RoundsGiven
  <2>7. CASE Next
    BY <2>1, <2>2, <2>3, <2>4, <2>5, <2>7 DEF Next, Round, RoundsGiven
  <2> QED
    BY <2>1, <2>6, <2>7
<1> QED
  BY <1>1, <1>2, PTL DEF Spec

(* Every variable keeps its type whatever the sockets do: the lists a      *)
(* round works on hold sockets of the process itself, no more connections  *)
(* wait than may, and Finalize() gives no more rounds than it has          *)
(* (HandleSocketOperations()).                                             *)
THEOREM TypesStay == Spec => []TypeOK
<1>1. NetInv /\ RoundsGiven => TypeOK
  <2>1. SUFFICES ASSUME NetInv, RoundsGiven PROVE TypeOK
    OBVIOUS
  <2>2. NetTypes
    BY <2>1 DEF NetInv
  <2>3. ASSUME NEW p \in Process
        PROVE  /\ mSockets[p] \in Seq(SocketsOf(p))
               /\ round[p].readable \in Seq(SocketsOf(p))
               /\ round[p].writable \in Seq(SocketsOf(p))
    <3>1. Held(p) \subseteq SocketsOf(p)
      BY DEF Held, SocketsOf
    <3>2. \A list \in SocketLists(p) : list \in Seq(SocketsOf(p))
      BY <3>1, SeqMonotonic DEF SocketLists, Lists
    <3> QED
      BY <2>2, <3>2, RoundFields DEF NetTypes
  <2> QED
    BY <2>1, <2>2, <2>3, StreamTypes DEF TypeOK, NetTypes, RoundsGiven
<1> QED
  BY <1>1, NetInvariant, FlushesBounded, PTL

(* However many sockets there are and whichever are ready, Select() finds   *)
(* all that are, once and in order: its batches leave out none.            *)
THEOREM SelectsAll == Spec => []SelectedExactly
<1>1. TypeOK => SelectedExactly
  BY SelectReadyAll DEF TypeOK, SelectedExactly
<1> QED
  BY <1>1, TypesStay, PTL

(* Between two rounds no packet waits as a whole in a buffer: as long as   *)
(* there is one, HandleSocketOperations() goes on handing over, unless the *)
(* packet is longer than the stream it is received into.                   *)
THEOREM NothingWaits == Spec => []NoPacketLeftBehind
<1>1. NetInv => NoPacketLeftBehind
  <2>1. SUFFICES ASSUME NetInv PROVE NoPacketLeftBehind
    OBVIOUS
  <2>2. NetTypes /\ InRound /\ Parsed /\ StreamsHold
    BY <2>1 DEF NetInv
  <2>3. SUFFICES ASSUME NEW e \in Endpoint, NEW f \in Endpoint, f = Peer(e), e = Peer(f),
                        ~round[Owner(e)].busy,
                        Len(taken[f]) + 1 <= Len(posted[f]),
                        NEW m, m = posted[f][Len(taken[f]) + 1],
                        Len(sock[e].incoming) >= HeaderSize + Len(Write(m)),
                        ~(Len(Write(m)) > StreamCapacity)
                 PROVE  FALSE
    BY EndpointFacts DEF NoPacketLeftBehind
  <2>4. /\ posted[f] \in Seq(Packet) /\ taken[f] \in Seq(Packet) /\ Stream(f)
        /\ Remaining(f) \in Seq(Packet)
    BY <2>2, RemainingType DEF StreamsHold, Stream
  <2>5. PICK n \in Nat : n = Len(taken[f]) /\ n < Len(posted[f]) /\ n \in 0..Len(posted[f])
    BY <2>3, <2>4, LenProperties, SMTT(30)
  <2>6. PICK r \in Seq(Packet) : r = Remaining(f)
    BY <2>4
  <2>7. r # <<>> /\ r[1] = m
    <3>1. r = Beyond(posted[f], n)
      BY <2>5, <2>6 DEF Remaining
    <3>2. PICK sent \in Seq(Packet) : sent = posted[f]
      BY <2>4
    <3>3. n \in 0..Len(sent) /\ n < Len(sent) /\ r = Beyond(sent, n)
      BY <2>5, <3>1, <3>2
    <3>4. r # <<>> /\ r[1] = sent[n + 1]
      BY <3>3, Leftover
    <3> QED
      BY <2>3, <2>5, <3>2, <3>4
  <2>8. PICK a \in Seq(Byte) : a = sock[e].incoming
    BY <2>2, StreamTypes
  <2>9. PICK b \in Seq(Byte) : b = wire[f].bytes
    BY <2>2, StreamTypes
  <2>10. PICK rest \in Rests(a, b, r) : TRUE
    BY <2>3, <2>4, <2>6, <2>8, <2>9 DEF Stream, Following
  <2>11. m \in Packet
    <3>1. Len(r) \in Nat \ {0}
      BY <2>7, EmptySeq
    <3>2. r[1] \in Packet
      BY <3>1, ElementOfSeq
    <3> QED
      BY <2>7, <3>2
  <2>12. PICK k \in Nat : k = Len(Write(m)) /\ k # 0
    BY <2>11, FrameParts
  <2>13. Len(a) >= HeaderSize + k /\ k <= StreamCapacity /\ Len(a) \in Nat /\ HeaderSize \in Nat
    BY <2>3, <2>8, <2>12, FramingAssumption, LenProperties
  <2>14. Len(a) >= HeaderSize
    BY <2>13
  <2>15. Number(SubSeq(a, 1, HeaderSize)) = k
    BY <2>7, <2>10, <2>12, <2>14, RestsBegin
  <2>16. Whole(a)
    BY <2>12, <2>13, <2>15 DEF Whole
  <2>17. Owner(e) \in Process /\ round[Owner(e)].readable # <<>>
    BY <2>2, <2>8, <2>16, EndpointFacts DEF Parsed
  <2> QED
    BY <2>2, <2>3, <2>17 DEF InRound
<1> QED
  BY <1>1, NetInvariant, PTL

-----------------------------------------------------------------------------
(* The refinement: a packet that is posted is one more of those its socket *)
(* has sent, a packet that is handed over is the next of its peer's.       *)

(* A step of the network manager is one of the streams, or moves none.     *)
LEMMA ChannelsStep ==
  ASSUME NetInv, [Next]_netVars
  PROVE  [Channels!Next]_<< posted, taken >>
<1>1. NetTypes /\ StreamsHold
  BY DEF NetInv
<1>2. /\ posted \in [Endpoint -> Seq(Packet)] /\ taken \in [Endpoint -> Seq(Packet)]
  BY <1>1 DEF NetTypes
<1>3. ASSUME NEW c \in Conn, Open(c) PROVE Channels!Next
  <2>1. Client(c) \in Endpoint /\ Request[c] \in Packet
    BY EndpointFacts, ConnAssumption
  <2>2. posted' = [posted EXCEPT ![Client(c)] = Append(@, Request[c])] /\ taken' = taken
    BY <1>3 DEF Open
  <2>3. ASSUME NEW g \in Endpoint PROVE Channels!Post(g) \/ Channels!Idle(g)
    <3>1. CASE g = Client(c)
      BY <1>2, <2>1, <2>2, <3>1 DEF Channels!Post
    <3>2. CASE g # Client(c)
      BY <1>2, <2>1, <2>2, <3>2 DEF Channels!Idle
    <3> QED
      BY <3>1, <3>2
  <2> QED
    BY <2>3 DEF Channels!Next
<1>4. ASSUME NEW p \in Process, NEW e \in Endpoint, Hand(p, e) PROVE Channels!Next
  <2>1. PICK f \in Endpoint : f = Peer(e) /\ e = Peer(f) /\ e # f
    BY EndpointFacts
  <2>2. Stream(f) /\ PacketReady(sock[e])
    BY <1>1, <1>4 DEF StreamsHold, Hand
  <2>3. PICK packet \in Packet :
          /\ packet = ReceivedPacket(sock[e])
          /\ taken' = [taken EXCEPT ![f] = Append(@, packet)]
          /\ \/ posted' = posted
             \/ \E reply \in Packet : posted' = [posted EXCEPT ![e] = Append(@, reply)]
    BY <1>4, <2>1, HandFacts
  <2>4. Len(taken[f]) < Len(posted[f]) /\ packet = posted[f][Len(taken[f]) + 1]
    BY <1>1, <2>1, <2>2, <2>3, Hands
  <2>5. /\ taken'[f] = Append(taken[f], packet)
        /\ \A g \in Endpoint : g # f => taken'[g] = taken[g]
        /\ \A g \in Endpoint : g # e => posted'[g] = posted[g]
        /\ \/ posted'[e] = posted[e]
           \/ \E reply \in Packet : posted'[e] = Append(posted[e], reply)
    BY <1>2, <2>3
  <2>6. ASSUME NEW g \in Endpoint
        PROVE  Channels!Post(g) \/ Channels!Take(g) \/ Channels!Idle(g)
    <3>1. CASE g = f
      BY <2>1, <2>4, <2>5, <3>1 DEF Channels!Take
    <3>2. CASE g = e
      BY <2>1, <2>5, <3>2 DEF Channels!Post, Channels!Idle
    <3>3. CASE g # e /\ g # f
      BY <2>5, <3>3 DEF Channels!Idle
    <3> QED
      BY <3>1, <3>2, <3>3
  <2> QED
    BY <2>6 DEF Channels!Next
<1>5. CASE UNCHANGED netVars
  BY <1>5 DEF netVars
<1>6. CASE Next
  <2>1. ASSUME NEW p \in Process, Round(p)
        PROVE  Channels!Next \/ UNCHANGED << posted, taken >>
    <3>1. CASE Select(p)
      BY <3>1 DEF Select
    <3>2. CASE ReadStep(p)
      BY <1>4, <3>2 DEF ReadStep, Accept, Receive, ReceiveEnd, NothingToHand
    <3>3. CASE WriteStep(p)
      BY <3>3 DEF WriteStep
    <3>4. CASE Sweep(p)
      BY <3>4 DEF Sweep
    <3>5. CASE Flushed(p)
      BY <3>5 DEF Flushed
    <3>6. CASE Exit(p)
      BY <3>6 DEF Exit
    <3> QED
      BY <2>1, <3>1, <3>2, <3>3, <3>4, <3>5, <3>6 DEF Round
  <2>2. ASSUME NEW c \in Conn, Leave(c) PROVE UNCHANGED << posted, taken >>
    BY <2>2 DEF Leave
  <2>3. ASSUME NEW p \in Quitters, Quit(p) PROVE UNCHANGED << posted, taken >>
    BY <2>3 DEF Quit
  <2> QED
    BY <1>3, <1>6, <2>1, <2>2, <2>3 DEF Next
<1> QED
  BY <1>5, <1>6

(* Whatever the sockets and the processes do, each end of a connection     *)
(* hands over what the other end has posted: whole packets, each of them   *)
(* once, in order (SendPacket(), HandleIncomingData(), ReceivePacket()).   *)
THEOREM StreamsOfPackets == Spec => ImplementsPacketStreams
<1>1. Init => Channels!Init
  BY DEF Init, Channels!Init
<1>2. NetInv /\ [Next]_netVars => [Channels!Next]_<< posted, taken >>
  BY ChannelsStep
<1> QED
  BY <1>1, <1>2, NetInvariant, PTL DEF Spec, ImplementsPacketStreams, Channels!Spec

-----------------------------------------------------------------------------
(* Which handles are leaked.  What the bytes on a connection are does not  *)
(* matter here, so that of the types only the fields are kept.             *)

SocketFields == {"handle", "disconnected", "toDisconnect", "outgoing", "incoming"}

Shape ==
  /\ DOMAIN sock = Endpoint /\ \A e \in Endpoint : DOMAIN sock[e] = SocketFields
  /\ DOMAIN wire = Endpoint /\ \A e \in Endpoint : DOMAIN wire[e] = {"bytes", "end"}

LeakInv == Shape /\ LeakedByPeer

(* In this step a connection that ended stays so, and a socket is found    *)
(* disconnected only when its peer has ended the connection.               *)
FoundByEnd ==
  \A e \in Endpoint :
    /\ wire[e].end # "open" => wire'[e].end # "open"
    /\ sock'[e].handle = "open" /\ sock'[e].disconnected
         => \/ sock[e].handle = "open" /\ sock[e].disconnected
            \/ wire[Peer(e)].end # "open"

(* The peer of an endpoint is one.                                         *)
LEMMA Ends == \A e \in Endpoint : Peer(e) \in Endpoint
BY DEF Endpoint, Peer, Client, Server

(* A connection has two endpoints.                                         *)
LEMMA EndsOfConn == \A c \in Conn : Client(c) \in Endpoint /\ Server(c) \in Endpoint
BY DEF Endpoint, Client, Server

(* A new socket is not disconnected.                                       *)
LEMMA FreshSocket ==
  ASSUME NEW packet
  PROVE  /\ DOMAIN NewSocket = SocketFields /\ DOMAIN NoSocket = SocketFields
         /\ ~NewSocket.disconnected
         /\ ~NoSocket.disconnected
BY DEF NewSocket, NoSocket, Socket, SocketFields

(* Packets and the flag to disconnect leave the rest of a socket alone.    *)
LEMMA SocketKept ==
  ASSUME NEW s, DOMAIN s = SocketFields, NEW packet
  PROVE  /\ DOMAIN SendPacket(s, packet) = SocketFields
         /\ SendPacket(s, packet).handle = s.handle
         /\ SendPacket(s, packet).disconnected = s.disconnected
         /\ DOMAIN AfterReceivePacket(s) = SocketFields
         /\ AfterReceivePacket(s).handle = s.handle
         /\ AfterReceivePacket(s).disconnected = s.disconnected
         /\ DOMAIN Disconnect(s) = SocketFields
         /\ Disconnect(s).handle = s.handle
         /\ Disconnect(s).disconnected = s.disconnected
         /\ DOMAIN CloseSocket(s) = SocketFields
         /\ CloseSocket(s).handle = "open" => s.disconnected /\ s.handle = "open"
BY DEF SocketFields, SendPacket, AfterReceivePacket, Disconnect, CloseSocket

(* Closing ends connections and opens none.                                *)
LEMMA ClosedEnds ==
  ASSUME Shape, NEW closing
  PROVE  /\ DOMAIN CloseAll(closing) = Endpoint
         /\ \A e \in Endpoint :
              /\ DOMAIN CloseAll(closing)[e] = {"bytes", "end"}
              /\ wire[e].end # "open" => CloseAll(closing)[e].end # "open"
BY DEF Shape, CloseAll

(* At the start no handle is leaked.                                       *)
LEMMA LeakInit == Init => LeakInv
BY FreshSocket DEF Init, LeakInv, Shape, LeakedByPeer

(* Sockets are told to disconnect, and stay as they are otherwise.         *)
LEMMA DisconnectAllStep ==
  ASSUME Shape, NEW S, DisconnectAll(S), wire' = wire
  PROVE  Shape' /\ FoundByEnd
BY SocketKept DEF Shape, DisconnectAll, FoundByEnd

(* Reading finds a socket disconnected when its peer has ended.            *)
LEMMA ReadSteps ==
  ASSUME Shape, NEW p \in Process, ReadStep(p)
  PROVE  Shape' /\ FoundByEnd
<1>1. CASE Accept(p)
  <2>1. PICK c : sock' = [sock EXCEPT ![Server(c)] = NewSocket] /\ wire' = wire
    BY <1>1 DEF Accept
  <2> QED BY <2>1, FreshSocket DEF Shape, FoundByEnd
<1>2. ASSUME NEW e \in Endpoint, Receive(p, e) PROVE Shape' /\ FoundByEnd
  BY <1>2, Ends DEF Receive, Shape, FoundByEnd, SocketFields
<1>3. ASSUME NEW e \in Endpoint, ReceiveEnd(p, e) PROVE Shape' /\ FoundByEnd
  <2>1. wire[Peer(e)].end # "open"
    BY <1>3 DEF ReceiveEnd
  <2> QED BY <1>3, <2>1, Ends DEF ReceiveEnd, Shape, FoundByEnd, SocketFields
<1>4. ASSUME NEW e \in Endpoint, Hand(p, e) PROVE Shape' /\ FoundByEnd
  <2> DEFINE rest == AfterReceivePacket(sock[e])
  <2>1. /\ DOMAIN rest = SocketFields /\ rest.handle = sock[e].handle
        /\ rest.disconnected = sock[e].disconnected
    BY SocketKept DEF Shape
  <2>2. wire' = wire
    BY <1>4 DEF Hand
  <2>3. PICK t : /\ sock' = [sock EXCEPT ![e] = t]
                 /\ DOMAIN t = SocketFields /\ t.handle = sock[e].handle
                 /\ t.disconnected = sock[e].disconnected
    <3>1. CASE sock' = [sock EXCEPT ![e] = rest]
      BY <2>1, <3>1
    <3>2. CASE \E reply : sock' = [sock EXCEPT ![e] = SendPacket(rest, reply)]
      <4>1. PICK reply : sock' = [sock EXCEPT ![e] = SendPacket(rest, reply)]
        BY <3>2
      <4>2. /\ DOMAIN SendPacket(rest, reply) = SocketFields
            /\ SendPacket(rest, reply).handle = sock[e].handle
            /\ SendPacket(rest, reply).disconnected = sock[e].disconnected
        BY <2>1, SocketKept
      <4> QED BY <4>1, <4>2
    <3> QED BY <1>4, <3>1, <3>2 DEF Hand
  <2> QED BY <2>2, <2>3 DEF Shape, FoundByEnd
<1>5. ASSUME NEW e \in Endpoint, NothingToHand(p, e) PROVE Shape' /\ FoundByEnd
  BY <1>5 DEF NothingToHand, Shape, FoundByEnd
<1> QED BY <1>1, <1>2, <1>3, <1>4, <1>5 DEF ReadStep

(* So does writing.                                                        *)
LEMMA WriteSteps ==
  ASSUME Shape, NEW p \in Process, WriteStep(p)
  PROVE  Shape' /\ FoundByEnd
<1>1. PICK e \in Endpoint :
        \/ UNCHANGED << sock, wire >>
        \/ \E n : /\ wire' = [wire EXCEPT ![e].bytes = @ \o SubSeq(sock[e].outgoing, 1, n)]
                  /\ sock' = [sock EXCEPT ![e].outgoing = SubSeq(@, n + 1, Len(@))]
        \/ /\ wire' = [wire EXCEPT ![Peer(e)].end = "rst"]
           /\ sock' = [sock EXCEPT ![e].outgoing = <<>>]
        \/ /\ wire[Peer(e)].end = "rst"
           /\ sock' = [sock EXCEPT ![e].disconnected = TRUE]
           /\ UNCHANGED wire
  BY DEF WriteStep
<1> QED BY <1>1, Ends, SMTT(30) DEF Shape, FoundByEnd, SocketFields

(* No step leaks a handle before the peer has gone.                        *)
LEMMA LeakStep == LeakInv /\ [Next]_netVars => LeakInv'
<1> SUFFICES ASSUME LeakInv, [Next]_netVars
             PROVE  Shape' /\ FoundByEnd
  BY Ends DEF LeakInv, LeakedByPeer, FoundByEnd
<1> USE DEF LeakInv
<1>1. ASSUME NEW p \in Process, Select(p) PROVE Shape' /\ FoundByEnd
  BY <1>1 DEF Select, Shape, FoundByEnd
<1>2. ASSUME NEW p \in Process, Sweep(p) PROVE Shape' /\ FoundByEnd
  <2> DEFINE swept == [e \in Endpoint |->
                         IF e \in Range(mSockets[p]) /\ ToClose(e)
                         THEN CloseSocket(sock[e]) ELSE sock[e]]
  <2>1. sock' = swept /\ \E closing : wire' = CloseAll(closing)
    BY <1>2 DEF Sweep
  <2>2. ASSUME NEW e \in Endpoint
        PROVE  /\ DOMAIN swept[e] = SocketFields
               /\ swept[e].handle = "open" /\ swept[e].disconnected
                    => sock[e].handle = "open" /\ sock[e].disconnected
    BY SocketKept DEF Shape
  <2> HIDE DEF swept
  <2>3. DOMAIN swept = Endpoint
    BY DEF swept
  <2> QED BY <2>1, <2>2, <2>3, ClosedEnds DEF Shape, FoundByEnd
<1>3. ASSUME NEW p \in Process, Flushed(p) PROVE Shape' /\ FoundByEnd
  BY <1>3, DisconnectAllStep DEF Flushed
<1>4. ASSUME NEW p \in Process, Quit(p) PROVE Shape' /\ FoundByEnd
  BY <1>4, DisconnectAllStep DEF Quit
<1>5. ASSUME NEW p \in Process, Exit(p) PROVE Shape' /\ FoundByEnd
  <2>1. PICK open, waiting :
          /\ sock' = [e \in Endpoint |->
                        IF e \in open THEN [sock[e] EXCEPT !.handle = "closed",
                                                           !.disconnected = TRUE]
                        ELSE sock[e]]
          /\ wire' = CloseAll(open \cup waiting)
    BY <1>5 DEF Exit
  <2> QED BY <2>1, ClosedEnds DEF Shape, FoundByEnd, SocketFields
<1>6. ASSUME NEW c \in Conn, Open(c) PROVE Shape' /\ FoundByEnd
  <2>1. /\ sock' = [sock EXCEPT ![Client(c)] = SendPacket(NewSocket, Request[c])]
        /\ wire' = wire
    BY <1>6 DEF Open
  <2> QED BY <2>1, EndsOfConn, FreshSocket, SocketKept DEF Shape, FoundByEnd
<1>7. ASSUME NEW c \in Conn, Leave(c) PROVE Shape' /\ FoundByEnd
  BY <1>7, EndsOfConn, SocketKept DEF Leave, Shape, FoundByEnd
<1>8. CASE UNCHANGED netVars
  BY <1>8 DEF netVars, Shape, FoundByEnd
<1> QED
  BY <1>1, <1>2, <1>3, <1>4, <1>5, <1>6, <1>7, <1>8, ReadSteps, WriteSteps,
     BoundsAssumption
     DEF Next, Round

(* A handle that no one will close any more belongs to a socket whose peer *)
(* went first: for any processes, connections, packets and sizes.          *)
THEOREM OnlyPeersLeak == Spec => []LeakedByPeer
<1>1. LeakInv => LeakedByPeer
  BY DEF LeakInv
<1> QED
  BY LeakInit, LeakStep, <1>1, PTL DEF Spec

=============================================================================
