------------------------------- MODULE Streams -------------------------------
(***************************************************************************)
(* Memory streams (MemoryStream.h, ByteSwap.h): words are written in       *)
(* big-endian order on a platform that keeps them in little-endian order,  *)
(* and read back by the same way.  To the network manager a packet is a    *)
(* sequence of words of 16 bits.                                           *)
(***************************************************************************)
EXTENDS Integers, Sequences, SequencesExt

WordSize == 2
MaxWord  == 65535
Word     == 0..MaxWord
Byte     == 0..255

ByteSwap2(w) == (w \div 256) + ((w * 256) % 65536)

ByteSwap4(w) ==
  (w \div 256^3) + ((w \div 256^2) % 256) * 256
    + ((w \div 256) % 256) * 256^2 + (w % 256) * 256^3

ByteSwap(w, n) == CASE n = 2 -> ByteSwap2(w) [] n = 4 -> ByteSwap4(w)

(* The n bytes of number w in the memory of a little-endian platform, and  *)
(* the number that some bytes of memory hold.                              *)
Memory(w, n) == [i \in 1..n |-> (w \div 256^(i - 1)) % 256]

Number(bytes) ==
  LET lowest[i \in 0..Len(bytes)] ==
        IF i = 0 THEN 0 ELSE lowest[i - 1] + bytes[i] * 256^(i - 1)
  IN  lowest[Len(bytes)]

(* OutputMemoryStream::Write() and InputMemoryStream::Read() of one word   *)
(* of n bytes.                                                             *)
WriteWord(w, n)    == Memory(ByteSwap(w, n), n)
ReadWord(bytes, n) == ByteSwap(Number(bytes), n)

Write(packet) ==
  FlattenSeq([i \in 1..Len(packet) |-> WriteWord(packet[i], WordSize)])

Read(bytes) ==
  [i \in 1..(Len(bytes) \div WordSize) |->
     ReadWord(SubSeq(bytes, (i - 1) * WordSize + 1, i * WordSize), WordSize)]

=============================================================================
