---------------------------- MODULE PacketStreams ----------------------------
(***************************************************************************)
(* What the network manager promises to those who send packets: what a     *)
(* channel hands over is what was posted to it, whole, once, and in order. *)
(* Nothing is promised about the packets a channel has yet to hand over.   *)
(***************************************************************************)
EXTENDS Integers, Sequences

CONSTANTS
  Channel,
  Packet

VARIABLES
  posted,   \* [Channel -> Seq(Packet)]: what was given to the channel
  taken     \* [Channel -> Seq(Packet)]: what the channel handed over

Init ==
  /\ posted = [c \in Channel |-> <<>>]
  /\ taken  = [c \in Channel |-> <<>>]

Post(c) ==
  /\ \E packet \in Packet : posted'[c] = Append(posted[c], packet)
  /\ taken'[c] = taken[c]

Take(c) ==
  /\ Len(taken[c]) < Len(posted[c])
  /\ taken'[c] = Append(taken[c], posted[c][Len(taken[c]) + 1])
  /\ posted'[c] = posted[c]

Idle(c) == posted'[c] = posted[c] /\ taken'[c] = taken[c]

(* One step of the system may move several channels, as when a packet is   *)
(* handed over and answered at once.                                       *)
Next == \A c \in Channel : Post(c) \/ Take(c) \/ Idle(c)

Spec == Init /\ [][Next]_<<posted, taken>>

=============================================================================
