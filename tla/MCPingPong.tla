------------------------------ MODULE MCPingPong ------------------------------
(***************************************************************************)
(* The ping-pong programs, for TLC: a behaviour is one of the UDP programs *)
(* or one of the TCP programs, and the others are over.                    *)
(***************************************************************************)
EXTENDS UdpPingPong, TcpPingPong

Init ==
  \/ UdpInit /\ TcpStart("killed", "done")
  \/ TcpInit /\ UdpStart("closed", "closed")

Next ==
  \/ UdpNext /\ UNCHANGED tcpVars
  \/ TcpNext /\ UNCHANGED udpVars

FairSpec == Init /\ [][Next]_<< udpVars, tcpVars >> /\ UdpFairness /\ TcpFairness

=============================================================================
