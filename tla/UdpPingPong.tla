----------------------------- MODULE UdpPingPong -----------------------------
(***************************************************************************)
(* The UDP client and server of the first session.  A client sends a       *)
(* datagram and waits for the answer, for ever; the server answers one     *)
(* datagram at a time.  A datagram may be lost, and one that comes to a    *)
(* port nobody has makes the next recvfrom() of its sender fail.           *)
(***************************************************************************)
EXTENDS PingPong, Integers

CONSTANT MaxPings   \* bound: datagrams a client sends

ASSUME UdpAssumption == MaxPings \in Nat /\ MaxKills \in Nat

VARIABLES
  udpClient,    \* [Client -> what the client does next]
  udpServer,    \* what the server does next
  fromAddr,     \* whom the server answers
  pings,        \* [Client -> datagrams on their way to the server]
  pongs,        \* [Client -> datagrams on their way to the client]
  refused,      \* the programs whose next recvfrom() fails
  sent,         \* [Client -> pings so far]
  lost,         \* [Client -> datagrams to or from the client lost so far]
  kills         \* programs closed by the user so far

udpVars == << udpClient, udpServer, fromAddr, pings, pongs, refused, sent, lost, kills >>

UdpStart(client, server) ==
  /\ udpClient = [c \in Client |-> client]
  /\ udpServer = server
  /\ fromAddr  = Nobody
  /\ pings     = [c \in Client |-> 0]
  /\ pongs     = [c \in Client |-> 0]
  /\ refused   = {}
  /\ sent      = [c \in Client |-> 0]
  /\ lost      = [c \in Client |-> 0]
  /\ kills     = 0

UdpInit == UdpStart("sendto", "off")

ServerUp    == udpServer \in {"recvfrom", "sendto"}
ClientUp(c) == udpClient[c] \in {"recvfrom", "sendto"}

-----------------------------------------------------------------------------
(* The client.                                                             *)

(* Seeded bug: the client does not wait for the answer.                    *)
SendPingOn(c) ==
  /\ udpClient[c] = "sendto" /\ sent[c] < MaxPings
  /\ pings' = [pings EXCEPT ![c] = @ + 1]
  /\ sent' = [sent EXCEPT ![c] = @ + 1]
  /\ UNCHANGED << udpClient, udpServer, fromAddr, pongs, refused, lost, kills >>

SendPing(c) ==
  /\ udpClient[c] = "sendto" /\ sent[c] < MaxPings
  /\ udpClient' = [udpClient EXCEPT ![c] = "recvfrom"]
  /\ pings' = [pings EXCEPT ![c] = @ + 1]
  /\ sent' = [sent EXCEPT ![c] = @ + 1]
  /\ UNCHANGED << udpServer, fromAddr, pongs, refused, lost, kills >>

ReceivePong(c) ==
  /\ udpClient[c] = "recvfrom" /\ pongs[c] > 0
  /\ udpClient' = [udpClient EXCEPT ![c] = "sendto"]
  /\ pongs' = [pongs EXCEPT ![c] = @ - 1]
  /\ UNCHANGED << udpServer, fromAddr, pings, refused, sent, lost, kills >>

ClientFails(c) ==
  /\ udpClient[c] = "recvfrom" /\ c \in refused
  /\ udpClient' = [udpClient EXCEPT ![c] = "failed"]
  /\ UNCHANGED << udpServer, fromAddr, pings, pongs, refused, sent, lost, kills >>

-----------------------------------------------------------------------------
(* The server.                                                             *)

StartUdpServer ==
  /\ udpServer = "off"
  /\ udpServer' = "recvfrom"
  /\ UNCHANGED << udpClient, fromAddr, pings, pongs, refused, sent, lost, kills >>

ReceivePing ==
  /\ udpServer = "recvfrom"
  /\ \E c \in Client :
       /\ pings[c] > 0
       /\ pings' = [pings EXCEPT ![c] = @ - 1]
       /\ fromAddr' = c
  /\ udpServer' = "sendto"
  /\ UNCHANGED << udpClient, pongs, refused, sent, lost, kills >>

(* Seeded bug: the answer goes to no one, but the server goes on.          *)
SendPongNowhere ==
  /\ udpServer = "sendto"
  /\ udpServer' = "recvfrom"
  /\ fromAddr' = Nobody
  /\ UNCHANGED << udpClient, pings, pongs, refused, sent, lost, kills >>

SendPong ==
  /\ udpServer = "sendto"
  /\ pongs' = [pongs EXCEPT ![fromAddr] = @ + 1]
  /\ udpServer' = "recvfrom"
  /\ fromAddr' = Nobody
  /\ UNCHANGED << udpClient, pings, refused, sent, lost, kills >>

ServerFails ==
  /\ udpServer = "recvfrom" /\ Nobody \in refused
  /\ udpServer' = "failed"
  /\ UNCHANGED << udpClient, fromAddr, pings, pongs, refused, sent, lost, kills >>

-----------------------------------------------------------------------------
(* The network and the user.                                               *)

(* A datagram comes to a port nobody has.                                  *)
Refuse(c) ==
  /\ \/ /\ ~ServerUp /\ pings[c] > 0
        /\ pings' = [pings EXCEPT ![c] = @ - 1]
        /\ refused' = refused \cup {c}
        /\ UNCHANGED pongs
     \/ /\ ~ClientUp(c) /\ pongs[c] > 0
        /\ pongs' = [pongs EXCEPT ![c] = @ - 1]
        /\ refused' = refused \cup {Nobody}
        /\ UNCHANGED pings
  /\ UNCHANGED << udpClient, udpServer, fromAddr, sent, lost, kills >>

Lose(c) ==
  /\ \/ /\ pings[c] > 0
        /\ pings' = [pings EXCEPT ![c] = @ - 1]
        /\ UNCHANGED pongs
     \/ /\ pongs[c] > 0
        /\ pongs' = [pongs EXCEPT ![c] = @ - 1]
        /\ UNCHANGED pings
  /\ lost' = [lost EXCEPT ![c] = @ + 1]
  /\ UNCHANGED << udpClient, udpServer, fromAddr, refused, sent, kills >>

KillClient(c) ==
  /\ ClientUp(c) /\ kills < MaxKills
  /\ udpClient' = [udpClient EXCEPT ![c] = "closed"]
  /\ kills' = kills + 1
  /\ UNCHANGED << udpServer, fromAddr, pings, pongs, refused, sent, lost >>

KillServer ==
  /\ ServerUp /\ kills < MaxKills
  /\ udpServer' = "closed"
  /\ fromAddr' = Nobody
  /\ kills' = kills + 1
  /\ UNCHANGED << udpClient, pings, pongs, refused, sent, lost >>

-----------------------------------------------------------------------------

UdpServerStep == ReceivePing \/ SendPong \/ ServerFails
UdpClientStep(c) == SendPing(c) \/ ReceivePong(c) \/ ClientFails(c)

UdpNext ==
  \/ StartUdpServer \/ UdpServerStep \/ KillServer
  \/ \E c \in Client : UdpClientStep(c) \/ Refuse(c) \/ Lose(c) \/ KillClient(c)

UdpFairness == WF_udpVars(UdpServerStep) /\ \A c \in Client : WF_udpVars(UdpClientStep(c))

UdpSpec == UdpInit /\ [][UdpNext]_udpVars

-----------------------------------------------------------------------------

UdpTypeOK ==
  /\ udpClient \in [Client -> {"sendto", "recvfrom", "failed", "closed"}]
  /\ udpServer \in {"off", "recvfrom", "sendto", "failed", "closed"}
  /\ fromAddr \in Client \cup {Nobody}
  /\ pings \in [Client -> Nat] /\ pongs \in [Client -> Nat]
  /\ refused \subseteq Client \cup {Nobody}
  /\ sent \in [Client -> Nat] /\ lost \in [Client -> Nat]
  /\ kills \in Nat

(* What of a client's last ping is left: on its way, with the server, or   *)
(* answered and on its way back.                                           *)
Outstanding(c) == pings[c] + pongs[c] + (IF fromAddr = c THEN 1 ELSE 0)

(* A client and the server take turns: at most one datagram of theirs is   *)
(* on its way or with the server, and none while the client is to send.    *)
(* A client that waits has one, unless it was lost, refused, or died with  *)
(* the server (both main loops).                                           *)
TurnsTaken ==
  \A c \in Client :
    /\ Outstanding(c) <= 1
    /\ udpClient[c] = "sendto" => Outstanding(c) = 0
    /\ udpClient[c] = "recvfrom" /\ Outstanding(c) = 0
         => lost[c] > 0 \/ c \in refused \/ udpServer = "closed"

(* A client that waits gets its answer, unless a datagram of its is lost   *)
(* or a program ends: the server answers whoever writes, though it answers *)
(* one at a time and the model takes them in any order (both main loops).  *)
PingsAnswered ==
  \A c \in Client :
    udpClient[c] = "recvfrom"
      ~> udpClient[c] = "sendto" \/ lost[c] > 0 \/ ~ServerUp \/ ~ClientUp(c)

=============================================================================
