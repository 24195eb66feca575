---------------------------- MODULE PingPong_proofs ----------------------------
(***************************************************************************)
(* For any number of clients: the UDP client and server take turns,        *)
(* however many datagrams are lost; the client the TCP server has accepted *)
(* does all its rounds and the server does not end before it, unless the   *)
(* user closes the server.                                                 *)
(***************************************************************************)
EXTENDS UdpPingPong, TcpPingPong, TLAPS

-----------------------------------------------------------------------------
(* The UDP programs.                                                       *)

(* The server answers someone exactly while it is about to send.           *)
AnswersSomeone == (fromAddr # Nobody) <=> (udpServer = "sendto")

UdpInv == UdpTypeOK /\ AnswersSomeone /\ TurnsTaken

LEMMA UdpInitInv == UdpInit => UdpInv
BY ClientAssumption
   DEF UdpInit, UdpStart, UdpInv, UdpTypeOK, AnswersSomeone, TurnsTaken, Outstanding

LEMMA UdpNextInv == UdpInv /\ [UdpNext]_udpVars => UdpInv'
<1> SUFFICES ASSUME UdpInv, [UdpNext]_udpVars
             PROVE  UdpInv'
  OBVIOUS
<1> USE ClientAssumption DEF UdpInv, UdpTypeOK, AnswersSomeone
<1>1. ASSUME NEW c \in Client, SendPing(c) PROVE UdpInv'
  BY <1>1 DEF SendPing, TurnsTaken, Outstanding
<1>2. ASSUME NEW c \in Client, ReceivePong(c) PROVE UdpInv'
  BY <1>2 DEF ReceivePong, TurnsTaken, Outstanding
<1>3. ASSUME NEW c \in Client, ClientFails(c) PROVE UdpInv'
  BY <1>3 DEF ClientFails, TurnsTaken, Outstanding
<1>4. CASE StartUdpServer
  BY <1>4 DEF StartUdpServer, TurnsTaken, Outstanding
<1>5. CASE ReceivePing
  BY <1>5 DEF ReceivePing, TurnsTaken, Outstanding
<1>6. CASE SendPong
  BY <1>6 DEF SendPong, TurnsTaken, Outstanding
<1>7. CASE ServerFails
  BY <1>7 DEF ServerFails, TurnsTaken, Outstanding
<1>8. ASSUME NEW c \in Client, Refuse(c) PROVE UdpInv'
  <2>1. CASE pings[c] > 0 /\ pings' = [pings EXCEPT ![c] = @ - 1]
               /\ refused' = refused \cup {c} /\ UNCHANGED pongs
    BY <1>8, <2>1 DEF Refuse, TurnsTaken, Outstanding
  <2>2. CASE ~ClientUp(c) /\ pongs[c] > 0 /\ pongs' = [pongs EXCEPT ![c] = @ - 1]
               /\ refused' = refused \cup {Nobody} /\ UNCHANGED pings
    BY <1>8, <2>2 DEF Refuse, ClientUp, TurnsTaken, Outstanding
  <2> QED BY <1>8, <2>1, <2>2 DEF Refuse
<1>9. ASSUME NEW c \in Client, Lose(c) PROVE UdpInv'
  <2>1. CASE pings[c] > 0 /\ pings' = [pings EXCEPT ![c] = @ - 1] /\ UNCHANGED pongs
    BY <1>9, <2>1 DEF Lose, TurnsTaken, Outstanding
  <2>2. CASE pongs[c] > 0 /\ pongs' = [pongs EXCEPT ![c] = @ - 1] /\ UNCHANGED pings
    BY <1>9, <2>2 DEF Lose, TurnsTaken, Outstanding
  <2> QED BY <1>9, <2>1, <2>2 DEF Lose
<1>10. ASSUME NEW c \in Client, KillClient(c) PROVE UdpInv'
  BY <1>10 DEF KillClient, ClientUp, TurnsTaken, Outstanding
<1>11. CASE KillServer
  BY <1>11 DEF KillServer, ServerUp, TurnsTaken, Outstanding
<1>12. CASE UNCHANGED udpVars
  BY <1>12 DEF udpVars, TurnsTaken, Outstanding
<1> QED
  BY <1>1, <1>2, <1>3, <1>4, <1>5, <1>6, <1>7, <1>8, <1>9, <1>10, <1>11, <1>12
     DEF UdpNext, UdpServerStep, UdpClientStep

(* A client and the server have at most one datagram between them, and a   *)
(* client that waits has one, unless it was lost, refused, or died with    *)
(* the server: for any number of clients, pings and losses.                *)
THEOREM UdpTurns == UdpSpec => []TurnsTaken
<1>1. UdpInv => TurnsTaken
  BY DEF UdpInv
<1> QED
  BY UdpInitInv, UdpNextInv, <1>1, PTL DEF UdpSpec

-----------------------------------------------------------------------------
(* The TCP programs.                                                       *)

Gone(c) == tcpClient[c] \in {"done", "killed"}

Over == tcpServer \in {"done", "killed"}

(* There is someone to serve from accept() on.                             *)
ServesSomeone ==
  /\ tcpServer \in {"off", "accept"} => served = Nobody
  /\ tcpServer \in {"recv", "send", "close", "failed", "done"} => served # Nobody

(* Who has closed its end of a connection has ended; so has the client of  *)
(* a server that is about to end by itself.                                *)
EndsInOrder ==
  /\ \A c \in Client : clientEnd[c] \in {"closed", "reset"} => Gone(c)
  /\ \A c \in Client : serverEnd[c] \in {"closed", "reset"} => Over
  /\ tcpServer \in {"close", "failed", "done"} => Gone(served)

(* A client that was not accepted yet has nothing to receive.              *)
NotServedWaits ==
  \A c \in Client :
    /\ tcpClient[c] = "connect" => serverEnd[c] = "none"
    /\ c # served => toClient[c] = 0
    /\ c # served /\ serverEnd[c] = "open" => tcpClient[c] \in {"send", "recv", "killed"}

RoundsLeft ==
  /\ \A c \in Client : tcpClient[c] \in {"connect", "send", "recv"} => rounds[c] < Rounds
  /\ served # Nobody /\ tcpClient[served] \in {"close", "done"} =>
       rounds[served] = Rounds \/ tcpServer = "killed"

ServedConnected == served # Nobody /\ ~Over => serverEnd[served] = "open"

TcpInv ==
  TcpTypeOK /\ ServesSomeone /\ EndsInOrder /\ NotServedWaits /\ RoundsLeft /\ ServedConnected

LEMMA TcpInitInv == TcpInit => TcpInv
BY ClientAssumption, TcpAssumption
   DEF TcpInit, TcpStart, TcpInv, TcpTypeOK, ServesSomeone, EndsInOrder, Gone, Over,
       NotServedWaits, RoundsLeft, ServedConnected

(* A server that ends leaves no connection open, and makes none.           *)
LEMMA LeaveEnds ==
  ASSUME TcpTypeOK, NEW next, LeaveServer(next)
  PROVE  /\ serverEnd' \in [Client -> {"none", "open", "closed", "reset"}]
         /\ \A c \in Client : serverEnd'[c] # "open" /\ (serverEnd[c] = "none" => serverEnd'[c] = "none")
<1>1. \A c \in Client :
        serverEnd'[c] \in IF serverEnd[c] = "open" THEN AbandonedBy(toServer[c]) ELSE {serverEnd[c]}
  BY DEF LeaveServer
<1>2. \A c \in Client : AbandonedBy(toServer[c]) \subseteq {"closed", "reset"}
  BY DEF AbandonedBy, ClosedBy
<1>3. ASSUME NEW c \in Client
      PROVE  serverEnd'[c] # "open" /\ (serverEnd[c] = "none" => serverEnd'[c] = "none")
  <2>1. CASE serverEnd[c] = "open"
    BY <1>1, <1>2, <2>1
  <2>2. CASE serverEnd[c] # "open"
    BY <1>1, <2>2
  <2> QED BY <2>1, <2>2
<1> QED BY <1>3 DEF LeaveServer

LEMMA TcpNextInv == TcpInv /\ [TcpNext]_tcpVars => TcpInv'
<1> SUFFICES ASSUME TcpInv, [TcpNext]_tcpVars
             PROVE  TcpInv'
  OBVIOUS
<1> USE ClientAssumption, TcpAssumption
    DEF TcpInv, TcpTypeOK, ServesSomeone, EndsInOrder, Gone, Over,
        NotServedWaits, RoundsLeft, ServedConnected
<1>1. ASSUME NEW c \in Client, Connect(c) PROVE TcpInv'
  <2>1. CASE tcpClient' = [tcpClient EXCEPT ![c] = "failed"]
    BY <1>1, <2>1 DEF Connect, Step
  <2>2. CASE /\ Listening
             /\ tcpClient' = [tcpClient EXCEPT ![c] = "send"]
             /\ clientEnd' = [clientEnd EXCEPT ![c] = "open"]
             /\ serverEnd' = [serverEnd EXCEPT ![c] = "open"]
    BY <1>1, <2>2 DEF Connect, Step, Listening
  <2> QED BY <1>1, <2>1, <2>2 DEF Connect, Step
<1>2. ASSUME NEW c \in Client, ClientSend(c) PROVE TcpInv'
  <2>1. CASE serverEnd[c] = "open" /\ UNCHANGED serverEnd
    BY <1>2, <2>1 DEF ClientSend, Step
  <2>2. ASSUME serverEnd[c] \in {"closed", "reset"}, NEW end \in {serverEnd[c], "reset"},
               serverEnd' = [serverEnd EXCEPT ![c] = end],
               tcpClient' = [tcpClient EXCEPT ![c] = "recv"]
        PROVE  TcpInv'
    <3>1. end \in {"closed", "reset"} /\ Over
      BY <2>2
    <3>2. tcpClient[c] = "send"
      BY <1>2 DEF ClientSend, Step
    <3>3. UNCHANGED << tcpServer, served, rounds, toServer, toClient, clientEnd, tcpKills >>
      BY <1>2, <2>2 DEF ClientSend
    <3> QED BY <2>2, <3>1, <3>2, <3>3
  <2>3. CASE serverEnd[c] = "reset" /\ UNCHANGED serverEnd
    BY <1>2, <2>3 DEF ClientSend, Step
  <2> QED BY <1>2, <2>1, <2>2, <2>3 DEF ClientSend, Step
<1>3. ASSUME NEW c \in Client, ClientReceive(c) PROVE TcpInv'
  <2>1. c = served
    BY <1>3 DEF ClientReceive
  <2> QED BY <1>3, <2>1 DEF ClientReceive, Step
<1>4. ASSUME NEW c \in Client, ClientReceiveEnd(c) PROVE TcpInv'
  BY <1>4 DEF ClientReceiveEnd, Step
<1>5. ASSUME NEW c \in Client, ClientClose(c) PROVE TcpInv'
  BY <1>5 DEF ClientClose, Step, ClosedBy
<1>6. ASSUME NEW c \in Client, KillTcpClient(c) PROVE TcpInv'
  BY <1>6 DEF KillTcpClient, AbandonedBy, ClosedBy
<1>7. CASE StartTcpServer
  BY <1>7 DEF StartTcpServer
<1>8. CASE ServerAccept
  BY <1>8 DEF ServerAccept, Waiting
<1>9. CASE ServerReceive
  BY <1>9 DEF ServerReceive
<1>10. CASE ServerReceiveEnd
  BY <1>10 DEF ServerReceiveEnd
<1>11. CASE ServerSend
  <2>1. CASE clientEnd[served] = "open" /\ UNCHANGED clientEnd
    BY <1>11, <2>1 DEF ServerSend
  <2>2. ASSUME clientEnd[served] \in {"closed", "reset"}, NEW end \in {clientEnd[served], "reset"},
               clientEnd' = [clientEnd EXCEPT ![served] = end],
               tcpServer' = "recv"
        PROVE  TcpInv'
    <3>1. served \in Client /\ tcpServer = "send" /\ serverEnd[served] = "open"
      BY <1>11 DEF ServerSend
    <3>2. end \in {"closed", "reset"} /\ Gone(served)
      BY <2>2, <3>1
    <3>3. UNCHANGED << tcpClient, served, rounds, toServer, toClient, serverEnd, tcpKills >>
      BY <1>11, <2>2 DEF ServerSend
    <3> QED BY <2>2, <3>1, <3>2, <3>3
  <2>3. CASE clientEnd[served] = "reset" /\ UNCHANGED clientEnd
    BY <1>11, <2>3 DEF ServerSend
  <2> QED BY <1>11, <2>1, <2>2, <2>3 DEF ServerSend
<1>12. CASE ServerClose \/ ServerExit
  <2>1. tcpServer' = "done" /\ served # Nobody /\ Gone(served) /\ LeaveServer("done")
    BY <1>12 DEF ServerClose, ServerExit, LeaveServer
  <2>2. UNCHANGED << tcpClient, served, rounds, toServer, toClient, clientEnd, tcpKills >>
    BY <1>12 DEF ServerClose, ServerExit, LeaveServer
  <2>3. tcpServer \in {"close", "failed"}
    BY <1>12 DEF ServerClose, ServerExit
  <2> QED BY <2>1, <2>2, <2>3, LeaveEnds
<1>13. CASE KillTcpServer
  <2>1. tcpServer' = "killed" /\ LeaveServer("killed") /\ tcpKills' \in Nat
    BY <1>13 DEF KillTcpServer, LeaveServer
  <2>2. UNCHANGED << tcpClient, served, rounds, toServer, toClient, clientEnd >>
    BY <1>13 DEF KillTcpServer, LeaveServer
  <2> QED BY <2>1, <2>2, LeaveEnds
<1>14. CASE UNCHANGED tcpVars
  BY <1>14 DEF tcpVars
<1> QED
  BY <1>1, <1>2, <1>3, <1>4, <1>5, <1>6, <1>7, <1>8, <1>9, <1>10, <1>11, <1>12, <1>13, <1>14
     DEF TcpNext, TcpServerStep, TcpClientStep

(* The client that was accepted leaves its loop with all its rounds done   *)
(* unless the user has closed the server that serves it, and the server    *)
(* ends or fails after that client only, however the pings are cut into    *)
(* pieces and whichever clients are closed (both main loops).              *)
THEOREM TcpRounds == TcpSpec => []RoundsComplete
<1>1. TcpInv => RoundsComplete
  BY DEF TcpInv, RoundsLeft, EndsInOrder, Gone, RoundsComplete
<1> QED
  BY TcpInitInv, TcpNextInv, <1>1, PTL DEF TcpSpec

================================================================================
