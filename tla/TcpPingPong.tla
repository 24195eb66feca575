----------------------------- MODULE TcpPingPong -----------------------------
(***************************************************************************)
(* The TCP client and server of the first session.  The server accepts one *)
(* client, answers every piece of data it receives with a pong, and ends   *)
(* when that client closes; whoever else connects waits meanwhile.  A      *)
(* program that fails pauses with its sockets open until a key is pressed, *)
(* and the user may close any of them in the middle of what it does.       *)
(***************************************************************************)
EXTENDS PingPong, Integers, FiniteSets

CONSTANTS
  Rounds,       \* pings of a client
  PingSize,     \* bytes of a ping, and of a pong
  MaxWaiting    \* the backlog of listen()

ASSUME TcpAssumption ==
  /\ Rounds \in Nat \ {0} /\ PingSize \in Nat \ {0}
  /\ MaxWaiting \in Nat /\ MaxKills \in Nat

VARIABLES
  tcpClient,    \* [Client -> what the client does next]
  tcpServer,    \* what the server does next
  served,       \* the client the server has accepted
  rounds,       \* [Client -> i, the pings answered so far]
  toServer,     \* [Client -> bytes the server has not received]
  toClient,     \* [Client -> bytes the client has not received]
  clientEnd,    \* [Client -> how the client's end of its connection is]
  serverEnd,    \* [Client -> how the server's end of it is]
  tcpKills

tcpVars == << tcpClient, tcpServer, served, rounds, toServer, toClient,
              clientEnd, serverEnd, tcpKills >>

TcpStart(client, server) ==
  /\ tcpClient = [c \in Client |-> client]
  /\ tcpServer = server
  /\ served    = Nobody
  /\ rounds    = [c \in Client |-> 0]
  /\ toServer  = [c \in Client |-> 0]
  /\ toClient  = [c \in Client |-> 0]
  /\ clientEnd = [c \in Client |-> "none"]
  /\ serverEnd = [c \in Client |-> "none"]
  /\ tcpKills  = 0

TcpInit == TcpStart("connect", "off")

Listening == tcpServer \in {"accept", "recv", "send", "close", "failed"}

(* Connections no one has accepted; a client that left still counts.       *)
Waiting == {c \in Client : serverEnd[c] = "open" /\ c # served}

Step(c, here, next) ==
  tcpClient[c] = here /\ tcpClient' = [tcpClient EXCEPT ![c] = next]

-----------------------------------------------------------------------------
(* The client.                                                             *)

Connect(c) ==
  /\ IF Listening /\ Cardinality(Waiting) < MaxWaiting
     THEN /\ Step(c, "connect", "send")
          /\ clientEnd' = [clientEnd EXCEPT ![c] = "open"]
          /\ serverEnd' = [serverEnd EXCEPT ![c] = "open"]
     ELSE /\ Step(c, "connect", "failed")
          /\ UNCHANGED << clientEnd, serverEnd >>
  /\ UNCHANGED << tcpServer, served, rounds, toServer, toClient, tcpKills >>

(* A ping to a server that is gone brings a reset back, sooner or later.   *)
(* The error it makes is WSAECONNRESET, which ends the loop, or another.   *)
ClientSend(c) ==
  /\ \/ /\ serverEnd[c] = "open" /\ Step(c, "send", "recv")
        /\ toServer' = [toServer EXCEPT ![c] = @ + PingSize]
        /\ UNCHANGED serverEnd
     \/ /\ serverEnd[c] \in {"closed", "reset"} /\ Step(c, "send", "recv")
        /\ \E end \in {serverEnd[c], "reset"} : serverEnd' = [serverEnd EXCEPT ![c] = end]
        /\ UNCHANGED toServer
     \/ /\ serverEnd[c] = "reset" /\ \E next \in {"close", "failed"} : Step(c, "send", next)
        /\ UNCHANGED << toServer, serverEnd >>
  /\ UNCHANGED << tcpServer, served, rounds, toClient, clientEnd, tcpKills >>

(* Any part of what the server sent counts as the answer.                  *)
ClientReceive(c) ==
  /\ tcpClient[c] = "recv"
  /\ \E n \in 1..toClient[c] : toClient' = [toClient EXCEPT ![c] = @ - n]
  /\ rounds' = [rounds EXCEPT ![c] = @ + 1]
  /\ Step(c, "recv", IF rounds[c] + 1 < Rounds THEN "send" ELSE "close")
  /\ UNCHANGED << tcpServer, served, toServer, clientEnd, serverEnd, tcpKills >>

ClientReceiveEnd(c) ==
  /\ \/ serverEnd[c] = "closed" /\ toClient[c] = 0 /\ Step(c, "recv", "close")
     \/ serverEnd[c] = "reset" /\ Step(c, "recv", "failed")
  /\ UNCHANGED << tcpServer, served, rounds, toServer, toClient, clientEnd, serverEnd, tcpKills >>

(* Who closes with bytes still to receive resets the connection; so may    *)
(* who leaves it to the end of the process or to WSACleanup().             *)
ClosedBy(unread)    == IF unread > 0 THEN "reset" ELSE "closed"
AbandonedBy(unread) == {ClosedBy(unread), "reset"}

ClientClose(c) ==
  /\ Step(c, "close", "done")
  /\ clientEnd' = [clientEnd EXCEPT ![c] = ClosedBy(toClient[c])]
  /\ UNCHANGED << tcpServer, served, rounds, toServer, toClient, serverEnd, tcpKills >>

(* The user closes a client, or presses a key for one that has failed.     *)
KillTcpClient(c) ==
  /\ tcpClient[c] \notin {"connect", "done", "killed"}
  /\ \/ tcpClient[c] = "failed" /\ tcpKills' = tcpKills
     \/ tcpClient[c] # "failed" /\ tcpKills < MaxKills /\ tcpKills' = tcpKills + 1
  /\ tcpClient' = [tcpClient EXCEPT ![c] = "killed"]
  /\ \E end \in AbandonedBy(toClient[c]) : clientEnd' = [clientEnd EXCEPT ![c] =
       IF @ = "open" THEN end ELSE @]
  /\ UNCHANGED << tcpServer, served, rounds, toServer, toClient, serverEnd >>

-----------------------------------------------------------------------------
(* The server.                                                             *)

StartTcpServer ==
  /\ tcpServer = "off" /\ tcpServer' = "accept"
  /\ UNCHANGED << tcpClient, served, rounds, toServer, toClient, clientEnd, serverEnd, tcpKills >>

ServerAccept ==
  /\ tcpServer = "accept" /\ tcpServer' = "recv"
  /\ served' \in Waiting
  /\ UNCHANGED << tcpClient, rounds, toServer, toClient, clientEnd, serverEnd, tcpKills >>

(* Seeded bug: a ping that is cut is taken for the end.                    *)
ServerReceiveWhole ==
  /\ tcpServer = "recv"
  /\ \E n \in 1..toServer[served] :
       /\ toServer' = [toServer EXCEPT ![served] = @ - n]
       /\ tcpServer' = IF n < PingSize THEN "close" ELSE "send"
  /\ UNCHANGED << tcpClient, served, rounds, toClient, clientEnd, serverEnd, tcpKills >>

ServerReceive ==
  /\ tcpServer = "recv" /\ tcpServer' = "send"
  /\ \E n \in 1..toServer[served] : toServer' = [toServer EXCEPT ![served] = @ - n]
  /\ UNCHANGED << tcpClient, served, rounds, toClient, clientEnd, serverEnd, tcpKills >>

(* The end of the client is the end of the loop, a reset a failure.        *)
ServerReceiveEnd ==
  /\ tcpServer = "recv"
  /\ \/ clientEnd[served] = "closed" /\ toServer[served] = 0 /\ tcpServer' = "close"
     \/ clientEnd[served] = "reset" /\ tcpServer' = "failed"
  /\ UNCHANGED << tcpClient, served, rounds, toServer, toClient, clientEnd, serverEnd, tcpKills >>

ServerSend ==
  /\ tcpServer = "send"
  /\ \/ /\ clientEnd[served] = "open" /\ tcpServer' = "recv"
        /\ toClient' = [toClient EXCEPT ![served] = @ + PingSize]
        /\ UNCHANGED clientEnd
     \/ /\ clientEnd[served] \in {"closed", "reset"} /\ tcpServer' = "recv"
        /\ \E end \in {clientEnd[served], "reset"} :
             clientEnd' = [clientEnd EXCEPT ![served] = end]
        /\ UNCHANGED toClient
     \/ /\ clientEnd[served] = "reset" /\ tcpServer' = "failed"
        /\ UNCHANGED << toClient, clientEnd >>
  /\ UNCHANGED << tcpClient, served, rounds, toServer, serverEnd, tcpKills >>

(* Seeded bug: the server closes the connection it accepted, and no other. *)
LeaveServerServed(next) ==
  /\ tcpServer' = next
  /\ serverEnd' = [serverEnd EXCEPT ![served] = ClosedBy(toServer[served])]
  /\ UNCHANGED << tcpClient, served, rounds, toServer, toClient, clientEnd >>

(* The sockets the server has open, accepted by it or not.  The code       *)
(* closes only the listening one, and leaves the rest to be abandoned.     *)
LeaveServer(next) ==
  /\ tcpServer' = next
  /\ serverEnd' \in [Client -> {"none", "open", "closed", "reset"}]
  /\ \A c \in Client : serverEnd'[c] \in
       IF serverEnd[c] = "open" THEN AbandonedBy(toServer[c]) ELSE {serverEnd[c]}
  /\ UNCHANGED << tcpClient, served, rounds, toServer, toClient, clientEnd >>

ServerClose == tcpServer = "close" /\ LeaveServer("done") /\ UNCHANGED tcpKills

(* A key is pressed for the server that has failed.                        *)
ServerExit == tcpServer = "failed" /\ LeaveServer("done") /\ UNCHANGED tcpKills

(* The user closes the server, whomever it serves.                         *)
KillTcpServer ==
  /\ tcpServer \in {"accept", "recv", "send", "close"}
  /\ tcpKills < MaxKills /\ tcpKills' = tcpKills + 1
  /\ LeaveServer("killed")

-----------------------------------------------------------------------------

TcpServerStep ==
  ServerAccept \/ ServerReceive \/ ServerReceiveEnd \/ ServerSend \/ ServerClose

TcpClientStep(c) ==
  ClientSend(c) \/ ClientReceive(c) \/ ClientReceiveEnd(c) \/ ClientClose(c)

TcpNext ==
  \/ StartTcpServer \/ TcpServerStep \/ ServerExit \/ KillTcpServer
  \/ \E c \in Client : Connect(c) \/ TcpClientStep(c) \/ KillTcpClient(c)

(* Neither program waits for its user, but for whom it talks to.           *)
TcpFairness == WF_tcpVars(TcpServerStep) /\ \A c \in Client : WF_tcpVars(TcpClientStep(c))

TcpSpec == TcpInit /\ [][TcpNext]_tcpVars

-----------------------------------------------------------------------------

TcpTypeOK ==
  /\ tcpClient \in [Client -> {"connect", "send", "recv", "close", "done", "failed", "killed"}]
  /\ tcpServer \in {"off", "accept", "recv", "send", "close", "failed", "done", "killed"}
  /\ served \in Client \cup {Nobody}
  /\ rounds \in [Client -> 0..Rounds]
  /\ toServer \in [Client -> Nat] /\ toClient \in [Client -> Nat]
  /\ clientEnd \in [Client -> {"none", "open", "closed", "reset"}]
  /\ serverEnd \in [Client -> {"none", "open", "closed", "reset"}]
  /\ tcpKills \in Nat

(* However its pings are cut into pieces and the pongs for them pile up,   *)
(* the client the server accepted leaves its loop with all rounds done,    *)
(* unless the user has closed the server: only then is one of the breaks   *)
(* of the client's loop taken.  The server ends or fails only after that   *)
(* client, and by its own loop never before (both main loops).             *)
RoundsComplete ==
  served # Nobody =>
    /\ tcpClient[served] \in {"close", "done"} =>
         rounds[served] = Rounds \/ tcpServer = "killed"
    /\ tcpServer \in {"close", "failed", "done"} => tcpClient[served] \in {"done", "killed"}

(* A client that connects is not held for ever, not even one the server    *)
(* never accepts or one it is taken away from, unless the server has       *)
(* failed and pauses with its sockets open (closesocket(), WSACleanup()).  *)
ClientsLetGo ==
  \A c \in Client :
    tcpClient[c] = "send"
      ~> tcpClient[c] \in {"done", "failed", "killed"} \/ tcpServer = "failed"

=============================================================================
