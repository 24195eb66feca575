------------------------------- MODULE MCProcess -------------------------------
(***************************************************************************)
(* What NodeCluster leaves out of a SiSiMEX process, for TLC: its modules  *)
(* from start to end, its counter of ids over a long life, and the bytes   *)
(* of its packets.  One of them moves while the others are at their start, *)
(* so that each is explored whole and they do not multiply.                *)
(***************************************************************************)
EXTENDS Application, AgentIds, PacketFormats

(* Ids tell a word from its swapped bytes, addresses have several lengths. *)
MCLocation ==
  { [hostIP |-> <<127, 1>>, hostPort |-> 8001, agentId |-> 1],
    [hostIP |-> <<49>>, hostPort |-> 8001, agentId |-> 258] }

MCNotSet == { [hostIP |-> <<>>, hostPort |-> 0, agentId |-> 258] }

Init == AppInit /\ IdsInit /\ FormatsInit

Next ==
  \/ IdsInit /\ FormatsInit /\ AppNext /\ UNCHANGED << idVars, packetVars >>
  \/ AppInit /\ FormatsInit /\ IdsNext /\ UNCHANGED << appVars, packetVars >>
  \/ AppInit /\ IdsInit /\ FormatsNext /\ UNCHANGED << appVars, idVars >>

Spec == Init /\ [][Next]_<< appVars, idVars, packetVars >>

=============================================================================
