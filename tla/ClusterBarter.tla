---------------------------- MODULE ClusterBarter ----------------------------
(***************************************************************************)
(* The node cluster implements Barter while nobody clears the agents and   *)
(* no process ends.  A bargain bears the id of its UCC and is struck when  *)
(* the UCP that talks to it succeeds.  runSystem() stops the agent it has  *)
(* exchanged items for: the MCC's stop() destroys the UCC, the MCP's       *)
(* stop() the MCP, and that is how a booked side is told from one that is  *)
(* not.                                                                    *)
(***************************************************************************)
EXTENDS NodeCluster

(* The bargain of UCC c, between its MCC p and the MCP q.                  *)
BargainOf(c, p, q) ==
  [ name |-> c, giver |-> agent[p].node, taker |-> agent[q].node,
    item |-> agent[p].give, price |-> agent[p].want,
    given |-> ~agent[c].valid,
    taken |-> ~agent[q].valid ]

Struck ==
  UNION { { BargainOf(agent[u].location, p, q) :
              p \in ContributorOf(u), q \in PetitionerOf(u) } :
          u \in {j \in Ids : agent[j].kind = "UCP" /\ agent[j].success} }

Trade == INSTANCE Barter WITH stock <- items, struck <- Struck, Bargains <- Ids

(* Every bargain is struck once and its terms never change; its giver and  *)
(* its taker book it at most once each and on these terms, whatever        *)
(* happens to the search and the agents behind it; and nothing else but a  *)
(* sale or a purchase ever moves an item (runSystem(), MCP, UCP, MCC, UCC).*)
ImplementsBarter == Trade!Spec

===============================================================================
