---------------------------- MODULE MCNodeCluster ----------------------------
(***************************************************************************)
(* Small clusters for TLC.  A distribution gives every node as many items  *)
(* as there are items, and every item as many copies as there are nodes,   *)
(* as startSystem() does.                                                  *)
(***************************************************************************)
EXTENDS ClusterBarter

(* Two nodes, each with two copies of what the other misses, and one of    *)
(* every other item.  A third node has one of each.                        *)
Swap == {[n \in Nodes |-> [x \in Items |->
            IF n > 1 THEN 1 ELSE IF x = n THEN 2 ELSE IF x = 1 - n THEN 0 ELSE 1]]}

(* Three nodes in a ring: node n has item n twice and misses item n+1.     *)
Ring == {[n \in Nodes |-> [x \in Items |->
            IF x = n THEN 2 ELSE IF x = (n + 1) % 3 THEN 0 ELSE 1]]}

(* A market in which no search ends with an exchange, or one in which two  *)
(* may.                                                                    *)
Market == Ring \cup Swap

-----------------------------------------------------------------------------
(* Bounds on what happens from outside.                                    *)

Use(create, spawn, clear, sell, pay) ==
  [b \in Buttons |-> CASE b = "CreateMCCs" -> create
                       [] b = "SpawnMCP"   -> spawn
                       [] b = "Clear"      -> clear
                       [] b = "Sell"       -> sell
                       [] b = "Pay"        -> pay]

OneOffer        == Use(1, 0, 0, 0, 0)
OneSearch       == Use(1, 1, 0, 0, 0)
TwoSearches     == Use(1, 2, 0, 0, 0)
SalesAndSearch  == Use(1, 1, 0, 2, 0)
Shopping        == Use(1, 1, 0, 2, 1)
SearchCleared   == Use(1, 1, 1, 0, 1)

NoFault          == [f \in Failures |-> 0]
AnyFault         == [f \in Failures |-> 1]
YellowPagesClosed == [f \in Failures |-> IF f = "CloseYellowPages" THEN 1 ELSE 0]

=============================================================================
