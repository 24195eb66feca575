-------------------------------- MODULE Barter --------------------------------
(***************************************************************************)
(* What the cluster promises its users about trade, with no agents, frames *)
(* or packets.  A bargain is struck once, on terms that never change.      *)
(* Each of its two sides then books it, at most once and in any order:     *)
(* the giver gives the item and receives the price, the taker the other    *)
(* way round.  Beside that only sales and purchases move items.            *)
(***************************************************************************)
EXTENDS Integers

CONSTANTS
  Nodes,
  Items,
  Bargains   \* names of bargains

VARIABLES
  stock,     \* [Nodes -> [Items -> Nat]]: copies each node holds
  struck     \* the bargains struck so far

Bargain ==
  [ name : Bargains, giver : Nodes, taker : Nodes, item : Items, price : Items,
    given : BOOLEAN,     \* booked by the giver
    taken : BOOLEAN ]    \* booked by the taker

TypeOK ==
  /\ stock \in [Nodes -> [Items -> Nat]]
  /\ struck \subseteq Bargain

Init ==
  /\ stock \in [Nodes -> [Items -> Nat]]
  /\ struck = {}

(* Node n gives x away and receives y.                                     *)
Swap(n, x, y) ==
  /\ stock[n][x] > 0
  /\ LET left == [stock[n] EXCEPT ![x] = @ - 1]
     IN  stock' = [stock EXCEPT ![n] = [left EXCEPT ![y] = @ + 1]]

Strike ==
  \E b \in struck' \ struck :
    /\ b \in Bargain
    /\ \A c \in struck : c.name # b.name
    /\ ~b.given /\ ~b.taken
    /\ struck' = struck \cup {b}
    /\ UNCHANGED stock

Give(b) ==
  /\ ~b.given
  /\ Swap(b.giver, b.item, b.price)
  /\ struck' = (struck \ {b}) \cup {[b EXCEPT !.given = TRUE]}

Take(b) ==
  /\ ~b.taken
  /\ Swap(b.taker, b.price, b.item)
  /\ struck' = (struck \ {b}) \cup {[b EXCEPT !.taken = TRUE]}

(* A copy is sold or bought.                                               *)
Shop(n, x) ==
  /\ stock'[n][x] \in {stock[n][x] - 1, stock[n][x] + 1} \cap Nat
  /\ stock' = [stock EXCEPT ![n][x] = stock'[n][x]]
  /\ UNCHANGED struck

Next ==
  \/ Strike
  \/ \E b \in struck : Give(b) \/ Take(b)
  \/ \E n \in Nodes, x \in Items : Shop(n, x)

Spec == Init /\ [][Next]_<<stock, struck>>

===============================================================================
