------------------------------ MODULE ItemLists ------------------------------
(***************************************************************************)
(* The nodes of the cluster: each owns a list of items, a mark for every   *)
(* item that is being negotiated, and money (Node.h, ItemList.cpp).        *)
(***************************************************************************)
EXTENDS Integers, FiniteSets

CONSTANTS
  Nodes,          \* node numbers
  Items,          \* item identifiers
  InitialItems,   \* the distributions of items startSystem() can produce
  ItemsPerNode    \* items each node starts with (MAX_ITEMS)

ASSUME NodesAssumption == Nodes \subseteq Nat /\ IsFiniteSet(Nodes)
ASSUME ItemsAssumption == Items \subseteq Nat /\ IsFiniteSet(Items) /\ Items # {}
ASSUME InitialItemsAssumption == InitialItems \subseteq [Nodes -> [Items -> Nat]]
ASSUME ItemsPerNodeAssumption == ItemsPerNode \in Nat

ITEMPRICE  == 100
StartMoney == 300

VARIABLES
  items,          \* [Nodes -> [Items -> Nat]]: ItemList::items
  numberOfItems,  \* [Nodes -> Nat]: ItemList::numberOfItems
  used,           \* [Nodes -> [Items -> BOOLEAN]]: ItemList::usedItems
  money           \* [Nodes -> Nat]

nodeVars == << items, numberOfItems, used, money >>

ItemListsTypeOK ==
  /\ items \in [Nodes -> [Items -> Nat]]
  /\ numberOfItems \in [Nodes -> Int]
  /\ used \in [Nodes -> [Items -> BOOLEAN]]
  /\ money \in [Nodes -> Nat]

(* initializeComplete() and the shuffle of startSystem(): every node gives *)
(* one item away and receives one in each round, so it ends with as many.  *)
StartNodes(dist) ==
  /\ items' = dist
  /\ numberOfItems' = [n \in Nodes |-> ItemsPerNode]
  /\ used' = [n \in Nodes |-> [x \in Items |-> FALSE]]
  /\ money' = [n \in Nodes |-> StartMoney]

NodesInit ==
  /\ items \in InitialItems
  /\ numberOfItems = [n \in Nodes |-> ItemsPerNode]
  /\ used = [n \in Nodes |-> [x \in Items |-> FALSE]]
  /\ money = [n \in Nodes |-> StartMoney]

AddItem(n, x) ==
  /\ items' = [items EXCEPT ![n][x] = @ + 1]
  /\ numberOfItems' = [numberOfItems EXCEPT ![n] = @ + 1]

(* removeItem() asserts that the list contains the item.                   *)
CanRemove(n, x) == items[n][x] > 0

RemoveItem(n, x) ==
  /\ items' = [items EXCEPT ![n][x] = @ - 1]
  /\ numberOfItems' = [numberOfItems EXCEPT ![n] = @ - 1]

(* removeItem() and addItem() on one list, one after the other.            *)
Exchange(n, out, in) ==
  /\ items' = [items EXCEPT ![n] =
                 [x \in Items |-> @[x] - (IF x = out THEN 1 ELSE 0)
                                       + (IF x = in  THEN 1 ELSE 0)]]
  /\ numberOfItems' = [numberOfItems EXCEPT ![n] = (@ - 1) + 1]

SetItemUsed(n, x, u) == used' = [used EXCEPT ![n][x] = u]

=============================================================================
