--------------------------- MODULE MCNetworkManager ---------------------------
(***************************************************************************)
(* A cluster and the yellow pages, for TLC.  The cluster's agents talk to  *)
(* the yellow pages on one connection and to an agent of their own process *)
(* on the other one.                                                       *)
(***************************************************************************)
EXTENDS NetworkManager

(* The list of an item's MCCs does not fit the stream it is received into. *)
(* Most words are told from their swapped bytes.                           *)
Query   == <<256>>
Long    == <<1, 2>>
Offer   == <<512>>
Terms   == <<4>>
Accepts == <<5>>

MCProcess == {"cluster", "pages"}
MCConn    == {"query", "offer"}
MCClientOf == [c \in MCConn |-> "cluster"]
MCServerOf == [c \in MCConn |-> IF c = "query" THEN "pages" ELSE "cluster"]
MCRequest  == [c \in MCConn |-> IF c = "query" THEN Query ELSE Offer]
MCPacket   == {Query, Long, Offer, Terms, Accepts}
MCReplies  == [m \in MCPacket |-> CASE m = Query -> {Long}
                                    [] m = Offer -> {Terms}
                                    [] m = Terms -> {Accepts}
                                    [] OTHER     -> {}]

=============================================================================
