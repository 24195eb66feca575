------------------------------ MODULE PingPong ------------------------------
(***************************************************************************)
(* What the UDP and the TCP programs of the first session have in common:  *)
(* clients, which a user starts and may close.                             *)
(***************************************************************************)
CONSTANTS
  Client,
  Nobody,     \* no client; among the UDP programs refused, the server
  MaxKills    \* bound: programs the user closes

ASSUME ClientAssumption == Nobody \notin Client

=============================================================================
