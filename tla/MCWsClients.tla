---------------------------- MODULE MCWsClients ----------------------------
(* One client that makes two requests. *)
EXTENDS WsClients, TLC

CONSTANT c1

TwoRequests == c1 :> 2
=============================================================================
