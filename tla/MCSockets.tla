------------------------------ MODULE MCSockets ------------------------------
(* A TLS user and a websocket user of one server, for TLC. *)
EXTENDS Sockets, TLC

CONSTANTS k1, k2

SmallSendQ == k1 :> 1 @@ k2 :> 0
SmallRecvQ == k1 :> 1 @@ k2 :> 1
=============================================================================
