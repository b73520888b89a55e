----------------------------- MODULE MCHandshake -----------------------------
(* One connection for TLC. *)
EXTENDS Handshake

CONSTANTS c1
=============================================================================
