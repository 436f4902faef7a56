------------------------------ MODULE MCClients ------------------------------
(* Clients for TLC: the packets that may be sent, and the timeouts passed. *)
EXTENDS Clients

MCPayload == {Original, Mended, Blank}
MCTimeouts == {0, TIMEOUT, 10 * TIMEOUT}
=============================================================================
