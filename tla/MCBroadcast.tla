---------------------------- MODULE MCBroadcast ----------------------------
(* Clients for the run of Broadcast.                                       *)
EXTENDS Broadcast

CONSTANTS a, b

TwoClients == {a, b}
=============================================================================
