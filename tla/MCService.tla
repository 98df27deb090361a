------------------------------ MODULE MCService ------------------------------
(* A service with two peers, and the monitor.                              *)
EXTENDS Service

CONSTANTS p1, p2

MCPeers == {p1, p2}
=============================================================================
