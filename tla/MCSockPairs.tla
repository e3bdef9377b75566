---------------------------- MODULE MCSockPairs ----------------------------
(* The sockets that SockPairs starts with. *)
EXTENDS SockPairs, TLC

CONSTANTS p1, p2

TwoSockets == (0 :> p1) @@ (1 :> p2)
=============================================================================
