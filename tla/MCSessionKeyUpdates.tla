------------------------ MODULE MCSessionKeyUpdates ------------------------
(* Calls and updates for TLC.                                               *)
EXTENDS SessionKeyUpdates

CONSTANTS c1, c2, p1, p2, p3, u1, u2
=============================================================================
