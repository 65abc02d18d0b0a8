---------------------------- MODULE MCSseClient ----------------------------
(* Requests for TLC.                                                        *)
EXTENDS SseClient

CONSTANTS k1, k2, k3
=============================================================================
