---------------------------- MODULE MCListRange ----------------------------
(* Readers for TLC.                                                         *)
EXTENDS ListRange, TLC

CONSTANTS r1, r2
=============================================================================
