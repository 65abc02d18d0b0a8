-------------------------- MODULE MCEventBusClient --------------------------
(***************************************************************************)
(* The event bus client on small logs.                                     *)
(***************************************************************************)
EXTENDS EventBusClient, TLC

CONSTANTS groupA, groupB

Groups == Permutations({groupA, groupB})
=============================================================================
