--------------------------- MODULE MCOfflineLocks ---------------------------
(* Windows, lists and calls for TLC.                                        *)
EXTENDS OfflineLocks, TLC

CONSTANTS w1, w2, inboxList, trashList

MCCalls == {<<w1, inboxList, 1>>, <<w2, inboxList, 1>>, <<w1, trashList, 1>>, <<w2, trashList, 1>>}
ThreeCalls == {<<w1, inboxList, 1>>, <<w2, inboxList, 1>>, <<w2, inboxList, 2>>}
MCWindowOf == [c \in Calls |-> c[1]]
MCListOf == [c \in Calls |-> c[2]]
=============================================================================
