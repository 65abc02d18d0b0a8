---------------------------- MODULE MCEntitySync ----------------------------
(***************************************************************************)
(* A mail that can be moved between two folders and a custom id instance   *)
(* that can be deleted and created again.                                  *)
(***************************************************************************)
EXTENDS EntitySync

CONSTANTS mail, contact, inbox, trash, groupA, groupB

IdOfItself == [i \in Instance |-> i]
OneGroup == [i \in Instance |-> {groupA}]
BothGroups == [i \in Instance |-> {groupA, groupB}]
SameId == [i \in Instance |-> CHOOSE x \in Id : TRUE]
Mails == Instance \intersect {mail}
=============================================================================
