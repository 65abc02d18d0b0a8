---------------------------- MODULE MCEventQueue ----------------------------
(***************************************************************************)
(* The event queue with an arbitrary environment: a mail (movable) and a   *)
(* contact, every modification of each of them in any order, even those    *)
(* that the server never sends and add() answers with a ProgrammingError.  *)
(***************************************************************************)
EXTENDS EventQueue

CONSTANTS mail, contact, inbox, trash

MCIdOf == [i \in Instance |-> i]

Ev(op, i, l) == [op |-> op, inst |-> i, list |-> l]
MailBatches == {{Ev(op, mail, inbox)} : op \in Op}
                 \union {{Ev("DELETE", mail, inbox), Ev("CREATE", mail, trash)}}
ContactBatches == {{Ev(op, contact, inbox)} : op \in Op}
Pairs == {m \union c : m \in MailBatches, c \in ContactBatches}
MCNewBatches == MailBatches \union ContactBatches \union
                    {p \in Pairs : \E e \in p : e.inst = contact /\ e.op = "DELETE"}
=============================================================================
