------------------------------ MODULE EventLog ------------------------------
(***************************************************************************)
(* What the event bus promises to the rest of the client: the batches of a *)
(* group's log are seen in the order of the log, however they arrive, and  *)
(* a batch is left out only if it does not concern the client or if an     *)
(* error is reported.  "Event logs are separate for each group" and "we    *)
(* have to process events in order" (doc/events.md:9-11).                  *)
(***************************************************************************)
EXTENDS Naturals

CONSTANTS
    Group,
    Ids             \* the ids of batches, ordered in time

(* Ids can be compared. *)
LogAssumption == Ids \subseteq Nat

LogBatch == [group : Group, id : Ids]

VARIABLES
    written,        \* the batches in the logs
    seen,           \* the batches that the client has seen
    excused,        \* the batches that it need not see, or that are reported missing
    reports         \* how many errors were reported

logVars == <<written, seen, excused, reports>>

Older(b, c) == b.group = c.group /\ b.id < c.id
Due == written \ (seen \union excused)

LogInit == written = {} /\ seen = {} /\ excused = {} /\ reports = 0

(* The server writes a batch; a client that is not a member of the group   *)
(* need not see it.                                                        *)
Write(b) ==
    /\ \A c \in written : c.id < b.id
    /\ written' = written \union {b}
    /\ UNCHANGED <<seen, excused, reports>>

WriteForOthers(b) ==
    /\ \A c \in written : c.id < b.id
    /\ \A c \in Due : c.group # b.group
    /\ written' = written \union {b}
    /\ excused' = excused \union {b}
    /\ UNCHANGED <<seen, reports>>

(* The client sees a batch: no older one of the group is due. *)
See(b) ==
    /\ b \in written \ seen
    /\ \A c \in Due : ~Older(c, b)
    /\ seen' = seen \union {b}
    /\ UNCHANGED <<written, excused, reports>>

(* The client starts at the end of a log: its cache is empty, or it is no  *)
(* longer a member.                                                        *)
StartAtEnd(g) ==
    /\ excused' = excused \union {b \in written : b.group = g}
    /\ UNCHANGED <<written, seen, reports>>

(* An error is reported, and with it batches that will be missing. *)
Report(missing) ==
    /\ reports' = reports + 1
    /\ excused' = excused \union missing
    /\ UNCHANGED <<written, seen>>

LogNext ==
    \/ \E b \in LogBatch : Write(b) \/ WriteForOthers(b) \/ See(b)
    \/ \E g \in Group : StartAtEnd(g)
    \/ \E missing \in SUBSET Due : Report(missing)

LogSpec == LogInit /\ [][LogNext]_logVars
-----------------------------------------------------------------------------
(* Only batches that were written are seen or excused.                     *)
LogTypeOK == written \subseteq LogBatch /\ seen \subseteq written /\ excused \subseteq written

(* A batch is never seen while an older one of its group is due            *)
(* (doc/events.md:11).                                                     *)
NoGaps == \A b \in seen, c \in written : Older(c, b) => c \in seen \union excused
=============================================================================
