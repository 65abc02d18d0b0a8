----------------------------- MODULE EntitySync -----------------------------
(***************************************************************************)
(* The event queue between the server and a client that mirrors entities.  *)
(*                                                                         *)
(* The server changes entities and writes a batch of events into the log   *)
(* of every group that sees them.  The logs are delivered in order, group  *)
(* by group, to EventQueue.add.  The queue action applies a batch to the   *)
(* mirror the way DefaultEntityRestCache.entityEventsReceived does for     *)
(* entities in the cached range: it downloads the CURRENT version from the *)
(* server, which may be ahead of the events.  Merging batches is right     *)
(* exactly if the mirror cannot tell.                                      *)
(***************************************************************************)
EXTENDS EventQueue, Sequences

CONSTANTS
    GroupsOf,       \* the groups in whose logs an instance appears
    MaxChanges,     \* bound: batches written by the server
    BatchSize,      \* bound: instances changed by one batch
    FailPoints,     \* when the queue action may fail: "before" or "after" it wrote
    Unborn, Gone    \* where an instance is that does not exist (yet, any more)

ASSUME SyncAssumption ==
    /\ GroupsOf \in [Instance -> SUBSET Group]
    /\ BatchSize \in Nat /\ MaxChanges \in Nat
    /\ FailPoints \subseteq {"before", "after"}
    /\ {Unborn, Gone} \cap List = {} /\ Unborn # Gone

VARIABLES
    location,       \* server: the list of every instance
    log,            \* per group: the batches that the client has not received
    changes,        \* server: how many batches were written
    held,           \* mirror: <<instance, list>> of the copies it has
    stale,          \* mirror: the copies of an outdated version
    applied         \* running batches that were written to the mirror

syncVars == <<vars, location, log, changes, held, stale, applied>>
mirrorVars == <<held, stale>>
serverVars == <<location, changes>>

Modify(op, i, l) == [op |-> op, inst |-> i, list |-> l]
Exists(i) == location[i] \in List
-----------------------------------------------------------------------------
(* What the server can do to instance i: the events and the new location.  *)
(* Only instances that do not move (custom ids) are created a second time. *)
Creations(i) ==
    IF location[i] = Unborn \/ (location[i] = Gone /\ i \notin Movable)
    THEN {[evs |-> {Modify("CREATE", i, l)}, to |-> l, bump |-> FALSE] : l \in List} ELSE {}
Updates(i) ==
    IF Exists(i)
    THEN {[evs |-> {Modify("UPDATE", i, location[i])}, to |-> location[i], bump |-> TRUE]} ELSE {}
Moves(i) ==
    IF Exists(i) /\ i \in Movable
    THEN {[evs |-> {Modify("DELETE", i, location[i]), Modify("CREATE", i, l)},
           to |-> l, bump |-> FALSE] : l \in List \ {location[i]}} ELSE {}
Deletions(i) ==
    IF Exists(i)
    THEN {[evs |-> {Modify("DELETE", i, location[i])}, to |-> Gone, bump |-> FALSE]} ELSE {}
Changes(i) == Creations(i) \union Updates(i) \union Moves(i) \union Deletions(i)

SyncInit ==
    /\ Init
    /\ location \in [Instance -> List \union {Unborn}]
    /\ log = [g \in Group |-> << >>]
    /\ changes = 0
    /\ held = {<<i, location[i]>> : i \in {j \in Instance : Exists(j)}}
    /\ stale = {}
    /\ applied = {}

(* The server changes some instances and logs the batches. *)
ServerChange ==
    /\ changes < MaxChanges
    /\ \E S \in SUBSET Instance :
          /\ S # {} /\ Cardinality(S) <= BatchSize
          /\ \A i, j \in S : IdOf[i] = IdOf[j] => i = j
          /\ \E m \in [S -> UNION {Changes(i) : i \in S}] :
                /\ \A i \in S : m[i] \in Changes(i)
                /\ location' = [i \in Instance |-> IF i \in S THEN m[i].to ELSE location[i]]
                /\ stale' = stale \union {c \in held : c[1] \in S /\ m[c[1]].bump}
                /\ log' = [g \in Group |->
                            LET seen == {i \in S : g \in GroupsOf[i]}
                            IN  IF seen = {} THEN log[g]
                                ELSE Append(log[g], UNION {m[i].evs : i \in seen})]
    /\ changes' = changes + 1
    /\ UNCHANGED <<vars, held, applied>>

(* The next batch of a group arrives. *)
Deliver(g) ==
    /\ log[g] # << >>
    /\ Add(g, Head(log[g])) \/ AddThrows(g, Head(log[g]))
    /\ log' = [log EXCEPT ![g] = Tail(@)]
    /\ UNCHANGED <<serverVars, mirrorVars, applied>>
-----------------------------------------------------------------------------
(* The mirror: copies of i after its events es, with the server as it is.  *)
Copies(i) == {c \in held : c[1] = i}
InList(i, l) == IF location[i] = l THEN {<<i, l>>} ELSE {}
ListsOf(es) == {e.list : e \in es}

(* A MOVE of a copy that is there renames it; otherwise the instance is    *)
(* downloaded from its new list.  What is downloaded is fresh.             *)
Renames(i, es) ==
    {l \in ListsOf(OfOp(es, "DELETE")) : OfOp(es, "CREATE") # {} /\ <<i, l>> \in held}
Downloads(i, es) ==
    ListsOf(OfOp(es, "CREATE")) \union {l \in ListsOf(OfOp(es, "UPDATE")) : <<i, l>> \in held}
Fetched(i, es) ==
    IF Renames(i, es) # {} THEN {} ELSE UNION {InList(i, l) : l \in Downloads(i, es)}
Removed(i, es) ==
    {<<i, l>> : l \in ListsOf(OfOp(es, "DELETE"))}
      \union {<<i, l>> : l \in ListsOf(OfOp(es, "UPDATE")) \ {location[i]}}
Renamed(i, es) ==
    {<<i, l>> : l \in IF Renames(i, es) # {} THEN ListsOf(OfOp(es, "CREATE")) ELSE {}}
RenamedStale(i, es) ==
    IF \E l \in Renames(i, es) : <<i, l>> \in stale THEN Renamed(i, es) ELSE {}

HeldAfter(i, es) == (Copies(i) \ Removed(i, es)) \union Renamed(i, es) \union Fetched(i, es)
StaleAfter(i, es) ==
    (((stale \cap Copies(i)) \ Removed(i, es)) \ (Renamed(i, es) \union Fetched(i, es)))
      \union RenamedStale(i, es)

OfInstance(b, i) == {e \in events[b] : e.inst = i}

(* The queue action writes the batch to the mirror. *)
Apply(b) ==
    /\ running[b] > 0 /\ b \notin applied
    /\ held' = UNION {HeldAfter(i, OfInstance(b, i)) : i \in Instance}
    /\ stale' = UNION {StaleAfter(i, OfInstance(b, i)) : i \in Instance}
    /\ applied' = applied \union {b}
    /\ UNCHANGED <<vars, serverVars, log>>

Complete(b) ==
    /\ b \in applied
    /\ Succeed(b)
    /\ applied' = applied \ {b}
    /\ UNCHANGED <<serverVars, mirrorVars, log>>

(* It fails, in the download before anything was written or in a listener  *)
(* after the cache was written.                                            *)
FailSync(b) ==
    /\ (IF b \in applied THEN "after" ELSE "before") \in FailPoints
    /\ Fail(b)
    /\ applied' = applied \ {b}
    /\ UNCHANGED <<serverVars, mirrorVars, log>>

PauseResume ==
    /\ Pause \/ Resume
    /\ UNCHANGED <<serverVars, mirrorVars, log, applied>>

SyncNext ==
    \/ ServerChange
    \/ \E g \in Group : Deliver(g)
    \/ \E b \in Batch : Apply(b) \/ Complete(b) \/ FailSync(b)
    \/ PauseResume

(* Batches arrive, promises settle and a queue that is paused or has       *)
(* stopped is resumed (initEntityEvents).  Errors are temporary: a batch   *)
(* that is tried again and again is applied in the end.  Nothing forces    *)
(* the server to change anything.                                          *)
SyncFairness ==
    /\ \A g \in Group : WF_syncVars(Deliver(g))
    /\ \A b \in Batch : SF_syncVars(Apply(b)) /\ WF_syncVars(Complete(b))
    /\ WF_syncVars(Resume /\ UNCHANGED <<serverVars, mirrorVars, log, applied>>)

SyncSpec == SyncInit /\ [][SyncNext]_syncVars /\ SyncFairness
-----------------------------------------------------------------------------
(* Every variable has its type; only copies that the mirror has are stale.  *)
SyncTypeOK ==
    /\ TypeOK
    /\ location \in [Instance -> List \union {Unborn, Gone}]
    /\ log \in [Group -> Seq(SUBSET Event)]
    /\ changes \in 0..MaxChanges
    /\ held \subseteq Instance \X List
    /\ stale \subseteq held
    /\ applied \subseteq {b \in Batch : running[b] > 0}

UpToDate(i) ==
    /\ Copies(i) = IF Exists(i) THEN {<<i, location[i]>>} ELSE {}
    /\ Copies(i) \cap stale = {}

Pending(i) ==
    \/ \E g \in Group : \E n \in DOMAIN log[g] : \E e \in log[g][n] : e.inst = i
    \/ \E b \in eventQueue \ applied : \E e \in events[b] : e.inst = i

(* Merging loses nothing: whenever the mirror differs from the server in   *)
(* an instance, an event of that instance is still to be processed.  With  *)
(* it go the rules of _optimizingAddEvents (EventQueue.ts:137-250): an     *)
(* update that is skipped, a delete that is dropped or a move that is      *)
(* folded into another leaves the mirror outdated for ever if the rule is  *)
(* wrong, and no later event repairs it.                                   *)
DeviationIsPending == \A i \in Instance : UpToDate(i) \/ Pending(i)

(* The next batch of a log never leads to a ProgrammingError in add(),     *)
(* which would lose the batch (EventQueue.ts:68, 170, 208, 239).           *)
NeverThrows ==
    \A g \in Group :
        log[g] # << >> => \A x \in Ids(Head(log[g])) : ~Throws(g, Head(log[g]), x)

(* The mirror catches up with the server and stays so. *)
CatchesUp ==
    <>[](\A i \in Instance : UpToDate(i))
=============================================================================
