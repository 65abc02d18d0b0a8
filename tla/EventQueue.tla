----------------------------- MODULE EventQueue -----------------------------
(***************************************************************************)
(* The queue of entity event batches of the worker                         *)
(* (src/common/api/worker/EventQueue.ts).  Batches are added by the event  *)
(* bus and by the indexer, merged with batches that wait in the queue, and *)
(* handed one after the other to an asynchronous queue action.             *)
(*                                                                         *)
(* A batch is an object with an identity: the code compares references     *)
(* (`_processingBatch === lastBatchForEntity`) and keeps references in a   *)
(* map after the object has left the array.  Batches are numbered in the   *)
(* order of the calls of add().  The array _eventQueue only grows at its   *)
(* end and batches are only removed from it, so it is always sorted by     *)
(* that number and is represented by the set of its elements.              *)
(*                                                                         *)
(* The events of a batch are a set: what a batch does to one instance does *)
(* not depend on the order of its events (a CREATE and a DELETE of one     *)
(* instance are a MOVE in either order, batchMod).  The server sends at    *)
(* most one modification of an instance in a batch.                        *)
(***************************************************************************)
EXTENDS Naturals, FiniteSets

CONSTANTS
    Instance,       \* the entity instances
    Id,             \* their element ids
    IdOf,           \* the id of an instance: instances of different types may share one
    Movable,        \* instances of MOVABLE_EVENT_TYPE_REFS (mails, customer infos)
    List,           \* the lists an instance can live in
    Group,          \* the groups whose event logs the client follows
    MaxBatches,     \* bound: how many batches are ever added
    NoBatch,        \* null
    Optimizing,     \* _optimizationEnabled
    NewBatches,     \* the batches the environment may add
    ClearAnytime    \* may clear() be called while a queue action runs?

Batch == 1..MaxBatches
Op == {"CREATE", "UPDATE", "DELETE"}
Event == [op : Op, inst : Instance, list : List]

VARIABLES
    eventQueue,     \* _eventQueue: the batches in the array
    events,         \* the events of every batch object
    groupOf,        \* the groupId of every batch object
    lastOperation,  \* _lastOperationForEntity: the batch with the last operation on an id
    processing,     \* _processingBatch
    paused,         \* _paused
    running,        \* batches whose queue action has not settled
    added,          \* how many times add() was called with events
    workDone        \* how many batches were reported to the progress monitor

vars == <<eventQueue, events, groupOf, lastOperation, processing, paused,
          running, added, workDone>>
-----------------------------------------------------------------------------
OfId(es, x) == {e \in es : IdOf[e.inst] = x}
Ids(es) == {IdOf[e.inst] : e \in es}
OfOp(es, op) == {e \in es : e.op = op}

(* batchMod: the modification that the events of one id amount to. *)
IsMove(es) == /\ OfOp(es, "CREATE") # {}
              /\ OfOp(es, "DELETE") # {}
              /\ \A e \in es : e.inst \in Movable
Modification(es) == IF IsMove(es) THEN "MOVE" ELSE (CHOOSE e \in es : TRUE).op

(* The batches the server sends: one modification of an id. *)
OneModification(es) ==
    \/ Cardinality(es) = 1
    \/ /\ Cardinality(es) = 2
       /\ IsMove(es)
       /\ \A e, f \in es : e.inst = f.inst
ValidBatch(es) ==
    /\ es # {}
    /\ \A x \in Ids(es) : OneModification(OfId(es, x))

ASSUME ConstantsAssumption ==
    /\ IdOf \in [Instance -> Id]
    /\ Movable \subseteq Instance
    /\ Group # {}
    /\ MaxBatches \in Nat
    /\ NoBatch \notin Nat
    /\ Optimizing \in BOOLEAN
    /\ ClearAnytime \in BOOLEAN
    /\ \A new \in NewBatches : new \subseteq Event /\ IsFiniteSet(new) /\ ValidBatch(new)
-----------------------------------------------------------------------------
(* _optimizingAddEvents: what becomes of the events of id x when the batch *)
(* `new` of group g is added.                                              *)

(* Variant with a bug: the batch that is processed is merged with. *)
MergesWithRunning(g, x) ==
    /\ Optimizing
    /\ lastOperation[x] # NoBatch
    /\ groupOf[lastOperation[x]] = g

(* The last operation on x still waits in the queue and may be merged with. *)
Merges(g, x) ==
    /\ Optimizing
    /\ lastOperation[x] # NoBatch
    /\ lastOperation[x] # processing
    /\ groupOf[lastOperation[x]] = g

LastEvents(x) == OfId(events[lastOperation[x]], x)
LastModification(x) == Modification(LastEvents(x))
NewModification(new, x) == Modification(OfId(new, x))

(* firstMoveIndex: the first waiting batch that deletes x somewhere. *)
Waiting == eventQueue \ {processing}
Deleting(x) == {b \in Waiting : OfOp(OfId(events[b], x), "DELETE") # {}}
IsFirstDeleting(b, x) == b \in Deleting(x) /\ \A c \in Deleting(x) : b <= c

(* The combinations for which a ProgrammingError is thrown. *)
Throws(g, new, x) ==
    /\ Merges(g, x)
    /\ \/ LastEvents(x) = {}
       \/ /\ LastModification(x) = "DELETE"
          /\ NewModification(new, x) \in {"UPDATE", "MOVE"}
       \/ /\ LastModification(x) \in {"UPDATE", "MOVE"}
          /\ NewModification(new, x) = "CREATE"

(* Variant with a bug: an UPDATE after a MOVE is taken for downloaded. *)
KeepsNoUpdate(new, x, e) ==
    CASE NewModification(new, x) = "UPDATE" -> FALSE
      [] NewModification(new, x) = "MOVE" ->
            e.op = "CREATE" /\ LastModification(x) = "UPDATE"
      [] NewModification(new, x) = "DELETE" -> Deleting(x) = {}
      [] OTHER -> TRUE

(* What the rules append to the new batch when x is merged. *)
KeepsNew(new, x, e) ==
    CASE NewModification(new, x) = "UPDATE" -> LastModification(x) = "MOVE"
      [] NewModification(new, x) = "MOVE" ->
            e.op = "CREATE" /\ LastModification(x) = "UPDATE"
      [] NewModification(new, x) = "DELETE" -> Deleting(x) = {}
      [] OTHER -> TRUE
Appended(g, new, x) == {e \in OfId(new, x) : Merges(g, x) => KeepsNew(new, x, e)}
NewEvents(g, new) == UNION {Appended(g, new, x) : x \in Ids(new)}

(* Variant with a bug: the old events of the id stay. *)
AfterMoveKeepsOld(new, x) == LastEvents(x) \union OfOp(OfId(new, x), "CREATE")

(* _replace: a MOVE rewrites the batch of the last operation. *)
AfterMove(new, x) ==
    CASE LastModification(x) = "CREATE" -> OfOp(OfId(new, x), "CREATE")
      [] LastModification(x) = "UPDATE" -> OfOp(OfId(new, x), "DELETE")
      [] OTHER -> OfOp(OfId(new, x), "CREATE") \union OfOp(LastEvents(x), "DELETE")

(* A DELETE leaves the first DELETE and removes every later event of x     *)
(* (removeEventsForInstance), or every event if x was not deleted before.  *)
AfterDelete(x, b) ==
    {e \in OfId(events[b], x) :
        /\ b \in Waiting => Deleting(x) # {} /\ \A c \in Deleting(x) : b <= c
        /\ IsFirstDeleting(b, x) => e.op # "CREATE"}

Rewritten(new, x, b) ==
    CASE NewModification(new, x) = "MOVE" /\ b = lastOperation[x] -> AfterMove(new, x)
      [] NewModification(new, x) = "DELETE" -> AfterDelete(x, b)
      [] OTHER -> OfId(events[b], x)

(* The events of batch b once the ids X of `new` were merged. *)
MergedEvents(g, new, X, b) ==
    LET merged == {x \in X : Merges(g, x)}
    IN  {e \in events[b] : IdOf[e.inst] \notin merged}
          \union UNION {Rewritten(new, x, b) : x \in merged}

(* Variant with a bug: the map is not updated when a DELETE is merged. *)
MergedLastStays(g, new, X, x) == lastOperation[x]

(* The map entry of x when a DELETE was merged into an earlier one. *)
MergedLast(g, new, X, x) ==
    IF /\ x \in X
       /\ Merges(g, x)
       /\ NewModification(new, x) = "DELETE"
       /\ Deleting(x) # {}
    THEN CHOOSE b \in Batch : IsFirstDeleting(b, x)
    ELSE lastOperation[x]
-----------------------------------------------------------------------------
(* Variant with a bug: start() does not look at _processingBatch. *)
StartAnyway(q, p, cur, run) ==
    \/ /\ p \/ q = {}
       /\ processing' = cur
       /\ running' = run
    \/ /\ ~p
       /\ \E b \in q : /\ \A c \in q : b <= c
                       /\ processing' = b
                       /\ running' = [run EXCEPT ![b] = @ + 1]

(* start / _processNext on the queue q: nothing happens while paused (p),  *)
(* while a batch is being processed (cur) or when there is no batch.       *)
StartNext(q, p, cur, run) ==
    \/ /\ p \/ cur # NoBatch \/ q = {}
       /\ processing' = cur
       /\ running' = run
    \/ /\ ~p /\ cur = NoBatch
       /\ \E b \in q : /\ \A c \in q : b <= c
                       /\ processing' = b
                       /\ running' = [run EXCEPT ![b] = @ + 1]

Init ==
    /\ eventQueue = {}
    /\ events = [b \in Batch |-> {}]
    /\ groupOf = [b \in Batch |-> CHOOSE g \in Group : TRUE]
    /\ lastOperation = [x \in Id |-> NoBatch]
    /\ processing = NoBatch
    /\ paused = FALSE
    /\ running = [b \in Batch |-> 0]
    /\ added = 0
    /\ workDone = 0

(* add() of the batch `new` of group g. *)
Add(g, new) ==
    /\ added < MaxBatches
    /\ \A x \in Ids(new) : ~Throws(g, new, x)
    /\ LET b == added + 1
           kept == NewEvents(g, new)
           after == [c \in Batch |-> MergedEvents(g, new, Ids(new), c)]
           rest == {c \in eventQueue : after[c] # {}}
           queue == IF kept = {} THEN rest ELSE rest \union {b}
       IN  /\ eventQueue' = queue
           /\ events' = [after EXCEPT ![b] = kept]
           /\ lastOperation' = [x \in Id |-> IF x \in Ids(kept) THEN b
                                             ELSE MergedLast(g, new, Ids(new), x)]
           /\ groupOf' = [groupOf EXCEPT ![b] = g]
           /\ workDone' = IF kept = {} THEN workDone + 1 ELSE workDone
           /\ added' = b
           /\ StartNext(queue, paused, processing, running)
    /\ UNCHANGED paused

(* add() of a batch that leads to a ProgrammingError: some of the other    *)
(* ids (X) were already merged, the new batch is lost.                     *)
AddThrows(g, new) ==
    /\ added < MaxBatches
    /\ \E x \in Ids(new) : Throws(g, new, x)
    /\ \E X \in SUBSET {x \in Ids(new) : ~Throws(g, new, x)} :
          LET after == [c \in Batch |-> MergedEvents(g, new, X, c)]
          IN  /\ events' = after
              /\ eventQueue' = {c \in eventQueue : after[c] # {}}
              /\ lastOperation' = [x \in Id |-> MergedLast(g, new, X, x)]
    /\ added' = added + 1
    /\ UNCHANGED <<groupOf, processing, paused, running, workDone>>

(* The queue action of batch b succeeds: the first batch is shifted off,   *)
(* the map forgets b, and the next batch starts in the same turn.  The     *)
(* events of an object that nothing refers to any more are dropped.        *)
Succeed(b) ==
    /\ running[b] > 0
    /\ LET rest == {c \in eventQueue : \E d \in eventQueue : d < c}
           last == [x \in Id |-> IF lastOperation[x] = b /\ x \in Ids(events[b])
                                 THEN NoBatch ELSE lastOperation[x]]
           garbage == /\ b \notin rest
                      /\ running[b] = 1
                      /\ \A x \in Id : last[x] # b
       IN  /\ eventQueue' = rest
           /\ lastOperation' = last
           /\ events' = IF garbage THEN [events EXCEPT ![b] = {}] ELSE events
           /\ StartNext(rest, paused, NoBatch, [running EXCEPT ![b] = @ - 1])
    /\ workDone' = workDone + 1
    /\ UNCHANGED <<groupOf, paused, added>>

(* Variant with a bug: the failed batch is shifted off.                    *)
FailShifts(b) ==
    /\ running[b] > 0
    /\ running' = [running EXCEPT ![b] = @ - 1]
    /\ processing' = NoBatch
    /\ eventQueue' = {c \in eventQueue : \E d \in eventQueue : d < c}
    /\ UNCHANGED <<events, groupOf, lastOperation, paused, added, workDone>>

(* The queue action of batch b fails: the batch stays in the queue, where  *)
(* later batches may be merged with it, until something calls start().     *)
Fail(b) ==
    /\ running[b] > 0
    /\ running' = [running EXCEPT ![b] = @ - 1]
    /\ processing' = NoBatch
    /\ UNCHANGED <<eventQueue, events, groupOf, lastOperation, paused, added, workDone>>

Pause ==
    /\ ~paused
    /\ paused' = TRUE
    /\ UNCHANGED <<eventQueue, events, groupOf, lastOperation, processing, running,
                   added, workDone>>

(* Variant with a bug: start() is not called. *)
ResumeOnly ==
    /\ paused
    /\ paused' = FALSE
    /\ UNCHANGED <<eventQueue, events, groupOf, lastOperation, processing, running,
                   added, workDone>>

Resume ==
    /\ paused \/ processing = NoBatch
    /\ paused' = FALSE
    /\ StartNext(eventQueue, FALSE, processing, running)
    /\ UNCHANGED <<eventQueue, events, groupOf, lastOperation, added, workDone>>

(* clear(): an action that runs is not told. *)
Clear ==
    /\ ClearAnytime \/ \A b \in Batch : running[b] = 0
    /\ eventQueue' = {}
    /\ processing' = NoBatch
    /\ lastOperation' = [x \in Id |-> NoBatch]
    /\ UNCHANGED <<events, groupOf, paused, running, added, workDone>>

Next ==
    \/ \E g \in Group, new \in NewBatches :
          Add(g, new) \/ AddThrows(g, new)
    \/ \E b \in Batch : Succeed(b) \/ Fail(b)
    \/ Pause \/ Resume \/ Clear

Spec == Init /\ [][Next]_vars
-----------------------------------------------------------------------------
(* Every variable has its type. *)
TypeOK ==
    /\ eventQueue \subseteq Batch
    /\ events \in [Batch -> SUBSET Event]
    /\ groupOf \in [Batch -> Group]
    /\ lastOperation \in [Id -> Batch \union {NoBatch}]
    /\ processing \in Batch \union {NoBatch}
    /\ paused \in BOOLEAN
    /\ running \in [Batch -> Nat]
    /\ added \in 0..MaxBatches
    /\ workDone \in Nat

(* A batch of the queue never holds two modifications of one id, and is    *)
(* never empty: batchMod looks at the first event of an id only, and an    *)
(* empty batch would be processed for nothing (EventQueue.ts:44, 263).     *)
WellFormedQueue ==
    \A b \in eventQueue : ValidBatch(events[b])

(* At most one queue action runs, and it is that of _processingBatch, the  *)
(* first batch of the queue: "@pre The last call of this function must be  *)
(* resolved" (entityEventsReceived, DefaultEntityRestCache.ts:591).        *)
OneAtATime ==
    \A b \in Batch :
        running[b] > 0 => /\ running[b] = 1
                          /\ processing = b
                          /\ b \in eventQueue
                          /\ \A c \in eventQueue : b <= c

(* The map points to the newest batch of the queue that has an event for   *)
(* the id: merging with an older one would reorder the operations.         *)
LastOperationIsNewest ==
    \A x \in Id : \A b \in eventQueue :
        x \in Ids(events[b]) => lastOperation[x] \in eventQueue /\ b <= lastOperation[x]

(* A batch is not modified while its queue action runs: "If current        *)
(* operation is already being processed, don't modify it" (EventQueue.ts:149). *)
InFlightUnchanged ==
    [][\A b \in Batch : running[b] > 0 /\ running'[b] > 0 => events'[b] = events[b]]_vars

(* A batch that still has events leaves the queue only when its own queue  *)
(* action has succeeded, or with all others in clear().                    *)
NoBatchSkipped ==
    [][\A b \in eventQueue \ eventQueue' :
          \/ running'[b] < running[b] /\ workDone' > workDone
          \/ events'[b] = {}
          \/ eventQueue' = {} /\ \A x \in Id : lastOperation'[x] = NoBatch]_vars
=============================================================================
