--------------------------- MODULE EventBusClient ---------------------------
(***************************************************************************)
(* How EventBusClient (src/common/api/worker/EventBusClient.ts) gets every *)
(* batch of the event logs exactly once and in order into the cache, over  *)
(* websocket connections that break and across restarts of the app.        *)
(*                                                                         *)
(* A batch is its group and its id; ids grow with time.  Messages of the   *)
(* websocket go through entityUpdateMessageQueue, which is paused while    *)
(* the missed batches are loaded; both then go into eventQueue, whose      *)
(* action gives them to the cache and to the listener.  The state of the   *)
(* websocket is in EventBusConnection; here a connection is down, being    *)
(* made or open.  Merging of batches is in EventQueue; here a batch that   *)
(* is added to eventQueue stays one.                                       *)
(*                                                                         *)
(* initEntityEvents is asynchronous and is not stopped when its connection *)
(* is lost, so several of them may run: one per connection.                *)
(***************************************************************************)
EXTENDS Integers, Sequences, FiniteSets, Functions

CONSTANTS
    Group,
    Joinable,           \* groups that the user may become a member of later
    Revocable,          \* groups whose membership the user may lose
    MaxId,              \* bound: batches that the server writes
    MaxConnections,     \* bound: connections that are made
    MaxUnavailable,     \* bound: answers "service unavailable"
    MaxErrors,          \* bound: other errors, which are reported to the user
    MaxCrashes,         \* bound: restarts of the app
    MaxEventIds,        \* MAX_EVENT_IDS_QUEUE_LENGTH
    EmptyCache,         \* may the client start with an empty cache?
    Overlap,            \* may a connection be made while an older one still loads?
    None                \* null

ASSUME ClientAssumption ==
    /\ {MaxId, MaxConnections, MaxUnavailable, MaxErrors, MaxCrashes} \subseteq Nat
    /\ MaxEventIds \in Nat \ {0}
    /\ {EmptyCache, Overlap} \subseteq BOOLEAN
    /\ Joinable \subseteq Group /\ Revocable \subseteq Group
    /\ None \notin Group /\ None \notin Nat

Ids == 1..MaxId
Connections == 1..MaxConnections
Batches == [group : Group, id : Ids]
MinId == 0                      \* GENERATED_MIN_ID
BatchRetry == 0                 \* the retry of a batch, in serviceUnavailableRetry

VARIABLES
    committed,      \* server: the batches in the logs
    members,        \* eventGroups(): the groups of the logged-in user
    conn,           \* the current websocket: "down", "connecting", "open"
    channel,        \* messages of the current websocket that did not arrive
    connections,    \* how many connections were made; the last is the current one
    mode,           \* connectMode of the last connect(); "login" before the first
    lastIds,        \* lastEntityEventIds: per group the ids that were added
    known,          \* the groups that lastEntityEventIds has an entry for
    stray,          \* does it have other entries (addBatch sets the batch id as key)?
    messageQueue,   \* entityUpdateMessageQueue
    messagesPaused,
    eventQueue,
    eventsPaused,
    stage,          \* of the first batch of eventQueue: see Stages
    inits,          \* initEntityEvents of each connection
    retry,          \* serviceUnavailableRetry: the init or batch that waits
    cacheLast,      \* lastBatchIdPerGroup of the persistent cache
    handled,        \* batches processed since the start, in that order
    everHandled,    \* batches whose entities were ever written to the cache
    skipped,        \* batches of no concern: older than the cache, or of groups of others
    givenUp,        \* batches that were missing when onError reported a failed load
    errors,         \* the errors of loads and of batches that onError reported
    unavailable, crashes        \* counters for the bounds

serverVars == <<committed, members, skipped>>
connVars == <<conn, channel, connections, mode>>
idVars == <<lastIds, known, stray>>
queueVars == <<messageQueue, messagesPaused, eventQueue, eventsPaused, stage>>
cacheVars == <<cacheLast, handled, everHandled>>
errorVars == <<errors, givenUp>>
boundVars == <<unavailable, crashes, errorVars>>
clientVars == <<serverVars, connVars, idVars, queueVars, inits, retry, cacheVars, boundVars>>

Stages == {"idle", "cache", "mark", "listener", "wait"}
Phases == {"none", "retrieve", "load", "add", "resume", "wait"}
NoInit == [phase |-> "none", existing |-> FALSE, cached |-> FALSE, todo |-> {},
           ids |-> [g \in Group |-> << >>], loaded |-> {}]
Inits == [phase : Phases, existing : BOOLEAN, cached : BOOLEAN, todo : SUBSET Group,
          ids : [Group -> Seq(Ids \union {MinId})], loaded : SUBSET Batches]
-----------------------------------------------------------------------------
(* binarySearch (tutanota-utils): the index of x in the array s, or -n-1   *)
(* for the insertion point n; indexes start at 0.  A window <<m, n>> is    *)
(* what is left to be searched.                                            *)
BinarySearch(s, x) ==
    LET search[w \in (0..Len(s)) \X (-1..(Len(s) - 1))] ==
            LET k == (w[1] + w[2]) \div 2
            IN  IF w[1] > w[2] THEN -w[1] - 1
                ELSE IF x > s[k + 1] THEN search[<<k + 1, w[2]>>]
                ELSE IF x < s[k + 1] THEN search[<<w[1], k - 1>>]
                ELSE k
    IN  search[<<0, Len(s) - 1>>]

(* splice(p, 0, x): x is inserted after the first p elements. *)
Splice(s, p, x) == IF p >= Len(s) THEN Append(s, x)
                   ELSE SubSeq(s, 1, p) \o <<x>> \o SubSeq(s, p + 1, Len(s))
Capped(s) == IF Len(s) > MaxEventIds THEN Tail(s) ELSE s

(* Variant with a bug: the ids are not looked at. *)
AddBatchAnyway(st, b) ==
    [ids |-> [st.ids EXCEPT ![b.group] = Capped(Append(@, b.id))],
     queue |-> Append(st.queue, b)]

(* addBatch on the ids and the queue `st`: the ids are stored under the    *)
(* batch id, so that a group without an entry does not get one.            *)
AddBatch(st, b) ==
    LET last == st.ids[b.group]
        index == BinarySearch(last, b.id)
        after == IF index < 0 THEN Capped(Splice(last, -index, b.id)) ELSE Capped(last)
    IN  [ids |-> IF b.group \in known THEN [st.ids EXCEPT ![b.group] = after] ELSE st.ids,
         queue |-> IF index < 0 THEN Append(st.queue, b) ELSE st.queue]

(* The batches are added one after the other.                              *)
AddAll(batches) ==
    LET after[n \in 0..Len(batches)] ==
            IF n = 0 THEN [ids |-> lastIds, queue |-> eventQueue]
            ELSE AddBatch(after[n - 1], batches[n])
    IN  after[Len(batches)]

(* The queues after `batches` were added; `resume`: eventQueue is resumed. *)
Enqueue(batches, resume) ==
    \E st \in {AddAll(batches)} :
        LET paused == eventsPaused /\ ~resume
            started == resume \/ st.queue # eventQueue
        IN  /\ lastIds' = st.ids
            /\ stray' = (stray \/ batches # << >>)
            /\ eventQueue' = st.queue
            /\ eventsPaused' = paused
            /\ stage' = IF stage = "idle" /\ started /\ ~paused /\ st.queue # << >>
                        THEN "cache" ELSE stage

LastOf(s) == IF s = << >> THEN MinId ELSE s[Len(s)]
InLog(g) == {b \in committed : b.group = g}
NewestIn(g) == CHOOSE i \in {b.id : b \in InLog(g)} \union {MinId} :
                    \A b \in InLog(g) : b.id <= i
(* Variant with a bug: the newest batch comes first. *)
NewestFirst(batches) ==
    {s \in [1..Cardinality(batches) -> batches] :
        /\ Range(s) = batches
        /\ \A k, n \in DOMAIN s : k < n => s[k].id > s[n].id}
OldestFirst(batches) ==
    {s \in [1..Cardinality(batches) -> batches] :
        /\ Range(s) = batches
        /\ \A k, n \in DOMAIN s : k < n => s[k].id < s[n].id}
-----------------------------------------------------------------------------
ClientInit ==
    /\ committed = {} /\ members = Group \ Joinable /\ skipped = {}
    /\ conn = "down" /\ channel = << >> /\ connections = 0 /\ mode = "login"
    /\ lastIds = [g \in Group |-> << >>] /\ known = {} /\ stray = FALSE
    /\ messageQueue = << >> /\ messagesPaused = FALSE
    /\ eventQueue = << >> /\ eventsPaused = TRUE /\ stage = "idle"
    /\ inits = [c \in Connections |-> NoInit]
    /\ retry = None
    /\ cacheLast \in [Group -> IF EmptyCache THEN {None, MinId} ELSE {MinId}]
    /\ handled = << >> /\ everHandled = {} /\ givenUp = {}
    /\ unavailable = 0 /\ errors = 0 /\ crashes = 0

(* The server writes a batch, with the next id, and sends it over the      *)
(* websocket.                                                              *)
Commit(b) ==
    /\ Cardinality(committed) + 1 = b.id
    /\ committed' = committed \union {b}
    /\ channel' = IF conn = "open" /\ b.group \in members THEN Append(channel, b) ELSE channel
    /\ skipped' = IF b.group \in members THEN skipped ELSE skipped \union {b}
    /\ UNCHANGED <<members, conn, connections, mode, idVars, queueVars, inits, retry,
                   cacheVars, boundVars>>

(* The user becomes a member of a group: its log is part of eventGroups()  *)
(* from now on, the connection stays.                                      *)
Join(g) ==
    /\ g \notin members
    /\ members' = members \union {g}
    /\ UNCHANGED <<committed, skipped, connVars, idVars, queueVars, inits, retry,
                   cacheVars, boundVars>>

(* connect(): by login (Initial), by the reconnect timer (Reconnect). *)
Connect ==
    /\ conn = "down"
    /\ connections < MaxConnections
    /\ Overlap \/ \A c \in Connections : inits[c].phase \in {"none", "wait"}
    /\ conn' = "connecting"
    /\ connections' = connections + 1
    /\ mode' = IF mode = "login" THEN "initial" ELSE "reconnect"
    /\ retry' = None
    /\ UNCHANGED <<serverVars, channel, idVars, queueVars, inits, cacheVars, boundVars>>

(* initEntityEvents(): pause both queues and start to load. *)
StartInit(c) ==
    LET existing == mode = "reconnect" /\ (known # {} \/ stray)
    IN  /\ messagesPaused' = TRUE
        /\ eventsPaused' = TRUE
        /\ inits' = [inits EXCEPT ![c] = [NoInit EXCEPT
                        !.phase = IF existing THEN "load" ELSE "retrieve",
                        !.existing = existing,
                        !.todo = members]]

(* onOpen *)
Open ==
    /\ conn = "connecting"
    /\ conn' = "open"
    /\ StartInit(connections)
    /\ UNCHANGED <<serverVars, channel, connections, mode, idVars, messageQueue,
                   eventQueue, stage, retry, cacheVars, boundVars>>

(* onClose: the messages under way are lost. *)
Lose ==
    /\ conn' = "down"
    /\ channel' = << >>
    /\ UNCHANGED <<connections, mode>>

ConnectionLost ==
    /\ conn # "down"
    /\ Lose
    /\ UNCHANGED <<serverVars, idVars, queueVars, inits, retry, cacheVars, boundVars>>

(* onMessage, entityUpdateMessageQueueCallback *)
Receive ==
    /\ channel # << >>
    /\ channel' = Tail(channel)
    /\ \/ /\ messagesPaused
          /\ messageQueue' = Append(messageQueue, Head(channel))
          /\ UNCHANGED <<lastIds, stray, eventQueue, eventsPaused, stage>>
       \/ /\ ~messagesPaused
          /\ Enqueue(<<Head(channel)>>, TRUE)
          /\ UNCHANGED messageQueue
    /\ UNCHANGED <<serverVars, conn, connections, mode, known, messagesPaused, inits, retry,
                   cacheVars, boundVars>>
-----------------------------------------------------------------------------
(* Variant with a bug: the newest batch on the server, whatever was cached. *)
RetrieveNewest(c, g) ==
    /\ inits[c].phase = "retrieve" /\ g \in inits[c].todo
    /\ inits' = [inits EXCEPT ![c].todo = @ \ {g},
                              ![c].ids[g] = <<NewestIn(g)>>,
                              ![c].cached = @ \/ cacheLast[g] # None]
    /\ cacheLast' = [cacheLast EXCEPT ![g] = NewestIn(g)]
    /\ skipped' = IF cacheLast[g] # None THEN skipped ELSE skipped \union InLog(g)
    /\ UNCHANGED <<committed, members, connVars, idVars, queueVars, retry, handled,
                   everHandled, boundVars>>

(* retrieveLastEntityEventIds for one group: from the cache, or the newest *)
(* batch on the server if the cache is empty.                              *)
Retrieve(c, g) ==
    /\ inits[c].phase = "retrieve" /\ g \in inits[c].todo
    /\ LET cached == cacheLast[g] # None
           id == IF cached THEN cacheLast[g] ELSE NewestIn(g)
       IN  /\ inits' = [inits EXCEPT ![c].todo = @ \ {g},
                                     ![c].ids[g] = <<id>>,
                                     ![c].cached = @ \/ cached]
           /\ cacheLast' = [cacheLast EXCEPT ![g] = id]
           /\ skipped' = IF cached THEN skipped ELSE skipped \union InLog(g)
    /\ UNCHANGED <<committed, members, connVars, idVars, queueVars, retry, handled,
                   everHandled, boundVars>>

(* initOnNewConnection: the ids of all groups are set in one step; if none *)
(* was cached there is nothing to load.                                    *)
SetLastIds(c) ==
    /\ inits[c].phase = "retrieve" /\ inits[c].todo = {}
    /\ lastIds' = inits[c].ids
    /\ known' = {g \in Group : inits[c].ids[g] # << >>}
    /\ stray' = FALSE
    /\ inits' = [inits EXCEPT ![c].phase = IF inits[c].cached THEN "load" ELSE "resume",
                              ![c].todo = members,
                              ![c].ids = NoInit.ids]
    /\ UNCHANGED <<serverVars, connVars, queueVars, retry, cacheVars, boundVars>>

(* loadMissedEntityEvents for one group: the batches after the last id. *)
Load(c, g) ==
    /\ inits[c].phase = "load" /\ g \in inits[c].todo
    /\ LET rest == inits[c].todo \ {g}
           missed == {b \in InLog(g) : b.id > LastOf(lastIds[g])}
       IN  inits' = [inits EXCEPT ![c].todo = rest,
                                  ![c].loaded = @ \union missed,
                                  ![c].phase = IF rest = {} THEN "add" ELSE "load"]
    /\ UNCHANGED <<serverVars, connVars, idVars, queueVars, retry, cacheVars, boundVars>>

(* NotAuthorizedError for one group: the user is no longer a member and    *)
(* the load goes on without its batches.                                   *)
LoadForbidden(c, g) ==
    /\ inits[c].phase = "load" /\ g \in inits[c].todo \intersect Revocable
    /\ LET rest == inits[c].todo \ {g}
       IN  inits' = [inits EXCEPT ![c].todo = rest,
                                  ![c].phase = IF rest = {} THEN "add" ELSE "load"]
    /\ members' = members \ {g}
    /\ skipped' = skipped \union InLog(g)
    /\ UNCHANGED <<committed, connVars, idVars, queueVars, retry, cacheVars, boundVars>>

(* The loaded batches are added, oldest first. *)
AddMissed(c) ==
    /\ inits[c].phase = "add"
    /\ \E batches \in OldestFirst(inits[c].loaded) : Enqueue(batches, FALSE)
    /\ inits' = [inits EXCEPT ![c] = [NoInit EXCEPT !.phase = "resume"]]
    /\ UNCHANGED <<serverVars, connVars, known, messageQueue, messagesPaused, retry,
                   cacheVars, boundVars>>

(* Variant with a bug: the messages that waited are dropped. *)
ResumeQueuesEmpty(c) ==
    /\ inits[c].phase = "resume"
    /\ Enqueue(<< >>, TRUE)
    /\ messageQueue' = << >>
    /\ messagesPaused' = FALSE
    /\ inits' = [inits EXCEPT ![c] = NoInit]
    /\ UNCHANGED <<serverVars, connVars, known, retry, cacheVars, boundVars>>

(* The end of initEntityEvents, after recordSyncTime: both queues are      *)
(* resumed and the messages that waited are added.                         *)
ResumeQueues(c) ==
    /\ inits[c].phase = "resume"
    /\ Enqueue(messageQueue, TRUE)
    /\ messageQueue' = << >>
    /\ messagesPaused' = FALSE
    /\ inits' = [inits EXCEPT ![c] = NoInit]
    /\ UNCHANGED <<serverVars, connVars, known, retry, cacheVars, boundVars>>

(* ConnectionError: the websocket is closed, the queues stay paused. *)
InitDisconnected(c) ==
    /\ inits[c].phase \in {"retrieve", "load"}
    /\ inits' = [inits EXCEPT ![c] = NoInit]
    /\ Lose
    /\ UNCHANGED <<serverVars, idVars, queueVars, retry, cacheVars, boundVars>>

(* Variant with a bug: the retry is not noted. *)
InitUnavailableForgotten(c) ==
    /\ inits[c].phase \in {"retrieve", "load"}
    /\ unavailable < MaxUnavailable
    /\ unavailable' = unavailable + 1
    /\ inits' = [inits EXCEPT ![c] = [NoInit EXCEPT !.phase = "wait"]]
    /\ UNCHANGED <<serverVars, connVars, idVars, queueVars, retry, cacheVars, crashes, errorVars>>

(* ServiceUnavailableError: try again later, unless there is a reconnect;  *)
(* a new connection forgets the ids.                                       *)
InitUnavailable(c) ==
    /\ inits[c].phase \in {"retrieve", "load"}
    /\ unavailable < MaxUnavailable
    /\ unavailable' = unavailable + 1
    /\ inits' = [inits EXCEPT ![c] = [NoInit EXCEPT !.phase = "wait"]]
    /\ retry' = c
    /\ IF inits[c].existing THEN UNCHANGED idVars
       ELSE /\ lastIds' = NoInit.ids
            /\ known' = {}
            /\ stray' = FALSE
    /\ UNCHANGED <<serverVars, connVars, queueVars, cacheVars, crashes, errorVars>>

RetryInit(c) ==
    /\ inits[c].phase = "wait"
    /\ IF retry = c THEN StartInit(c)
       ELSE /\ inits' = [inits EXCEPT ![c] = NoInit]
            /\ UNCHANGED <<messagesPaused, eventsPaused>>
    /\ UNCHANGED <<serverVars, connVars, idVars, messageQueue, eventQueue, stage, retry,
                   cacheVars, boundVars>>

(* The batches that a failed load leaves out: nothing has them on its way, *)
(* and they are older than what is, or were sent to nobody.                *)
LeftOut ==
    LET onTheirWay == Range(eventQueue) \union Range(messageQueue) \union Range(channel)
    IN  {b \in committed \ (everHandled \union skipped \union onTheirWay) :
            \/ conn = "open"
            \/ \E m \in Range(messageQueue) : m.group = b.group /\ b.id < m.id}

(* Any other error: both queues go on, without what was to be loaded, and  *)
(* the error is reported.  (If recordSyncTime fails this is ResumeQueues.) *)
InitFails(c) ==
    /\ inits[c].phase \in {"retrieve", "load", "add"}
    /\ errors < MaxErrors
    /\ errors' = errors + 1
    /\ givenUp' = givenUp \union LeftOut
    /\ Enqueue(messageQueue, TRUE)
    /\ messageQueue' = << >>
    /\ messagesPaused' = FALSE
    /\ inits' = [inits EXCEPT ![c] = NoInit]
    /\ UNCHANGED <<serverVars, connVars, known, retry, cacheVars, unavailable, crashes>>
-----------------------------------------------------------------------------
(* processEventBatch of the first batch: the cache writes its entities,    *)
(* then the id of the batch, then the listener is called.                  *)
CacheWrites ==
    /\ stage = "cache"
    /\ stage' = "mark"
    /\ everHandled' = everHandled \union {Head(eventQueue)}
    /\ UNCHANGED <<serverVars, connVars, idVars, messageQueue, messagesPaused, eventQueue,
                   eventsPaused, inits, retry, cacheLast, handled, boundVars>>

CacheMarks ==
    /\ stage = "mark"
    /\ stage' = "listener"
    /\ cacheLast' = [cacheLast EXCEPT ![Head(eventQueue).group] = Head(eventQueue).id]
    /\ UNCHANGED <<serverVars, connVars, idVars, messageQueue, messagesPaused, eventQueue,
                   eventsPaused, inits, retry, handled, everHandled, boundVars>>

BatchDone ==
    /\ stage = "listener"
    /\ handled' = Append(handled, Head(eventQueue))
    /\ eventQueue' = Tail(eventQueue)
    /\ stage' = IF eventsPaused \/ Len(eventQueue) = 1 THEN "idle" ELSE "cache"
    /\ UNCHANGED <<serverVars, connVars, idVars, messageQueue, messagesPaused,
                   eventsPaused, inits, retry, cacheLast, everHandled, boundVars>>

(* ServiceUnavailableError of the cache or of the listener, whatever was   *)
(* written before: the batch waits and is processed again.                 *)
BatchUnavailable ==
    /\ stage \in {"cache", "mark", "listener"}
    /\ unavailable < MaxUnavailable
    /\ unavailable' = unavailable + 1
    /\ stage' = "wait"
    /\ retry' = BatchRetry
    /\ UNCHANGED <<serverVars, connVars, idVars, messageQueue, messagesPaused, eventQueue,
                   eventsPaused, inits, cacheVars, crashes, errorVars>>

(* Any other error is reported; the batch stays in the queue until         *)
(* something starts the queue again.                                       *)
BatchFails ==
    /\ stage \in {"cache", "mark", "listener"}
    /\ errors < MaxErrors
    /\ errors' = errors + 1
    /\ stage' = "idle"
    /\ UNCHANGED <<serverVars, connVars, idVars, messageQueue, messagesPaused, eventQueue,
                   eventsPaused, inits, retry, cacheVars, unavailable, crashes, givenUp>>

(* The end of the delay; another retry in between cancels this one, which  *)
(* is an error like the others.                                            *)
RetryBatch ==
    /\ stage = "wait"
    /\ stage' = IF retry = BatchRetry THEN "cache" ELSE "idle"
    /\ UNCHANGED <<serverVars, connVars, idVars, messageQueue, messagesPaused, eventQueue,
                   eventsPaused, inits, retry, cacheVars, boundVars>>

(* The app is restarted: only the persistent cache is left. *)
Crash ==
    /\ crashes < MaxCrashes
    /\ crashes' = crashes + 1
    /\ conn' = "down" /\ channel' = << >> /\ mode' = "login"
    /\ lastIds' = NoInit.ids /\ known' = {} /\ stray' = FALSE
    /\ messageQueue' = << >> /\ messagesPaused' = FALSE
    /\ eventQueue' = << >> /\ eventsPaused' = TRUE /\ stage' = "idle"
    /\ inits' = [c \in Connections |-> NoInit]
    /\ retry' = None
    /\ handled' = << >>
    /\ UNCHANGED <<serverVars, connections, cacheLast, everHandled, unavailable,
                   errorVars>>

ClientNext ==
    \/ \E b \in Batches : Commit(b)
    \/ \E g \in Joinable : Join(g)
    \/ Connect \/ Open \/ ConnectionLost \/ Receive
    \/ \E c \in Connections :
          \/ \E g \in Group : Retrieve(c, g) \/ Load(c, g) \/ LoadForbidden(c, g)
          \/ SetLastIds(c) \/ AddMissed(c) \/ ResumeQueues(c)
          \/ InitDisconnected(c) \/ InitUnavailable(c) \/ RetryInit(c) \/ InitFails(c)
    \/ CacheWrites \/ CacheMarks \/ BatchDone
    \/ BatchUnavailable \/ BatchFails \/ RetryBatch
    \/ Crash

(* Timers fire, requests are answered, messages arrive and queues go on.   *)
(* Every one of these steps is taken a bounded number of times, so that    *)
(* fairness of their disjunction is fairness of each.                      *)
Progress ==
    \/ Connect \/ Open \/ Receive
    \/ \E c \in Connections :
          \/ \E g \in Group : Retrieve(c, g) \/ Load(c, g)
          \/ SetLastIds(c) \/ AddMissed(c) \/ ResumeQueues(c) \/ RetryInit(c)
    \/ CacheWrites \/ CacheMarks \/ BatchDone \/ RetryBatch

ClientSpec == ClientInit /\ [][ClientNext]_clientVars /\ WF_clientVars(Progress)
-----------------------------------------------------------------------------
(* Every variable has its type; only batches of the logs are handled.      *)
ClientTypeOK ==
    /\ committed \subseteq Batches /\ members \subseteq Group
    /\ skipped \subseteq committed /\ givenUp \subseteq committed
    /\ conn \in {"down", "connecting", "open"}
    /\ channel \in Seq(Batches)
    /\ connections \in 0..MaxConnections
    /\ mode \in {"login", "initial", "reconnect"}
    /\ lastIds \in [Group -> Seq(Ids \union {MinId})]
    /\ known \subseteq Group
    /\ {stray, messagesPaused, eventsPaused} \subseteq BOOLEAN
    /\ messageQueue \in Seq(Batches) /\ eventQueue \in Seq(Batches)
    /\ stage \in Stages
    /\ \A c \in Connections : inits[c] \in Inits
    /\ retry \in Connections \union {BatchRetry, None}
    /\ cacheLast \in [Group -> Ids \union {MinId, None}]
    /\ handled \in Seq(Batches)
    /\ everHandled \subseteq committed

Loading(c) == inits[c].phase \in {"retrieve", "load", "add", "resume"}

(* Nothing is under way: the client is connected and waits for messages. *)
Quiet ==
    /\ conn = "open" /\ channel = << >>
    /\ \A c \in Connections : inits[c].phase = "none"
    /\ messageQueue = << >> /\ ~messagesPaused
    /\ eventQueue = << >> /\ ~eventsPaused

(* The batches that are in the cache, of no concern, or reported missing. *)
Settled == everHandled \union skipped \union givenUp

(* No batch is lost silently: a connected client that has nothing left to  *)
(* do has every batch in its cache, whatever was sent while it was         *)
(* disconnected, while it was loading, or before it crashed, except those  *)
(* that were missing when a failed load was reported                       *)
(* (EventBusClient.ts:434-531, 590-618).                                   *)
NothingLost == Quiet => committed \subseteq Settled

(* A batch of a group whose ids are kept is not processed again once its   *)
(* processing has succeeded, nor does it wait twice: "we store the last    *)
(* 1000 event ids per group, so we know if an event was already processed" *)
(* (EventBusClient.ts:67-69).  A failed one is, at once (EventQueue.ts:306).*)
NotTwice ==
    LET batches == handled \o eventQueue
    IN  \A j, k \in DOMAIN batches :
            batches[j] = batches[k] /\ batches[k].group \in known => j = k

(* The batches of a group that the client must see are processed in the    *)
(* order of the log, over all connections, failures and restarts, and a    *)
(* gap is only left by a step that reports an error: "missed entity events *)
(* are processed in order" (EventBusClientTest.ts:221, doc/events.md:11).  *)
Log == INSTANCE EventLog WITH written <- committed, seen <- everHandled,
                              excused <- skipped \union givenUp, reports <- errors
ImplementsLog == Log!LogSpec

(* After a restart the client loads from a batch that it has seen, not     *)
(* from one whose entities it did not write (DefaultEntityRestCache.ts:706),*)
(* and no batch before it is missing without a report.                     *)
CacheIdIsHandled ==
    \A g \in Group, b \in committed :
        b.group = g /\ cacheLast[g] # None /\ b.id <= cacheLast[g] => b \in Settled

(* A queue that was paused to load missed batches is resumed, there is a   *)
(* new connection, or the only variable for retries went to a batch: "a    *)
(* ServiceUnavailableError is a temporary error and we have to retry to    *)
(* avoid data inconsistencies" (EventBusClient.ts:403, 422, 650).          *)
RetryTaken == retry = BatchRetry /\ inits[connections].phase \in {"none", "wait"}
QueuesResume ==
    (conn = "open" /\ messagesPaused) ~> (conn # "open" \/ ~messagesPaused \/ RetryTaken)
=============================================================================
