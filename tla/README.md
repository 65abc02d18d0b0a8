# The worker and desktop of the Tuta client: a verification project

Tuta is an end-to-end encrypted mail and calendar client. The program logic that is hardest
to get right is not in its views but in the worker that keeps a local copy of the server's
data: *entity events* tell the client what changed, they arrive over a websocket that
breaks, are loaded again after a reconnect, are merged in queues and are applied to a cache
that survives restarts (`doc/events.md`). This project models that path, and the small
concurrent machines around it: the offline database that several windows share, the ranges
of lists that views extend while events arrive, the stream of push notifications of the
desktop, and the requests that are suspended and retried. It checks them with TLC and proves
the parts that TLAPS can reach for every value of the constants.

Paths in this text are relative to the root of the repository; `worker/` stands for
`src/common/api/worker/`.

## 1. Inventory

| component | code | state | operations | hard behaviour | must hold |
|---|---|---|---|---|---|
| EventQueue | `worker/EventQueue.ts` | array of batches, map from element id to the batch with its last operation, the batch being processed, paused | add, addBatches, start, pause, resume, clear, an action settles | adding while an action runs; a failed action; merging | one action at a time, in order; merging loses nothing |
| EventBusClient, connection | `worker/EventBusClient.ts:137-372`, `worker/utils/SleepDetector.ts` | websocket, EventBusState, two timers, sleep detector | connect, close, tryReconnect, socket events, timers | timers against calls, events of the socket that come late | always a next attempt; the views see the truth; terminated stays terminated; one socket |
| EventBusClient, batches | `worker/EventBusClient.ts:374-675` | ids per group, message queue, event queue, retry | initEntityEvents, onMessage, addBatch, processEventBatch | several initializations at once, 503 answers, failed loads and writes, lost messages, restarts | every batch once, in order, none lost without a report |
| EventBusEventCoordinator | `worker/EventBusEventCoordinator.ts` | none of its own | forwards batches; reloads the user | memberships change below the event bus | (part of the former) |
| DefaultEntityRestCache | `worker/rest/DefaultEntityRestCache.ts` | ranges and entities in a CacheStorage | load, loadRange, loadMultiple, entityEventsReceived | awaits between reading and writing | the cache equals the server once events are processed |
| OfflineStorage | `worker/offline/OfflineStorage.ts` | SQL tables of entities and ranges | get, put, ranges, removal of old mails | a removal of several statements beside reads | ranges have no holes |
| CacheStorage (ephemeral, proxy) | `worker/rest/` | maps | get, put, ranges | late initialization | (a special case of the former) |
| Offline database locks | `src/common/desktop/db/OfflineDbRefCounter.ts`, `PerWindowSqlCipherFacade.ts` | reference counts, locks per list, state of each window | open, close, delete, lock, unlock | several windows, waiting while closing | mutual exclusion, no lost wake-up, no use after close |
| Indexer | `worker/search/Indexer.ts` and others | index database, own EventQueues | init, load missed batches, realtime batches | overlap of loaded and realtime batches | each batch is indexed once |
| RestClient, SuspensionHandler | `worker/rest/RestClient.ts`, `worker/SuspensionHandler.ts` | deferred requests | request, suspend, release | requests and new suspensions while draining | every deferred request is sent, once, and not all at once |
| OwnerEncSessionKeysUpdateQueue | `worker/crypto/` | queue, debounce timer | add, send, retry | retry against newer updates, suspension | none is lost or doubled, all are sent |
| KeyCache, KeyLoaderFacade, KeyRotationFacade | `worker/facades/` | promises of keys by group | get, set, remove outdated | awaits while rebuilding | the key version is never older than known |
| BlobAccessTokenFacade | `worker/facades/` | tokens with expiry | request, evict | eviction during a load | no expired or evicted token is used |
| MessageDispatcher | `src/common/api/common/threading/` | callbacks by request id | post, handle | answers for forgotten requests | each request settles once |
| SseClient | `src/common/desktop/sse/SseClient.ts` | connection state, timeout, periodic check | connect, disconnect, heartbeat, events of requests | late network events, silence | one stream; the state fits it; `disconnect` returns |
| TutaSseFacade, alarms | `src/common/desktop/sse/` | stored identifier, scheduled alarms | connect, notifications | | (its calls of SseClient are modelled) |
| LoginFacade | `worker/facades/LoginFacade.ts` | session | login, reset, expiry | asynchronous resumption of sessions | (its calls of the event bus are modelled) |
| cryptography, views, mobile shells, SDK, generated types, libraries | `packages/`, `src/`, `app-*`, `tuta-sdk/`, `libs/` | | | | not modelled |

How they interact on the modelled path:

    server logs --websocket--> entityUpdateMessageQueue --\
         \                                                  eventQueue --> processEventBatch
          \---load missed batches (REST)-------------------/               |   cache: entities, then batch id
                                                                            \-> coordinator: listeners, indexer

`EventBusClient` owns two `EventQueue`s. The first holds live messages and is paused while
missed batches are loaded; both feed the second, whose action gives a batch to
`DefaultEntityRestCache.entityEventsReceived` and then to the coordinator. The indexer owns
two more. Every request of the cache passes `RestClient`, which defers it while
`SuspensionHandler` says so. On the desktop the SQL statements of the cache go to one
connection that `OfflineDbRefCounter` shares among the `PerWindowSqlCipherFacade`s of the
windows; `DefaultEntityRestCache.loadRange` and `OfflineStorage.deleteMailList` bracket
their work with the locks of that counter. `SseClient` runs beside all this in the desktop's
main process.

`PROJECT.json` lists the hazards of this code line by line, and which property covers which;
a hazard without property says why.

## 2. Modules

| module | models | state |
|---|---|---|
| `EventQueue` | `EventQueue.ts`, all of it | `eventQueue`, `events`, `groupOf`, `lastOperation`, `processing`, `paused`, and `running`: actions that have not settled |
| `EntitySync` (EXTENDS EventQueue) | a server, the logs of its groups, and a mirror that applies batches as `entityEventsReceived` does | `location`, `log`; `held`, `stale`, `applied` |
| `EventBusConnection` | the websocket half of `EventBusClient.ts` and its callers `LoginFacade.initSession`, `resetSession` | one variable per field of the class, `orphanTimers` for timers whose reference was dropped, `call` for the step of LoginFacade that is under way |
| `EventBusClient` | the other half: `initEntityEvents`, `addBatch`, `processEventBatch`, retries | `lastIds`, `messageQueue`, `eventQueue`, one record in `inits` per asynchronous initialization, the persistent `cacheLast`; `givenUp` for what a failed load left out |
| `EventLog` | what the event bus promises to the rest of the client: the batches of a log in order, a gap only where an error is reported | `written`, `seen`, `excused`, `reports` |
| `OfflineLocks` | `OfflineDbRefCounter.ts` and one `PerWindowSqlCipherFacade.ts` per window | `cache` (the entry of the user), `connection`, `session` and `held` (state of each window), and the calls `inside` or waiting |
| `ListRange` | one list: `loadRange`, `load`, the events of the list, `OfflineStorage.deleteMailList` | `server`; `range`, `cached`; `events` and `handling`; one record per running read, `clearing` |
| `SseClient` | `SseClient.ts`, all of it | `state` with its fields, `timeout`, `strays`; what became of each request |
| `RestClient` | `SuspensionHandler.ts`, and the fate of a request in `RestClient.ts` | `isSuspended`, `timers`, `deferredRequests`, the running `loops` of `_onSuspensionComplete`, `call` |
| `SessionKeyUpdates` (EXTENDS RestClient) | `OwnerEncSessionKeysUpdateQueue.ts` over it | `queue`, `debounced`, and what each post carries |
| `MCEventQueue`, `MCEntitySync`, `MCEventBusClient`, `MCOfflineLocks`, `MCListRange`, `MCSseClient`, `MCSessionKeyUpdates` | instances, batches, windows, calls for TLC | |
| `EventQueue_proofs`, `EntitySync_proofs`, `EventBusConnection_proofs`, `EventBusClient_proofs`, `OfflineLocks_proofs`, `ListRange_proofs`, `SseClient_proofs`, `SessionKeyUpdates_proofs` | theorems | |

Composition: `EntitySync` puts a server and a mirror around `EventQueue`,
`SessionKeyUpdates` a client on top of `RestClient`, `OfflineLocks` many windows around one
counter. `EventBusClient` contains its two queues in the simpler form that `OneAtATime` and
`NoBatchSkipped` of `EventQueue` justify: first in, first out, one action at a time.

`EventBusClient` implements `EventLog` by `written <- committed`, `seen <- everHandled`,
`excused <- skipped \union givenUp`, `reports <- errors` (`ImplementsLog`).

### Correspondence and abstractions

*EventQueue.* `Add` is one call of `add()` with all that runs in the same turn:
`_optimizingAddEvents`, `removeEventsForInstance`, the update of the map, and `start()`.
`addBatches` is a sequence of them. `Succeed` and `Fail` are the two continuations of the
promise of the queue action. A batch is numbered by the call that added it; since the array
grows at its end and is never reordered, a set of numbers stands for it, and object identity
(`===`) is equality of numbers. Events of a batch are a set, as `batchMod` looks for the
presence of operations. The server sends one modification of an instance per batch
(`ValidBatch`), a move being a DELETE and a CREATE. `AddThrows` leaves open which other ids
were merged before the ProgrammingError, since that depends on the order of events.

*EntitySync.* The server's change and its events are one step; the mirror downloads the
*current* version, which may be ahead of the events, and this is what makes skipping an
update right. `held` has the copies of the mirror and `stale` those whose version is
outdated. All entities are in the cached range of their list, so a CREATE is always
downloaded; ranges are in `ListRange`. `Apply` is one step: the queue action is the only
writer of these entities here.

*EventBusConnection.* Delays have no length: an armed timer may fire at any time.
`connect()` drops the reference to an armed connect timer without cancelling it; such timers
are counted (`MaxOrphans`). `initSession` sets the user and calls `connect()` some requests
later (`SetUser`, `Login`); `resetSession` terminates the client and forgets the user after
the cache was closed (`Terminate`, `ResetUser`): timers and sockets go on in between, and
nothing is asked of the order of calls, except that a login begins when no other call is
under way, and that one which a logout cuts off is taken to end there. A `connect()` without
a user throws after it has set and reported the state (`getLoggedInUser`), so that it makes
no socket. Handlers of an old socket are removed by `unsubscribeFromOldWebsocket`, so only
the current socket has events. `failedAttempts` counts to 3, the largest number that the
code tells apart. `shown` is the last value reported to `onWebsocketStateChanged`. An
`initSession` that fails also resets the session, which is a call like the others here.

*EventBusClient.* A batch is its group and id. Every `await` that waits for the network or
the database ends a step: the request for the newest id of each group, for the missed
batches of each group, `recordSyncTime`, the writes of the cache, the write of the batch id,
the listener. Continuations that only pass through resolved promises are part of the step,
so the message queue is drained in the step that resumes it. Each of the `catch`es of
`initEntityEvents` is an action: a ConnectionError closes the websocket
(`InitDisconnected`), a ServiceUnavailableError tries again with the mode of the last
`connect()` (`InitUnavailable`, `RetryInit`), and any other error resumes both queues, with
nothing added, and is reported (`InitFails`). `LeftOut` says which batches are then on no
way to the client; they go to `givenUp`. CancelledError is thrown by nothing that it awaits.
A load that is refused for one group (NotAuthorizedError) goes on without it
(`LoadForbidden`). A batch that is processed may fail at each of its three stages, before,
between and after its two writes, with a 503 (`BatchUnavailable`, `RetryBatch`) or otherwise
(`BatchFails`); in both cases it stays the first of its queue. Termination is left to
`EventBusConnection`, and with it the early return of `loadMissedEntityEvents` without a
user, after which the next login starts from the cache again. Ids are committed in their
order. `skipped` holds batches written before the client first asked for the newest id, or
for groups it was no member of: it need not see them. `BinarySearch` is the loop of
`binarySearch` as a recursive function of its window, and `AddAll` the loop over a list of
batches.

*OfflineLocks.* One user, whose entry in `OfflineDbRefCounter.cache` is a set of at most one
record. A step is one task of the event loop with the continuations it causes: `resolve()`
of a lock wakes all that wait for it before any message of a window is handled, each sets a
new lock (`taken`), and one that finds its session gone deletes what is set then
(`givenUp`). A call of `loadRange` or `deleteMailList` is `inside` from lock to unlock.
`Logout` keeps the page and its calls, `Reload` ends them; calls that still wait then are
`stale` or `orphaned`. `deleteDb` waits 1 s at most for other windows: `DeleteFile` may
happen at any time after `DeleteDb`. Queries are not modelled.

*ListRange.* Elements are their ids in order; the content of an element is its version.
Every request and every awaited statement is a step; the puts of `Promise.all` are one
(`Store`), since the SQL worker executes them one after the other. `Plan` chooses what is
asked, by the branch that `LoadRange` took; `SetBound` and `Store` are the two halves of
`updateRangeInStorage`, between which the range has holes. A new range is written twice by
the code, first with both bounds at its start and then with the end that was reached;
`SetBound` is the second write, and the row of the first is seen by others only if there are
several readers or a crash between the two, which `Crash` covers (`Started`).
`provideFromRange` is read when the call returns (`Finish`). `Crash` keeps the database as
far as it was written, and the event whose batch id was not written yet, before or after its
own write to the cache; it comes anywhere but between a bound and its elements
(`TornRanges`) and between the two halves of a removal (`TornRemovals`). The lock of ranges
is left out because everything here is in one window, which gets a lock that it has again at
once.

*SseClient.* A request is pending, open, silent, refused, or destroyed and not yet closed;
one that is closed may stand for a later one. A refused request has no handler: if the
server closes it before the client destroys it, it is "gone", and its close is reported to
nobody. `disconnect()` and what follows it in `connect()` and in the periodic check are
handlers of the `close` event (`disconnecting`, `reconnecting`). Node reports an error of a
request destroyed before its response; the handler arms a timeout, which `close` does not
cancel: such timeouts are counted in `strays`.

*RestClient and SessionKeyUpdates.* A settled promise is noticed before the browser starts
another task, so calls, answers and timers wait until no loop can go on (`Idle`). A loop of
`_onSuspensionComplete` awaits its request even if that is deferred again by a newer
suspension. The queue of updates is posted by the timer of `debounce` (`debounced`), one
post of a small set after the other.

## 3. Runs

Passing runs:

| run | question | bounds |
|---|---|---|
| `queue` | is one batch processed at a time, and untouched by merging, whatever is added? | mail and contact, every modification of each and some of both, 3 adds, calls of `clear` while no action runs |
| `sync` | does merging lose a change, can `add` throw, and does the mirror reach the state of the server? | a mail in 2 folders and an instance with a custom id (deleted and created again), 4 changes, all of which may wait and merge; downloads may fail |
| `connection` | does the client always try again, does a timer ever replace a live socket that it could see, are the views told the truth, whatever meets? | 2 timers without reference |
| `client` | is every batch seen once, in order, and none lost without a report, over lost connections, failures and restarts? | 2 groups, 3 batches, 3 connections, 1 restart, 1 answer 503, 1 other error at any stage, 3 ids kept per group (the cap is reached), a cache that was filled before |
| `client_resumes` | are paused queues resumed after answers 503, is nothing lost when a group is joined or lost or the cache was empty? | 2 groups, one of them joined and lost, 2 batches, 2 connections, 2 answers 503 |
| `locks` | are references and locks given back, and do windows keep out of each other's ranges, however they close? | 2 windows that read 2 lists each, 2 connections |
| `ranges` | has the range gaps or outdated elements, are answers complete, do the loops of `loadRange` end? | a list of any of 4 elements, chunks of 2, 1 reader, 1 change of the server, any removal of old mails, any number of crashes |
| `sse` | is there one stream, does the state fit it, does `disconnect` return? | 3 requests that may be used again, 2 stray timeouts |
| `requests` | is a deferred request or a session key update lost, doubled, or forgotten? | 2 calls, 3 posts, 2 updates, 2 suspensions, 1 answer "locked" |

`CHECK_DEADLOCK FALSE` is used where the system rests: a server that writes no more
(bounded), a client without work. In the runs of `EventBusClient`, `MaxEventIds` must be at
least the number of messages that can wait: with fewer ids than waiting batches the code
itself forgets ids that it still needs; the code keeps 1000.

Types are proved where a module has proofs (section 5), and are in no run. `EventLog` has no
run of its own: `client` checks that `EventBusClient` refines it (`ImplementsLog`).

Small instances are enough because the code treats batches, groups, instances and windows
alike. `_optimizingAddEvents` looks at two batches (the last one and the first one that
deletes) beside the running one, so four batches show every combination; `addBatch` looks at
one group; two connections show the overlap of two initializations, and two answers 503 the
collision of two retries. A lock has one holder, and those that wait for it are in one other
window. A list of four elements with chunks of two has a range, a gap before it, and a chunk
that ends inside and one that ends outside of it. What the bounds might hide in the queue,
the mirror, the client, the connection, the locks, the range, the stream and the requests is
proved for every value (section 5).

Fairness.

- `SyncFairness`: batches are delivered, promises settle, and a queue that is paused or has
  stopped is resumed (`initEntityEvents` ends so), by weak fairness; a batch that is tried
  again and again is applied in the end (strong fairness of `Apply`:
  `ServiceUnavailableError` and `ConnectionError` are temporary).
- `ConnFairness`: timers fire and a closing socket reports `close`; nobody is forced to log
  in, and the network may refuse every attempt.
- `ClientSpec`: weak fairness of `Progress`, the disjunction of the steps that happen by
  themselves (timers, answers, messages, continuations); each is taken a bounded number of
  times, so no step can starve another.
- `LocksSpec`: a call that has the lock ends (`Unlock`), since its requests are answered or
  time out. Connections need not open, nor windows close.
- `RangeSpec`: the requests of a read are answered and its statements executed.
- `SseFairness`: timeouts and the periodic check run, a destroyed request is closed, the
  handler of a refusal returns. The network need not do anything.
- `UpdatesFairness`: promises and timers go on, a request that was sent is answered or
  rejected by its timeout. Suspensions and locks are bounded.

Failures are never fair, and nothing makes the server change anything.

## 4. What the code does not keep

Three runs have `expect: violation`: TLC finds a behaviour of the code that contradicts a
comment of the repository.

| run | behaviour |
|---|---|
| `connection_terminated` | A terminated client connects without a login: `close(Pause)` makes it suspended (line 232), a reconnect arms the connect timer, and a `terminate()` that follows cancels no timer. |
| `client_overlapping` | The initialization of a lost connection resumes the message queue of the next one; missed batches are skipped (`Overlap = TRUE`). |
| `ranges_two_readers` | Two calls of `loadRange` for one list in one window: the lock of ranges is held by the window, so that both run. The bound of one and the elements of the other mix, and the range covers elements that are not in the cache. |

Other limits of the code were met while modelling. The constants of the passing runs exclude
them; the constant in parentheses brings them back and refutes the property that is named
with it.

*Event queue.*

- `clear()` while an action runs (`ClearAnytime = TRUE` refutes `OneAtATime`): a second
  action starts beside the first, which then shifts a batch that is not its own.
  `EventBusClient.reset` makes that call.
- An action that fails after the cache was written (`FailPoints = {"after"}` refutes
  `DeviationIsPending`): the batch is merged with later ones and applied again; a copy
  remains in a folder where the mail is not.
- The last operation is looked up by element id only (`EventQueue.ts:141`): with two
  instances of one id (`IdOf <- SameId`) the events of one swallow those of the other, and
  `DeviationIsPending` fails.
- A ProgrammingError is thrown after other events of the same batch were merged into older
  batches. The new batch is lost, and the map entries of what it merged stay: with four
  batches without the server's discipline `LastOperationIsNewest` fails. `sync` checks and
  section 5 proves that the server's batches never throw (`NeverThrows`).
- The search for the first DELETE crosses groups (`EventQueue.ts:212`): with an instance in
  the logs of two groups (`GroupsOf <- BothGroups`) `NeverThrows` fails.

*Event bus client.*

- An error of `initEntityEvents` that is none of the expected ones resumes both queues
  without the missed batches (lines 434-440). The next message becomes the last id, so that
  the batches in between are never asked for; the user is shown an error. `NothingLost`,
  `CacheIdIsHandled` and `EventLog` therefore except the batches that were missing when an
  error was reported (`givenUp`), and say that nothing else is ever missing. Without that
  exception `NothingLost` fails after six steps.
- The same error before `initOnNewConnection` has set the ids leaves groups without kept
  ids, and so does a group that is joined later: `addBatch` stores the ids under the batch
  id (line 626). Batches of such a group are processed twice. `NotTwice` therefore speaks of
  the groups whose ids are kept (`known`); without that condition `MaxErrors = 1`, and
  `Joinable = {groupB}` for itself, refute it.
- The retries of the initialization and of a batch share one variable: after two answers 503
  the retry of a batch cancels that of the initialization, and both queues stay paused until
  the next reconnect. `QueuesResume` therefore has the outcome `RetryTaken`;
  `client_resumes` reaches it, and without it the property fails.
- Two sockets: a login makes a new one whatever there is, and a timer whose reference
  `connect()` dropped connects beside a live socket, which then stays open at the server
  without handlers. `TimerFindsNoSocket` holds for the timer that the client refers to. If a
  timer connects between the two steps of a logout, the end of that connection is reported
  to nobody, as there is no user then, and the login that follows shows "connected" until it
  calls `connect()`: `ShownIsTrue` excepts the time in `initSession`.
- `addBatch` splices at `-index`, one behind the insertion point (line 615). An id that is
  smaller than others loses its place, and a later search misses it: with `EmptyCache =
  TRUE` and 6 batches of one group `NotTwice` fails, because messages that were sent before
  the newest id was asked for come after it. So `client` assumes a filled cache for
  `NotTwice`. If one load brings more batches than ids are kept, then ids are dropped while
  it adds them; the proof of `NotTwice` therefore bounds the number of batches by
  `MaxEventIds`.
- Missed batches are loaded after the last id only (line 658): a batch with a smaller id
  that becomes visible later, while the client is away, is not loaded; `Commit` therefore
  writes ids in order.

*Offline database.*

- The calls that wait for a lock are woken by one promise and all take it: two calls of
  another window that wait together are then both inside, and the first that unlocks sets
  the list free for other windows while the second still reads (`Calls <- ThreeCalls`
  refutes `OneWindowPerList` and `NoLeakedLock`).
- A window that logs out and opens the database again while calls of its last session run
  has a set of locks that those calls do not know (`CallsOutliveSession = TRUE` refutes
  `OneWindowPerList` and `WaitersWake`).
- `deleteDb` removes the entry after a second even if other windows use it (`DeleteShared =
  TRUE` refutes `RefsAreCounted` and `OneWindowPerList`).
- A database that is opened while the old connection of the same user closes has two
  connections: `OneConnection`, which states the comment of the counter, is in no run and is
  refuted by `Open`, `Logout`, `Open`.

*Ranges.*

- An answer that was asked for before an event was processed is written after it
  (`EventsOvertake = TRUE`): the update or deletion is undone. Old mails that are removed
  while a view reads or an event is handled (`ClearRaces`) leave a range without elements. A
  read from an element that is not in the cache (`AnyStart`) extends the range over elements
  that it did not load, and a list without range that is read first from one of its elements
  gets a range whose ends miss the events that come meanwhile (three changes are needed: the
  proof of section 5 met this, and TLC confirms it). Each refutes `RangeInSync`.
- A crash between the bound of a range, which is written first (lines 515, 524), and its
  elements (line 530) leaves a range with holes in the database, which no later read fills
  (`TornRanges = TRUE` refutes `RangeInSync`). A crash in the middle of a removal of old
  mails leaves mails below the range, which count in answers (`TornRemovals = TRUE` refutes
  `AnswersAreComplete`; `RangeInSync` holds). The puts of `Promise.all` are one step, so a
  crash among them is the former case.
- Elements outside of the range that were loaded one by one (`SingleLoads`) count in the answer and
  refute `AnswersAreComplete`.

*Push stream.*

- A request that the server refuses and then closes by itself leaves a state that refers to
  it ("gone"): no handler hears of the close, so that a `disconnect()` which waits for it
  never returns. `DisconnectEnds` and `StateFitsStream` except exactly that request; without
  the exceptions `sse` refutes them.
- `error` and `close` of one request make `delayedReconnect` throw (line 223); a request
  destroyed while it connects arms a timeout that no state refers to, which the model
  counts; and the periodic check has no pause while `readTimeoutSec` is unknown (line 260).

*Requests.*

- Deferred requests may be overtaken by requests that are made while they drain; posts of
  session key updates have no order among each other; and a steady flow of updates restarts
  the debounce, so that sending waits for a pause.

Each constant is a condition on the callers or on the environment, never a change of the
modelled code, so that everything else is still checked. Where no such condition is
realistic the property has an exception instead, named above.

## 5. Proofs

All theorems are checked by `tlapm` with no step left open. They hold for every value of the
constants under the named assumptions of the modules and those that a theorem adds.

*EventBusConnection_proofs.* All theorems hold for every interleaving of calls, timers and
socket events, without further assumptions. `ConnectionTyped`; `NeverStrandedAlways`: every
step that takes the socket away in the automatic state with a session arms a timer, and
every step that disarms one makes a socket, arms another, or leaves that state.
`ShownIsTrueAlways` and `TimerFindsNoSocketAlways` rest on the inductive `ReportsInv`: a
socket that is being made, or that a user is shown, belongs to a client in the automatic
state. `ShownIsTrue` alone is not inductive: `onClose` reports the end of a connection only
in some states, and the invariant says that it is in one of these whenever a connection is
shown.

*EventQueue_proofs.* `QueueTyped`: type correctness of all actions, the merging rules
included; it needs `MergedLastTyped` (the CHOOSE of the first deleting batch has a value),
which is the least number principle for sets of batches (`LeastExists`). `OneAtATimeAlways`,
`InFlightUnchangedAlways` and `NoBatchSkippedAlways` assume `~ClearAnytime` and rest on
`QueueInv`: a batch runs at most once, exactly when it is `_processingBatch`, which is then
the first of the queue and not empty. The key lemma is `ProcessingIsNotMerged`: no rule of
`_optimizingAddEvents` changes the events of the batch being processed, because neither the
last operation it merges with nor any batch it deletes from is that batch.
`WellFormedQueueAlways` assumes in addition that ids tell instances apart (`IdOf` is
injective), as in the runs: each rule replaces what it removes, so that no batch has two
modifications of an instance.

`LastOperationIsNewestAlways`: as long as no `add` throws (`NothingThrown`; see section 4
for what happens otherwise), the map points to the newest batch with events of an id.
`MapInv` adds that an id without entry has no events in the queue, and that the batch of an
entry is in the queue and has an event of the id: merging, which may take the last event
from a batch, takes its entries too.

*EntitySync_proofs.* `DeviationIsPendingAlways`, `NeverThrowsAlways` and
`LastOperationIsNewestInSync`, for any instances, lists, groups, sizes of batches and number
of changes, under `Discipline`: ids tell instances apart, an instance is in the log of one
group (that of its owner), and a queue action that wrote the mirror succeeds. Each of the
three is needed; section 4 names what it excludes. `SyncInv` says what a queue means. The
events of an instance that wait, in the queue and then in the log, are a *chain* of steps:
each begins where the one before ended (`Linked`), except that a deletion may follow a
deletion; the last one ends where the server has the instance (`EndsAt`), and the mirror has
no copy but where the first one begins (`BeginsAt`). A chain of updates alone needs a copy
to act on (`HasCopy`), and one of moves alone, which rename without downloading, needs a
fresh one (`HasFresh`). With an empty chain this is `UpToDate`. The server adds a step to
the end (`ChainGrows`), the mirror takes the first one (`ChainShrinks`, `MirrorTakesStep`:
it may be ahead, since it downloads the current version), and every rule of
`_optimizingAddEvents` replaces steps that follow each other by fewer that lead from and to
the same places (`ChainMergesFirst`, `ChainMergesLast`, `ChainSplits`). The hard lemma is
`DeletionWaits`: a deletion that is merged drops whatever follows the first deletion that
waits, in all later batches, and the map must then name that one. `NoThrow` reads the
impossible combinations off `Linked`.

*EventBusClient_proofs.* All theorems assume `~Overlap`; groups, batches, connections,
restarts, 503 answers, other errors, groups joined and lost are free except in
`NotTwiceAlways`. Three invariants build on each other:

1. `LoadInv`: only the last initialization still loads, and the message queue is paused
   while it does.
2. `LogInv`: no batch of a log is missing before one that was seen, waits in the event queue
   or was loaded (`SeenInv`, `QueueInv`, `InitOK`), before a message (`Pipe`), or up to the
   id that an initialization will ask from (`IdsCovered`), unless it is excused. It gives
   `NothingLostAlways` and `CacheIdIsHandledAlways`, and that `CacheWrites`, the step that
   gives a batch to the cache, sees the next batch of its group or one that it saw before:
   `ImplementsEventLog`. From the refinement and what `EventLog` keeps by itself follows
   `SeenWithoutGaps`. The hard step is `InitFails`: what it resumes may have gaps, all of
   which `LeftOut` must contain.
3. `OnceInv`: the ids kept per group increase and contain each batch that was added, so that
   `addBatch` finds it again, also one that failed and waits to be processed again. After an
   error in the first load no group has ids, and this stays so until a restart (`Trapped`);
   one of the two always holds. It gives `NotTwiceAlways`, for a cache that was filled
   before, no group that is joined or lost, and no more batches than ids are kept; section 4
   says what happens otherwise.

`SearchFindsIds` says of the binary search over any ordered sequence that it finds exactly
what is there. This and what `AddAll` computes are inductions: a recursive function is
unfolded at the least window, or the least prefix, at which the claim would fail
(`LeastNumber`), which needs no induction schema.

*OfflineLocks_proofs.* `LocksTyped`, `RefsAreCountedAlways` and `NoUseAfterCloseAlways`, for
any finite number of windows and `~DeleteShared`. The invariant counts the windows with a
session by the entry, and says what an entry implies of its connection; counting is by the
theorems on finite sets.

`OneWindowPerListAlways` and `NoLeakedLockAlways`, in the second half of the module, are
under `Environment`: finitely many windows, `~DeleteShared`, `~CallsOutliveSession`, and
`PairedCalls`, two calls at most per list, of different windows, so that one call at most
waits for a lock. The number of windows and lists is free. Without these assumptions the
properties are false (section 4). `MutexInv` ties the lock of the entry, the sets of the
windows and the calls inside to each other. The hard step is `HandoverStep`: one `resolve`
may at the same time free locks of a window that closes, hand them to those that wait
(`Heirs`), and find some of them gone.

*ListRange_proofs.* `RangeInSyncAlways`, for any number of elements, chunk size, count and
number of changes and removals; for one reader and under the four conditions whose failure
refutes it (section 4); with any number of crashes, anywhere but between a bound and its
elements (`~TornRanges`). `ListInv` describes what a read may hold back: an answer is a
complete stretch of the server's list as it was asked for, up to the events not handled
since (`Fits`), these events mend it (`Mends`), and between the new bound and the puts the
new part of the range is exactly what the read will put (`Covers`). `AnswerIsComplete` says
what `Nearest` gives for any list, `NearestWithoutGap` that the answer and the range leave
no gap between them. The hard step is `HandledStep`, an event handled beside a read that
waits. `CrashStep` shows that what a crash leaves is in order: a new range without its end
has no elements to miss, and an event whose write was not acknowledged is handled again.

*SseClient_proofs.* `SseTyped`, `OneStreamAlways`, `TimeoutFitsStateAlways`,
`StateFitsStreamAlways` for every order of calls and events, requests that the server
refuses and closes included, without further assumptions. The strengthening says which
request the state may refer to while others are destroyed but not closed.

*SessionKeyUpdates_proofs.* `EndsByItsTimerAlways`, `DeferredOnceAlways`, `NoBurstAlways` of
`RestClient`, `UpdatesTyped` and `OnePlaceAlways`, with no further assumption. `DeferredInv`
says that each call that is deferred is in one place (the list, or the rest of one loop),
`Awaited` that two loops never await one call; `UpdatesInv` that queue and posts carry every
accepted update once. The lemmas on sequences say what removal and concatenation keep.

Model-checked only:

- liveness (`CatchesUp`, `Reconnects`, `QueuesResume`, `WaitersWake`, `ReadsEnd`,
  `DisconnectEnds`, `SilenceIsNoticed`, `CallsEnd`, `UpdatesEnd`), which the prover cannot
  do under fairness;
- `AnswersAreComplete`: what a view is given at the end depends on every chunk that the read
  loaded, not only on the last, so that the invariant would have to carry the history of the
  read.

## 6. Not modelled

- *The rest of modelled parts.* OutOfSync and the purge of the cache: they compare the clock
  with the life of batches on the server. The order in which messages are decoded: it
  depends on the number of promises that each passes. Request options of `loadMultiple`,
  custom cache handlers and ignored types, which bypass the ranges. The queries and
  migrations of the database.
- *Indexer.* Its queues are `EventQueue`; what it does with events (tokens, encrypted index
  rows, ranges of time) is a system of its own of some 4000 lines, and its queues alone
  would say nothing of the index.
- *KeyCache, KeyLoaderFacade, KeyRotationFacade.* Which key is right is a matter of
  cryptography; a finite model could only repeat version numbers.
- *BlobAccessTokenFacade.* A cache with expiry by the clock; loading a token twice does no
  harm.
- *MessageDispatcher.* A map of promises over an ordered, reliable transport.
- *LoginFacade, TutaSseFacade, AlarmScheduler, EphemeralCacheStorage, CacheStorageProxy.*
  Callers and listeners of modelled parts, or special cases of them.
- *Cryptography, views, mobile and desktop shells, the Rust SDK.* Functions on bytes, user
  interface, and other programs in the same repository.
- *Generated types and vendored libraries*, among them SQLite and the headers of OpenSSL in
  `app-ios`, which are most of the C code of the repository and none of its own logic.

## 7. Running

    tlc -workers 2 -config queue.cfg MCEventQueue
    tlapm EventQueue_proofs.tla

The configuration of a run has its name; `PROJECT.json` names its module.
