----------------------------- MODULE ListRange -----------------------------
(***************************************************************************)
(* One list in the cache: DefaultEntityRestCache over OfflineStorage.      *)
(* Views read ranges of the list, the cache extends the one range it keeps *)
(* by asking the server; entity events keep it up to date; old mails are   *)
(* removed after login.                                                    *)
(*                                                                         *)
(* Every request to the server and every statement of the database is      *)
(* awaited, so that others go on between: each is a step.  Puts that are   *)
(* issued together are executed together by the SQL worker.  The lock of   *)
(* ranges is left out: it keeps windows apart, and a window that has it    *)
(* gets it again at once (OfflineLocks), while everything here happens in  *)
(* the worker of one window.                                               *)
(*                                                                         *)
(* The database survives a crash: the range and the elements as far as     *)
(* they were written.  Reads are lost, and the event whose handler had not *)
(* come to the id of its batch is received again.                          *)
(***************************************************************************)
EXTENDS Integers, Sequences, FiniteSets, FiniteSetsExt

CONSTANTS
    MaxId,           \* element ids are 1..MaxId
    Readers,         \* calls of loadRange and load that run at the same time
    ChunkSize,       \* EXTEND_RANGE_MIN_CHUNK_SIZE
    MaxCount,        \* bound on the count that a view asks for
    MaxChanges,      \* bound on the changes of the server
    EventsOvertake,  \* an event may be handled between the answer to a read and its puts
    ClearRaces,      \* old mails may be removed while views read and events are handled
    AnyStart,        \* a range may be read from an element that is not in the cache,
                     \* or a list for the first time from one of its elements
    SingleLoads,     \* elements outside of the range may be loaded one by one
    TornRanges,      \* a crash may come between the bound of a range and its elements,
    TornRemovals     \* or between the bound and the removal of old mails

ASSUME ListRangeAssumption ==
    /\ MaxId \in Nat \ {0} /\ ChunkSize \in Nat \ {0} /\ MaxCount \in Nat \ {0}
    /\ MaxChanges \in Nat
    /\ {EventsOvertake, ClearRaces, AnyStart, SingleLoads, TornRanges,
      TornRemovals} \subseteq BOOLEAN

Ids == 1..MaxId
GENERATED_MIN_ID == 0
GENERATED_MAX_ID == MaxId + 1
Bounds == GENERATED_MIN_ID..GENERATED_MAX_ID

VARIABLES
    server,    \* version of each element on the server, 0 if there is none
    changes,   \* number of changes, the version of the last one
    events,    \* entity events that were not handled yet
    handling,  \* what the handler of the first event is waiting for
    range,     \* row of the table ranges, as a set of at most one
    cached,    \* version of each element in list_entities, 0 if there is none
    reader,    \* the reads in progress
    clearing   \* the removal of old mails, if it is going on

serverVars == <<server, changes>>
cacheVars == <<range, cached>>
eventVars == <<events, handling>>
rangeVars == <<serverVars, cacheVars, eventVars, reader, clearing>>

On(m) == {i \in Ids : m[i] # 0}
InRange(i) == \E r \in range : r.lower <= i /\ i <= r.upper

\* loadRange of the server, and of the cache: up to n elements beyond start
Nearest(S, start, n, reverse) ==
    LET beyond == {i \in S : IF reverse THEN i < start ELSE i > start}
        nearer(i) == {j \in beyond : IF reverse THEN j > i ELSE j < i}
    IN {i \in beyond : Cardinality(nearer(i)) < n}

NoClearing == [step |-> "none", cutoff |-> 0, mails |-> {}]
NoEvent == [step |-> "none", got |-> 0]
Idle == [step |-> "idle"]
Busy(r) == reader[r].step # "idle"
Writing(r) == reader[r].step \in {"answered", "bounded"}

RangeTypeOK ==
    /\ server \in [Ids -> 0..MaxChanges + 1]
    /\ changes \in 0..MaxChanges
    /\ events \in Seq([op : {"CREATE", "UPDATE", "DELETE"}, id : Ids])
    /\ handling \in [step : {"none", "asked", "answered"}, got : 0..MaxChanges + 1]
    /\ range \in SUBSET [lower : Bounds, upper : Bounds]
    /\ Cardinality(range) <= 1
    /\ cached \in [Ids -> 0..MaxChanges + 1]
    /\ clearing \in [step : {"none", "list", "delete"}, cutoff : Bounds, mails : SUBSET Ids]
    /\ \A r \in Readers :
          reader[r].step \in
              {"idle", "planning", "asked", "answered", "bounded", "stored", "ready"}

-----------------------------------------------------------------------------
(* The server                                                               *)

Change(op, i, version) ==
    /\ changes < MaxChanges
    /\ changes' = changes + 1
    /\ server' = [server EXCEPT ![i] = version]
    /\ events' = Append(events, [op |-> op, id |-> i])
    /\ UNCHANGED <<handling, cacheVars, reader, clearing>>

\* An id is not used twice; a mail that is moved to the list has an old one.
Create(i) == server[i] = 0 /\ cached[i] = 0 /\ Change("CREATE", i, changes + 2)
Update(i) == server[i] # 0 /\ Change("UPDATE", i, changes + 2)
Delete(i) == server[i] # 0 /\ Change("DELETE", i, 0)

-----------------------------------------------------------------------------
(* Reading a range                                                          *)

\* the branches of loadRange
Kind(start, reverse) ==
    IF range = {} THEN "new"
    ELSE LET r == CHOOSE x \in range : TRUE
         IN IF r.lower <= start /\ start <= r.upper THEN "within"
            ELSE IF (reverse /\ start < r.lower) \/ (~reverse /\ start > r.upper) THEN "away"
            ELSE "towards"

Begin(r, kind, start, count, reverse) ==
    reader' = [reader EXCEPT ![r] =
        [step |-> "planning", kind |-> kind, start |-> start, count |-> count,
         reverse |-> reverse, from |-> start, n |-> count, back |-> reverse, since |-> changes - Len(events),
         got |-> [i \in Ids |-> 0]]]

LoadRange(r, start, count, reverse) ==
    /\ ~Busy(r)
    /\ ~ClearRaces => clearing.step = "none"
    /\ ~AnyStart /\ start \in Ids => range # {} /\ cached[start] # 0
    /\ Begin(r, Kind(start, reverse), start, count, reverse)
    /\ UNCHANGED <<serverVars, eventVars, cacheVars, clearing>>

\* load of one element that is not in the cache
Load(r, i) ==
    /\ ~Busy(r)
    /\ cached[i] = 0
    /\ ~SingleLoads => InRange(i)
    /\ Begin(r, "single", i, 1, FALSE)
    /\ UNCHANGED <<serverVars, eventVars, cacheVars, clearing>>

\* Variant with a bug: the first element that was found is counted twice.
RecalculateFewer(start, count, reverse) ==
    LET allRange == {i \in On(cached) : InRange(i)}
        found == Cardinality(Nearest(allRange, start, count, reverse))
    IN IF allRange = {} THEN [from |-> start, n |-> count]
       ELSE [from |-> IF reverse THEN Min(allRange) ELSE Max(allRange), n |-> count - found - 1]

\* recalculateRangeRequest: where to read on, and how many elements
RecalculateRangeRequest(start, count, reverse) ==
    IF range = {} THEN [from |-> start, n |-> count]
    ELSE
    LET r == CHOOSE x \in range : TRUE
        allRange == {i \in On(cached) : InRange(i)}
        rest == [from |-> IF reverse THEN Min(allRange) ELSE Max(allRange),
                 n |-> count - Cardinality(Nearest(allRange, start, count, reverse))]
        aboveLower == r.lower = start \/ (start > r.lower /\ Min(allRange) > start)
        belowUpper == r.upper = start \/ (start > Max(allRange) /\ r.upper > start)
    IN IF (~reverse /\ r.upper = GENERATED_MAX_ID) \/ (reverse /\ r.lower = GENERATED_MIN_ID)
       THEN [from |-> start, n |-> 0]
       ELSE IF allRange = {} THEN [from |-> start, n |-> count]
       ELSE IF start \in allRange THEN rest
       ELSE IF (aboveLower /\ ~reverse) \/ (~aboveLower /\ belowUpper /\ reverse) THEN rest
       ELSE [from |-> start, n |-> count]

Ask(r, from, n, back) ==
    reader' = [reader EXCEPT ![r].step = "asked", ![r].from = from, ![r].n = n, ![r].back = back]

\* What is asked from the server: extendFromWithinRange and populateNewListWithRange
\* ask for what is missing, the others for a chunk beyond an end of the range.  A
\* range that was removed meanwhile is an error that ends the call.
Plan(r) ==
    LET q == reader[r]
        x == CHOOSE y \in range : TRUE
        more == RecalculateRangeRequest(q.start, q.count, q.reverse)
        chunk == Max({q.count, ChunkSize})
    IN /\ q.step = "planning"
       /\ IF range = {} /\ q.kind \in {"within", "away", "towards"}
          THEN reader' = [reader EXCEPT ![r] = Idle]
          ELSE \/ /\ q.kind \in {"new", "single"}
                  /\ Ask(r, q.from, q.n, q.back)
               \/ /\ q.kind = "within"
                  /\ IF more.n > 0
                     THEN Ask(r, more.from, more.n, q.reverse)
                     ELSE reader' = [reader EXCEPT ![r].step = "ready"]
               \/ /\ q.kind = "away"
                  /\ Ask(r, IF q.reverse THEN x.lower ELSE x.upper, chunk, q.reverse)
               \/ /\ q.kind = "towards"
                  /\ Ask(r, IF q.reverse THEN x.upper ELSE x.lower, chunk, ~q.reverse)
       /\ UNCHANGED <<serverVars, eventVars, cacheVars, clearing>>

Answer(r) ==
    LET q == reader[r]
        found == IF q.kind = "single" THEN {q.start} ELSE Nearest(On(server), q.from, q.n, q.back)
    IN /\ q.step = "asked"
       /\ reader' = [reader EXCEPT ![r].step = IF q.kind = "single" THEN "bounded" ELSE "answered",
                                   ![r].got = [i \in Ids |-> IF i \in found THEN server[i] ELSE 0]]
       /\ UNCHANGED <<serverVars, eventVars, cacheVars, clearing>>

\* Variant with a bug: <= for <, an answer with all that was asked for is taken for the end.
SetBoundEarly(r) ==
    LET q == reader[r]
        row == IF q.kind = "new" THEN {[lower |-> q.start, upper |-> q.start]} ELSE range
    IN /\ q.step = "answered"
       /\ range' = IF q.back THEN {[x EXCEPT !.lower = GENERATED_MIN_ID] : x \in row}
                   ELSE {[x EXCEPT !.upper = GENERATED_MAX_ID] : x \in row}
       /\ reader' = [reader EXCEPT ![r].step = "bounded"]
       /\ UNCHANGED <<serverVars, eventVars, cached, clearing>>

\* updateRangeInStorage, first part: the end of the range in the direction of the
\* request becomes the last element received, or the end of the list
SetBound(r) ==
    LET q == reader[r]
        received == On(q.got)
        all == Cardinality(received) < q.n
        row == IF q.kind = "new" THEN {[lower |-> q.start, upper |-> q.start]} ELSE range
    IN /\ q.step = "answered"
       /\ range' = IF q.back
                   THEN {[x EXCEPT !.lower = IF all THEN GENERATED_MIN_ID ELSE Min(received)] : x \in row}
                   ELSE {[x EXCEPT !.upper = IF all THEN GENERATED_MAX_ID ELSE Max(received)] : x \in row}
       /\ reader' = [reader EXCEPT ![r].step = "bounded"]
       /\ UNCHANGED <<serverVars, eventVars, cached, clearing>>

\* updateRangeInStorage, second part
Store(r) ==
    LET q == reader[r]
    IN /\ q.step = "bounded"
       /\ cached' = [i \in Ids |-> IF q.got[i] # 0 THEN q.got[i] ELSE cached[i]]
       /\ reader' = [reader EXCEPT ![r] = IF q.kind = "single" THEN Idle ELSE [q EXCEPT !.step = "stored"]]
       /\ UNCHANGED <<serverVars, eventVars, range, clearing>>

Provided(r) ==
    LET q == reader[r] IN Nearest(On(cached), q.start, q.count, q.reverse)

\* Variant with a bug: an exhausted list does not end the loop.
ContinueExhausted(r) ==
    LET q == reader[r]
        step == IF \/ q.kind \in {"new", "within"}
                   \/ q.kind = "away" /\ Cardinality(Provided(r)) = q.count
                THEN "ready" ELSE "planning"
        kind == IF q.kind = "towards" /\ InRange(q.start) THEN "within" ELSE q.kind
    IN /\ q.step = "stored"
       /\ reader' = [reader EXCEPT ![r].step = step, ![r].kind = kind]
       /\ UNCHANGED <<serverVars, eventVars, cacheVars, clearing>>

\* the ends of the loops of extendAwayFromRange and extendTowardsRange
Continue(r) ==
    LET q == reader[r]
        step == IF \/ q.kind \in {"new", "within"}
                   \/ q.kind = "away" /\ (\/ Cardinality(On(q.got)) < q.n
                                          \/ Cardinality(Provided(r)) = q.count)
                THEN "ready" ELSE "planning"
        kind == IF q.kind = "towards" /\ InRange(q.start) THEN "within" ELSE q.kind
    IN /\ q.step = "stored"
       /\ reader' = [reader EXCEPT ![r].step = step, ![r].kind = kind]
       /\ UNCHANGED <<serverVars, eventVars, cacheVars, clearing>>

\* provideFromRange: the call returns
Finish(r) ==
    /\ reader[r].step = "ready"
    /\ reader' = [reader EXCEPT ![r] = Idle]
    /\ UNCHANGED <<serverVars, eventVars, cacheVars, clearing>>

-----------------------------------------------------------------------------
(* Entity events                                                            *)

Event == Head(events)

Handled ==
    /\ events' = Tail(events)
    /\ handling' = NoEvent

MayHandle ==
    /\ events # <<>>
    /\ handling.step = "none"
    /\ ~EventsOvertake => \A r \in Readers : ~Writing(r)
    /\ ~ClearRaces => clearing.step = "none"

\* What the handler writes: a deletion, or what it has loaded; an element that is gone
\* is not created, and is removed when it was updated.
EventWrites ==
    CASE Event.op = "DELETE" -> [cached EXCEPT ![Event.id] = 0]
      [] Event.op = "CREATE" /\ handling.got = 0 -> cached
      [] OTHER -> [cached EXCEPT ![Event.id] = handling.got]

\* processCreateEvent, processUpdateEvent and the deletion; an element is loaded if
\* it is new and in the range, or if it is in the cache
HandleEvent ==
    LET i == Event.id
        loads == \/ Event.op = "CREATE" /\ InRange(i)
                 \/ Event.op = "UPDATE" /\ cached[i] # 0
    IN /\ MayHandle
       /\ \/ /\ Event.op = "DELETE"
             /\ cached' = EventWrites
             /\ Handled
          \/ /\ Event.op # "DELETE" /\ ~loads
             /\ Handled
             /\ UNCHANGED cached
          \/ /\ loads
             /\ handling' = [NoEvent EXCEPT !.step = "asked"]
             /\ UNCHANGED <<events, cached>>
       /\ UNCHANGED <<serverVars, range, reader, clearing>>

AnswerEvent ==
    /\ handling.step = "asked"
    /\ handling' = [step |-> "answered", got |-> server[Event.id]]
    /\ UNCHANGED <<serverVars, events, cacheVars, reader, clearing>>

PutEvent ==
    /\ handling.step = "answered"
    /\ cached' = EventWrites
    /\ Handled
    /\ UNCHANGED <<serverVars, range, reader, clearing>>

-----------------------------------------------------------------------------
(* OfflineStorage.deleteMailList                                            *)

\* updateRangeForList: the row of the range without what is older than cutoff
RangeFrom(cutoff) ==
    LET complete(r) == r.lower = GENERATED_MIN_ID /\ \A i \in On(cached) : i >= cutoff
    IN {IF complete(r) \/ cutoff <= r.lower THEN r ELSE [r EXCEPT !.lower = cutoff] :
        r \in {x \in range : complete(x) \/ cutoff <= x.upper}}

ClearRange(cutoff) ==
    /\ clearing.step = "none"
    /\ ~ClearRaces => handling.step = "none" /\ \A r \in Readers : ~Busy(r)
    /\ range' = RangeFrom(cutoff)
    /\ clearing' = [step |-> "list", cutoff |-> cutoff, mails |-> {}]
    /\ UNCHANGED <<serverVars, eventVars, cached, reader>>

\* the whole list is read, without the lock, to find the old mails, ...
ClearList ==
    /\ clearing.step = "list"
    /\ clearing' = [clearing EXCEPT !.step = "delete",
                                    !.mails = {i \in On(cached) : i < clearing.cutoff}]
    /\ UNCHANGED <<serverVars, eventVars, cacheVars, reader>>

\* ... which are deleted at the end
ClearDelete ==
    /\ clearing.step = "delete"
    /\ cached' = [i \in Ids |-> IF i \in clearing.mails THEN 0 ELSE cached[i]]
    /\ clearing' = NoClearing
    /\ UNCHANGED <<serverVars, eventVars, range, reader>>

-----------------------------------------------------------------------------
(* A crash, and the start after it                                          *)

\* A new range whose first bounds were written, but not the end that was reached.
Started == {{[lower |-> reader[r].start, upper |-> reader[r].start]} :
                r \in {s \in Readers : reader[s].step = "answered" /\ reader[s].kind = "new"}}

Crash ==
    /\ ~TornRanges => \A r \in Readers : reader[r].step = "bounded" => reader[r].kind = "single"
    /\ ~TornRemovals => clearing.step = "none"
    /\ range' \in {range} \union Started
    /\ \/ UNCHANGED cached
       \/ /\ (MayHandle /\ Event.op = "DELETE") \/ handling.step = "answered"
          /\ cached' = EventWrites
    /\ handling' = NoEvent
    /\ reader' = [r \in Readers |-> Idle]
    /\ clearing' = NoClearing
    /\ UNCHANGED <<serverVars, events>>

-----------------------------------------------------------------------------

\* The cache is empty; the server has any elements.
Init ==
    /\ server \in [Ids -> {0, 1}]
    /\ changes = 0
    /\ events = <<>>
    /\ handling = NoEvent
    /\ range = {}
    /\ cached = [i \in Ids |-> 0]
    /\ reader = [r \in Readers |-> Idle]
    /\ clearing = NoClearing

ReadStep(r) == Plan(r) \/ Answer(r) \/ SetBound(r) \/ Store(r) \/ Continue(r) \/ Finish(r)

Next ==
    \/ \E i \in Ids : Create(i) \/ Update(i) \/ Delete(i)
    \/ \E r \in Readers :
        \/ ReadStep(r)
        \/ \E start \in Bounds, count \in 1..MaxCount, reverse \in BOOLEAN :
              LoadRange(r, start, count, reverse)
        \/ \E i \in Ids : Load(r, i)
    \/ HandleEvent \/ AnswerEvent \/ PutEvent
    \/ \E cutoff \in Ids \union {GENERATED_MAX_ID} : ClearRange(cutoff)
    \/ ClearList \/ ClearDelete
    \/ Crash

\* Requests are answered and statements executed.
RangeSpec ==
    /\ Init
    /\ [][Next]_rangeVars
    /\ \A r \in Readers : WF_rangeVars(ReadStep(r))

-----------------------------------------------------------------------------
(* Properties                                                               *)

Pending(i) == \E k \in DOMAIN events : events[k].id = i

\* The range has no gap and no outdated element: what is in the range, or is cached
\* elsewhere, is as on the server, unless an event will tell or a read is writing it
\* ("to avoid gaps in the stored range").
RangeInSync ==
    \A i \in Ids :
        /\ InRange(i) \/ cached[i] # 0
        /\ cached[i] # server[i]
        => Pending(i) \/ \E r \in Readers : Writing(r) /\ reader[r].got[i] # 0

\* A call of loadRange that returns when everything is quiet gives the elements that
\* follow its start on the server, without a gap and no others, and as many as were
\* asked for unless the list changed during the call.
AnswersAreComplete ==
    [][\A r \in Readers :
        /\ Finish(r)
        /\ events = <<>>
        /\ \A s \in Readers : ~Writing(s)
        => LET q == reader[r]
               n == IF q.since = changes THEN q.count ELSE Cardinality(Provided(r))
           IN Provided(r) = Nearest(On(server), q.start, n, q.reverse)
      ]_rangeVars

\* Every read ends: the loops that extend the range stop.
ReadsEnd == \A r \in Readers : Busy(r) ~> ~Busy(r)
=============================================================================
