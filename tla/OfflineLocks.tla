---------------------------- MODULE OfflineLocks ----------------------------
(***************************************************************************)
(* The offline database of one user on the desktop, shared by several      *)
(* windows: OfflineDbRefCounter (one object in the node process) and one   *)
(* PerWindowSqlCipherFacade per window.  The counter opens and closes the  *)
(* connection; the locks of list ranges keep the calls of loadRange and    *)
(* deleteMailList of different windows apart.                              *)
(*                                                                         *)
(* A step is one task of the event loop with the continuations it causes:  *)
(* a promise that is resolved wakes all that wait for it before the next   *)
(* message of a window is handled.  What waits for the SQL worker or for   *)
(* the clock is a step of its own.                                         *)
(***************************************************************************)
EXTENDS Integers, FiniteSets

CONSTANTS
    Windows, Lists,
    Calls,                 \* call sites of loadRange and deleteMailList, in all windows
    WindowOf, ListOf,      \* the window and the list of a call
    MaxConnections,        \* bound on the connections that are ever made
    DeleteShared,          \* deleteDb may be called while some window uses the database
    CallsOutliveSession    \* a window may open again while calls of its last session run

ASSUME OfflineLocksAssumption ==
    /\ WindowOf \in [Calls -> Windows]
    /\ ListOf \in [Calls -> Lists]
    /\ MaxConnections \in Nat
    /\ DeleteShared \in BOOLEAN
    /\ CallsOutliveSession \in BOOLEAN

VARIABLES
    cache,       \* OfflineDbRefCounter.cache: the entry of the user, as a set of at most one
    connection,  \* what became of each connection to the database file
    session,     \* PerWindowSqlCipherFacade.state.db, 0 if state is null
    held,        \* state.locks
    inside,      \* calls between lockRangesDbAccess and unlockRangesDbAccess
    waitsFor,    \* the entry on whose lock a call waits, 0 if on none
    stale,       \* waiting calls whose session was closed meanwhile
    orphaned,    \* waiting calls whose page is gone, and with it their facade
    deleting     \* windows whose deleteDb waits for the others to close

dbVars == <<cache, connection, session>>
callVars == <<held, inside, waitsFor, stale, orphaned>>
locksVars == <<dbVars, callVars, deleting>>

Connections == 1..MaxConnections

\* CacheEntry; its promise of the database is named by the connection
Entry == [db : Connections, counter : Nat \ {0}, locks : SUBSET Lists]

LocksTypeOK ==
    /\ cache \in SUBSET Entry
    /\ \A e, f \in cache : e = f
    /\ connection \in [Connections ->
          {"none", "opening", "open", "failed", "doomed", "closing", "closed"}]
    /\ session \in [Windows -> 0..MaxConnections]
    /\ held \in [Windows -> SUBSET Lists]
    /\ inside \subseteq Calls
    /\ waitsFor \in [Calls -> 0..MaxConnections]
    /\ stale \subseteq Calls
    /\ orphaned \subseteq Calls
    /\ deleting \subseteq Windows

Waiting == {c \in Calls : waitsFor[c] # 0}
CallsOf(w) == {c \in Calls : WindowOf[c] = w}
Users == {w \in Windows : session[w] # 0}

-----------------------------------------------------------------------------
(* The reference counter                                                    *)

GetOrCreateDbUncounted(w, n) ==
    \/ /\ \E e \in cache : e.db = n
       /\ session' = [session EXCEPT ![w] = n]
       /\ UNCHANGED <<cache, connection>>
    \/ /\ cache = {}
       /\ connection[n] = "none"
       /\ cache' = {[db |-> n, counter |-> 1, locks |-> {}]}
       /\ connection' = [connection EXCEPT ![n] = "opening"]
       /\ session' = [session EXCEPT ![w] = n]

\* getOrCreateDb: one more reference to the connection, or a new one
GetOrCreateDb(w, n) ==
    /\ \/ /\ \E e \in cache : e.db = n
          /\ cache' = {[e EXCEPT !.counter = @ + 1] : e \in cache}
          /\ UNCHANGED connection
       \/ /\ cache = {}
          /\ connection[n] = "none"
          /\ cache' = {[db |-> n, counter |-> 1, locks |-> {}]}
          /\ connection' = [connection EXCEPT ![n] = "opening"]
    /\ session' = [session EXCEPT ![w] = n]

\* disposeDb: the entry with one reference less; the last one removes it
Disposed(entries) ==
    {[e EXCEPT !.counter = @ - 1] : e \in {f \in entries : f.counter # 1}}

AfterDisposeAlways(entries) ==
    [n \in Connections |->
        IF connection[n] = "open" /\ \E e \in entries : e.db = n
        THEN "closing" ELSE connection[n]]

\* disposeDb closes the connection that nobody counts any more, once it is open
AfterDispose(entries) ==
    [n \in Connections |->
        IF \E e \in entries : e.db = n /\ e.counter = 1
        THEN CASE connection[n] = "opening" -> "doomed"
               [] connection[n] = "open" -> "closing"
               [] OTHER -> connection[n]
        ELSE connection[n]]

\* resolve() of the locks of these lists wakes all calls that wait for them
Woken(lists) ==
    {c \in Calls : ListOf[c] \in lists /\ \E e \in cache : waitsFor[c] = e.db}

GivesUpNever(c, users) == FALSE

\* a call that was woken and finds no session in its facade gives the lock back
GivesUp(c, users) == c \in orphaned \/ WindowOf[c] \notin users

ReleasedOnly(entries, lists, users) ==
    {[e EXCEPT !.locks = @ \ lists] : e \in entries}

\* The locks of the entry once those of `lists` are released: every call that
\* is woken sets a new lock, and one that gives up deletes what is set then.
Released(entries, lists, users) ==
    LET taken == {l \in lists : \E c \in Woken({l}) : TRUE}
        givenUp == {l \in lists : \E c \in Woken({l}) : GivesUp(c, users)}
    IN {[e EXCEPT !.locks = (@ \ lists) \union (taken \ givenUp)] : e \in entries}

\* What the facades do when window w releases `lists` and `users` have a session.
\* A facade that was opened again puts the lock into the set of its former session.
Settle(w, lists, users) ==
    LET woken == Woken(lists)
        kept(v) == {c \in woken \ stale : WindowOf[c] = v /\ ~GivesUp(c, users)}
    IN /\ waitsFor' = [c \in Calls |-> IF c \in woken THEN 0 ELSE waitsFor[c]]
       /\ held' = [v \in Windows |->
             IF v \notin users THEN {}
             ELSE (IF v = w THEN held[v] \ lists ELSE held[v]) \union {ListOf[c] : c \in kept(v)}]

-----------------------------------------------------------------------------
(* The windows                                                              *)

Init ==
    /\ cache = {}
    /\ connection = [n \in Connections |-> "none"]
    /\ session = [w \in Windows |-> 0]
    /\ held = [w \in Windows |-> {}]
    /\ inside = {}
    /\ waitsFor = [c \in Calls |-> 0]
    /\ stale = {}
    /\ orphaned = {}
    /\ deleting = {}

\* openDb (in a window that is open it does nothing)
Open(w) ==
    /\ session[w] = 0
    /\ w \notin deleting
    /\ ~DeleteShared => deleting = {}
    /\ ~CallsOutliveSession => CallsOf(w) \intersect (inside \union (Waiting \ orphaned)) = {}
    /\ \E n \in Connections : GetOrCreateDb(w, n)
    /\ UNCHANGED <<callVars, deleting>>

\* closeDb: forget the session, release its locks, then drop the reference
CloseDb(w) ==
    /\ session[w] # 0
    /\ session' = [session EXCEPT ![w] = 0]
    /\ Settle(w, held[w], Users \ {w})
    /\ cache' = Disposed(Released(cache, held[w], Users \ {w}))
    /\ connection' = AfterDispose(cache)
    /\ UNCHANGED deleting

\* OfflineStorage.deinit: the page stays, and with it the calls it made
Logout(w) ==
    /\ CloseDb(w)
    /\ inside' = inside \union (Woken(held[w]) \ orphaned)
    /\ stale' = (stale \union (CallsOf(w) \intersect Waiting)) \ Woken(held[w])
    /\ orphaned' = orphaned \ Woken(held[w])

\* ApplicationWindow.reload, or the window is closed: nobody waits for the calls
\* of the page any more, and the next page has a new facade
Reload(w) ==
    /\ CloseDb(w)
    /\ inside' = (inside \union (Woken(held[w]) \ orphaned)) \ CallsOf(w)
    /\ orphaned' = (orphaned \union (CallsOf(w) \intersect Waiting)) \ Woken(held[w])
    /\ stale' = stale \ Woken(held[w])

\* lockRangesDbAccess: without session, or for a list the window has locked, it
\* returns at once
Lock(c) ==
    LET w == WindowOf[c]
        l == ListOf[c]
    IN /\ c \notin inside \union Waiting
       /\ \/ /\ session[w] = 0 \/ l \in held[w]
             /\ inside' = inside \union {c}
             /\ UNCHANGED <<cache, held, waitsFor>>
          \/ /\ session[w] # 0 /\ l \notin held[w]
             /\ \E e \in cache : l \notin e.locks
             /\ cache' = {[e EXCEPT !.locks = @ \union {l}] : e \in cache}
             /\ held' = [held EXCEPT ![w] = @ \union {l}]
             /\ inside' = inside \union {c}
             /\ UNCHANGED waitsFor
          \/ /\ session[w] # 0 /\ l \notin held[w]
             /\ \E e \in cache : l \in e.locks /\ waitsFor' = [waitsFor EXCEPT ![c] = e.db]
             /\ UNCHANGED <<cache, held, inside>>
       /\ UNCHANGED <<connection, session, stale, orphaned, deleting>>

\* unlockRangesDbAccess, in the finally block of the call
Unlock(c) ==
    LET w == WindowOf[c]
        lists == {ListOf[c]} \intersect held[w]
    IN /\ c \in inside
       /\ inside' = (inside \ {c}) \union (Woken(lists) \ orphaned)
       /\ Settle(w, lists, Users)
       /\ cache' = Released(cache, lists, Users)
       /\ stale' = stale \ Woken(lists)
       /\ orphaned' = orphaned \ Woken(lists)
       /\ UNCHANGED <<connection, session, deleting>>

\* deleteDb drops a reference, whether the window has one or not, ...
DeleteDb(w) ==
    /\ w \notin deleting
    /\ ~DeleteShared => Users = {} /\ deleting = {}
    /\ cache' = Disposed(cache)
    /\ connection' = AfterDispose(cache)
    /\ deleting' = deleting \union {w}
    /\ UNCHANGED <<session, callVars>>

\* ... and removes the entry and the file when the others have closed or time is up
DeleteFile(w) ==
    /\ w \in deleting
    /\ cache' = {}
    /\ deleting' = deleting \ {w}
    /\ UNCHANGED <<connection, session, callVars>>

-----------------------------------------------------------------------------
(* The connection                                                           *)

Becomes(n, st) ==
    /\ connection' = [connection EXCEPT ![n] = st]
    /\ UNCHANGED <<cache, session, callVars, deleting>>

Opened(n) ==
    \/ connection[n] = "opening" /\ Becomes(n, "open")
    \/ connection[n] = "doomed" /\ Becomes(n, "closing")

OpenFails(n) == connection[n] \in {"opening", "doomed"} /\ Becomes(n, "failed")

Closed(n) == connection[n] = "closing" /\ Becomes(n, "closed")

Next ==
    \/ \E w \in Windows : Open(w) \/ Logout(w) \/ Reload(w) \/ DeleteDb(w) \/ DeleteFile(w)
    \/ \E c \in Calls : Lock(c) \/ Unlock(c)
    \/ \E n \in Connections : Opened(n) \/ OpenFails(n) \/ Closed(n)

\* A call that has the lock ends: its requests are answered or time out.
LocksSpec ==
    /\ Init
    /\ [][Next]_locksVars
    /\ \A c \in Calls : WF_locksVars(Unlock(c))

-----------------------------------------------------------------------------
(* Properties                                                               *)

\* The counter of the entry is the number of windows with a session, and every
\* session is one of the connection in the entry: nobody closes a connection
\* that another window uses, and the last window does close it.
RefsAreCounted ==
    /\ \A w \in Users : \E e \in cache : session[w] = e.db
    /\ \A e \in cache : e.counter = Cardinality(Users)

\* A window never holds a connection that was closed under it.
NoUseAfterClose ==
    \A w \in Users : connection[session[w]] \notin {"none", "doomed", "closing", "closed"}

\* The ranges of a list are not read and written by two windows at a time
\* ("We lock access to the ranges db here in order to prevent race conditions").
OneWindowPerList ==
    \A c, d \in inside :
        /\ ListOf[c] = ListOf[d]
        /\ WindowOf[c] \in Users
        /\ WindowOf[d] \in Users
        => WindowOf[c] = WindowOf[d]

\* A lock that is set is in the set of some window that will release it, with
\* its call or when it closes.
NoLeakedLock ==
    \A e \in cache : e.locks = UNION {held[w] : w \in Users}

\* One connection to the database file at a time ("make sure that there's only one
\* database connection open for a given userId / database file").
OneConnection ==
    \A n, m \in Connections :
        /\ connection[n] \in {"opening", "open", "doomed", "closing"}
        /\ connection[m] \in {"opening", "open", "doomed", "closing"}
        => n = m

\* A call that waits for a lock stops waiting, whatever happens to the window
\* that has the lock and to its own.
WaitersWake == \A c \in Calls : waitsFor[c] # 0 ~> waitsFor[c] = 0
=============================================================================
