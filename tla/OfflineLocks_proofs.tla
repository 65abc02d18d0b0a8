------------------------- MODULE OfflineLocks_proofs -------------------------
(***************************************************************************)
(* References to the connection are counted right for any number of        *)
(* windows, so that no window is left with a closed connection, as long as *)
(* nobody deletes the database while some window uses it (RefsInv); and    *)
(* the ranges of a list are never open to two windows (MutexInv).          *)
(***************************************************************************)
EXTENDS OfflineLocks, FiniteSetTheorems, TLAPS

CacheTyped == cache \in SUBSET Entry /\ \A e, f \in cache : e = f

LEMMA Keeps == CacheTyped /\ UNCHANGED cache => CacheTyped'
  BY DEF CacheTyped

LEMMA ReleasedTyped ==
  ASSUME CacheTyped, NEW lists \in SUBSET Lists, NEW users
  PROVE  /\ Released(cache, lists, users) \in SUBSET Entry
         /\ \A e, f \in Released(cache, lists, users) : e = f
<1> DEFINE taken == {l \in lists : \E c \in Woken({l}) : TRUE}
           givenUp == {l \in lists : \E c \in Woken({l}) : GivesUp(c, users)}
           entry(e) == [e EXCEPT !.locks = (@ \ lists) \union (taken \ givenUp)]
<1>1. Released(cache, lists, users) = {entry(e) : e \in cache}
  BY DEF Released
<1>2. taken \ givenUp \subseteq Lists
  OBVIOUS
<1> HIDE DEF taken, givenUp
<1>3. \A e \in cache : entry(e) \in Entry
  BY <1>2 DEF CacheTyped, Entry
<1> QED  BY <1>1, <1>3 DEF CacheTyped

LEMMA DisposedTyped ==
  ASSUME NEW entries \in SUBSET Entry, \A e, f \in entries : e = f
  PROVE  /\ Disposed(entries) \in SUBSET Entry
         /\ \A e, f \in Disposed(entries) : e = f
  BY DEF Disposed, Entry

LEMMA AfterDisposeTyped ==
  ASSUME LocksTypeOK
  PROVE  AfterDispose(cache) \in
           [Connections -> {"none", "opening", "open", "failed", "doomed", "closing", "closed"}]
<1> SUFFICES ASSUME NEW n \in Connections
             PROVE  AfterDispose(cache)[n] \in
                      {"none", "opening", "open", "failed", "doomed", "closing", "closed"}
  BY DEF AfterDispose
<1>1. connection[n] \in {"none", "opening", "open", "failed", "doomed", "closing", "closed"}
  BY DEF LocksTypeOK
<1>2. AfterDispose(cache)[n] \in {"doomed", "closing", connection[n]}
  BY DEF AfterDispose
<1> QED  BY <1>1, <1>2

LEMMA SettleTyped ==
  ASSUME LocksTypeOK, NEW w \in Windows, NEW lists, NEW users, Settle(w, lists, users)
  PROVE  waitsFor' \in [Calls -> 0..MaxConnections] /\ held' \in [Windows -> SUBSET Lists]
<1> USE OfflineLocksAssumption
<1>1. waitsFor' \in [Calls -> 0..MaxConnections]
  BY DEF Settle, LocksTypeOK
<1>2. ASSUME NEW S \in SUBSET Calls PROVE {ListOf[c] : c \in S} \subseteq Lists
  OBVIOUS
<1>3. held' \in [Windows -> SUBSET Lists]
  <2> DEFINE kept(v) == {c \in Woken(lists) \ stale : WindowOf[c] = v /\ ~GivesUp(c, users)}
  <2>1. \A v \in Windows : kept(v) \subseteq Calls
    BY DEF Woken
  <2>2. \A v \in Windows : {ListOf[c] : c \in kept(v)} \subseteq Lists
    BY <1>2, <2>1
  <2>3. held' = [v \in Windows |->
             IF v \notin users THEN {}
             ELSE (IF v = w THEN held[v] \ lists ELSE held[v]) \union {ListOf[c] : c \in kept(v)}]
    BY DEF Settle
  <2> HIDE DEF kept
  <2>4. \A v \in Windows : held[v] \subseteq Lists
    BY DEF LocksTypeOK
  <2> QED  BY <2>2, <2>3, <2>4
<1> QED  BY <1>1, <1>3

LEMMA CloseTyped ==
  ASSUME LocksTypeOK, NEW w \in Windows, CloseDb(w)
  PROVE  /\ CacheTyped'
         /\ connection' \in [Connections ->
               {"none", "opening", "open", "failed", "doomed", "closing", "closed"}]
         /\ session' \in [Windows -> 0..MaxConnections]
         /\ held' \in [Windows -> SUBSET Lists]
         /\ waitsFor' \in [Calls -> 0..MaxConnections]
         /\ deleting' \subseteq Windows
<1> USE OfflineLocksAssumption
<1>1. held[w] \in SUBSET Lists
  BY DEF LocksTypeOK
<1>2. CacheTyped
  BY DEF LocksTypeOK, CacheTyped
<1>3. CacheTyped'
  <2>1. cache' = Disposed(Released(cache, held[w], Users \ {w}))
    BY DEF CloseDb
  <2>2. /\ Released(cache, held[w], Users \ {w}) \in SUBSET Entry
        /\ \A e, f \in Released(cache, held[w], Users \ {w}) : e = f
    BY <1>1, <1>2, ReleasedTyped
  <2> QED  BY <2>1, <2>2, DisposedTyped DEF CacheTyped
<1>4. connection' = AfterDispose(cache)
  BY DEF CloseDb
<1>5. session' \in [Windows -> 0..MaxConnections] /\ deleting' \subseteq Windows
  BY DEF CloseDb, LocksTypeOK
<1>6. Settle(w, held[w], Users \ {w})
  BY DEF CloseDb
<1> QED  BY <1>3, <1>4, <1>5, <1>6, AfterDisposeTyped, SettleTyped

LEMMA TypeStep == LocksTypeOK /\ [Next]_locksVars => LocksTypeOK'
<1> SUFFICES ASSUME LocksTypeOK, [Next]_locksVars PROVE LocksTypeOK'
  OBVIOUS
<1> USE OfflineLocksAssumption
<1>0. CacheTyped
  BY DEF LocksTypeOK, CacheTyped
<1>1. ASSUME NEW w \in Windows, Open(w) PROVE LocksTypeOK'
  <2> PICK n \in Connections : GetOrCreateDb(w, n)
    BY <1>1 DEF Open
  <2>1. CacheTyped'
    <3>1. \A e \in Entry : [e EXCEPT !.counter = @ + 1] \in Entry
      BY DEF Entry
    <3>2. CASE cache' = {[e EXCEPT !.counter = @ + 1] : e \in cache}
      BY <1>0, <3>1, <3>2 DEF CacheTyped
    <3>3. CASE cache' = {[db |-> n, counter |-> 1, locks |-> {}]}
      BY <3>3 DEF CacheTyped, Entry
    <3> QED  BY <3>2, <3>3 DEF GetOrCreateDb
  <2>2. connection' \in [Connections ->
               {"none", "opening", "open", "failed", "doomed", "closing", "closed"}]
    BY DEF GetOrCreateDb, LocksTypeOK
  <2>3. session' \in [Windows -> 0..MaxConnections]
    BY DEF GetOrCreateDb, LocksTypeOK, Connections
  <2> QED  BY <1>1, <2>1, <2>2, <2>3 DEF Open, LocksTypeOK, CacheTyped, callVars
<1>2. ASSUME NEW w \in Windows, Logout(w) PROVE LocksTypeOK'
  <2>1. CloseDb(w) /\ Woken(held[w]) \subseteq Calls /\ CallsOf(w) \subseteq Calls
    BY <1>2 DEF Logout, Woken, CallsOf
  <2>2. inside' \subseteq Calls /\ stale' \subseteq Calls /\ orphaned' \subseteq Calls
    BY <1>2, <2>1 DEF Logout, LocksTypeOK
  <2> QED  BY <2>1, <2>2, CloseTyped DEF LocksTypeOK, CacheTyped
<1>3. ASSUME NEW w \in Windows, Reload(w) PROVE LocksTypeOK'
  <2>1. CloseDb(w) /\ Woken(held[w]) \subseteq Calls /\ CallsOf(w) \subseteq Calls
    BY <1>3 DEF Reload, Woken, CallsOf
  <2>2. inside' \subseteq Calls /\ stale' \subseteq Calls /\ orphaned' \subseteq Calls
    BY <1>3, <2>1 DEF Reload, LocksTypeOK
  <2> QED  BY <2>1, <2>2, CloseTyped DEF LocksTypeOK, CacheTyped
<1>4. ASSUME NEW w \in Windows, DeleteDb(w) PROVE LocksTypeOK'
  <2>1. CacheTyped'
    BY <1>0, <1>4, DisposedTyped DEF DeleteDb, CacheTyped
  <2>2. connection' = AfterDispose(cache) /\ deleting' \subseteq Windows
    BY <1>4 DEF DeleteDb, LocksTypeOK
  <2> QED  BY <1>4, <2>1, <2>2, AfterDisposeTyped DEF DeleteDb, LocksTypeOK, CacheTyped, callVars
<1>5. ASSUME NEW w \in Windows, DeleteFile(w) PROVE LocksTypeOK'
  BY <1>5 DEF DeleteFile, LocksTypeOK, callVars
<1>6. ASSUME NEW c \in Calls, Lock(c) PROVE LocksTypeOK'
  <2>1. WindowOf[c] \in Windows /\ ListOf[c] \in Lists
    OBVIOUS
  <2>2. CacheTyped'
    <3> DEFINE l == ListOf[c]
    <3>1. \A e \in Entry : [e EXCEPT !.locks = @ \union {l}] \in Entry
      BY <2>1 DEF Entry
    <3>2. CASE cache' = {[e EXCEPT !.locks = @ \union {l}] : e \in cache}
      <4> HIDE DEF l
      <4> QED  BY <1>0, <3>1, <3>2 DEF CacheTyped
    <3>3. CASE UNCHANGED cache
      BY <1>0, <3>3, Keeps
    <3> QED  BY <1>6, <3>2, <3>3 DEF Lock
  <2>3. held' \in [Windows -> SUBSET Lists] /\ inside' \subseteq Calls
    BY <1>6, <2>1 DEF Lock, LocksTypeOK
  <2>4. waitsFor' \in [Calls -> 0..MaxConnections]
    <3>1. \A e \in cache : e.db \in 0..MaxConnections
      BY <1>0 DEF CacheTyped, Entry, Connections
    <3>2. waitsFor \in [Calls -> 0..MaxConnections]
      BY DEF LocksTypeOK
    <3> QED  BY <1>6, <3>1, <3>2 DEF Lock
  <2> QED  BY <1>6, <2>2, <2>3, <2>4 DEF Lock, LocksTypeOK, CacheTyped
<1>7. ASSUME NEW c \in Calls, Unlock(c) PROVE LocksTypeOK'
  <2> DEFINE w == WindowOf[c]
             lists == {ListOf[c]} \intersect held[w]
  <2>1. w \in Windows /\ lists \in SUBSET Lists
    BY DEF LocksTypeOK
  <2>2. Settle(w, lists, Users) /\ cache' = Released(cache, lists, Users)
    BY <1>7 DEF Unlock
  <2>3. Woken(lists) \subseteq Calls
    BY DEF Woken
  <2>4. inside' \subseteq Calls /\ stale' \subseteq Calls /\ orphaned' \subseteq Calls
    BY <1>7, <2>3 DEF Unlock, LocksTypeOK
  <2>5. UNCHANGED <<connection, session, deleting>>
    BY <1>7 DEF Unlock
  <2> HIDE DEF w, lists
  <2>6. CacheTyped'
    BY <1>0, <2>1, <2>2, ReleasedTyped DEF CacheTyped
  <2> QED  BY <2>1, <2>2, <2>4, <2>5, <2>6, SettleTyped DEF LocksTypeOK, CacheTyped
<1>8. ASSUME NEW n \in Connections, Opened(n) \/ OpenFails(n) \/ Closed(n) PROVE LocksTypeOK'
  BY <1>8 DEF Opened, OpenFails, Closed, Becomes, LocksTypeOK, callVars
<1>9. CASE UNCHANGED locksVars
  BY <1>9 DEF LocksTypeOK, locksVars, dbVars, callVars
<1> QED  BY <1>1, <1>2, <1>3, <1>4, <1>5, <1>6, <1>7, <1>8, <1>9 DEF Next

\* The state of the counter, the facades and the connection is well typed, whatever the
\* windows do: in particular there is one entry at most and its counter is positive
\* (OfflineDbRefCounter.ts:10-73).
THEOREM LocksTyped == LocksSpec => []LocksTypeOK
<1>1. Init => LocksTypeOK
  BY OfflineLocksAssumption DEF Init, LocksTypeOK
<1> QED  BY <1>1, TypeStep, PTL DEF LocksSpec

-----------------------------------------------------------------------------
(* Counting.  Nobody deletes the database while some window uses it.        *)

Live == {"opening", "open", "failed"}

\* The inductive invariant: besides the counter, the connection of the entry is alive,
\* and no window uses the database while it is deleted.
RefsInv ==
    /\ LocksTypeOK
    /\ RefsAreCounted
    /\ \A e \in cache : connection[e.db] \in Live
    /\ deleting # {} => Users = {}

LEMMA UsersFinite ==
  ASSUME IsFiniteSet(Windows)
  PROVE  IsFiniteSet(Users) /\ Cardinality(Users) \in Nat
<1>1. IsFiniteSet(Users)
  BY FS_Subset DEF Users
<1> QED  BY <1>1, FS_CardinalityType

\* Opening adds one reference, to a connection that is alive.
LEMMA OpenCounts ==
  ASSUME RefsInv, IsFiniteSet(Windows), NEW w \in Windows, Open(w), LocksTypeOK',
         ~DeleteShared
  PROVE  RefsInv'
<1> USE OfflineLocksAssumption
<1> PICK n \in Connections : GetOrCreateDb(w, n)
  BY DEF Open
<1>1. n # 0 /\ session[w] = 0 /\ deleting = {} /\ deleting' = {}
  BY DEF Open, Connections, callVars
<1>2. session' = [session EXCEPT ![w] = n] /\ session \in [Windows -> 0..MaxConnections]
  BY DEF GetOrCreateDb, RefsInv, LocksTypeOK
<1>3. Users' = Users \union {w} /\ w \notin Users
  BY <1>1, <1>2 DEF Users
<1>4. Cardinality(Users') = Cardinality(Users) + 1
  BY <1>3, UsersFinite, FS_AddElement
<1>5. CASE \E e \in cache : e.db = n /\ cache' = {[f EXCEPT !.counter = @ + 1] : f \in cache}
                                 /\ UNCHANGED connection
  <2> PICK e \in cache : e.db = n /\ cache' = {[f EXCEPT !.counter = @ + 1] : f \in cache}
                                 /\ UNCHANGED connection
    BY <1>5
  <2>1. cache = {e} /\ e \in Entry /\ e.counter = Cardinality(Users) /\ connection[n] \in Live
    BY DEF RefsInv, RefsAreCounted, LocksTypeOK
  <2> DEFINE e1 == [e EXCEPT !.counter = @ + 1]
  <2>2. cache' = {e1} /\ e1.db = n /\ e1.counter = Cardinality(Users')
    BY <1>4, <2>1 DEF Entry
  <2>3. \A v \in Users : session[v] = n
    BY <2>1 DEF RefsInv, RefsAreCounted
  <2>4. \A v \in Users' : session'[v] = n
    BY <1>2, <1>3, <2>3 DEF Users
  <2> HIDE DEF e1
  <2> QED  BY <1>1, <2>1, <2>2, <2>4 DEF RefsInv, RefsAreCounted
<1>6. CASE cache = {} /\ cache' = {[db |-> n, counter |-> 1, locks |-> {}]}
                     /\ connection' = [connection EXCEPT ![n] = "opening"]
  <2>1. Users = {}
    BY <1>6 DEF RefsInv, RefsAreCounted
  <2>2. Users' = {w} /\ Cardinality(Users') = 1
    BY <1>3, <1>4, <2>1, FS_EmptySet
  <2>3. session'[w] = n /\ connection'[n] = "opening"
    BY <1>2, <1>6 DEF RefsInv, LocksTypeOK
  <2> QED  BY <1>1, <1>6, <2>2, <2>3 DEF RefsInv, RefsAreCounted, Live
<1> QED  BY <1>5, <1>6 DEF GetOrCreateDb

\* Closing drops one reference, and the connection with the last one.
LEMMA CloseCounts ==
  ASSUME RefsInv, IsFiniteSet(Windows), NEW w \in Windows, CloseDb(w), LocksTypeOK'
  PROVE  RefsInv'
<1> USE OfflineLocksAssumption
<1>1. session[w] # 0 /\ session' = [session EXCEPT ![w] = 0] /\ UNCHANGED deleting
  BY DEF CloseDb
<1>2. session \in [Windows -> 0..MaxConnections] /\ w \in Users
  BY <1>1 DEF RefsInv, LocksTypeOK, Users
<1>3. Users' = Users \ {w} /\ \A v \in Users' : session'[v] = session[v]
  BY <1>1, <1>2 DEF Users
<1>4. Cardinality(Users') = Cardinality(Users) - 1
  BY <1>2, <1>3, UsersFinite, FS_RemoveElement
<1> PICK e \in cache : session[w] = e.db
  BY <1>2 DEF RefsInv, RefsAreCounted
<1>5. cache = {e} /\ e \in Entry /\ e.counter = Cardinality(Users)
  BY DEF RefsInv, RefsAreCounted, LocksTypeOK
<1>6. \A v \in Users : session[v] = e.db
  BY <1>5 DEF RefsInv, RefsAreCounted
<1>7. deleting' = {}
  BY <1>1, <1>2 DEF RefsInv
<1>8. PICK f : Released(cache, held[w], Users \ {w}) = {f} /\ f.db = e.db /\ f.counter = e.counter
  <2> DEFINE taken == {l \in held[w] : \E c \in Woken({l}) : TRUE}
             givenUp == {l \in held[w] : \E c \in Woken({l}) : GivesUp(c, Users \ {w})}
             f0 == [e EXCEPT !.locks = (@ \ held[w]) \union (taken \ givenUp)]
  <2>1. Released(cache, held[w], Users \ {w}) = {f0}
    BY <1>5 DEF Released
  <2> HIDE DEF taken, givenUp
  <2>2. f0.db = e.db /\ f0.counter = e.counter
    BY <1>5 DEF Entry
  <2> QED  BY <2>1, <2>2
<1>9. cache' = Disposed({f}) /\ connection' = AfterDispose(cache)
  BY <1>8 DEF CloseDb
<1>10. CASE e.counter = 1
  <2>1. cache' = {}
    BY <1>8, <1>9, <1>10 DEF Disposed
  <2>2. Users' = {}
    BY <1>3, <1>4, <1>5, <1>10, UsersFinite, FS_Subset, FS_EmptySet
  <2> QED  BY <1>7, <2>1, <2>2 DEF RefsInv, RefsAreCounted
<1>11. CASE e.counter # 1
  <2> DEFINE g == [f EXCEPT !.counter = @ - 1]
  <2>1. cache' = {g}
    BY <1>8, <1>9, <1>11 DEF Disposed
  <2>2. cache' \subseteq Entry /\ g \in Entry
    BY <2>1 DEF LocksTypeOK
  <2>3. g.db = e.db /\ g.counter = Cardinality(Users')
    BY <1>4, <1>5, <1>8, <2>2 DEF Entry
  <2>4. connection'[e.db] = connection[e.db]
    BY <1>5, <1>9, <1>11 DEF AfterDispose, Entry
  <2>5. connection[e.db] \in Live
    BY DEF RefsInv
  <2> HIDE DEF g
  <2>6. \A v \in Users' : session'[v] = g.db
    BY <1>3, <1>6, <2>3
  <2> QED  BY <1>7, <2>1, <2>3, <2>4, <2>5, <2>6 DEF RefsInv, RefsAreCounted
<1> QED  BY <1>10, <1>11

\* What changes locks only changes no reference.
LEMMA LocksOnly ==
  ASSUME RefsInv, LocksTypeOK', UNCHANGED <<connection, session, deleting>>,
         \A f \in cache' : \E e \in cache : f.db = e.db /\ f.counter = e.counter,
         \A e \in cache : \E f \in cache' : f.db = e.db
  PROVE  RefsInv'
<1>1. Users' = Users
  BY DEF Users
<1> QED  BY <1>1 DEF RefsInv, RefsAreCounted

LEMMA RefsStep ==
  ASSUME RefsInv, [Next]_locksVars, IsFiniteSet(Windows), ~DeleteShared
  PROVE  RefsInv'
<1>0. LocksTypeOK'
  BY TypeStep DEF RefsInv
<1>1. ASSUME NEW w \in Windows, Open(w) PROVE RefsInv'
  BY <1>0, <1>1, OpenCounts
<1>2. ASSUME NEW w \in Windows, Logout(w) \/ Reload(w) PROVE RefsInv'
  BY <1>0, <1>2, CloseCounts DEF Logout, Reload
<1>3. ASSUME NEW w \in Windows, DeleteDb(w) PROVE RefsInv'
  <2>1. Users = {} /\ session' = session /\ Users' = {}
    BY <1>3 DEF DeleteDb, Users
  <2>2. cache = {}
    BY <2>1, FS_EmptySet DEF RefsInv, RefsAreCounted, LocksTypeOK, Entry
  <2>3. cache' = {}
    BY <1>3, <2>2 DEF DeleteDb, Disposed
  <2> QED  BY <1>0, <2>1, <2>3 DEF RefsInv, RefsAreCounted
<1>4. ASSUME NEW w \in Windows, DeleteFile(w) PROVE RefsInv'
  <2>1. Users = {} /\ Users' = {} /\ cache' = {}
    BY <1>4 DEF DeleteFile, RefsInv, Users
  <2> QED  BY <1>0, <2>1 DEF RefsInv, RefsAreCounted
<1>5. ASSUME NEW c \in Calls, Lock(c) PROVE RefsInv'
  <2> DEFINE l == ListOf[c]
  <2>1. UNCHANGED <<connection, session, deleting>>
    BY <1>5 DEF Lock
  <2>2. \A e \in Entry : [e EXCEPT !.locks = @ \union {l}].db = e.db
                        /\ [e EXCEPT !.locks = @ \union {l}].counter = e.counter
    BY DEF Entry
  <2>3. cache \subseteq Entry
    BY DEF RefsInv, LocksTypeOK
  <2>4. UNCHANGED cache \/ cache' = {[e EXCEPT !.locks = @ \union {l}] : e \in cache}
    BY <1>5 DEF Lock
  <2> HIDE DEF l
  <2> QED  BY <1>0, <2>1, <2>2, <2>3, <2>4, LocksOnly
<1>6. ASSUME NEW c \in Calls, Unlock(c) PROVE RefsInv'
  <2> DEFINE lists == {ListOf[c]} \intersect held[WindowOf[c]]
             taken == {l \in lists : \E d \in Woken({l}) : TRUE}
             givenUp == {l \in lists : \E d \in Woken({l}) : GivesUp(d, Users)}
             entry(e) == [e EXCEPT !.locks = (@ \ lists) \union (taken \ givenUp)]
  <2>1. UNCHANGED <<connection, session, deleting>>
    BY <1>6 DEF Unlock
  <2>2. cache' = {entry(e) : e \in cache}
    BY <1>6 DEF Unlock, Released
  <2> HIDE DEF lists, taken, givenUp
  <2>3. \A e \in cache : entry(e).db = e.db /\ entry(e).counter = e.counter
    BY DEF RefsInv, LocksTypeOK, Entry
  <2> HIDE DEF entry
  <2> QED  BY <1>0, <2>1, <2>2, <2>3, LocksOnly
<1>7. ASSUME NEW n \in Connections, Opened(n) \/ OpenFails(n) \/ Closed(n) PROVE RefsInv'
  <2>1. UNCHANGED <<cache, session, deleting>>
    BY <1>7 DEF Opened, OpenFails, Closed, Becomes
  <2>2. Users' = Users
    BY <2>1 DEF Users
  <2>3. \A k \in Connections : connection[k] \in Live => connection'[k] \in Live
    BY <1>7 DEF Opened, OpenFails, Closed, Becomes, Live, RefsInv, LocksTypeOK
  <2>4. \A e \in cache : e.db \in Connections
    BY DEF RefsInv, LocksTypeOK, Entry
  <2> QED  BY <1>0, <2>1, <2>2, <2>3, <2>4 DEF RefsInv, RefsAreCounted
<1>8. CASE UNCHANGED locksVars
  BY <1>0, <1>8, LocksOnly DEF locksVars, dbVars, callVars
<1> QED  BY <1>1, <1>2, <1>3, <1>4, <1>5, <1>6, <1>7, <1>8 DEF Next

LEMMA RefsInit == Init => RefsInv
<1> SUFFICES ASSUME Init PROVE RefsInv
  OBVIOUS
<1>1. Users = {} /\ cache = {} /\ deleting = {}
  BY DEF Init, Users
<1>2. LocksTypeOK
  BY OfflineLocksAssumption DEF Init, LocksTypeOK
<1> QED  BY <1>1, <1>2 DEF RefsInv, RefsAreCounted

\* The counter of the entry is the number of windows that use its connection, for any
\* number of windows and lists (OfflineDbRefCounter.ts:36-73).
THEOREM RefsAreCountedAlways ==
  ASSUME IsFiniteSet(Windows), ~DeleteShared
  PROVE  LocksSpec => []RefsAreCounted
<1>1. RefsInv /\ [Next]_locksVars => RefsInv'
  BY RefsStep
<1>2. RefsInv => RefsAreCounted
  BY DEF RefsInv
<1> QED  BY <1>1, <1>2, RefsInit, PTL DEF LocksSpec

\* No window is left with a connection that was closed under it
\* (OfflineDbRefCounter.ts:58-73, PerWindowSqlCipherFacade.ts:57-78).
THEOREM NoUseAfterCloseAlways ==
  ASSUME IsFiniteSet(Windows), ~DeleteShared
  PROVE  LocksSpec => []NoUseAfterClose
<1>1. RefsInv /\ [Next]_locksVars => RefsInv'
  BY RefsStep
<1>2. RefsInv => NoUseAfterClose
  BY DEF RefsInv, RefsAreCounted, NoUseAfterClose, Live
<1> QED  BY <1>1, <1>2, RefsInit, PTL DEF LocksSpec
-----------------------------------------------------------------------------
(* Mutual exclusion: the lock of a list range excludes other windows, and  *)
(* none is left over, as long as no third call meets two of the same list  *)
(* (PairedCalls): then a lock that is released wakes one call at most.     *)
\* A list is read by two calls at most, and by those in two windows
PairedCalls ==
    \A c, d \in Calls :
        c # d /\ ListOf[c] = ListOf[d]
        => /\ WindowOf[c] # WindowOf[d]
           /\ \A x \in Calls : ListOf[x] = ListOf[c] => x = c \/ x = d

Environment ==
    IsFiniteSet(Windows) /\ ~DeleteShared /\ ~CallsOutliveSession /\ PairedCalls

MutexInv ==
    /\ \A e \in cache : \A l : l \in e.locks <=> \E w \in Users : l \in held[w]
    /\ \A w \in Windows : \A l \in held[w] : w \in Users
    /\ \A v, w \in Windows : \A l : l \in held[v] /\ l \in held[w] => v = w
    /\ \A c \in inside : WindowOf[c] \in Users => ListOf[c] \in held[WindowOf[c]]
    /\ \A w \in Windows : \A l \in held[w] :
          \E c \in inside : WindowOf[c] = w /\ ListOf[c] = l
    /\ \A c \in Waiting : \E e \in cache : waitsFor[c] = e.db /\ ListOf[c] \in e.locks
    /\ \A c \in inside : c \notin Waiting
    /\ \A c \in stale \union orphaned : c \in Waiting
    /\ \A c \in stale \ orphaned : WindowOf[c] \notin Users

\* The calls that get a lock when `lists` are released
Heirs(lists, users) ==
    {c \in Waiting \ orphaned : ListOf[c] \in lists /\ WindowOf[c] \in users}

LEMMA WokenAreWaiting ==
  ASSUME LocksTypeOK, MutexInv, NEW lists
  PROVE  Woken(lists) = {c \in Waiting : ListOf[c] \in lists}
<1>1. \A e \in cache : e.db # 0
  BY OfflineLocksAssumption DEF LocksTypeOK, Entry, Connections
<1>2. \A c \in Waiting : \E e \in cache : waitsFor[c] = e.db
  BY DEF MutexInv
<1> QED  BY <1>1, <1>2 DEF Woken, Waiting

\* One call at most waits for a lock, and not in the window that has it
LEMMA OneWaits ==
  ASSUME LocksTypeOK, MutexInv, PairedCalls, NEW w \in Windows, NEW c \in Waiting,
         ListOf[c] \in held[w]
  PROVE  /\ WindowOf[c] # w
         /\ \A d \in Waiting : ListOf[d] = ListOf[c] => d = c
<1>1. PICK h \in inside : WindowOf[h] = w /\ ListOf[h] = ListOf[c]
  BY DEF MutexInv
<1>2. h \in Calls /\ h \notin Waiting /\ c \in Calls
  BY DEF MutexInv, LocksTypeOK, Waiting
<1>3. h # c
  BY <1>2
<1> QED  BY <1>1, <1>2, <1>3 DEF PairedCalls, Waiting

\* What releases `lists` has them, and nobody else becomes a user
MayRelease(w, lists, users) == w \in Windows /\ lists \subseteq held[w] /\ users \subseteq Users

\* The locks of the windows, and of an entry, after `lists` were released
HeldAfter(w, lists, users) ==
    \A v \in Windows : \A l : l \in held'[v] <=>
        /\ v \in users
        /\ \/ l \in held[v] /\ ~(v = w /\ l \in lists)
           \/ \E c \in Heirs(lists, users) : WindowOf[c] = v /\ ListOf[c] = l

LocksAfter(f, lists, users) ==
    \E e \in cache :
        /\ f.db = e.db
        /\ \A l : l \in f.locks <=>
              \/ l \in e.locks /\ l \notin lists
              \/ \E c \in Heirs(lists, users) : ListOf[c] = l

LEMMA HandedOver ==
  ASSUME LocksTypeOK, MutexInv, PairedCalls, NEW w, NEW lists, NEW users,
         MayRelease(w, lists, users), Settle(w, lists, users)
  PROVE  HeldAfter(w, lists, users)
<1>0. w \in Windows /\ lists \subseteq held[w] /\ users \subseteq Users
  BY DEF MayRelease
<1> SUFFICES ASSUME NEW v \in Windows, NEW l
             PROVE  l \in held'[v] <=>
                      /\ v \in users
                      /\ \/ l \in held[v] /\ ~(v = w /\ l \in lists)
                         \/ \E c \in Heirs(lists, users) : WindowOf[c] = v /\ ListOf[c] = l
  BY DEF HeldAfter
<1> DEFINE woken == {c \in Waiting : ListOf[c] \in lists}
           kept == {c \in woken \ stale : WindowOf[c] = v /\ ~GivesUp(c, users)}
<1>1. Woken(lists) = woken
  BY WokenAreWaiting
<1>2. held'[v] = IF v \notin users THEN {}
                 ELSE (IF v = w THEN held[v] \ lists ELSE held[v]) \union {ListOf[c] : c \in kept}
  BY <1>1 DEF Settle
<1>3. ASSUME v \in users PROVE kept = {c \in Heirs(lists, users) : WindowOf[c] = v}
  <2>1. \A c \in woken : WindowOf[c] = v /\ c \notin orphaned => c \notin stale
    BY <1>0, <1>3 DEF MutexInv
  <2> QED  BY <1>0, <1>3, <2>1 DEF Heirs, GivesUp
<1> HIDE DEF kept
<1> QED  BY <1>2, <1>3

LEMMA LocksHandedOver ==
  ASSUME LocksTypeOK, MutexInv, PairedCalls, NEW w, NEW lists, NEW users,
         MayRelease(w, lists, users), NEW f \in Released(cache, lists, users)
  PROVE  LocksAfter(f, lists, users)
<1>0. w \in Windows /\ lists \subseteq held[w] /\ users \subseteq Users
  BY DEF MayRelease
<1> DEFINE taken == {l \in lists : \E c \in Woken({l}) : TRUE}
           givenUp == {l \in lists : \E c \in Woken({l}) : GivesUp(c, users)}
<1>1. PICK e \in cache : f = [e EXCEPT !.locks = (@ \ lists) \union (taken \ givenUp)]
  BY DEF Released
<1>2. e \in Entry
  BY DEF LocksTypeOK
<1>3. ASSUME NEW l PROVE l \in taken \ givenUp <=> \E c \in Heirs(lists, users) : ListOf[c] = l
  <2>1. Woken({l}) = {c \in Waiting : ListOf[c] \in {l}}
    BY WokenAreWaiting
  <2>2. \A c, d \in Waiting : ListOf[c] = l /\ ListOf[d] = l /\ l \in lists => c = d
    BY <1>0, OneWaits
  <2> QED  BY <1>0, <2>1, <2>2 DEF Heirs, GivesUp
<1> HIDE DEF taken, givenUp
<1>4. f.db = e.db /\ f.locks = (e.locks \ lists) \union (taken \ givenUp)
  BY <1>1, <1>2 DEF Entry
<1> QED  BY <1>3, <1>4 DEF LocksAfter

\* What unlocking and closing have in common: `lists` are released, those who waited
\* for them get in, and only the calls that had them leave.
LEMMA HandoverStep ==
  ASSUME RefsInv, RefsInv', MutexInv, PairedCalls, NEW w \in Windows,
         NEW lists \in SUBSET held[w], NEW users, Users' = users,
         users \subseteq Users, Users \ {w} \subseteq users, w \notin users => lists = held[w],
         Settle(w, lists, users),
         \A f \in cache' : \E g \in Released(cache, lists, users) : f.db = g.db /\ f.locks = g.locks,
         inside' \subseteq inside \union (Woken(lists) \ orphaned),
         \A c \in Woken(lists) \ orphaned : WindowOf[c] \in users => c \in inside',
         \A c \in inside \ inside' :
            WindowOf[c] \in users => WindowOf[c] = w /\ ListOf[c] \in lists,
         \A c \in inside \intersect inside' : w \in users /\ WindowOf[c] = w => ListOf[c] \notin lists,
         \A c \in stale' \union orphaned' : c \in Waiting \ Woken(lists),
         \A c \in stale' \ orphaned' : WindowOf[c] \notin users
  PROVE  MutexInv'
<1> USE OfflineLocksAssumption
<1> DEFINE heirs == Heirs(lists, users)
<1>0. LocksTypeOK /\ RefsAreCounted /\ RefsAreCounted' /\ MayRelease(w, lists, users)
  BY DEF RefsInv, MayRelease
<1>1. Woken(lists) = {c \in Waiting : ListOf[c] \in lists}
  BY <1>0, WokenAreWaiting
<1>2. \A v \in Windows : \A l : l \in held'[v] <=>
         /\ v \in users
         /\ \/ l \in held[v] /\ ~(v = w /\ l \in lists)
            \/ \E c \in heirs : WindowOf[c] = v /\ ListOf[c] = l
  BY <1>0, HandedOver DEF HeldAfter
<1>3. \A f \in cache' : \E e \in cache :
         /\ f.db = e.db
         /\ \A l : l \in f.locks <=>
               \/ l \in e.locks /\ l \notin lists
               \/ \E c \in heirs : ListOf[c] = l
  <2> TAKE f \in cache'
  <2>1. PICK g \in Released(cache, lists, users) : f.db = g.db /\ f.locks = g.locks
    OBVIOUS
  <2>2. LocksAfter(g, lists, users)
    BY <1>0, LocksHandedOver
  <2> QED  BY <2>1, <2>2 DEF LocksAfter
<1>4. /\ \A c \in heirs : c \in Waiting \ orphaned /\ ListOf[c] \in lists /\ WindowOf[c] \in users
      /\ \A c \in Waiting \ orphaned :
            ListOf[c] \in lists /\ WindowOf[c] \in users => c \in heirs
  BY DEF Heirs
<1>5. users \subseteq Windows /\ lists \subseteq held[w]
      /\ \A c \in Waiting : c \in Calls /\ WindowOf[c] \in Windows
  BY DEF Users, Waiting
<1>6. \A c, d \in Waiting : ListOf[c] = ListOf[d] /\ ListOf[c] \in lists => c = d /\ WindowOf[c] # w
  BY <1>0, <1>5, OneWaits
<1>7. Waiting' = Waiting \ Woken(lists)
  <2>1. waitsFor' = [c \in Calls |-> IF c \in Woken(lists) THEN 0 ELSE waitsFor[c]]
    BY DEF Settle
  <2> QED  BY <2>1 DEF Waiting
<1>8. \A c \in Waiting' : c \in Waiting /\ waitsFor'[c] = waitsFor[c] /\ ListOf[c] \notin lists
  <2>1. waitsFor' = [c \in Calls |-> IF c \in Woken(lists) THEN 0 ELSE waitsFor[c]]
    BY DEF Settle
  <2> QED  BY <1>1, <1>5, <1>7, <2>1
<1> HIDE DEF heirs
<1>11. \A f \in cache' : \A l : l \in f.locks <=> \E v \in Users' : l \in held'[v]
  <2> SUFFICES ASSUME NEW f \in cache', NEW l
               PROVE  l \in f.locks <=> \E v \in users : l \in held'[v]
    OBVIOUS
  <2> PICK e \in cache : \A k : k \in f.locks <=>
                            \/ k \in e.locks /\ k \notin lists
                            \/ \E c \in heirs : ListOf[c] = k
    BY <1>3
  <2>1. l \in e.locks <=> \E v \in Users : l \in held[v]
    BY DEF MutexInv
  <2>2. ASSUME l \in e.locks, l \notin lists PROVE \E v \in users : l \in held'[v]
    <3>1. PICK v \in Users : l \in held[v]
      BY <2>1, <2>2
    <3>2. v \in users
      BY <2>2, <3>1
    <3> QED  BY <1>2, <1>5, <2>2, <3>1, <3>2
  <2>3. ASSUME NEW c \in heirs, ListOf[c] = l PROVE \E v \in users : l \in held'[v]
    BY <1>2, <1>4, <1>5, <2>3
  <2>4. ASSUME NEW v \in users, l \in held'[v]
        PROVE  (l \in e.locks /\ l \notin lists) \/ (\E c \in heirs : ListOf[c] = l)
    <3>1. CASE l \in held[v] /\ ~(v = w /\ l \in lists)
      <4>1. l \notin lists
        BY <1>5, <3>1 DEF MutexInv
      <4>2. v \in Users
        BY <1>5, <3>1 DEF MutexInv
      <4> QED  BY <2>1, <3>1, <4>1, <4>2
    <3> QED  BY <1>2, <1>5, <2>4, <3>1
  <2> QED  BY <2>2, <2>3, <2>4
<1>12. \A v \in Windows : \A l \in held'[v] : v \in Users'
  BY <1>2
<1>13. \A v, u \in Windows : \A l : l \in held'[v] /\ l \in held'[u] => v = u
  <2> SUFFICES ASSUME NEW v \in Windows, NEW u \in Windows, NEW l, l \in held'[v], l \in held'[u]
               PROVE  v = u
    OBVIOUS
  <2>1. \A x \in Windows : l \in held'[x] =>
           \/ l \in held[x] /\ l \notin lists
           \/ l \in lists /\ \E c \in heirs : WindowOf[c] = x /\ ListOf[c] = l
    BY <1>2, <1>4, <1>5 DEF MutexInv
  <2>2. CASE l \in lists
    BY <1>4, <1>6, <2>1, <2>2
  <2>3. CASE l \notin lists
    BY <2>1, <2>3 DEF MutexInv
  <2> QED  BY <2>2, <2>3
<1>14. \A c \in inside' : WindowOf[c] \in Users' => ListOf[c] \in held'[WindowOf[c]]
  <2> SUFFICES ASSUME NEW c \in inside', WindowOf[c] \in users
               PROVE  ListOf[c] \in held'[WindowOf[c]]
    OBVIOUS
  <2>1. CASE c \in inside
    <3>1. ListOf[c] \in held[WindowOf[c]]
      BY <2>1 DEF MutexInv
    <3>2. ~(WindowOf[c] = w /\ ListOf[c] \in lists)
      BY <2>1
    <3> QED  BY <1>2, <1>5, <3>1, <3>2
  <2>2. CASE c \in Woken(lists) \ orphaned
    BY <1>1, <1>2, <1>4, <1>5, <2>2
  <2> QED  BY <2>1, <2>2
<1>15. \A v \in Windows : \A l \in held'[v] :
          \E c \in inside' : WindowOf[c] = v /\ ListOf[c] = l
  <2> SUFFICES ASSUME NEW v \in Windows, NEW l \in held'[v]
               PROVE  \E c \in inside' : WindowOf[c] = v /\ ListOf[c] = l
    OBVIOUS
  <2>1. v \in users
    BY <1>2
  <2>2. CASE l \in held[v] /\ ~(v = w /\ l \in lists)
    <3>1. PICK c \in inside : WindowOf[c] = v /\ ListOf[c] = l
      BY <2>2 DEF MutexInv
    <3> QED  BY <2>1, <2>2, <3>1
  <2>3. CASE \E c \in heirs : WindowOf[c] = v /\ ListOf[c] = l
    <3>1. PICK c \in heirs : WindowOf[c] = v /\ ListOf[c] = l
      BY <2>3
    <3>2. c \in Woken(lists) \ orphaned
      BY <1>1, <1>4, <3>1
    <3> QED  BY <2>1, <3>1, <3>2
  <2> QED  BY <1>2, <2>2, <2>3
<1>16. \A c \in Waiting' : \E f \in cache' : waitsFor'[c] = f.db /\ ListOf[c] \in f.locks
  <2> TAKE c \in Waiting'
  <2>1. PICK e \in cache : waitsFor[c] = e.db /\ ListOf[c] \in e.locks
    BY <1>8 DEF MutexInv
  <2>2. PICK u \in Users : ListOf[c] \in held[u]
    BY <2>1 DEF MutexInv
  <2>3. u \in Users'
    BY <1>8, <2>2
  <2>4. PICK f \in cache' : TRUE
    BY <1>0, <2>3 DEF RefsAreCounted
  <2>5. PICK g \in cache : /\ f.db = g.db
                           /\ \A l : l \in f.locks <=>
                                 \/ l \in g.locks /\ l \notin lists
                                 \/ \E d \in heirs : ListOf[d] = l
    BY <1>3
  <2>6. g = e
    BY <1>0 DEF LocksTypeOK
  <2> QED  BY <1>8, <2>1, <2>5, <2>6
<1>17. \A c \in inside' : c \notin Waiting'
  BY <1>7 DEF MutexInv
<1>18. \A c \in stale' \union orphaned' : c \in Waiting'
  BY <1>7
<1> QED  BY <1>11, <1>12, <1>13, <1>14, <1>15, <1>16, <1>17, <1>18 DEF MutexInv

LEMMA UnlockExcludes ==
  ASSUME RefsInv, RefsInv', MutexInv, PairedCalls, NEW c \in Calls, Unlock(c)
  PROVE  MutexInv'
<1> USE OfflineLocksAssumption
<1> DEFINE w == WindowOf[c]
           lists == {ListOf[c]} \intersect held[w]
<1>0. /\ w \in Windows /\ lists \subseteq held[w] /\ c \in inside /\ LocksTypeOK
      /\ inside \subseteq Calls
  BY DEF Unlock, RefsInv, LocksTypeOK
<1>1. /\ inside' = (inside \ {c}) \union (Woken(lists) \ orphaned)
      /\ Settle(w, lists, Users)
      /\ cache' = Released(cache, lists, Users)
      /\ stale' = stale \ Woken(lists)
      /\ orphaned' = orphaned \ Woken(lists)
      /\ session' = session
  BY DEF Unlock
<1>2. Users' = Users
  BY <1>1 DEF Users
<1>3. ListOf[c] \in lists \/ w \notin Users
  BY <1>0 DEF MutexInv
<1>4. c \notin Woken(lists)
  BY <1>0, WokenAreWaiting DEF MutexInv
<1>5. \A d \in inside \intersect inside' : WindowOf[d] = w => ListOf[d] \notin lists
  <2>1. \A d \in inside \intersect inside' : d # c /\ d \in Calls
    BY <1>0, <1>1, <1>4
  <2> QED  BY <1>0, <2>1 DEF PairedCalls
<1>6. /\ \A d \in stale' \union orphaned' : d \in Waiting \ Woken(lists)
      /\ \A d \in stale' \ orphaned' : WindowOf[d] \notin Users
  BY <1>1 DEF MutexInv
<1>7. \A f \in cache' : \E g \in Released(cache, lists, Users) : f.db = g.db /\ f.locks = g.locks
  BY <1>1
<1>8. \A d \in inside \ inside' : WindowOf[d] \in Users => WindowOf[d] = w /\ ListOf[d] \in lists
  BY <1>1, <1>3
<1>9. \A d \in Woken(lists) \ orphaned : WindowOf[d] \in Users => d \in inside'
  BY <1>1
<1>10. inside' \subseteq inside \union (Woken(lists) \ orphaned)
  BY <1>1
<1>11. lists \in SUBSET held[w] /\ Users \subseteq Users /\ Users \ {w} \subseteq Users
       /\ (w \notin Users => lists = held[w])
  BY <1>0 DEF MutexInv
<1> HIDE DEF w, lists
<1> QED  BY <1>0, <1>1, <1>2, <1>5, <1>6, <1>7, <1>8, <1>9, <1>10, <1>11, HandoverStep

LEMMA CloseExcludes ==
  ASSUME RefsInv, RefsInv', MutexInv, PairedCalls, NEW w \in Windows, Logout(w) \/ Reload(w)
  PROVE  MutexInv'
<1> USE OfflineLocksAssumption
<1> DEFINE users == Users \ {w}
           woken == Woken(held[w])
<1>0. CloseDb(w) /\ LocksTypeOK /\ CacheTyped /\ inside \subseteq Calls
  BY DEF Logout, Reload, RefsInv, LocksTypeOK, CacheTyped
<1>1. /\ session' = [session EXCEPT ![w] = 0]
      /\ Settle(w, held[w], users)
      /\ cache' = Disposed(Released(cache, held[w], users))
  BY <1>0 DEF CloseDb
<1>2. Users' = users
  BY <1>0, <1>1 DEF Users, LocksTypeOK
<1>3. \A f \in cache' : \E g \in Released(cache, held[w], users) : f.db = g.db /\ f.locks = g.locks
  <2>1. Released(cache, held[w], users) \subseteq Entry
    BY <1>0, ReleasedTyped DEF LocksTypeOK
  <2> DEFINE released == Released(cache, held[w], users)
  <2>2. cache' = {[g EXCEPT !.counter = @ - 1] : g \in {h \in released : h.counter # 1}}
    BY <1>1 DEF Disposed
  <2> HIDE DEF released
  <2>3. \A f \in cache' : \E g \in released : f = [g EXCEPT !.counter = @ - 1]
    BY <2>2
  <2>4. released \subseteq Entry
    BY <2>1 DEF released
  <2>5. \A f \in cache' : \E g \in released : f.db = g.db /\ f.locks = g.locks
    <3> TAKE f \in cache'
    <3>1. PICK g \in released : f = [g EXCEPT !.counter = @ - 1]
      BY <2>3
    <3>2. f.db = g.db /\ f.locks = g.locks
      BY <2>4, <3>1 DEF Entry
    <3> QED  BY <3>2
  <2> QED  BY <2>5 DEF released
<1>4. \/ /\ inside' = inside \union (woken \ orphaned)
         /\ stale' = (stale \union (CallsOf(w) \intersect Waiting)) \ woken
         /\ orphaned' = orphaned \ woken
      \/ /\ inside' = (inside \union (woken \ orphaned)) \ CallsOf(w)
         /\ orphaned' = (orphaned \union (CallsOf(w) \intersect Waiting)) \ woken
         /\ stale' = stale \ woken
  BY DEF Logout, Reload
<1>5. \A c \in CallsOf(w) : c \in Calls /\ WindowOf[c] = w
  BY DEF CallsOf
<1>6. inside' \subseteq inside \union (woken \ orphaned)
  BY <1>4
<1>7. \A c \in woken \ orphaned : WindowOf[c] \in users => c \in inside'
  BY <1>4, <1>5
<1>8. \A c \in inside \ inside' : WindowOf[c] \in users => WindowOf[c] = w /\ ListOf[c] \in held[w]
  BY <1>4, <1>5
<1>9. \A c \in stale' \union orphaned' : c \in Waiting \ woken
  BY <1>4 DEF MutexInv
<1>10. \A c \in stale' \ orphaned' : WindowOf[c] \notin users
  BY <1>4, <1>5 DEF MutexInv
<1>11. w \notin users /\ users \subseteq Users /\ Users \ {w} \subseteq users
  OBVIOUS
<1> HIDE DEF users, woken
<1>12. /\ inside' \subseteq inside \union (Woken(held[w]) \ orphaned)
       /\ \A c \in Woken(held[w]) \ orphaned : WindowOf[c] \in users => c \in inside'
       /\ \A c \in stale' \union orphaned' : c \in Waiting \ Woken(held[w])
  BY <1>6, <1>7, <1>9 DEF woken
<1>13. held[w] \in SUBSET held[w]
  OBVIOUS
<1> QED  BY <1>0, <1>1, <1>2, <1>3, <1>8, <1>10, <1>11, <1>12, <1>13, HandoverStep

LEMMA OpenExcludes ==
  ASSUME RefsInv, MutexInv, ~CallsOutliveSession, NEW w \in Windows, Open(w)
  PROVE  MutexInv'
<1> USE OfflineLocksAssumption
<1> PICK n \in Connections : GetOrCreateDb(w, n)
  BY DEF Open
<1>0. /\ LocksTypeOK /\ session[w] = 0 /\ UNCHANGED callVars
      /\ CallsOf(w) \intersect (inside \union (Waiting \ orphaned)) = {}
  BY DEF Open, RefsInv
<1>1. Users' = Users \union {w} /\ w \notin Users
  BY <1>0 DEF GetOrCreateDb, Users, LocksTypeOK, Connections
<1>2. Waiting' = Waiting /\ UNCHANGED <<held, inside, stale, orphaned, waitsFor>>
  BY <1>0 DEF callVars, Waiting
<1>3. \A l : l \notin held[w]
  BY <1>1 DEF MutexInv
<1>4. \A c \in Calls : WindowOf[c] = w => c \notin inside /\ (c \in Waiting => c \in orphaned)
  BY <1>0 DEF CallsOf
<1>5. inside \subseteq Calls /\ stale \subseteq Calls
  BY <1>0 DEF LocksTypeOK
<1>6. \A f \in cache' : \A l : l \in f.locks <=> \E v \in Users' : l \in held'[v]
  <2>1. CASE cache' = {[e EXCEPT !.counter = @ + 1] : e \in cache}
    <3> TAKE f \in cache'
    <3>1. PICK e \in cache : f = [e EXCEPT !.counter = @ + 1]
      BY <2>1
    <3>2. f.locks = e.locks
      BY <1>0, <3>1 DEF LocksTypeOK, Entry
    <3> QED  BY <1>1, <1>2, <1>3, <3>2 DEF MutexInv
  <2>2. CASE cache = {} /\ cache' = {[db |-> n, counter |-> 1, locks |-> {}]}
    <3>1. Users = {}
      BY <2>2 DEF RefsInv, RefsAreCounted
    <3> QED  BY <1>1, <1>2, <1>3, <2>2, <3>1
  <2> QED  BY <2>1, <2>2 DEF GetOrCreateDb
<1>7. \A c \in Waiting' : \E f \in cache' : waitsFor'[c] = f.db /\ ListOf[c] \in f.locks
  <2> TAKE c \in Waiting'
  <2>1. PICK e \in cache : waitsFor[c] = e.db /\ ListOf[c] \in e.locks
    BY <1>2 DEF MutexInv
  <2>2. cache' = {[x EXCEPT !.counter = @ + 1] : x \in cache}
    BY <2>1 DEF GetOrCreateDb
  <2>3. /\ [e EXCEPT !.counter = @ + 1] \in cache'
        /\ [e EXCEPT !.counter = @ + 1].db = e.db
        /\ [e EXCEPT !.counter = @ + 1].locks = e.locks
    BY <1>0, <2>1, <2>2 DEF LocksTypeOK, Entry
  <2> QED  BY <1>2, <2>1, <2>3
<1>8. \A c \in inside' : WindowOf[c] \in Users' => ListOf[c] \in held'[WindowOf[c]]
  BY <1>1, <1>2, <1>4, <1>5 DEF MutexInv
<1>9. \A c \in stale' \ orphaned' : WindowOf[c] \notin Users'
  BY <1>1, <1>2, <1>4, <1>5 DEF MutexInv
<1> QED  BY <1>1, <1>2, <1>6, <1>7, <1>8, <1>9 DEF MutexInv

LEMMA LockExcludes ==
  ASSUME RefsInv, MutexInv, NEW c \in Calls, Lock(c)
  PROVE  MutexInv'
<1> USE OfflineLocksAssumption
<1> DEFINE w == WindowOf[c]
           l == ListOf[c]
<1>0. /\ LocksTypeOK /\ RefsAreCounted /\ w \in Windows /\ c \notin inside /\ c \notin Waiting
      /\ waitsFor[c] = 0
      /\ inside \subseteq Calls
      /\ UNCHANGED <<session, stale, orphaned>>
  BY DEF Lock, RefsInv, LocksTypeOK, Waiting
<1>1. Users' = Users /\ (w \in Users <=> session[w] # 0)
  BY <1>0 DEF Users
<1>2. CASE /\ session[w] = 0 \/ l \in held[w]
           /\ inside' = inside \union {c}
           /\ UNCHANGED <<cache, held, waitsFor>>
  <2>1. Waiting' = Waiting
    BY <1>2 DEF Waiting
  <2> QED  BY <1>0, <1>1, <1>2, <2>1 DEF MutexInv
<1>3. CASE /\ session[w] # 0 /\ l \notin held[w]
           /\ \E e \in cache : l \notin e.locks
           /\ cache' = {[e EXCEPT !.locks = @ \union {l}] : e \in cache}
           /\ held' = [held EXCEPT ![w] = @ \union {l}]
           /\ inside' = inside \union {c}
           /\ UNCHANGED waitsFor
  <2> PICK e \in cache : l \notin e.locks
    BY <1>3
  <2>1. Waiting' = Waiting /\ w \in Users
    BY <1>1, <1>3 DEF Waiting
  <2>2. \A v \in Windows : \A k : k \in held'[v] <=> k \in held[v] \/ (v = w /\ k = l)
    BY <1>0, <1>3 DEF LocksTypeOK
  <2>3. \A v \in Windows : l \notin held[v]
    BY DEF MutexInv
  <2>4. cache = {e} /\ e \in Entry
    BY <1>0 DEF LocksTypeOK
  <2>5. PICK f : /\ cache' = {f} /\ f.db = e.db
                 /\ \A k : k \in f.locks <=> k \in e.locks \/ k = l
    <3> DEFINE g == [e EXCEPT !.locks = @ \union {l}]
    <3>1. cache' = {g}
      BY <1>3, <2>4
    <3>2. g.db = e.db /\ g.locks = e.locks \union {l}
      BY <2>4 DEF Entry
    <3> HIDE DEF g
    <3> QED  BY <3>1, <3>2
  <2> HIDE DEF w, l
  <2>6. \A k : k \in f.locks <=> \E v \in Users' : k \in held'[v]
    <3>1. \A k : k \in e.locks <=> \E v \in Users : k \in held[v]
      BY DEF MutexInv
    <3>2. Users \subseteq Windows
      BY DEF Users
    <3> QED  BY <1>1, <2>1, <2>2, <2>5, <3>1, <3>2
  <2>7. \A v \in Windows : \A k \in held'[v] : v \in Users'
    BY <1>1, <2>1, <2>2 DEF MutexInv
  <2>8. \A v, u \in Windows : \A k : k \in held'[v] /\ k \in held'[u] => v = u
    BY <2>2, <2>3 DEF MutexInv
  <2>9. \A d \in inside' : WindowOf[d] \in Users' => ListOf[d] \in held'[WindowOf[d]]
    BY <1>0, <1>1, <1>3, <2>2 DEF MutexInv, w, l
  <2>10. \A v \in Windows : \A k \in held'[v] :
            \E d \in inside' : WindowOf[d] = v /\ ListOf[d] = k
    <3>1. c \in inside' /\ inside \subseteq inside'
      BY <1>3
    <3>2. WindowOf[c] = w /\ ListOf[c] = l
      BY DEF w, l
    <3> QED  BY <2>2, <3>1, <3>2 DEF MutexInv
  <2>11. \A d \in Waiting' : \E g \in cache' : waitsFor'[d] = g.db /\ ListOf[d] \in g.locks
    BY <1>3, <2>1, <2>4, <2>5 DEF MutexInv
  <2>12. \A d \in inside' : d \notin Waiting'
    BY <1>0, <1>3, <2>1 DEF MutexInv
  <2>13. /\ \A d \in stale' \union orphaned' : d \in Waiting'
         /\ \A d \in stale' \ orphaned' : WindowOf[d] \notin Users'
    BY <1>0, <1>1, <2>1 DEF MutexInv
  <2>14. \A g \in cache' : \A k : k \in g.locks <=> \E v \in Users' : k \in held'[v]
    BY <2>5, <2>6
  <2> QED  BY <2>7, <2>8, <2>9, <2>10, <2>11, <2>12, <2>13, <2>14 DEF MutexInv
<1>4. CASE /\ session[w] # 0 /\ l \notin held[w]
           /\ \E e \in cache : l \in e.locks /\ waitsFor' = [waitsFor EXCEPT ![c] = e.db]
           /\ UNCHANGED <<cache, held, inside>>
  <2> PICK e \in cache : l \in e.locks /\ waitsFor' = [waitsFor EXCEPT ![c] = e.db]
    BY <1>4
  <2>1. \A d \in Calls : waitsFor'[d] = IF d = c THEN e.db ELSE waitsFor[d]
    BY <1>0 DEF LocksTypeOK
  <2>2. e.db # 0
    BY <1>0 DEF LocksTypeOK, Entry, Connections
  <2>3. Waiting' = Waiting \union {c}
    BY <2>1, <2>2 DEF Waiting
  <2>4. \A d \in Waiting' : \E f \in cache' : waitsFor'[d] = f.db /\ ListOf[d] \in f.locks
    BY <1>0, <1>4, <2>1, <2>3 DEF MutexInv, Waiting
  <2> HIDE DEF w, l
  <2> QED  BY <1>0, <1>1, <1>4, <2>3, <2>4 DEF MutexInv
<1> QED  BY <1>2, <1>3, <1>4 DEF Lock

LEMMA MutexStep ==
  ASSUME RefsInv, MutexInv, [Next]_locksVars, Environment
  PROVE  MutexInv'
<1> USE OfflineLocksAssumption DEF Environment
<1>0. RefsInv'
  BY RefsStep
<1>1. ASSUME UNCHANGED <<session, callVars>>,
             \A f \in cache' : \E e \in cache : f = e,
             \A e \in cache : e \in cache'
      PROVE  MutexInv'
  <2>1. cache' = cache /\ Users' = Users /\ Waiting' = Waiting
        /\ UNCHANGED <<held, inside, waitsFor, stale, orphaned>>
    BY <1>1 DEF Users, Waiting, callVars
  <2> QED  BY <2>1 DEF MutexInv
<1>2. ASSUME NEW w \in Windows, Open(w) PROVE MutexInv'
  BY <1>2, OpenExcludes
<1>3. ASSUME NEW w \in Windows, Logout(w) \/ Reload(w) PROVE MutexInv'
  BY <1>0, <1>3, CloseExcludes
<1>4. ASSUME NEW w \in Windows, DeleteDb(w) PROVE MutexInv'
  <2>1. Users = {}
    BY <1>4 DEF DeleteDb
  <2>2. cache = {}
    BY <2>1, FS_EmptySet DEF RefsInv, RefsAreCounted, LocksTypeOK, Entry
  <2>3. cache' = {} /\ UNCHANGED <<session, callVars>>
    BY <1>4, <2>2 DEF DeleteDb, Disposed
  <2> QED  BY <1>1, <2>2, <2>3
<1>5. ASSUME NEW w \in Windows, DeleteFile(w) PROVE MutexInv'
  <2>1. Users = {}
    BY <1>5 DEF DeleteFile, RefsInv
  <2>2. cache = {}
    BY <2>1, FS_EmptySet DEF RefsInv, RefsAreCounted, LocksTypeOK, Entry
  <2>3. cache' = {} /\ UNCHANGED <<session, callVars>>
    BY <1>5 DEF DeleteFile
  <2> QED  BY <1>1, <2>2, <2>3
<1>6. ASSUME NEW c \in Calls, Lock(c) PROVE MutexInv'
  BY <1>6, LockExcludes
<1>7. ASSUME NEW c \in Calls, Unlock(c) PROVE MutexInv'
  BY <1>0, <1>7, UnlockExcludes
<1>8. ASSUME NEW n \in Connections, Opened(n) \/ OpenFails(n) \/ Closed(n) PROVE MutexInv'
  BY <1>1, <1>8 DEF Opened, OpenFails, Closed, Becomes
<1>9. CASE UNCHANGED locksVars
  BY <1>1, <1>9 DEF locksVars, dbVars
<1> QED  BY <1>2, <1>3, <1>4, <1>5, <1>6, <1>7, <1>8, <1>9 DEF Next

LEMMA MutexInit == Init => MutexInv
<1> SUFFICES ASSUME Init PROVE MutexInv
  OBVIOUS
<1>1. /\ Users = {} /\ cache = {} /\ Waiting = {} /\ inside = {} /\ stale = {} /\ orphaned = {}
      /\ \A w \in Windows : held[w] = {}
  BY DEF Init, Users, Waiting
<1> QED  BY <1>1 DEF MutexInv

\* The ranges of a list are never open to two windows that use the database, for any
\* number of windows and lists (OfflineDbRefCounter.ts:98-128,
\* PerWindowSqlCipherFacade.ts:100-137).
THEOREM OneWindowPerListAlways ==
  ASSUME Environment
  PROVE  LocksSpec => []OneWindowPerList
<1>1. RefsInv /\ [Next]_locksVars => RefsInv'
  BY RefsStep DEF Environment
<1>2. RefsInv /\ MutexInv /\ [Next]_locksVars => MutexInv'
  BY MutexStep
<1>3. ASSUME RefsInv, MutexInv PROVE OneWindowPerList
  <2>1. \A c \in inside : WindowOf[c] \in Windows
    BY <1>3, OfflineLocksAssumption DEF RefsInv, LocksTypeOK
  <2> QED  BY <1>3, <2>1 DEF MutexInv, OneWindowPerList
<1> QED  BY <1>1, <1>2, <1>3, RefsInit, MutexInit, PTL DEF LocksSpec

\* A lock that is set belongs to a window that will release it, also after its window
\* was closed or reloaded while a call waited.
THEOREM NoLeakedLockAlways ==
  ASSUME Environment
  PROVE  LocksSpec => []NoLeakedLock
<1>1. RefsInv /\ [Next]_locksVars => RefsInv'
  BY RefsStep DEF Environment
<1>2. RefsInv /\ MutexInv /\ [Next]_locksVars => MutexInv'
  BY MutexStep
<1>3. ASSUME RefsInv, MutexInv PROVE NoLeakedLock
  <2> SUFFICES ASSUME NEW e \in cache PROVE e.locks = UNION {held[w] : w \in Users}
    BY DEF NoLeakedLock
  <2>1. \A l : l \in e.locks <=> \E w \in Users : l \in held[w]
    BY <1>3 DEF MutexInv
  <2> QED  BY <2>1
<1> QED  BY <1>1, <1>2, <1>3, RefsInit, MutexInit, PTL DEF LocksSpec
=============================================================================
