-------------------------- MODULE SessionKeyUpdates --------------------------
(***************************************************************************)
(* The queue of owner-encrypted session keys that the leader sends to the  *)
(* server (OwnerEncSessionKeysUpdateQueue.ts), over the RestClient, which  *)
(* may defer its requests.  One element of Updates is what one call of     *)
(* updateInstanceSessionKeys() adds.  The server does what a request with  *)
(* the outcome "ok" asks for; of one with another outcome the client knows *)
(* nothing.                                                                *)
(***************************************************************************)
EXTENDS RestClient

CONSTANTS
    Updates,
    Posts,      \* the calls that send updates
    MaxLocked   \* bound: how often the server answers LockedError

ASSUME UpdatesAssumption ==
    /\ Posts \subseteq Calls \ Throwing
    /\ MaxLocked \in Nat

VARIABLES
    update,      \* what became of each update
    queue,       \* updateInstanceSessionKeyQueue
    debounced,   \* is the timeout of debounce() armed?
    batch,       \* what each post sends
    locked       \* how often the server has answered LockedError

updateVars == <<update, queue, debounced, batch, locked>>
allVars == <<restVars, updateVars>>

UpdatesTypeOK ==
    /\ RestTypeOK
    /\ update \in [Updates -> {"new", "accepted", "stored", "dropped"}]
    /\ queue \in Seq(Updates)
    /\ debounced \in BOOLEAN
    /\ batch \in [Posts -> Seq(Updates)]
    /\ locked \in 0..MaxLocked

UpdatesInit ==
    /\ RestInit
    /\ update = [u \in Updates |-> "new"]
    /\ queue = <<>>
    /\ debounced = FALSE
    /\ batch = [p \in Posts |-> <<>>]
    /\ locked = 0

\* updateInstanceSessionKeys(), which does nothing if the client is not the leader or
\* the instance is a GroupKeyUpdate (`wanted` is FALSE)
UpdateInstanceSessionKeys(u, wanted) ==
    /\ Idle
    /\ update[u] = "new"
    /\ IF wanted
       THEN /\ update' = [update EXCEPT ![u] = "accepted"]
            /\ queue' = Append(queue, u)
            /\ debounced' = TRUE
       ELSE /\ update' = [update EXCEPT ![u] = "dropped"]
            /\ UNCHANGED <<queue, debounced>>
    /\ UNCHANGED <<restVars, batch, locked>>

\* the posts are used one after the other
NextPost == CHOOSE p \in Posts : \A q \in Posts : call[q] = "new" => call[p] = "new"

\* Variants with a bug: the queue is not emptied; what the server refused because of a
\* lock is queued without a new timeout.
SendUpdateRequestKeeping(p) ==
    /\ debounced /\ p = NextPost
    /\ debounced' = FALSE
    /\ batch' = [batch EXCEPT ![p] = queue]
    /\ Request(p)
    /\ UNCHANGED <<update, queue, locked>>

\* the timeout of debounce(): sendUpdateRequest() posts the queue, which is not empty then
SendUpdateRequest(p) ==
    /\ debounced /\ p = NextPost
    /\ debounced' = FALSE
    /\ queue' = <<>>
    /\ batch' = [batch EXCEPT ![p] = queue]
    /\ Request(p)
    /\ UNCHANGED <<update, locked>>

RetryUnarmed(p) ==
    /\ locked < MaxLocked
    /\ locked' = locked + 1
    /\ queue' = queue \o batch[p]
    /\ UNCHANGED <<debounced, update>>

\* LockedError: what was sent is queued behind what was added meanwhile
Retry(p) ==
    /\ locked < MaxLocked
    /\ locked' = locked + 1
    /\ queue' = queue \o batch[p]
    /\ debounced' = TRUE
    /\ UNCHANGED update

Finish(p, as) ==
    /\ update' = [u \in Updates |-> IF Contains(batch[p], u) THEN as ELSE update[u]]
    /\ UNCHANGED <<queue, debounced, locked>>

\* the rest of sendUpdateRequest(), when its post is settled
PostAnswered(p, outcome) ==
    /\ Answer(p, outcome)
    /\ CASE outcome = "ok" -> Finish(p, "stored")
         [] outcome = "locked" -> Retry(p)
         [] outcome = "failed" -> Finish(p, "dropped")
    /\ batch' = [batch EXCEPT ![p] = <<>>]

OtherCall(c) ==
    /\ \/ Request(c)
       \/ \E outcome \in {"ok", "failed"} : Answer(c, outcome)
    /\ UNCHANGED updateVars

Rest == (ContinueAny \/ Release \/ \E c \in Calls : Suspended(c)) /\ UNCHANGED updateVars

UpdatesNext ==
    \/ \E u \in Updates, wanted \in BOOLEAN : UpdateInstanceSessionKeys(u, wanted)
    \/ \E p \in Posts : SendUpdateRequest(p) \/ \E o \in Settled : PostAnswered(p, o)
    \/ \E c \in Calls \ Posts : OtherCall(c)
    \/ Rest

\* Promises and timers go on, and a request that was sent is answered,
\* or its timeout rejects it.
UpdatesFairness ==
    /\ WF_allVars(ContinueAny /\ UNCHANGED updateVars)
    /\ WF_allVars(Release /\ UNCHANGED updateVars)
    /\ \A p \in Posts :
          WF_allVars(SendUpdateRequest(p)) /\ WF_allVars(\E o \in Settled : PostAnswered(p, o))
    /\ \A c \in Calls \ Posts :
          WF_allVars(\E o \in Settled : Answer(c, o) /\ UNCHANGED updateVars)

UpdatesSpec == UpdatesInit /\ [][UpdatesNext]_allVars /\ UpdatesFairness

-----------------------------------------------------------------------------
(* Properties                                                               *)

Occurrences(s, u) == Cardinality({k \in 1..Len(s) : s[k] = u})

\* An accepted update is in the queue or in one post, once, until the server has it or
\* it is given up: a lock, a suspension or an update that is added meanwhile neither
\* loses nor doubles it (OwnerEncSessionKeysUpdateQueue.ts:52-68).
OnePlace ==
    \A u \in Updates :
        Occurrences(queue, u)
          + Cardinality({p \in Posts : Contains(batch[p], u)})
            = IF update[u] = "accepted" THEN 1 ELSE 0

\* Every accepted update is sent until the server takes it or answers with another
\* error than LockedError.
UpdatesEnd == \A u \in Updates : update[u] = "accepted" ~> update[u] \in {"stored", "dropped"}
=============================================================================
