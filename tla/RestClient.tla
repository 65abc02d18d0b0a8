----------------------------- MODULE RestClient -----------------------------
(***************************************************************************)
(* Requests of the worker and their suspension (RestClient.ts,             *)
(* SuspensionHandler.ts).  When the server answers that there are too many *)
(* requests, the client sends nothing for some time; what is requested     *)
(* meanwhile is deferred, and then sent one after the other.               *)
(*                                                                         *)
(* A promise that settles is noticed before anything else happens: actions *)
(* that the browser starts, an answer, a timer or a new call, wait until   *)
(* no loop of _onSuspensionComplete can go on (Idle).  The timeout of a    *)
(* request, and a failed connection, are answers with an error.            *)
(***************************************************************************)
EXTENDS Naturals, Sequences, FiniteSets, SequencesExt

CONSTANTS
    Calls,           \* calls of request()
    NoCall,
    Throwing,        \* those with SuspensionBehavior.Throw
    MaxSuspensions   \* bound: how often the server suspends the client

ASSUME RestAssumption ==
    /\ NoCall \notin Calls
    /\ Throwing \subseteq Calls
    /\ MaxSuspensions \in Nat

VARIABLES
    isSuspended,
    timers,            \* armed timers that end a suspension
    deferredRequests,  \* calls that wait for the timer
    loops,             \* running loops of _onSuspensionComplete
    call,              \* what became of each call
    suspensions        \* how often the server has suspended the client

suspensionVars == <<isSuspended, timers, suspensions>>
restVars == <<suspensionVars, deferredRequests, loops, call>>

Settled == {"ok", "locked", "failed"}
Sent == {"sent", "resent"}

RestTypeOK ==
    /\ isSuspended \in BOOLEAN
    /\ timers \in 0..1
    /\ suspensions \in 0..MaxSuspensions
    /\ deferredRequests \in Seq(Calls)
    /\ loops \in Seq([awaits : Calls \union {NoCall}, rest : Seq(Calls)])
    /\ call \in [Calls -> {"new", "deferred"} \union Sent \union Settled]

RestInit ==
    /\ isSuspended = FALSE
    /\ timers = 0
    /\ suspensions = 0
    /\ deferredRequests = <<>>
    /\ loops = <<>>
    /\ call = [c \in Calls |-> "new"]

CanContinue(i) == loops[i].awaits # NoCall => call[loops[i].awaits] \in Settled
Idle == \A i \in 1..Len(loops) : ~CanContinue(i)

\* request(): deferred if the client is suspended, or else sent, as `how`
Requested(c, how) ==
    /\ call' = [call EXCEPT ![c] = IF isSuspended THEN "deferred" ELSE how]
    /\ deferredRequests' = IF isSuspended THEN Append(deferredRequests, c) ELSE deferredRequests
    /\ UNCHANGED suspensionVars

Request(c) == Idle /\ call[c] = "new" /\ Requested(c, "sent") /\ UNCHANGED loops

Answer(c, outcome) ==
    /\ Idle
    /\ call[c] \in Sent
    /\ call' = [call EXCEPT ![c] = outcome]
    /\ UNCHANGED <<suspensionVars, deferredRequests, loops>>

\* Variants with a bug: a suspended client arms a timer again; what is deferred stays
\* in the list, or is dropped with it after the first request; nobody waits for the
\* promise; the loop waits for a promise that is not settled by an error.
ActivateAlways ==
    /\ suspensions < MaxSuspensions
    /\ isSuspended' = TRUE
    /\ timers' = timers + 1
    /\ suspensions' = suspensions + 1

\* activateSuspensionIfInactive
Activate ==
    IF isSuspended THEN UNCHANGED suspensionVars
    ELSE /\ suspensions < MaxSuspensions
         /\ isSuspended' = TRUE
         /\ timers' = timers + 1
         /\ suspensions' = suspensions + 1

\* the server answers that the client has to wait
Suspended(c) ==
    /\ Idle
    /\ call[c] \in Sent
    /\ IF c \in Throwing
       THEN /\ call' = [call EXCEPT ![c] = "failed"]
            /\ UNCHANGED <<suspensionVars, deferredRequests>>
       ELSE /\ Activate
            /\ call' = [call EXCEPT ![c] = "deferred"]
            /\ deferredRequests' = Append(deferredRequests, c)
    /\ UNCHANGED loops

Loop(list) == [awaits |-> NoCall, rest |-> list]

ReleaseKeeping ==
    /\ Idle
    /\ timers > 0
    /\ timers' = timers - 1
    /\ isSuspended' = FALSE
    /\ loops' = Append(loops, Loop(deferredRequests))
    /\ UNCHANGED <<deferredRequests, call, suspensions>>

\* the timer ends the suspension and starts a loop over what was deferred
Release ==
    /\ Idle
    /\ timers > 0
    /\ timers' = timers - 1
    /\ isSuspended' = FALSE
    /\ loops' = Append(loops, Loop(deferredRequests))
    /\ deferredRequests' = <<>>
    /\ UNCHANGED <<call, suspensions>>

ContinueAtOnce(i) ==
    IF loops[i].rest = <<>>
    THEN loops' = RemoveAt(loops, i) /\ UNCHANGED <<suspensionVars, deferredRequests, call>>
    ELSE /\ loops' = [loops EXCEPT ![i] = Loop(Tail(@.rest))]
         /\ Requested(Head(loops[i].rest), "resent")

ContinueAfterSuccess(i) ==
    /\ loops[i].awaits # NoCall => call[loops[i].awaits] = "ok"
    /\ IF loops[i].rest = <<>>
       THEN loops' = RemoveAt(loops, i) /\ UNCHANGED <<suspensionVars, deferredRequests, call>>
       ELSE /\ loops' = [loops EXCEPT ![i] = [awaits |-> Head(@.rest), rest |-> Tail(@.rest)]]
            /\ Requested(Head(loops[i].rest), "resent")

\* A loop goes on when the request it waits for is settled, which may take another
\* suspension: the request then waits in a newer list.
Continue(i) ==
    /\ CanContinue(i)
    /\ IF loops[i].rest = <<>>
       THEN loops' = RemoveAt(loops, i) /\ UNCHANGED <<suspensionVars, deferredRequests, call>>
       ELSE /\ loops' = [loops EXCEPT ![i] = [awaits |-> Head(@.rest), rest |-> Tail(@.rest)]]
            /\ Requested(Head(loops[i].rest), "resent")

ContinueAny == \E i \in 1..Len(loops) : Continue(i)

-----------------------------------------------------------------------------
(* Properties                                                               *)

Waiting(c) ==
    IF \E k \in 1..Len(deferredRequests) : deferredRequests[k] = c THEN 1 ELSE 0

InLoop(c, i) == \E k \in 1..Len(loops[i].rest) : loops[i].rest[k] = c

\* A deferred request waits in exactly one place, the list of the suspension or the
\* rest of one loop, also if it is deferred again while older loops wait for it:
\* otherwise it would be lost, or sent twice (SuspensionHandler.ts:57-82).
DeferredOnce ==
    \A c \in Calls :
        Waiting(c) + Cardinality({i \in 1..Len(loops) : InLoop(c, i)})
            = IF call[c] = "deferred" THEN 1 ELSE 0

\* Who waits in the list waits for a timer that is armed, and one timer at most ends
\* the suspension, not an earlier one (SuspensionHandler.ts:25-46).
EndsByItsTimer ==
    /\ timers = IF isSuspended THEN 1 ELSE 0
    /\ deferredRequests # <<>> => isSuspended

\* The deferred requests are not sent all at once when the suspension ends: each loop
\* has one under way at most (SuspensionHandler.ts:76-81).
NoBurst == Cardinality({c \in Calls : call[c] = "resent"}) <= Len(loops)

\* Every call of request() is settled, however often it is deferred and whatever the
\* loops wait for, if the server answers and does not suspend for ever.
CallsEnd == \A c \in Calls : call[c] # "new" ~> call[c] \in Settled
=============================================================================
