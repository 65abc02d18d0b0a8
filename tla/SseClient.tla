------------------------------ MODULE SseClient ------------------------------
(***************************************************************************)
(* The client of the desktop app for push notifications (SseClient.ts):    *)
(* one long-lived HTTP request, a timeout that connects again, and a       *)
(* periodic check of the heartbeat.  TutaSseFacade and the login of the    *)
(* windows call connect() and disconnect() at any time.                    *)
(*                                                                         *)
(* disconnect() destroys the request and returns when the request has      *)
(* reported that it is closed; connect() and the check go on with          *)
(* doConnect() then.  Node reports an error of a request that is destroyed *)
(* before its response, and may report one of the response: the client     *)
(* then arms a timeout, which the close that follows does not cancel.      *)
(* Such a timeout is counted in strays.                                    *)
(*                                                                         *)
(* A refused request has no handlers.  If the server closes it before the  *)
(* client destroys it, nobody hears of it: it is "gone", and a disconnect()*)
(* waits for a close that was reported before.                             *)
(***************************************************************************)
EXTENDS Naturals, FiniteSets

CONSTANTS
    Requests,         \* names of requests; one that is closed may be used again
    NoRequest,
    MaxAttempt,       \* bound: more attempts count as so many
    MaxStrays         \* bound: more stray timeouts count as so many

ASSUME SseAssumption ==
    /\ NoRequest \notin Requests
    /\ MaxAttempt \in Nat \ {0} /\ MaxStrays \in Nat

VARIABLES
    state,              \* ConnectionState
    attempt,            \* state.attempt
    connection,         \* state.connection
    receivedHeartbeat,  \* state.receivedHeartbeat
    timeout,            \* is state.timeout armed?
    strays,             \* armed timeouts that no state refers to
    request,            \* what became of each request
    disconnecting,      \* requests with a handler of disconnect() for their close
    reconnecting,       \* those after whose close doConnect() is called
    refusals            \* refused requests whose onNotAuthenticated() is running

stateVars == <<state, attempt, connection, receivedHeartbeat, timeout, strays>>
requestVars == <<request, disconnecting, reconnecting, refusals>>
sseVars == <<stateVars, requestVars>>

Alive == {"pending", "open", "silent", "refused"}

SseTypeOK ==
    /\ state \in {"disconnected", "delayedReconnect", "connecting", "connected"}
    /\ attempt \in 0..MaxAttempt
    /\ connection \in Requests \union {NoRequest}
    /\ receivedHeartbeat \in BOOLEAN
    /\ timeout \in BOOLEAN
    /\ strays \in 0..MaxStrays
    /\ request \in [Requests -> Alive \union {"aborting", "closing", "leaving", "gone", "closed"}]
    /\ reconnecting \subseteq disconnecting /\ disconnecting \subseteq Requests
    /\ refusals \subseteq Requests

Capped(n, cap) == IF n > cap THEN cap ELSE n
Using == state \in {"connecting", "connected"}

SseInit ==
    /\ state = "disconnected"
    /\ attempt = 0
    /\ connection = NoRequest
    /\ receivedHeartbeat = FALSE
    /\ timeout = FALSE
    /\ strays = 0
    /\ request = [k \in Requests |-> "closed"]
    /\ disconnecting = {}
    /\ reconnecting = {}
    /\ refusals = {}

-----------------------------------------------------------------------------
(* Calls                                                                    *)

Fresh(k) == request[k] = "closed" /\ k \notin disconnecting \union refusals

\* doConnect, from the state `from` with its attempt
DoConnect(k, from) ==
    /\ Fresh(k)
    /\ state' = "connecting"
    /\ connection' = k
    /\ attempt' = IF from = "delayedReconnect" THEN attempt ELSE 1
    /\ UNCHANGED receivedHeartbeat

Connecting(k) ==
    /\ DoConnect(k, state)
    /\ request' = [request EXCEPT ![k] = "pending"]
    /\ UNCHANGED <<disconnecting, reconnecting, refusals>>

\* connection.destroy()
Destroyed(k) ==
    [request EXCEPT ![k] = CASE @ = "pending" -> "aborting"
                             [] @ \in {"open", "silent"} -> "closing"
                             [] @ = "refused" -> "leaving"
                             [] OTHER -> @]

WaitForClose(after) ==
    /\ Using
    /\ disconnecting' = disconnecting \union {connection}
    /\ reconnecting' = reconnecting \union after
    /\ UNCHANGED stateVars

\* disconnect() of a request: destroy it and wait for its close
DestroyAndWait(after) == WaitForClose(after) /\ request' = Destroyed(connection)

\* Variants with a bug: connect() does not wait for the close, or leaves the timeout armed.
ConnectAtOnce ==
    /\ \E k \in Requests : Connecting(k)
    /\ timeout' = FALSE
    /\ UNCHANGED strays

ConnectKeepsTimeout ==
    \/ ~Using /\ (\E k \in Requests : Connecting(k)) /\ UNCHANGED <<timeout, strays>>
    \/ Using /\ DestroyAndWait({connection}) /\ UNCHANGED refusals

Connect ==
    \/ /\ ~Using
       /\ \E k \in Requests : Connecting(k)
       /\ timeout' = FALSE
       /\ UNCHANGED strays
    \/ Using /\ DestroyAndWait({connection}) /\ UNCHANGED refusals

\* disconnect() does nothing if the client is disconnected
DisconnectNow ==
    \/ /\ state = "delayedReconnect"
       /\ timeout' = FALSE
       /\ state' = "disconnected"
       /\ UNCHANGED <<attempt, connection, receivedHeartbeat, strays, request, disconnecting,
                      reconnecting>>
    \/ Using /\ DestroyAndWait({})

Disconnect == DisconnectNow /\ UNCHANGED refusals

\* retryConnect, called by the timeout of the state ...
RetryConnect ==
    /\ timeout
    /\ state = "delayedReconnect"
    /\ timeout' = FALSE
    /\ \E k \in Requests : Connecting(k)
    /\ UNCHANGED strays

\* ... or by a stray one, which finds some state; in the right one it takes the
\* place of the other timeout, in others it throws
StrayTimeout ==
    /\ strays > 0
    /\ IF state = "delayedReconnect"
       THEN /\ \E k \in Requests : Connecting(k)
            /\ timeout' = FALSE
            /\ strays' = IF timeout THEN strays ELSE strays - 1
       ELSE /\ strays' = strays - 1
            /\ UNCHANGED <<state, attempt, connection, receivedHeartbeat, timeout, requestVars>>

\* Variant with a bug: the check does not reset the flag.
HeartbeatCheckOnce ==
    /\ state = "connected"
    /\ ~receivedHeartbeat
    /\ DestroyAndWait({connection})
    /\ UNCHANGED refusals

\* the periodic check
HeartbeatCheck ==
    /\ state = "connected"
    /\ \/ /\ receivedHeartbeat
          /\ receivedHeartbeat' = FALSE
          /\ UNCHANGED <<state, attempt, connection, timeout, strays, requestVars>>
       \/ /\ ~receivedHeartbeat
          /\ DestroyAndWait({connection})
          /\ UNCHANGED refusals

-----------------------------------------------------------------------------
(* Events of requests and responses                                         *)

Response(k, accepted) ==
    /\ request[k] = "pending"
    /\ request' = [request EXCEPT ![k] = IF accepted THEN "open" ELSE "refused"]
    /\ refusals' = IF accepted THEN refusals ELSE refusals \union {k}
    /\ state' = "connected"
    /\ connection' = k
    /\ receivedHeartbeat' = FALSE
    /\ UNCHANGED <<attempt, timeout, strays, disconnecting, reconnecting>>

\* after onNotAuthenticated() the client disconnects from what it uses now
NotAuthenticated(k) ==
    /\ k \in refusals
    /\ refusals' = refusals \ {k}
    /\ IF state = "disconnected" THEN UNCHANGED <<stateVars, request, disconnecting, reconnecting>>
       ELSE DisconnectNow

\* an empty line, or the message with the timeout
Heartbeat(k) ==
    /\ request[k] = "open"
    /\ state = "connected"
    /\ ~receivedHeartbeat
    /\ receivedHeartbeat' = TRUE
    /\ UNCHANGED <<state, attempt, connection, timeout, strays, requestVars>>

\* the other side is gone, and nothing tells
Vanish(k) ==
    /\ request[k] = "open"
    /\ request' = [request EXCEPT ![k] = "silent"]
    /\ UNCHANGED <<stateVars, disconnecting, reconnecting, refusals>>

DelayedReconnect(n) ==
    /\ state' = "delayedReconnect"
    /\ attempt' = n
    /\ connection' = NoRequest
    /\ receivedHeartbeat' = FALSE
    /\ timeout' = TRUE

Ended(k) == [request EXCEPT ![k] = IF @ = "refused" THEN "gone" ELSE "closed"]

\* Variant with a bug: an error of the request is ignored.
EndsQuietly(k) ==
    /\ request[k] \in Alive
    /\ request' = Ended(k)
    /\ IF request[k] \in {"open", "silent"} /\ state = "connected"
       THEN DelayedReconnect(0)
       ELSE UNCHANGED <<state, attempt, connection, receivedHeartbeat, timeout>>
    /\ UNCHANGED <<strays, disconnecting, reconnecting, refusals>>

\* a request ends by itself: an error of the request, or the close of a response
Ends(k) ==
    /\ request[k] \in Alive
    /\ request' = Ended(k)
    /\ IF request[k] = "pending" /\ state = "connecting"
       THEN DelayedReconnect(Capped(attempt + 1, MaxAttempt))
       ELSE IF request[k] \in {"open", "silent"} /\ state = "connected"
       THEN DelayedReconnect(0)
       ELSE UNCHANGED <<state, attempt, connection, receivedHeartbeat, timeout>>
    /\ UNCHANGED <<strays, disconnecting, reconnecting, refusals>>

\* Variant with a bug: disconnect() waits for the close of the response.
ClosedByResponse(k) ==
    /\ request[k] = "closing"
    /\ disconnecting' = disconnecting \ {k}
    /\ reconnecting' = reconnecting \ {k}
    /\ state' = "disconnected"
    /\ connection' = NoRequest
    /\ request' = [request EXCEPT ![k] = "closed"]
    /\ UNCHANGED <<attempt, receivedHeartbeat, timeout, strays, refusals>>

\* A request that was destroyed reports its close; one that has no response reports
\* an error before, one that has may.  Those that waited for the close go on: the
\* first doConnect() connects, others throw.
Closed(k) ==
    /\ \/ request[k] = "aborting" /\ strays' = Capped(strays + 1, MaxStrays)
       \/ request[k] = "closing" /\ strays' \in {strays, Capped(strays + 1, MaxStrays)}
       \/ request[k] = "leaving" /\ UNCHANGED strays
    /\ disconnecting' = disconnecting \ {k}
    /\ reconnecting' = reconnecting \ {k}
    /\ IF k \in reconnecting
       THEN \E n \in Requests \ {k} :
               /\ DoConnect(n, "disconnected")
               /\ request' = [request EXCEPT ![k] = "closed", ![n] = "pending"]
       ELSE /\ state' = "disconnected"
            /\ connection' = NoRequest
            /\ request' = [request EXCEPT ![k] = "closed"]
            /\ UNCHANGED <<attempt, receivedHeartbeat>>
    /\ UNCHANGED <<timeout, refusals>>

RequestStep(k) ==
    \/ \E accepted \in BOOLEAN : Response(k, accepted)
    \/ NotAuthenticated(k) \/ Heartbeat(k) \/ Vanish(k) \/ Ends(k) \/ Closed(k)

SseNext ==
    \/ Connect \/ Disconnect
    \/ RetryConnect \/ StrayTimeout \/ HeartbeatCheck
    \/ \E k \in Requests : RequestStep(k)

\* Timeouts and the periodic check run, what is destroyed is closed, and the handler of
\* a refusal, which removes the user from the storage, returns.
SseFairness ==
    /\ WF_sseVars(RetryConnect)
    /\ WF_sseVars(HeartbeatCheck)
    /\ \A k \in Requests : WF_sseVars(Closed(k)) /\ WF_sseVars(NotAuthenticated(k))

SseSpec == SseInit /\ [][SseNext]_sseVars /\ SseFairness

-----------------------------------------------------------------------------
(* Properties                                                               *)

\* Calls, timeouts and the check never open a second stream beside one that is
\* alive: notifications would be shown twice (SseClient.ts:81-111).
OneStream == \A k, n \in Requests : request[k] \in Alive /\ request[n] \in Alive => k = n

\* The client waits for its timeout exactly if it is in the state that says so;
\* otherwise it would wait for ever, or connect beside a connection.
TimeoutFitsState == timeout <=> state = "delayedReconnect"

\* The state refers to the stream that is alive, so that disconnect() closes it,
\* and never to one whose close has cleaned up after it; only a refused request may
\* have ended unheard (SseClient.ts:185-202).
StateFitsStream ==
    /\ \A k \in Requests : request[k] \in Alive => Using /\ connection = k
    /\ Using => request[connection] # "closed"

\* disconnect() returns, but for a refused request that the server closed first.
DisconnectEnds ==
    \A k \in Requests : k \in disconnecting ~> (k \notin disconnecting \/ request[k] = "gone")

\* A stream that fell silent is given up: the check of the heartbeat finds out.
SilenceIsNoticed == \A k \in Requests : request[k] = "silent" ~> request[k] # "silent"
=============================================================================
