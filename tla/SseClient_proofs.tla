-------------------------- MODULE SseClient_proofs --------------------------
(***************************************************************************)
(* One stream at a time, for any number of requests: calls, timeouts and   *)
(* events of requests may meet in any order.                               *)
(***************************************************************************)
EXTENDS SseClient, TLAPS

\* The requests that may be waited for; the close of one that is gone does not come.
Doomed == {"aborting", "closing", "leaving", "gone"}

\* What the client uses is the one request that is not closed, and the state says how
\* far that request is.
StreamInv ==
    /\ \A k \in Requests : request[k] # "closed" <=> Using /\ connection = k
    /\ \A k \in disconnecting : request[k] \in Doomed
    /\ state = "connecting" => request[connection] \in {"pending", "aborting"}
    /\ state = "connected" =>
          request[connection] \in {"open", "silent", "refused", "closing", "leaving", "gone"}
    /\ Using => connection \in Requests

SseInv == SseTypeOK /\ TimeoutFitsState /\ StreamInv

LEMMA InitInv == SseInit => SseInv
<1> SUFFICES ASSUME SseInit PROVE SseInv
  OBVIOUS
<1> USE SseAssumption
<1>1. SseTypeOK
  <2>1. request \in [Requests -> Alive \union {"aborting", "closing", "leaving", "gone", "closed"}]
    BY DEF SseInit
  <2>2. attempt \in 0..MaxAttempt /\ strays \in 0..MaxStrays
    BY DEF SseInit
  <2> QED  BY <2>1, <2>2 DEF SseInit, SseTypeOK
<1>2. TimeoutFitsState /\ StreamInv
  BY DEF SseInit, TimeoutFitsState, StreamInv, Using
<1> QED  BY <1>1, <1>2 DEF SseInv

LEMMA CapTyped ==
  ASSUME NEW n \in Nat, NEW cap \in Nat
  PROVE  Capped(n, cap) \in 0..cap
  BY DEF Capped

\* A request is started by a client that uses none.
LEMMA ConnectingKeeps ==
  ASSUME SseInv, NEW k \in Requests, Connecting(k), ~Using,
         timeout' = FALSE, strays' \in 0..MaxStrays
  PROVE  SseInv'
<1> USE SseAssumption
<1>1. SseTypeOK'
  <2>1. attempt' \in 0..MaxAttempt
    <3>1. attempt \in 0..MaxAttempt /\ 1 \in 0..MaxAttempt
      BY DEF SseInv, SseTypeOK
    <3> QED  BY <3>1 DEF Connecting, DoConnect
  <2>2. request' \in [Requests -> Alive \union {"aborting", "closing", "leaving", "gone", "closed"}]
    BY DEF SseInv, SseTypeOK, Connecting, Alive
  <2> QED  BY <2>1, <2>2 DEF SseInv, SseTypeOK, Connecting, DoConnect
<1>2. request' = [request EXCEPT ![k] = "pending"] /\ connection' = k /\ state' = "connecting"
  BY DEF Connecting, DoConnect
<1>3. \A n \in Requests : request[n] = "closed"
  BY DEF SseInv, StreamInv
<1>4. k \notin disconnecting /\ UNCHANGED disconnecting
  BY DEF Connecting, DoConnect, Fresh
<1>5. StreamInv'
  BY <1>1, <1>2, <1>3, <1>4 DEF SseInv, SseTypeOK, StreamInv, Using
<1> QED  BY <1>1, <1>2, <1>5 DEF SseInv, TimeoutFitsState

\* disconnect() of a request only destroys it.
LEMMA DestroyKeeps ==
  ASSUME SseInv, NEW after \in SUBSET {connection}, DestroyAndWait(after), UNCHANGED refusals
  PROVE  SseInv'
<1>1. connection \in Requests /\ request[connection] # "closed"
  BY DEF DestroyAndWait, WaitForClose, SseInv, StreamInv
<1> DEFINE k == connection
<1>2. /\ \A n \in Requests \ {k} : request'[n] = request[n]
      /\ request' \in [Requests -> Alive \union {"aborting", "closing", "leaving", "gone", "closed"}]
      /\ request'[k] = CASE request[k] = "pending" -> "aborting"
                         [] request[k] \in {"open", "silent"} -> "closing"
                         [] request[k] = "refused" -> "leaving"
                         [] OTHER -> request[k]
  BY <1>1 DEF DestroyAndWait, Destroyed, SseInv, SseTypeOK, Alive
<1>3. request'[k] \in Doomed
  BY <1>1, <1>2 DEF SseInv, SseTypeOK, Alive, Doomed
<1>4. /\ UNCHANGED stateVars
      /\ disconnecting' = disconnecting \union {k}
      /\ reconnecting' = reconnecting \union after
  BY DEF DestroyAndWait, WaitForClose
<1>5. SseTypeOK' /\ TimeoutFitsState'
  BY <1>1, <1>2, <1>4 DEF SseInv, SseTypeOK, TimeoutFitsState, stateVars
<1>6. /\ state = "connecting" => request'[k] = "aborting"
      /\ state = "connected" => request'[k] \in {"closing", "leaving", "gone"}
  BY <1>2 DEF SseInv, StreamInv
<1>7. StreamInv'
  <2>1. UNCHANGED <<state, connection>> /\ Using /\ Using'
    BY <1>4 DEF DestroyAndWait, WaitForClose, stateVars, Using
  <2>2. \A n \in Requests : request'[n] # "closed" <=> Using' /\ connection' = n
    BY <1>1, <1>2, <1>3, <2>1 DEF SseInv, StreamInv, Doomed
  <2>3. \A n \in disconnecting' : request'[n] \in Doomed
    BY <1>2, <1>3, <1>4 DEF SseInv, SseTypeOK, StreamInv
  <2> QED  BY <1>1, <1>6, <2>1, <2>2, <2>3 DEF StreamInv
<1> QED  BY <1>5, <1>7 DEF SseInv

LEMMA SseStep ==
  ASSUME SseInv, [SseNext]_sseVars
  PROVE  SseInv'
<1> USE SseAssumption
<1>1. CASE Connect
  <2>1. CASE ~Using
    <3>1. PICK k \in Requests : Connecting(k)
      BY <1>1, <2>1 DEF Connect
    <3>2. timeout' = FALSE /\ UNCHANGED strays
      BY <1>1, <2>1 DEF Connect
    <3> QED  BY <2>1, <3>1, <3>2, ConnectingKeeps DEF SseInv, SseTypeOK
  <2>2. CASE Using
    BY <1>1, <2>2, DestroyKeeps DEF Connect
  <2> QED  BY <2>1, <2>2
<1>2. ASSUME DisconnectNow, UNCHANGED refusals PROVE SseInv'
  <2>1. CASE Using
    BY <1>2, <2>1, DestroyKeeps DEF DisconnectNow, Using
  <2>2. CASE ~Using
    BY <1>2, <2>2 DEF DisconnectNow, Using, DestroyAndWait, WaitForClose,
                      SseInv, SseTypeOK, TimeoutFitsState, StreamInv
  <2> QED  BY <2>1, <2>2
<1>3. CASE RetryConnect
  <2>1. ~Using /\ timeout' = FALSE /\ UNCHANGED strays
    BY <1>3 DEF RetryConnect, Using
  <2> QED  BY <1>3, <2>1, ConnectingKeeps DEF RetryConnect, SseInv, SseTypeOK
<1>4. CASE StrayTimeout
  <2>1. CASE state = "delayedReconnect"
    <3>1. PICK k \in Requests : Connecting(k)
      BY <1>4, <2>1 DEF StrayTimeout
    <3>2. ~Using /\ timeout' = FALSE /\ strays' \in 0..MaxStrays
      BY <1>4, <2>1 DEF StrayTimeout, Using, SseInv, SseTypeOK
    <3> QED  BY <3>1, <3>2, ConnectingKeeps
  <2>2. CASE state # "delayedReconnect"
    <3>1. strays' \in 0..MaxStrays
      BY <1>4, <2>2 DEF StrayTimeout, SseInv, SseTypeOK
    <3>2. UNCHANGED <<state, attempt, connection, receivedHeartbeat, timeout, requestVars>>
      BY <1>4, <2>2 DEF StrayTimeout
    <3> QED  BY <3>1, <3>2 DEF requestVars, SseInv, SseTypeOK, TimeoutFitsState, StreamInv, Using
  <2> QED  BY <2>1, <2>2
<1>5. CASE HeartbeatCheck
  <2>1. CASE receivedHeartbeat
    <3>1. receivedHeartbeat' = FALSE
      BY <1>5, <2>1 DEF HeartbeatCheck
    <3>2. UNCHANGED <<state, attempt, connection, timeout, strays, requestVars>>
      BY <1>5, <2>1 DEF HeartbeatCheck
    <3> QED  BY <3>1, <3>2 DEF requestVars, SseInv, SseTypeOK, TimeoutFitsState, StreamInv, Using
  <2>2. CASE ~receivedHeartbeat
    BY <1>5, <2>2, DestroyKeeps DEF HeartbeatCheck
  <2> QED  BY <2>1, <2>2 DEF SseInv, SseTypeOK
<1>6. ASSUME NEW k \in Requests, NEW accepted \in BOOLEAN, Response(k, accepted) PROVE SseInv'
  <2>1. /\ state = "connecting" /\ connection = k
        /\ state' = "connected" /\ connection' = k
        /\ request' = [request EXCEPT ![k] = IF accepted THEN "open" ELSE "refused"]
        /\ UNCHANGED disconnecting
    BY <1>6 DEF Response, SseInv, SseTypeOK, StreamInv, Using
  <2>2. SseTypeOK' /\ TimeoutFitsState'
    BY <1>6, <2>1 DEF Response, SseInv, SseTypeOK, TimeoutFitsState, Alive
  <2>3. k \notin disconnecting
    BY <1>6 DEF Response, SseInv, StreamInv, Doomed
  <2>4. StreamInv'
    BY <2>1, <2>2, <2>3 DEF SseInv, SseTypeOK, StreamInv, Using
  <2> QED  BY <2>2, <2>4 DEF SseInv
<1>7. ASSUME NEW k \in Requests, NotAuthenticated(k) PROVE SseInv'
  <2>1. refusals' \subseteq Requests
    BY <1>7 DEF NotAuthenticated, SseInv, SseTypeOK
  <2>2. CASE state = "disconnected"
    BY <1>7, <2>1, <2>2 DEF NotAuthenticated, stateVars, SseInv, SseTypeOK, TimeoutFitsState,
                            StreamInv, Using
  <2>3. CASE state = "delayedReconnect"
    BY <1>7, <2>1, <2>3 DEF NotAuthenticated, DisconnectNow, DestroyAndWait, WaitForClose, Using,
                            SseInv, SseTypeOK, TimeoutFitsState, StreamInv
  <2>4. CASE Using
    <3>1. DestroyAndWait({})
      BY <1>7, <2>4 DEF NotAuthenticated, DisconnectNow, Using
    <3>2. connection \in Requests
      BY <2>4 DEF SseInv, StreamInv
    <3>3. /\ UNCHANGED stateVars
          /\ disconnecting' = disconnecting \union {connection}
          /\ reconnecting' = reconnecting
          /\ request' = Destroyed(connection)
      BY <3>1 DEF DestroyAndWait, WaitForClose
    <3>4. /\ \A n \in Requests \ {connection} : request'[n] = request[n]
          /\ request' \in [Requests -> Alive \union {"aborting", "closing", "leaving", "gone", "closed"}]
          /\ request'[connection] \in Doomed
          /\ request[connection] \in {"pending", "aborting"} => request'[connection] = "aborting"
          /\ request[connection] \notin {"pending", "aborting"} =>
                request'[connection] \in {"closing", "leaving", "gone"}
      BY <2>4, <3>2, <3>3 DEF Destroyed, SseInv, SseTypeOK, StreamInv, Alive, Doomed
    <3>5. SseTypeOK' /\ TimeoutFitsState'
      BY <2>1, <3>2, <3>3, <3>4 DEF SseInv, SseTypeOK, TimeoutFitsState, stateVars
    <3>6. StreamInv'
      <4>1. UNCHANGED <<state, connection>> /\ Using'
        BY <2>4, <3>3 DEF stateVars, Using
      <4>2. \A n \in Requests : request'[n] # "closed" <=> Using' /\ connection' = n
        BY <2>4, <3>2, <3>4, <4>1 DEF SseInv, StreamInv, Doomed
      <4>3. \A n \in disconnecting' : request'[n] \in Doomed
        BY <3>2, <3>3, <3>4 DEF SseInv, SseTypeOK, StreamInv
      <4>4. /\ state' = "connecting" => request'[connection'] = "aborting"
            /\ state' = "connected" => request'[connection'] \in {"closing", "leaving", "gone"}
        BY <3>4, <4>1 DEF SseInv, StreamInv
      <4> QED  BY <3>2, <4>1, <4>2, <4>3, <4>4 DEF StreamInv
    <3> QED  BY <3>5, <3>6 DEF SseInv
  <2> QED  BY <2>2, <2>3, <2>4 DEF SseInv, SseTypeOK, Using
<1>8. ASSUME NEW k \in Requests, Heartbeat(k) PROVE SseInv'
  BY <1>8 DEF Heartbeat, requestVars, SseInv, SseTypeOK, TimeoutFitsState, StreamInv, Using
<1>9. ASSUME NEW k \in Requests, Vanish(k) PROVE SseInv'
  BY <1>9 DEF Vanish, stateVars, SseInv, SseTypeOK, TimeoutFitsState, StreamInv, Using, Alive,
              Doomed
<1>10. ASSUME NEW k \in Requests, Ends(k) PROVE SseInv'
  <2>1. /\ request[k] \in Alive /\ connection = k /\ Using
        /\ UNCHANGED <<strays, disconnecting, reconnecting, refusals>>
    BY <1>10 DEF Ends, Alive, SseInv, SseTypeOK, StreamInv
  <2>2. k \notin disconnecting
    BY <2>1 DEF SseInv, StreamInv, Doomed, Alive
  <2>3. CASE request[k] = "refused"
    <3>1. request' = [request EXCEPT ![k] = "gone"]
      BY <1>10, <2>3 DEF Ends, Ended
    <3>2. UNCHANGED <<state, attempt, connection, receivedHeartbeat, timeout>>
      BY <1>10, <2>3 DEF Ends
    <3>3. SseTypeOK' /\ TimeoutFitsState'
      BY <2>1, <3>1, <3>2 DEF SseInv, SseTypeOK, TimeoutFitsState
    <3>4. StreamInv'
      BY <2>1, <2>2, <2>3, <3>1, <3>2, <3>3 DEF SseInv, SseTypeOK, StreamInv, Using, Doomed
    <3> QED  BY <3>3, <3>4 DEF SseInv
  <2>4. CASE request[k] # "refused"
    <3>1. request' = [request EXCEPT ![k] = "closed"] /\ request[k] \in {"pending", "open", "silent"}
      BY <1>10, <2>1, <2>4 DEF Ends, Ended, Alive
    <3>2. \E n \in 0..MaxAttempt : DelayedReconnect(n)
      <4>1. Capped(attempt + 1, MaxAttempt) \in 0..MaxAttempt
        BY CapTyped DEF SseInv, SseTypeOK
      <4> QED  BY <1>10, <2>1, <3>1, <4>1 DEF Ends, SseInv, StreamInv, Using
    <3>3. SseTypeOK' /\ TimeoutFitsState'
      BY <2>1, <3>1, <3>2 DEF DelayedReconnect, SseInv, SseTypeOK, TimeoutFitsState
    <3>4. StreamInv'
      BY <2>1, <2>2, <3>1, <3>2 DEF DelayedReconnect, SseInv, SseTypeOK, StreamInv, Using
    <3> QED  BY <3>3, <3>4 DEF SseInv
  <2> QED  BY <2>3, <2>4
<1>11. ASSUME NEW k \in Requests, Closed(k) PROVE SseInv'
  <2>1. request[k] \in Doomed /\ Using /\ connection = k /\ timeout = FALSE
    BY <1>11 DEF Closed, Doomed, SseInv, StreamInv, TimeoutFitsState, SseTypeOK, Using
  <2>2. strays' \in 0..MaxStrays
    <3>1. strays \in 0..MaxStrays /\ Capped(strays + 1, MaxStrays) \in 0..MaxStrays
      BY CapTyped DEF SseInv, SseTypeOK
    <3> QED  BY <1>11, <3>1 DEF Closed
  <2>3. /\ disconnecting' = disconnecting \ {k}
        /\ reconnecting' = reconnecting \ {k}
        /\ UNCHANGED <<timeout, refusals>>
    BY <1>11 DEF Closed
  <2>4. \A n \in Requests \ {k} : request[n] = "closed" /\ n \notin disconnecting
    BY <2>1 DEF SseInv, StreamInv, Doomed
  <2>5. CASE k \in reconnecting
    <3> PICK n \in Requests \ {k} : /\ DoConnect(n, "disconnected")
                                   /\ request' = [request EXCEPT ![k] = "closed", ![n] = "pending"]
      BY <1>11, <2>5 DEF Closed
    <3>1. SseTypeOK' /\ TimeoutFitsState'
      BY <2>1, <2>2, <2>3 DEF DoConnect, SseInv, SseTypeOK, TimeoutFitsState, Alive
    <3>2. StreamInv'
      BY <2>3, <2>4 DEF DoConnect, SseInv, SseTypeOK, StreamInv, Using
    <3> QED  BY <3>1, <3>2 DEF SseInv
  <2>6. CASE k \notin reconnecting
    <3>1. /\ state' = "disconnected" /\ connection' = NoRequest
          /\ request' = [request EXCEPT ![k] = "closed"]
          /\ UNCHANGED <<attempt, receivedHeartbeat>>
      BY <1>11, <2>6 DEF Closed
    <3>2. SseTypeOK' /\ TimeoutFitsState'
      BY <2>1, <2>2, <2>3, <3>1 DEF SseInv, SseTypeOK, TimeoutFitsState
    <3>3. StreamInv'
      BY <2>3, <2>4, <3>1 DEF SseInv, SseTypeOK, StreamInv, Using
    <3> QED  BY <3>2, <3>3 DEF SseInv
  <2> QED  BY <2>5, <2>6
<1>12. CASE UNCHANGED sseVars
  BY <1>12 DEF sseVars, stateVars, requestVars, SseInv, SseTypeOK, TimeoutFitsState, StreamInv,
               Using
<1> QED  BY <1>1, <1>2, <1>3, <1>4, <1>5, <1>6, <1>7, <1>8, <1>9, <1>10, <1>11, <1>12
         DEF SseNext, RequestStep, Disconnect

LEMMA SseInvAlways == SseSpec => []SseInv
<1>1. SseInv /\ [SseNext]_sseVars => SseInv'
  BY SseStep
<1> QED  BY <1>1, InitInv, PTL DEF SseSpec

\* The state of the client, its requests and its timeouts are well typed; in particular
\* connect() waits only for a close that disconnect() has a handler for (SseClient.ts:81-96).
THEOREM SseTyped == SseSpec => []SseTypeOK
<1>1. SseInv => SseTypeOK
  BY DEF SseInv
<1> QED  BY <1>1, SseInvAlways, PTL

\* However calls, timeouts and events meet, there are never two live streams
\* (SseClient.ts:81-111).
THEOREM OneStreamAlways == SseSpec => []OneStream
<1>1. SseInv => OneStream
  BY DEF SseInv, StreamInv, OneStream, Alive
<1> QED  BY <1>1, SseInvAlways, PTL

\* The timeout of the state is armed exactly in the state that waits for it
\* (SseClient.ts:185-237).
THEOREM TimeoutFitsStateAlways == SseSpec => []TimeoutFitsState
<1>1. SseInv => TimeoutFitsState
  BY DEF SseInv
<1> QED  BY <1>1, SseInvAlways, PTL

\* The state refers to the stream that is alive, and never to a request whose close was
\* reported (SseClient.ts:133-202).
THEOREM StateFitsStreamAlways == SseSpec => []StateFitsStream
<1>1. SseInv => StateFitsStream
  BY DEF SseInv, StreamInv, StateFitsStream, Alive
<1> QED  BY <1>1, SseInvAlways, PTL
=============================================================================
