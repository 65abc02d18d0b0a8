--------------------- MODULE EventBusConnection_proofs ---------------------
(***************************************************************************)
(* The connection never waits for nothing, it shows what is, and the timer *)
(* it refers to finds no socket that is alive, whatever calls, timers and  *)
(* socket events meet, and with any number of timers without reference.    *)
(***************************************************************************)
EXTENDS EventBusConnection, TLAPS

Flags ==
    /\ immediateReconnect \in BOOLEAN
    /\ connectTimer \in BOOLEAN
    /\ sleepDetector \in BOOLEAN
    /\ loggedIn \in BOOLEAN

Values ==
    /\ state \in State
    /\ socket \in {"null", "connecting", "open", "closing", "closed"}
    /\ reconnectTimer \in Arguments \union {NoTimer}
    /\ orphanTimers \in 0..MaxOrphans
    /\ call \in {"none", "login", "reset"}
    /\ failedAttempts \in 0..3
    /\ shown \in {"connecting", "connected", "terminated"}

LEMMA TypeParts == ConnTypeOK <=> Flags /\ Values
  BY DEF ConnTypeOK, Flags, Values

LEMMA FlagsStep == Flags /\ [ConnNext]_connVars => Flags'
<1>1. ASSUME Flags, ConnNext PROVE Flags'
  BY <1>1 DEF ConnNext, SocketLost, Closes, Flags, SetUser, Login, Terminate, ResetUser, Connect, Close,
              TryReconnect, Reconnect, TryReconnectLater, ReconnectTimer,
              ConnectTimer, SleepDetected, SocketOpens, SocketRefused, SessionExpired
<1>2. ASSUME Flags, UNCHANGED connVars PROVE Flags'
  BY <1>2 DEF Flags, connVars
<1> QED  BY <1>1, <1>2

LEMMA ValuesStep == Values /\ [ConnNext]_connVars => Values'
<1> SUFFICES ASSUME Values, [ConnNext]_connVars
             PROVE  Values'
  OBVIOUS
<1> USE ConnectionAssumption DEF Values, State
<1>1. CASE Login
  BY <1>1 DEF Login, Connect, Orphans
<1>2. CASE SetUser \/ Terminate \/ ResetUser
  BY <1>2 DEF SetUser, Terminate, ResetUser, CloseSocket
<1>3. ASSUME NEW option, Close(option) PROVE Values'
  BY <1>3 DEF Close, CloseSocket
<1>4. ASSUME NEW c, NEW e, TryReconnect(c, e) PROVE Values'
  BY <1>4 DEF TryReconnect, Reconnect
<1>5. ASSUME NEW c \in BOOLEAN, NEW e \in BOOLEAN, TryReconnectLater(c, e) PROVE Values'
  BY <1>5 DEF TryReconnectLater, Arguments
<1>6. CASE ReconnectTimer
  BY <1>6, <1>4 DEF ReconnectTimer
<1>7. CASE ConnectTimer
  BY <1>7 DEF ConnectTimer, Connect, Orphans
<1>8. CASE SleepDetected
  BY <1>8, <1>4 DEF SleepDetected
<1>9. CASE SocketOpens
  BY <1>9 DEF SocketOpens
<1>10. CASE SocketRefused
  BY <1>10 DEF SocketRefused, Closes
<1>11. CASE SessionExpired
  BY <1>11 DEF SessionExpired, Closes
<1>12. CASE SocketLost
  <2>1. failedAttempts' \in 0..3
    BY <1>12 DEF SocketLost, Closes
  <2>2. reconnectTimer' \in Arguments \union {NoTimer}
    <3>1. [closeIfOpen |-> FALSE, enable |-> FALSE] \in Arguments
      BY DEF Arguments
    <3>2. reconnectTimer' \in {reconnectTimer, NoTimer, [closeIfOpen |-> FALSE, enable |-> FALSE]}
      BY <1>12, Zenon DEF SocketLost
    <3> QED  BY <3>1, <3>2
  <2>3. socket' = "closed" /\ shown' \in {shown, "connecting"}
    BY <1>12 DEF SocketLost
  <2>4. state' = state /\ orphanTimers' = orphanTimers /\ call' = call
    BY <1>12 DEF SocketLost, Closes
  <2> QED  BY <2>1, <2>2, <2>3, <2>4
<1>13. CASE UNCHANGED connVars
  BY <1>13 DEF connVars
<1> QED
  BY <1>1, <1>2, <1>3, <1>4, <1>5, <1>6, <1>7, <1>8, <1>9, <1>10, <1>11, <1>12, <1>13
     DEF ConnNext

(* Every variable of the connection keeps its type, with any number of     *)
(* timers that lost their reference (EventBusClient.ts:102-157).           *)
THEOREM ConnectionTyped == ConnSpec => []ConnTypeOK
<1>1. ConnInit => Flags
  BY DEF ConnInit, Flags
<1>2. ConnInit => Values
  BY ConnectionAssumption DEF ConnInit, Values, State
<1> QED
  BY <1>1, <1>2, FlagsStep, ValuesStep, TypeParts, PTL DEF ConnSpec
-----------------------------------------------------------------------------
(* Whatever races, a client that should reconnect by itself has an armed   *)
(* timer: every way out of an open socket arms one, and a timer is only    *)
(* given up for a new attempt (EventBusClient.ts:250-260, 350-370,         *)
(* 590-605).                                                               *)
THEOREM NeverStrandedAlways == ConnSpec => []NeverStranded
<1>1. ConnInit => NeverStranded
  BY DEF ConnInit, NeverStranded
<1>2. NeverStranded /\ ConnTypeOK /\ [ConnNext]_connVars => NeverStranded'
  <2> SUFFICES ASSUME NeverStranded, orphanTimers \in Nat, [ConnNext]_connVars
               PROVE  NeverStranded'
    BY ConnectionAssumption DEF ConnTypeOK
  <2> USE ConnectionAssumption DEF NeverStranded
  <2>1. CASE Login \/ ConnectTimer
    BY <2>1 DEF Login, ConnectTimer, Connect
  <2>2. CASE SetUser \/ Terminate \/ ResetUser
    BY <2>2 DEF SetUser, Terminate, ResetUser
  <2>3. ASSUME NEW option, Close(option) PROVE NeverStranded'
    BY <2>3 DEF Close, CloseSocket
  <2>4. ASSUME NEW c, NEW e, TryReconnect(c, e) PROVE NeverStranded'
    BY <2>4 DEF TryReconnect, Reconnect, Down
  <2>5. ASSUME NEW c \in BOOLEAN, NEW e \in BOOLEAN, TryReconnectLater(c, e)
        PROVE  NeverStranded'
    BY <2>5 DEF TryReconnectLater
  <2>6. CASE ReconnectTimer \/ SleepDetected
    BY <2>6, <2>4 DEF ReconnectTimer, SleepDetected
  <2>7. CASE SocketOpens
    BY <2>7 DEF SocketOpens
  <2>8. CASE SocketRefused \/ SessionExpired
    BY <2>8 DEF SocketRefused, SessionExpired
  <2>9. CASE SocketLost
    <3>1. [closeIfOpen |-> FALSE, enable |-> FALSE] # NoTimer
      <4>1. [closeIfOpen |-> FALSE, enable |-> FALSE] \in [closeIfOpen : BOOLEAN, enable : BOOLEAN]
        OBVIOUS
      <4> QED  BY <4>1, NoTimer \notin [closeIfOpen : BOOLEAN, enable : BOOLEAN], Zenon
    <3>2. state' = state /\ loggedIn' = loggedIn /\ call' = call
      BY <2>9 DEF SocketLost, Closes
    <3>3. state = "automatic" /\ loggedIn => connectTimer' \/ reconnectTimer' # NoTimer
      BY <2>9, <3>1, Zenon DEF SocketLost
    <3> QED  BY <3>2, <3>3
  <2>10. CASE UNCHANGED connVars
    BY <2>10 DEF connVars
  <2> QED
    BY <2>1, <2>2, <2>3, <2>4, <2>5, <2>6, <2>7, <2>8, <2>9, <2>10 DEF ConnNext
<1> QED
  BY <1>1, <1>2, ConnectionTyped, PTL DEF ConnSpec
-----------------------------------------------------------------------------
(* Strengthening: a socket that is being made belongs to a client that     *)
(* will report its end; so does one that is shown, as long as the user is  *)
(* there.                                                                  *)
ReportsInv ==
    /\ connectTimer => socket \in Down
    /\ socket = "connecting" => state = "automatic"
    /\ (shown = "connected" /\ loggedIn /\ call # "login") =>
          socket \in {"open", "closing"} /\ state = "automatic"

LEMMA ReportsInit == ConnInit => ReportsInv
  BY DEF ConnInit, ReportsInv

LEMMA ReportsStep == ReportsInv /\ [ConnNext]_connVars => ReportsInv'
<1> SUFFICES ASSUME ReportsInv, [ConnNext]_connVars
             PROVE  ReportsInv'
  OBVIOUS
<1> USE DEF ReportsInv, Down
<1>1. CASE Login \/ ConnectTimer
  <2>1. PICK orphans : Connect(orphans)
    BY <1>1 DEF Login, ConnectTimer
  <2>2. state' = "automatic" /\ shown' = "connecting" /\ ~connectTimer'
        /\ socket' \in {socket, "connecting"}
    BY <2>1, Zenon DEF Connect
  <2> QED  BY <2>2
<1>2. CASE SetUser \/ Terminate \/ ResetUser
  BY <1>2 DEF SetUser, Terminate, ResetUser, CloseSocket
<1>3. ASSUME NEW option, Close(option) PROVE ReportsInv'
  BY <1>3 DEF Close, CloseSocket
<1>4. ASSUME NEW c, NEW e, TryReconnect(c, e) PROVE ReportsInv'
  BY <1>4 DEF TryReconnect, Reconnect
<1>5. ASSUME NEW c, NEW e, TryReconnectLater(c, e) PROVE ReportsInv'
  BY <1>5 DEF TryReconnectLater
<1>6. CASE ReconnectTimer \/ SleepDetected
  BY <1>6, <1>4 DEF ReconnectTimer, SleepDetected
<1>7. CASE SocketOpens
  BY <1>7 DEF SocketOpens
<1>8. CASE SocketRefused
  BY <1>8 DEF SocketRefused, Closes
<1>9. CASE SessionExpired
  BY <1>9 DEF SessionExpired, Closes
<1>10. CASE SocketLost
  BY <1>10 DEF SocketLost, Closes
<1>11. CASE UNCHANGED connVars
  BY <1>11 DEF connVars
<1> QED
  BY <1>1, <1>2, <1>3, <1>4, <1>5, <1>6, <1>7, <1>8, <1>9, <1>10, <1>11 DEF ConnNext

(* What the views of a user show is true: the offline indicator never      *)
(* shows "connected" without a socket (EventBusClient.ts:343-371).         *)
THEOREM ShownIsTrueAlways == ConnSpec => []ShownIsTrue
<1>1. ReportsInv => ShownIsTrue
  BY DEF ReportsInv, ShownIsTrue
<1> QED
  BY <1>1, ReportsInit, ReportsStep, PTL DEF ConnSpec

(* The connect timer that the client refers to never fires beside a socket *)
(* that is alive (EventBusClient.ts:204-206, 590-605).                     *)
THEOREM TimerFindsNoSocketAlways == ConnSpec => []TimerFindsNoSocket
<1>1. ReportsInv => TimerFindsNoSocket
  BY DEF ReportsInv, TimerFindsNoSocket
<1> QED
  BY <1>1, ReportsInit, ReportsStep, PTL DEF ConnSpec
=============================================================================
