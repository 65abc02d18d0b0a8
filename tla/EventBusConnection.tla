------------------------- MODULE EventBusConnection -------------------------
(***************************************************************************)
(* The connection of EventBusClient (src/common/api/worker/                *)
(* EventBusClient.ts): the websocket, the state of the client, the two     *)
(* reconnect timers and the sleep detector.  The length of a delay is left *)
(* out: a timer that is armed may fire.                                    *)
(*                                                                         *)
(* connect() drops its reference to an armed connect timer without         *)
(* cancelling it, and terminate() cancels none; a timer without reference  *)
(* is counted in orphanTimers.  connect() replaces the socket and removes  *)
(* the handlers of the old one, so only the current socket can report      *)
(* events.                                                                 *)
(*                                                                         *)
(* initSession and resetSession of LoginFacade are two steps each: the     *)
(* user is set, and connect() called after a few requests; the client is   *)
(* terminated, and the user forgotten after the cache was closed.  Timers  *)
(* and socket events may come between.                                     *)
(***************************************************************************)
EXTENDS Naturals

CONSTANTS
    NoTimer,        \* null
    MaxOrphans      \* bound: connect timers without a reference

ASSUME ConnectionAssumption ==
    /\ MaxOrphans \in Nat
    /\ NoTimer \notin [closeIfOpen : BOOLEAN, enable : BOOLEAN]

VARIABLES
    state,              \* EventBusState
    socket,             \* readyState of the current socket, "null" before the first
    immediateReconnect, \* reconnect without delay when the socket is closed
    reconnectTimer,     \* the arguments of the armed reconnect() call
    connectTimer,       \* is the connect timer that the client refers to armed?
    orphanTimers,       \* armed connect timers that it does not refer to
    sleepDetector,      \* does the sleep detector check?
    loggedIn,           \* userFacade has a user whose group key is unlocked
    call,               \* the call of LoginFacade that is under way
    failedAttempts,     \* failedConnectionAttempts; more than three count as three
    shown               \* the WsConnectionState last reported to the views

connVars == <<state, socket, immediateReconnect, reconnectTimer, connectTimer,
              orphanTimers, sleepDetector, loggedIn, call, failedAttempts, shown>>

State == {"automatic", "suspended", "terminated"}
Down == {"null", "closing", "closed"}
Arguments == [closeIfOpen : BOOLEAN, enable : BOOLEAN]

ConnInit ==
    /\ state = "terminated"
    /\ socket = "null"
    /\ immediateReconnect = FALSE
    /\ reconnectTimer = NoTimer
    /\ connectTimer = FALSE
    /\ orphanTimers = 0
    /\ sleepDetector = FALSE
    /\ loggedIn = FALSE
    /\ call = "none"
    /\ failedAttempts = 0
    /\ shown = "terminated"
-----------------------------------------------------------------------------
CloseSocket(s) == IF s \in {"connecting", "open"} THEN "closing" ELSE s

(* Variant with a bug: the socket is not looked at.                        *)
ReconnectAnyway(closeIfOpen, enable, s) ==
    LET next == IF state # "terminated" /\ enable THEN "automatic" ELSE state
    IN  /\ state' = next
        /\ connectTimer' = (connectTimer \/ (next # "terminated" /\ loggedIn))
        /\ socket' = s
        /\ UNCHANGED immediateReconnect

(* reconnect(): close an open socket, or arm the connect timer. *)
Reconnect(closeIfOpen, enable, s) ==
    LET next == IF state # "terminated" /\ enable THEN "automatic" ELSE state
    IN  /\ state' = next
        /\ IF closeIfOpen /\ s = "open"
           THEN /\ immediateReconnect' = TRUE
                /\ socket' = "closing"
                /\ UNCHANGED connectTimer
           ELSE /\ UNCHANGED immediateReconnect
                /\ connectTimer' =
                     (connectTimer \/ (s \in Down /\ next # "terminated" /\ loggedIn))
                /\ socket' = s

(* connect(): a new socket; the armed timers stay armed.  Without a user   *)
(* getLoggedInUser() throws when the state has been set and reported.      *)
Connect(orphans) ==
    /\ state' = "automatic"
    /\ shown' = "connecting"
    /\ connectTimer' = FALSE
    /\ orphanTimers' = orphans
    /\ IF loggedIn THEN socket' = "connecting" /\ sleepDetector' = TRUE
                   ELSE UNCHANGED <<socket, sleepDetector>>
    /\ UNCHANGED <<immediateReconnect, reconnectTimer, loggedIn, failedAttempts>>

Orphans == IF connectTimer THEN orphanTimers + 1 ELSE orphanTimers

(* initSession: the user logs in, for the first time or again after the    *)
(* session has expired.                                                    *)
SetUser ==
    /\ call = "none"
    /\ call' = "login"
    /\ loggedIn' = TRUE
    /\ UNCHANGED <<state, socket, immediateReconnect, reconnectTimer, connectTimer,
                   orphanTimers, sleepDetector, failedAttempts, shown>>

Login ==
    /\ call = "login"
    /\ Orphans <= MaxOrphans
    /\ Connect(Orphans)
    /\ call' = "none"

(* The connect timer fires; the one that is referred to, or another. *)
ConnectTimer ==
    /\ \/ connectTimer /\ Connect(orphanTimers)
       \/ orphanTimers > 0 /\ Connect(Orphans - 1)
    /\ UNCHANGED call

(* resetSession: logout, or a login that failed. *)
Terminate ==
    /\ call # "reset"
    /\ call' = "reset"
    /\ state' = "terminated"
    /\ immediateReconnect' = FALSE
    /\ socket' = CloseSocket(socket)
    /\ shown' = "terminated"
    /\ UNCHANGED <<reconnectTimer, connectTimer, orphanTimers, sleepDetector, loggedIn,
                   failedAttempts>>

ResetUser ==
    /\ call = "reset"
    /\ call' = "none"
    /\ loggedIn' = FALSE
    /\ UNCHANGED <<state, socket, immediateReconnect, reconnectTimer, connectTimer,
                   orphanTimers, sleepDetector, failedAttempts, shown>>

(* close(Pause) when the app goes to the background, close(Reconnect) when *)
(* the missed events could not be loaded.                                  *)
Close(option) ==
    /\ state' = IF option = "pause" THEN "suspended" ELSE state
    /\ socket' = CloseSocket(socket)
    /\ shown' = "connecting"
    /\ UNCHANGED <<immediateReconnect, reconnectTimer, connectTimer, orphanTimers,
                   sleepDetector, loggedIn, call, failedAttempts>>

(* Variant with a bug: the old timer is cancelled, and no new attempt made. *)
TryReconnectCancels(closeIfOpen, enable) ==
    /\ reconnectTimer' = NoTimer
    /\ UNCHANGED <<state, socket, immediateReconnect, connectTimer, orphanTimers,
                   sleepDetector, loggedIn, call, failedAttempts, shown>>

(* tryReconnect() of the views and of the app, with or without delay. *)
TryReconnect(closeIfOpen, enable) ==
    /\ reconnectTimer' = NoTimer
    /\ Reconnect(closeIfOpen, enable, socket)
    /\ UNCHANGED <<orphanTimers, sleepDetector, loggedIn, call, failedAttempts, shown>>

TryReconnectLater(closeIfOpen, enable) ==
    /\ reconnectTimer' = [closeIfOpen |-> closeIfOpen, enable |-> enable]
    /\ UNCHANGED <<state, socket, immediateReconnect, connectTimer, orphanTimers,
                   sleepDetector, loggedIn, call, failedAttempts, shown>>

ReconnectTimer ==
    /\ reconnectTimer # NoTimer
    /\ TryReconnect(reconnectTimer.closeIfOpen, reconnectTimer.enable)

SleepDetected ==
    /\ sleepDetector
    /\ TryReconnect(TRUE, TRUE)
-----------------------------------------------------------------------------
(* onOpen of the current socket. *)
SocketOpens ==
    /\ socket = "connecting"
    /\ socket' = "open"
    /\ failedAttempts' = 0
    /\ shown' = "connected"
    /\ UNCHANGED <<state, immediateReconnect, reconnectTimer, connectTimer,
                   orphanTimers, sleepDetector, loggedIn, call>>

(* onClose: the server refuses the session, the session is expired, or the *)
(* connection is gone.                                                     *)
Closes ==
    /\ socket \in {"connecting", "open", "closing"}
    /\ failedAttempts' = IF failedAttempts = 3 THEN 3 ELSE failedAttempts + 1
    /\ sleepDetector' = FALSE
    /\ UNCHANGED <<orphanTimers, loggedIn, call>>

SocketRefused ==
    /\ Closes
    /\ state' = "terminated"
    /\ socket' = "closed"
    /\ immediateReconnect' = FALSE
    /\ shown' = "terminated"
    /\ UNCHANGED <<reconnectTimer, connectTimer>>

SessionExpired ==
    /\ Closes
    /\ state' = "suspended"
    /\ socket' = "closed"
    /\ shown' = "connecting"
    /\ UNCHANGED <<immediateReconnect, reconnectTimer, connectTimer>>

(* Variants with a bug: nothing is reported before the reconnect; the       *)
(* client gives up after three attempts.                                   *)
SocketLostQuietly ==
    /\ Closes
    /\ IF state = "automatic" /\ loggedIn
       THEN /\ reconnectTimer' = [closeIfOpen |-> FALSE, enable |-> FALSE]
            /\ immediateReconnect' = FALSE
       ELSE UNCHANGED <<immediateReconnect, reconnectTimer>>
    /\ socket' = "closed"
    /\ UNCHANGED <<state, connectTimer, shown>>
SocketLostGivesUp ==
    /\ Closes
    /\ IF state = "automatic" /\ loggedIn
       THEN /\ shown' = "connecting"
            /\ reconnectTimer' = IF failedAttempts = 3 THEN reconnectTimer
                                 ELSE [closeIfOpen |-> FALSE, enable |-> FALSE]
            /\ immediateReconnect' = FALSE
       ELSE UNCHANGED <<immediateReconnect, reconnectTimer, shown>>
    /\ socket' = "closed"
    /\ UNCHANGED <<state, connectTimer>>

SocketLost ==
    /\ Closes
    /\ \/ /\ state = "automatic" /\ loggedIn /\ immediateReconnect
          /\ immediateReconnect' = FALSE
          /\ shown' = "connecting"
          /\ reconnectTimer' = NoTimer
          /\ connectTimer' = TRUE
       \/ /\ state = "automatic" /\ loggedIn /\ ~immediateReconnect
          /\ shown' = "connecting"
          /\ reconnectTimer' = [closeIfOpen |-> FALSE, enable |-> FALSE]
          /\ UNCHANGED <<immediateReconnect, connectTimer>>
       \/ /\ ~(state = "automatic" /\ loggedIn)
          /\ UNCHANGED <<immediateReconnect, reconnectTimer, connectTimer, shown>>
    /\ socket' = "closed"
    /\ UNCHANGED state

ConnNext ==
    \/ SetUser \/ Login \/ Terminate \/ ResetUser \/ Close("pause") \/ Close("reconnect")
    \/ \E c, e \in BOOLEAN : TryReconnect(c, e) \/ TryReconnectLater(c, e)
    \/ ReconnectTimer \/ ConnectTimer \/ SleepDetected
    \/ SocketOpens \/ SocketRefused \/ SessionExpired \/ SocketLost

ConnFairness ==
    /\ WF_connVars(ReconnectTimer)
    /\ WF_connVars(ConnectTimer)
    /\ WF_connVars(SocketLost /\ socket = "closing")

ConnSpec == ConnInit /\ [][ConnNext]_connVars /\ ConnFairness
-----------------------------------------------------------------------------
(* Every variable has its type; timers without reference are bounded.      *)
ConnTypeOK ==
    /\ state \in State
    /\ socket \in {"null", "connecting", "open", "closing", "closed"}
    /\ immediateReconnect \in BOOLEAN
    /\ reconnectTimer \in Arguments \union {NoTimer}
    /\ connectTimer \in BOOLEAN
    /\ orphanTimers \in 0..MaxOrphans
    /\ sleepDetector \in BOOLEAN
    /\ loggedIn \in BOOLEAN
    /\ call \in {"none", "login", "reset"}
    /\ failedAttempts \in 0..3
    /\ shown \in {"connecting", "connected", "terminated"}

(* A client that should reconnect by itself never waits for nothing: while *)
(* it is in the automatic state, with a user and without a socket, one of  *)
(* its timers is armed, or initSession is about to connect it              *)
(* (EventBusClient.ts:250-260, 350-370, 590-605).                          *)
NeverStranded ==
    (state = "automatic" /\ loggedIn /\ call # "login" /\ socket \in {"null", "closed"}) =>
        reconnectTimer # NoTimer \/ connectTimer \/ orphanTimers > 0

(* Nothing but a login connects a terminated client: "the client is        *)
(* terminated (does not automatically reconnect)"                          *)
(* (EventBusClient.ts:219-220).                                            *)
TerminatedStays ==
    [][state = "terminated" /\ socket \in Down /\ socket' = "connecting" => Login]_connVars

(* The timer that the client refers to never finds a socket that is alive: *)
(* connect() would forget it while the server takes the client for         *)
(* connected (EventBusClient.ts:204, 590-605).                             *)
TimerFindsNoSocket == connectTimer => socket \in Down

(* The views of a user never show a connection that is gone: nothing but   *)
(* the reports of this client tells them (offline indicator), and not      *)
(* every branch of onClose reports (EventBusClient.ts:343-371).            *)
ShownIsTrue ==
    (shown = "connected" /\ loggedIn /\ call # "login") => socket \in {"open", "closing"}

(* Once connecting is asked for again, the client makes a new attempt or   *)
(* is told to stop.                                                        *)
Reconnects ==
    (state = "automatic" /\ loggedIn /\ call = "none" /\ socket \in Down) ~>
        (socket \in {"connecting", "open"} \/ state # "automatic" \/ call # "none")
=============================================================================
