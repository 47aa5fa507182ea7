----------------------------- MODULE SpineClient -----------------------------
(***************************************************************************)
(* The WebSocket half of the Spine client (src/lib/spine-client.js):       *)
(* connect, reconnect with backoff, heartbeat, subscribe, disconnect.      *)
(*                                                                         *)
(* Every event listener runs to its end, so it is one action.  A listener  *)
(* belongs to the socket it was registered on but reads and writes the     *)
(* variable ws, which may by then hold another socket: an event carries    *)
(* its socket s, and s # ws is a case of its own.                          *)
(*                                                                         *)
(* Socket is external (the ws package): CONNECTING, OPEN, CLOSING, CLOSED, *)
(* the close event comes once, some time after CLOSING.  A closed socket   *)
(* emits nothing more, so its name is used again for the next one.         *)
(***************************************************************************)
EXTENDS Naturals, FiniteSets

CONSTANTS
  Socket,           \* names for the sockets that exist at once
  null,             \* ws before connect and after disconnect
  Filter,           \* subscription filters
  MAX_MISSED_PONGS,
  BASE_DELAY,       \* 1000 ms
  MAX_RECONNECT_DELAY,
  Reuse,            \* may connect() be called again after disconnect()?
  MaxConnects       \* bound on the number of calls of connect()

ASSUME ClientAssumption ==
  /\ null \notin Socket
  /\ MAX_MISSED_PONGS \in Nat /\ MaxConnects \in Nat /\ Reuse \in BOOLEAN
  /\ BASE_DELAY \in Nat /\ MAX_RECONNECT_DELAY \in Nat
  /\ BASE_DELAY <= MAX_RECONNECT_DELAY

VARIABLES
  ws,
  connected,
  intentionalClose,
  reconnectDelay,
  reconnectTimer,     \* the timer is set
  pingTimer,          \* the heartbeat interval is running
  missedPongs,
  subscriptionFilters,
  readyState,         \* of each socket
  subscribed,         \* Spine: the filters sent over each socket
  peerAlive,          \* the other end of each socket still answers
  silent,             \* history: pings sent on each socket since its last pong
  connects,           \* history: calls of connect()
  crashed             \* a listener threw: uncaught exception, process gone

timers == <<reconnectTimer, pingTimer, missedPongs>>
sockets == <<readyState, subscribed, peerAlive, silent>>
vars == <<ws, connected, intentionalClose, reconnectDelay, timers,
          subscriptionFilters, sockets, connects, crashed>>

-----------------------------------------------------------------------------
IsOpen(s) == s # null /\ readyState[s] = "OPEN"

isConnected == connected /\ IsOpen(ws)

Init ==
  /\ ws = null
  /\ connected = FALSE
  /\ intentionalClose = FALSE
  /\ reconnectDelay = BASE_DELAY
  /\ reconnectTimer = FALSE
  /\ pingTimer = FALSE
  /\ missedPongs = 0
  /\ subscriptionFilters = {}
  /\ readyState = [s \in Socket |-> "CLOSED"]
  /\ subscribed = [s \in Socket |-> {}]
  /\ peerAlive = [s \in Socket |-> TRUE]
  /\ silent = [s \in Socket |-> 0]
  /\ connects = 0
  /\ crashed = FALSE

-----------------------------------------------------------------------------
\* ws = new WebSocket(wsUrl)
doConnect ==
  \E s \in Socket :
    /\ readyState[s] = "CLOSED"
    /\ ws' = s
    /\ readyState' = [readyState EXCEPT ![s] = "CONNECTING"]
    /\ subscribed' = [subscribed EXCEPT ![s] = {}]
    /\ peerAlive' = [peerAlive EXCEPT ![s] = TRUE]
    /\ silent' = [silent EXCEPT ![s] = 0]

\* mutant: the interval is neither set nor cleared
resetHeartbeat == UNCHANGED pingTimer /\ missedPongs' = 0

startHeartbeat == pingTimer' = TRUE /\ missedPongs' = 0

stopHeartbeat == pingTimer' = FALSE /\ missedPongs' = 0

scheduleReconnect ==
  IF intentionalClose \/ reconnectTimer
  THEN UNCHANGED <<reconnectTimer, reconnectDelay>>
  ELSE /\ reconnectTimer' = TRUE
       /\ reconnectDelay' = IF 2 * reconnectDelay < MAX_RECONNECT_DELAY
                            THEN 2 * reconnectDelay ELSE MAX_RECONNECT_DELAY

-----------------------------------------------------------------------------
(* The owner's calls.                                                      *)

\* Frames go out on ws: ws.send throws on a CONNECTING socket (and on null),
\* and drops the frame on a closing or closed one.
sendThrows(s) == ws = null \/ (ws # s /\ readyState[ws] = "CONNECTING")

\* mutant: the filters are not sent again
registerOnly(s) == subscribed' = subscribed

\* The open listener of s registers and subscribes to every filter so far.
resubscribe(s) ==
  subscribed' = IF ws = s \/ readyState[ws] = "OPEN"
                THEN [subscribed EXCEPT ![ws] = subscriptionFilters]
                ELSE subscribed

connect ==
  /\ ~crashed
  /\ connects < MaxConnects
  /\ connects = 0 \/ intentionalClose
  /\ Reuse \/ ~intentionalClose
  /\ connects' = connects + 1
  /\ intentionalClose' = FALSE
  /\ doConnect
  /\ UNCHANGED <<connected, reconnectDelay, timers, subscriptionFilters,
                 crashed>>

subscribe(f) ==
  /\ ~crashed /\ f \notin subscriptionFilters
  /\ subscriptionFilters' = subscriptionFilters \cup {f}
  /\ IF IsOpen(ws)
     THEN subscribed' = [subscribed EXCEPT ![ws] = @ \cup {f}]
     ELSE UNCHANGED subscribed
  /\ UNCHANGED <<ws, connected, intentionalClose, reconnectDelay, timers,
                 readyState, peerAlive, silent, connects, crashed>>

\* mutant: ws is forgotten, not closed
disconnectWithoutClose ==
  /\ ~crashed
  /\ intentionalClose' = TRUE
  /\ stopHeartbeat
  /\ reconnectTimer' = FALSE
  /\ ws' = null
  /\ connected' = FALSE
  /\ UNCHANGED <<reconnectDelay, subscriptionFilters, sockets, connects,
                 crashed>>

\* disconnect, and close, its alias.
disconnect ==
  /\ ~crashed
  /\ intentionalClose' = TRUE
  /\ stopHeartbeat
  /\ reconnectTimer' = FALSE
  /\ readyState' =
       [s \in Socket |->
          IF s = ws /\ readyState[s] \in {"CONNECTING", "OPEN"}
          THEN "CLOSING" ELSE readyState[s]]
  /\ ws' = null
  /\ connected' = FALSE
  /\ UNCHANGED <<reconnectDelay, subscriptionFilters, subscribed, peerAlive,
                 silent, connects, crashed>>

-----------------------------------------------------------------------------
(* Timers.                                                                 *)

\* mutant: an interval instead of a timeout
ReconnectInterval ==
  /\ ~crashed /\ reconnectTimer
  /\ IF intentionalClose THEN UNCHANGED <<ws, sockets>> ELSE doConnect
  /\ UNCHANGED <<connected, intentionalClose, reconnectDelay, timers,
                 subscriptionFilters, connects, crashed>>

ReconnectTimer ==
  /\ ~crashed /\ reconnectTimer
  /\ reconnectTimer' = FALSE
  /\ IF intentionalClose THEN UNCHANGED <<ws, sockets>> ELSE doConnect
  /\ UNCHANGED <<connected, intentionalClose, reconnectDelay, pingTimer,
                 missedPongs, subscriptionFilters, connects, crashed>>

\* mutant: one ping fewer
AllMissed(n) == n >= MAX_MISSED_PONGS

TooManyMissed(n) == n > MAX_MISSED_PONGS

\* A tick on a socket that is not open returns at once.
HeartbeatTick ==
  /\ ~crashed /\ pingTimer /\ IsOpen(ws)
  /\ missedPongs' = missedPongs + 1
  /\ \/ /\ TooManyMissed(missedPongs')      \* terminate
        /\ readyState' = [readyState EXCEPT ![ws] = "CLOSING"]
        /\ UNCHANGED silent
     \/ /\ ~TooManyMissed(missedPongs')     \* ping
        /\ silent' = [silent EXCEPT ![ws] = @ + 1]
        /\ UNCHANGED readyState
  /\ UNCHANGED <<ws, connected, intentionalClose, reconnectDelay,
                 reconnectTimer, pingTimer, subscriptionFilters, subscribed,
                 peerAlive, connects, crashed>>

-----------------------------------------------------------------------------
(* Socket events.                                                          *)

\* open: registers, subscribes and starts the heartbeat on ws, whichever
\* socket that is by now.
OnOpen(s) ==
  /\ ~crashed /\ readyState[s] = "CONNECTING"
  /\ readyState' = [readyState EXCEPT ![s] = "OPEN"]
  /\ connected' = TRUE
  /\ reconnectDelay' = BASE_DELAY
  /\ crashed' = sendThrows(s)
  /\ \/ ~sendThrows(s) /\ resubscribe(s) /\ startHeartbeat
     \/ sendThrows(s) /\ UNCHANGED <<subscribed, pingTimer, missedPongs>>
  /\ UNCHANGED <<ws, intentionalClose, reconnectTimer, subscriptionFilters,
                 peerAlive, silent, connects>>

\* mutant: only a connection that was up is made again
OnCloseIfConnected(s) ==
  /\ ~crashed /\ readyState[s] = "CLOSING"
  /\ readyState' = [readyState EXCEPT ![s] = "CLOSED"]
  /\ connected' = FALSE
  /\ stopHeartbeat
  /\ IF connected THEN scheduleReconnect
     ELSE UNCHANGED <<reconnectTimer, reconnectDelay>>
  /\ UNCHANGED <<ws, intentionalClose, subscriptionFilters, subscribed,
                 peerAlive, silent, connects, crashed>>

\* close: does not ask whether s is still ws.
OnClose(s) ==
  /\ ~crashed /\ readyState[s] = "CLOSING"
  /\ readyState' = [readyState EXCEPT ![s] = "CLOSED"]
  /\ connected' = FALSE
  /\ stopHeartbeat
  /\ scheduleReconnect
  /\ UNCHANGED <<ws, intentionalClose, subscriptionFilters, subscribed,
                 peerAlive, silent, connects, crashed>>

OnPong(s) ==
  /\ ~crashed /\ peerAlive[s] /\ silent[s] > 0
  /\ readyState[s] \in {"OPEN", "CLOSING"}
  /\ missedPongs' = 0
  /\ silent' = [silent EXCEPT ![s] = 0]
  /\ UNCHANGED <<ws, connected, intentionalClose, reconnectDelay,
                 reconnectTimer, pingTimer, subscriptionFilters, readyState,
                 subscribed, peerAlive, connects, crashed>>

\* The connection cannot be made or is ended from the other side; the close
\* event follows.
ConnectionLost(s) ==
  /\ ~crashed /\ readyState[s] \in {"CONNECTING", "OPEN"}
  /\ readyState' = [readyState EXCEPT ![s] = "CLOSING"]
  /\ UNCHANGED <<ws, connected, intentionalClose, reconnectDelay, timers,
                 subscriptionFilters, subscribed, peerAlive, silent, connects,
                 crashed>>

\* The other end stops answering and nobody closes the connection.
PeerGoesSilent(s) ==
  /\ ~crashed /\ readyState[s] = "OPEN" /\ peerAlive[s]
  /\ peerAlive' = [peerAlive EXCEPT ![s] = FALSE]
  /\ UNCHANGED <<ws, connected, intentionalClose, reconnectDelay, timers,
                 subscriptionFilters, readyState, subscribed, silent, connects,
                 crashed>>

-----------------------------------------------------------------------------
Next ==
  \/ connect \/ disconnect \/ \E f \in Filter : subscribe(f)
  \/ ReconnectTimer \/ HeartbeatTick
  \/ \E s \in Socket :
       OnOpen(s) \/ OnClose(s) \/ OnPong(s) \/ ConnectionLost(s)
       \/ PeerGoesSilent(s)

Spec == Init /\ [][Next]_vars

(***************************************************************************)
(* Fairness.  Timers fire, a socket that is closing ends with its close    *)
(* event, and a Spine tried again and again is up at one of the attempts.  *)
(***************************************************************************)
Fairness ==
  /\ WF_vars(ReconnectTimer)
  /\ WF_vars(HeartbeatTick)
  /\ \A s \in Socket : WF_vars(OnClose(s))
  /\ SF_vars(\E s \in Socket : OnOpen(s))

FairSpec == Spec /\ Fairness

-----------------------------------------------------------------------------
TypeOK ==
  /\ ws \in Socket \cup {null}
  /\ connected \in BOOLEAN
  /\ intentionalClose \in BOOLEAN
  /\ reconnectDelay \in BASE_DELAY .. MAX_RECONNECT_DELAY
  /\ reconnectTimer \in BOOLEAN
  /\ pingTimer \in BOOLEAN
  /\ missedPongs \in 0 .. MAX_MISSED_PONGS + 1
  /\ subscriptionFilters \subseteq Filter
  /\ readyState \in [Socket -> {"CONNECTING", "OPEN", "CLOSING", "CLOSED"}]
  /\ subscribed \in [Socket -> SUBSET Filter]
  /\ peerAlive \in [Socket -> BOOLEAN]
  /\ silent \in [Socket -> Nat]
  /\ connects \in 0 .. MaxConnects
  /\ crashed \in BOOLEAN

\* The sockets the Spine may still be talking to.
Live == {s \in Socket : readyState[s] \in {"CONNECTING", "OPEN"}}

\* The client holds the one socket it has: no reconnect leaves another behind
\* (a second registered connection would deliver every push twice).
OneSocket == Live \subseteq {ws}

\* Until disconnect() somebody is going to reconnect, and only one: either
\* the socket is alive or its close event is to come, or the timer is set.
OneReconnect ==
  (connects > 0 /\ ~intentionalClose) =>
    (reconnectTimer <=> readyState[ws] = "CLOSED")

\* "Close all connections" (spine-client.js:295): after disconnect() nothing
\* is left that is open, opening, or going to be.
CloseAllConnections == intentionalClose => Live = {} /\ ~reconnectTimer

\* The heartbeat runs as long as the connection does and counts the pings of
\* that very connection that went unanswered.
HeartbeatCounts ==
  /\ pingTimer <=> connected
  /\ pingTimer => ws # null /\ readyState[ws] \in {"OPEN", "CLOSING"}
  /\ isConnected => missedPongs = silent[ws]

\* An open connection carries every filter the owner ever subscribed, also
\* one given while there was no connection or before a reconnect, and no open
\* listener throws on sending them over another socket than its own.
SubscriptionsKept ==
  /\ ~crashed
  /\ isConnected => subscribed[ws] = subscriptionFilters

\* The heartbeat terminates a connection only after MAX_MISSED_PONGS pings in
\* a row went unanswered on it.
OnlySilentTerminated ==
  [][\A s \in Socket :
       HeartbeatTick /\ readyState[s] = "OPEN" /\ readyState'[s] = "CLOSING"
         => silent[s] >= MAX_MISSED_PONGS]_vars

\* A lost connection comes back unless the owner disconnects.
Reconnects == connects > 0 ~> (isConnected \/ intentionalClose)

\* A connection whose other end went silent does not stay open.
DeadPeerDetected ==
  \A s \in Socket :
    (readyState[s] = "OPEN" /\ ~peerAlive[s]) ~> readyState[s] # "OPEN"

=============================================================================
