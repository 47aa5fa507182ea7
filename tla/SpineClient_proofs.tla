-------------------------- MODULE SpineClient_proofs --------------------------
(***************************************************************************)
(* Theorems about SpineClient when connect() is called once and not after  *)
(* disconnect(), the way createOrgan uses it: for any sockets, filters,    *)
(* delays and any number of pongs that may be missed.                      *)
(***************************************************************************)
EXTENDS SpineClient, TLAPS

-----------------------------------------------------------------------------
(* The inductive invariant: the client is in one of three phases.          *)

Idle ==
  /\ ws = null /\ ~reconnectTimer /\ ~pingTimer /\ ~connected
  /\ \A s \in Socket : readyState[s] = "CLOSED"

\* One socket at most, the timer set exactly when there is none.
Working ==
  /\ ws \in Socket
  /\ \A s \in Socket \ {ws} : readyState[s] = "CLOSED"
  /\ reconnectTimer <=> readyState[ws] = "CLOSED"
  /\ pingTimer <=> connected
  /\ readyState[ws] = "OPEN" => connected
  /\ connected => readyState[ws] \in {"OPEN", "CLOSING"}

\* Sockets may still be closing.
Disconnected ==
  /\ ws = null /\ ~reconnectTimer /\ ~pingTimer /\ ~connected
  /\ \A s \in Socket : readyState[s] \in {"CLOSING", "CLOSED"}

Phases ==
  /\ connects = 0 /\ ~intentionalClose => Idle
  /\ connects > 0 /\ ~intentionalClose => Working
  /\ intentionalClose => Disconnected

\* What the open socket and the one being opened have been sent.
OpenSocket ==
  /\ \A s \in Socket : readyState[s] = "CONNECTING" => silent[s] = 0
  /\ isConnected =>
       /\ missedPongs = silent[ws] /\ missedPongs <= MAX_MISSED_PONGS
       /\ subscribed[ws] = subscriptionFilters

IInv == TypeOK /\ Phases /\ OpenSocket /\ ~crashed

-----------------------------------------------------------------------------
\* The parts of TypeOK: the numbers, and the rest.
Numbers ==
  /\ reconnectDelay \in BASE_DELAY .. MAX_RECONNECT_DELAY
  /\ missedPongs \in 0 .. MAX_MISSED_PONGS + 1
  /\ connects \in 0 .. MaxConnects

Flags ==
  /\ ws \in Socket \cup {null}
  /\ connected \in BOOLEAN /\ intentionalClose \in BOOLEAN
  /\ reconnectTimer \in BOOLEAN /\ pingTimer \in BOOLEAN
  /\ crashed \in BOOLEAN

Sockets ==
  /\ subscriptionFilters \subseteq Filter
  /\ readyState \in [Socket -> {"CONNECTING", "OPEN", "CLOSING", "CLOSED"}]
  /\ subscribed \in [Socket -> SUBSET Filter]
  /\ peerAlive \in [Socket -> BOOLEAN]
  /\ silent \in [Socket -> Nat]

LEMMA TypeParts == TypeOK <=> Numbers /\ Flags /\ Sockets
BY Zenon DEF TypeOK, Numbers, Flags, Sockets

LEMMA InitIInv == Init => IInv
<1> SUFFICES ASSUME Init PROVE IInv
  OBVIOUS
<1> USE DEF Init
<1>1. TypeOK
  <2>1. Numbers
    BY ClientAssumption DEF Numbers
  <2>2. Flags
    BY DEF Flags
  <2>3. Sockets
    BY DEF Sockets
  <2> QED BY <2>1, <2>2, <2>3, TypeParts
<1>2. Phases
  BY DEF Phases, Idle
<1>3. OpenSocket
  BY DEF OpenSocket, isConnected
<1> QED BY <1>1, <1>2, <1>3 DEF IInv

\* The delay doubles up to its cap and goes back to the base; pongs are
\* counted up to the one too many.
LEMMA NumbersStep ==
  ASSUME IInv, [Next]_vars
  PROVE  Numbers'
<1> Numbers
  BY TypeParts DEF IInv
<1> USE ClientAssumption DEF Numbers, timers
<1>1. CASE UNCHANGED vars
  BY <1>1 DEF vars
<1>2. CASE connect
  BY <1>2 DEF connect
<1>3. CASE disconnect
  BY <1>3 DEF disconnect, stopHeartbeat
<1>4. ASSUME NEW f \in Filter, subscribe(f) PROVE Numbers'
  BY <1>4 DEF subscribe
<1>5. CASE ReconnectTimer
  BY <1>5 DEF ReconnectTimer
<1>6. CASE HeartbeatTick
  <2>1. missedPongs <= MAX_MISSED_PONGS
    BY <1>6 DEF IInv, TypeOK, HeartbeatTick, OpenSocket, isConnected, IsOpen,
                Phases, Idle, Working, Disconnected
  <2> QED BY <1>6, <2>1 DEF HeartbeatTick
<1>7. ASSUME NEW s \in Socket, OnOpen(s) PROVE Numbers'
  BY <1>7 DEF OnOpen, startHeartbeat
<1>8. ASSUME NEW s \in Socket, OnClose(s) PROVE Numbers'
  BY <1>8 DEF OnClose, stopHeartbeat, scheduleReconnect
<1>9. ASSUME NEW s \in Socket,
             OnPong(s) \/ ConnectionLost(s) \/ PeerGoesSilent(s)
      PROVE  Numbers'
  BY <1>9 DEF OnPong, ConnectionLost, PeerGoesSilent
<1> QED BY <1>1, <1>2, <1>3, <1>4, <1>5, <1>6, <1>7, <1>8, <1>9 DEF Next

\* No listener throws: the socket that opens is the one ws holds.
LEMMA OpensItsOwn ==
  ASSUME IInv, NEW s \in Socket, OnOpen(s)
  PROVE  ws = s /\ sendThrows(s) = FALSE
<1>1. ws = s
  BY DEF IInv, OnOpen, Phases, Idle, Working, Disconnected, TypeOK
<1> QED BY <1>1, ClientAssumption DEF sendThrows

LEMMA FlagsStep ==
  ASSUME IInv, [Next]_vars
  PROVE  Flags' /\ ~crashed'
<1> Flags /\ ~crashed
  BY TypeParts DEF IInv
<1> USE DEF Flags, timers, sockets
<1>1. CASE UNCHANGED vars
  BY <1>1 DEF vars
<1>2. CASE connect
  BY <1>2 DEF connect, doConnect
<1>3. CASE disconnect
  BY <1>3 DEF disconnect, stopHeartbeat
<1>4. ASSUME NEW f \in Filter, subscribe(f) PROVE Flags' /\ ~crashed'
  BY <1>4 DEF subscribe
<1>5. CASE ReconnectTimer
  BY <1>5 DEF ReconnectTimer, doConnect
<1>6. CASE HeartbeatTick
  BY <1>6 DEF HeartbeatTick
<1>7. ASSUME NEW s \in Socket, OnOpen(s) PROVE Flags' /\ ~crashed'
  <2>1. sendThrows(s) = FALSE
    BY <1>7, OpensItsOwn, Zenon
  <2>2. crashed' = FALSE
    BY <1>7, <2>1, Zenon DEF OnOpen
  <2>3. pingTimer' = TRUE /\ connected' = TRUE
    BY <1>7, <2>1, Zenon DEF OnOpen, startHeartbeat
  <2>4. UNCHANGED <<ws, intentionalClose, reconnectTimer>>
    BY <1>7, Zenon DEF OnOpen
  <2> QED BY <2>2, <2>3, <2>4
<1>8. ASSUME NEW s \in Socket, OnClose(s) PROVE Flags' /\ ~crashed'
  BY <1>8 DEF OnClose, stopHeartbeat, scheduleReconnect
<1>9. ASSUME NEW s \in Socket,
             OnPong(s) \/ ConnectionLost(s) \/ PeerGoesSilent(s)
      PROVE  Flags' /\ ~crashed'
  BY <1>9 DEF OnPong, ConnectionLost, PeerGoesSilent
<1> QED BY <1>1, <1>2, <1>3, <1>4, <1>5, <1>6, <1>7, <1>8, <1>9 DEF Next

LEMMA SocketsStep ==
  ASSUME IInv, [Next]_vars
  PROVE  Sockets'
<1> Sockets
  BY TypeParts DEF IInv
<1> USE DEF Sockets, timers, sockets
<1>1. CASE UNCHANGED vars
  BY <1>1 DEF vars
<1>0. doConnect /\ UNCHANGED subscriptionFilters => Sockets'
  <2> SUFFICES ASSUME NEW s \in Socket,
        readyState' = [readyState EXCEPT ![s] = "CONNECTING"],
        subscribed' = [subscribed EXCEPT ![s] = {}],
        peerAlive' = [peerAlive EXCEPT ![s] = TRUE],
        silent' = [silent EXCEPT ![s] = 0],
        UNCHANGED subscriptionFilters
      PROVE Sockets'
    BY DEF doConnect
  <2> QED OBVIOUS
<1>2. CASE connect
  BY <1>0, <1>2, Zenon DEF connect
<1>3. CASE disconnect
  BY <1>3 DEF disconnect
<1>4. ASSUME NEW f \in Filter, subscribe(f) PROVE Sockets'
  BY <1>4 DEF subscribe
<1>5. CASE ReconnectTimer
  <2>1. CASE intentionalClose
    BY <1>5, <2>1 DEF ReconnectTimer
  <2>2. CASE ~intentionalClose
    BY <1>0, <1>5, <2>2, Zenon DEF ReconnectTimer
  <2> QED BY <2>1, <2>2
<1>6. CASE HeartbeatTick
  BY <1>6 DEF HeartbeatTick
<1>7. ASSUME NEW s \in Socket, OnOpen(s) PROVE Sockets'
  <2>1. ws = s /\ resubscribe(s)
    BY <1>7, OpensItsOwn, Zenon DEF OnOpen
  <2>2. readyState' = [readyState EXCEPT ![s] = "OPEN"]
        /\ UNCHANGED <<subscriptionFilters, peerAlive, silent>>
    BY <1>7, Zenon DEF OnOpen
  <2> QED BY <2>1, <2>2 DEF resubscribe
<1>8. ASSUME NEW s \in Socket, OnClose(s) PROVE Sockets'
  BY <1>8 DEF OnClose
<1>9. ASSUME NEW s \in Socket,
             OnPong(s) \/ ConnectionLost(s) \/ PeerGoesSilent(s)
      PROVE  Sockets'
  <2>1. CASE OnPong(s)
    BY <2>1 DEF OnPong
  <2>2. CASE ConnectionLost(s)
    BY <2>2 DEF ConnectionLost
  <2>3. CASE PeerGoesSilent(s)
    BY <2>3 DEF PeerGoesSilent
  <2> QED BY <1>9, <2>1, <2>2, <2>3
<1> QED BY <1>1, <1>2, <1>3, <1>4, <1>5, <1>6, <1>7, <1>8, <1>9 DEF Next

LEMMA TypeStep ==
  ASSUME IInv, [Next]_vars
  PROVE  TypeOK' /\ ~crashed'
<1>1. TypeOK' <=> Numbers' /\ Flags' /\ Sockets'
  BY TypeParts, PTL
<1> QED BY <1>1, NumbersStep, FlagsStep, SocketsStep

LEMMA PhaseStep ==
  ASSUME ~Reuse, IInv, [Next]_vars
  PROVE  Phases'
<1> USE DEF IInv, TypeOK, Phases, timers, sockets
<1>1. CASE UNCHANGED vars
  BY <1>1 DEF vars, Idle, Working, Disconnected
<1>2. CASE connect
  <2>1. Idle /\ connects' = connects + 1 /\ ~intentionalClose'
    BY <1>2 DEF connect
  <2>2. Working'
    BY <1>2, <2>1 DEF connect, doConnect, Idle, Working
  <2> QED BY <2>1, <2>2
<1>3. CASE disconnect
  <2>1. Disconnected'
    BY <1>3 DEF disconnect, stopHeartbeat, Idle, Working, Disconnected
  <2> QED BY <1>3, <2>1 DEF disconnect
<1>4. ASSUME NEW f \in Filter, subscribe(f) PROVE Phases'
  BY <1>4 DEF subscribe, Idle, Working, Disconnected
<1>5. CASE ReconnectTimer
  <2>1. Working /\ ~intentionalClose /\ connects > 0
    BY <1>5 DEF ReconnectTimer, Idle, Disconnected
  <2>2. Working'
    BY <1>5, <2>1 DEF ReconnectTimer, doConnect, Working
  <2> QED BY <1>5, <2>1, <2>2 DEF ReconnectTimer
<1>6. CASE HeartbeatTick
  <2>1. Working /\ ~intentionalClose /\ connects > 0
    BY <1>6 DEF HeartbeatTick, Idle, Disconnected
  <2>2. Working'
    BY <1>6, <2>1 DEF HeartbeatTick, Working, IsOpen
  <2> QED BY <1>6, <2>1, <2>2 DEF HeartbeatTick
<1>7. ASSUME NEW s \in Socket, OnOpen(s) PROVE Phases'
  <2>1. Working /\ ~intentionalClose /\ connects > 0 /\ ws = s
    BY <1>7 DEF OnOpen, Idle, Working, Disconnected
  <2>2. Working'
    BY <1>7, <2>1, ClientAssumption
       DEF OnOpen, sendThrows, startHeartbeat, Working
  <2> QED BY <1>7, <2>1, <2>2 DEF OnOpen
<1>8. ASSUME NEW s \in Socket, OnClose(s) PROVE Phases'
  <2>1. CASE intentionalClose
    BY <1>8, <2>1 DEF OnClose, stopHeartbeat, scheduleReconnect, Disconnected
  <2>2. CASE ~intentionalClose
    <3>1. Working /\ connects > 0 /\ ws = s
      BY <1>8, <2>2 DEF OnClose, Idle, Working
    <3>2. Working'
      BY <1>8, <2>2, <3>1 DEF OnClose, stopHeartbeat, scheduleReconnect, Working
    <3> QED BY <1>8, <2>2, <3>1, <3>2 DEF OnClose
  <2> QED BY <2>1, <2>2
<1>9. ASSUME NEW s \in Socket,
             OnPong(s) \/ ConnectionLost(s) \/ PeerGoesSilent(s)
      PROVE  Phases'
  BY <1>9 DEF OnPong, ConnectionLost, PeerGoesSilent, Idle, Working,
              Disconnected
<1> QED BY <1>1, <1>2, <1>3, <1>4, <1>5, <1>6, <1>7, <1>8, <1>9 DEF Next

LEMMA OpenStep ==
  ASSUME ~Reuse, IInv, [Next]_vars
  PROVE  OpenSocket'
<1> USE ClientAssumption
        DEF IInv, TypeOK, OpenSocket, isConnected, IsOpen, timers, sockets
<1>1. CASE UNCHANGED vars
  BY <1>1 DEF vars
<1>2. CASE connect
  <2>1. ~connected
    BY <1>2 DEF connect, Phases, Idle
  <2> QED BY <1>2, <2>1 DEF connect, doConnect
<1>3. CASE disconnect
  BY <1>3 DEF disconnect
<1>4. ASSUME NEW f \in Filter, subscribe(f) PROVE OpenSocket'
  BY <1>4 DEF subscribe
<1>5. CASE ReconnectTimer
  <2>1. ~connected
    BY <1>5 DEF ReconnectTimer, Phases, Idle, Working, Disconnected
  <2> QED BY <1>5, <2>1 DEF ReconnectTimer, doConnect
<1>6. CASE HeartbeatTick
  <2>1. isConnected
    BY <1>6 DEF HeartbeatTick, Phases, Idle, Working, Disconnected
  <2> QED BY <1>6, <2>1 DEF HeartbeatTick, TooManyMissed
<1>7. ASSUME NEW s \in Socket, OnOpen(s) PROVE OpenSocket'
  <2>1. ws = s
    BY <1>7 DEF OnOpen, Phases, Idle, Working, Disconnected
  <2> QED BY <1>7, <2>1 DEF OnOpen, sendThrows, resubscribe, startHeartbeat
<1>8. ASSUME NEW s \in Socket, OnClose(s) PROVE OpenSocket'
  BY <1>8 DEF OnClose
<1>9. ASSUME NEW s \in Socket, OnPong(s) PROVE OpenSocket'
  <2>1. isConnected => ws = s
    BY <1>9 DEF OnPong, Phases, Idle, Working, Disconnected
  <2> QED BY <1>9, <2>1 DEF OnPong
<1>10. ASSUME NEW s \in Socket, ConnectionLost(s) \/ PeerGoesSilent(s)
       PROVE  OpenSocket'
  BY <1>10 DEF ConnectionLost, PeerGoesSilent
<1> QED BY <1>1, <1>2, <1>3, <1>4, <1>5, <1>6, <1>7, <1>8, <1>9, <1>10 DEF Next

LEMMA Invariance ==
  ASSUME ~Reuse PROVE Spec => []IInv
<1>1. IInv /\ [Next]_vars => IInv'
  BY TypeStep, PhaseStep, OpenStep DEF IInv
<1> QED BY InitIInv, <1>1, PTL DEF Spec

-----------------------------------------------------------------------------
\* Every variable keeps its type; missedPongs stays below its bound.
THEOREM Typing ==
  ASSUME ~Reuse PROVE Spec => []TypeOK
BY Invariance, PTL DEF IInv

\* No reconnect, however it interleaves with closing sockets and timers,
\* leaves a second socket behind (doConnect, scheduleReconnect).
THEOREM SingleSocket ==
  ASSUME ~Reuse PROVE Spec => []OneSocket
<1>1. IInv => OneSocket
  BY DEF IInv, Phases, Idle, Working, Disconnected, OneSocket, Live, TypeOK
<1> QED BY <1>1, Invariance, PTL

\* Until disconnect() exactly one reconnect is on its way when the socket is
\* closed, and none while it is not: the client is never stranded.
THEOREM ReconnectPending ==
  ASSUME ~Reuse PROVE Spec => []OneReconnect
<1>1. IInv => OneReconnect
  BY DEF IInv, Phases, Working, OneReconnect
<1> QED BY <1>1, Invariance, PTL

\* disconnect() and close() are final (spine-client.js:280).
THEOREM CloseIsFinal ==
  ASSUME ~Reuse PROVE Spec => []CloseAllConnections
<1>1. IInv => CloseAllConnections
  BY DEF IInv, Phases, Disconnected, CloseAllConnections, Live
<1> QED BY <1>1, Invariance, PTL

\* The heartbeat runs exactly while connected and its count is that of the
\* present connection; an open connection has all the filters.
THEOREM HeartbeatAndFilters ==
  ASSUME ~Reuse PROVE Spec => [](HeartbeatCounts /\ SubscriptionsKept)
<1>1. IInv => HeartbeatCounts /\ SubscriptionsKept
  BY ClientAssumption
     DEF IInv, Phases, Idle, Working, Disconnected, OpenSocket,
         HeartbeatCounts, SubscriptionsKept, TypeOK
<1> QED BY <1>1, Invariance, PTL

\* terminate() is called only on a connection that left MAX_MISSED_PONGS pings
\* in a row unanswered.
THEOREM TerminateJustified ==
  ASSUME ~Reuse PROVE Spec => OnlySilentTerminated
<1>1. ASSUME IInv, NEW s \in Socket, HeartbeatTick,
             readyState[s] = "OPEN", readyState'[s] = "CLOSING"
      PROVE  silent[s] >= MAX_MISSED_PONGS
  <2>1. isConnected
    BY <1>1 DEF IInv, TypeOK, HeartbeatTick, IsOpen, isConnected, Phases, Idle,
                Working, Disconnected
  <2>2. s = ws /\ TooManyMissed(missedPongs + 1)
    BY <1>1, <2>1 DEF IInv, TypeOK, HeartbeatTick, IsOpen, isConnected
  <2>3. missedPongs = silent[s]
    BY <1>1, <2>1, <2>2 DEF IInv, OpenSocket
  <2> QED BY <1>1, <2>2, <2>3, ClientAssumption DEF IInv, TypeOK, TooManyMissed
<1>2. IInv /\ [Next]_vars =>
        [\A s \in Socket :
           HeartbeatTick /\ readyState[s] = "OPEN" /\ readyState'[s] = "CLOSING"
             => silent[s] >= MAX_MISSED_PONGS]_vars
  BY <1>1
<1> QED BY <1>2, Invariance, PTL DEF Spec, OnlySilentTerminated

=============================================================================
