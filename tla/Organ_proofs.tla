----------------------------- MODULE Organ_proofs -----------------------------
(***************************************************************************)
(* Theorems about Organ, for any messages, cycles, sockets and filters and *)
(* any number of requests to stop, crashes and restarts.                   *)
(*                                                                         *)
(* What holds of the Spine client and of the live loop alone is taken from *)
(* their own proofs: every step of the organ is a step of the client, or   *)
(* leaves it alone, or starts it afresh, and the same goes for the loop.   *)
(***************************************************************************)
EXTENDS Organ, TLAPS

ClientProofs == INSTANCE SpineClient_proofs
LoopProofs == INSTANCE LiveLoop_proofs WITH connected <- Client!isConnected,
                Tool <- [m \in Message |-> "text"]

-----------------------------------------------------------------------------
(* The inductive invariant: those of the client and of the loop, and how   *)
(* far shutdown() can have come.                                           *)

OrganTypes ==
  /\ boot \in {"listen", "register", "subscribe", "startup", "started", "failed"}
  /\ http \in {"down", "up", "closing", "closed"}
  /\ shutdownPc \in {"none", "cleanup", "closing", "done"}
  /\ signals \in 0 .. MaxSignals
  /\ restarts \in 0 .. MaxRestarts
  /\ process \in {"up", "exited", "killed"}

\* shutdown() runs in a booted organ and closes the connection for good before
\* it waits for the HTTP server.
ShutdownOrder ==
  /\ shutdownPc # "none" => boot = "started"
  /\ shutdownPc \in {"closing", "done"} => intentionalClose
  /\ shutdownPc = "done" => http = "closed"

\* A process exits at the end of shutdown() or at the second request.
Requests ==
  /\ Up /\ shutdownPc # "none" => signals > 0
  /\ process = "exited" => signals > 1 \/ shutdownPc = "done"

IInv ==
  /\ ClientProofs!IInv
  /\ LoopProofs!IInv
  /\ OrganTypes /\ exitWhenDone \in BOOLEAN
  /\ ShutdownOrder
  /\ Requests

-----------------------------------------------------------------------------
(* The definitions of the two proof modules are those of the components.   *)

LEMMA SameClient ==
  /\ Client!Init <=> ClientProofs!Init
  /\ [Client!Next]_Client!vars <=> [ClientProofs!Next]_ClientProofs!vars
<1>1. Client!Init <=> ClientProofs!Init
  BY Zenon DEF Client!Init, ClientProofs!Init
<1>2. [Client!Next]_Client!vars <=> [ClientProofs!Next]_ClientProofs!vars
  BY Zenon
     DEF Client!Next, Client!vars, Client!timers, Client!sockets,
         Client!connect, Client!disconnect, Client!subscribe,
         Client!ReconnectTimer, Client!HeartbeatTick, Client!OnOpen,
         Client!OnClose, Client!OnPong, Client!ConnectionLost,
         Client!PeerGoesSilent, Client!doConnect, Client!startHeartbeat,
         Client!stopHeartbeat, Client!scheduleReconnect, Client!sendThrows,
         Client!resubscribe, Client!IsOpen, Client!TooManyMissed,
         ClientProofs!Next, ClientProofs!vars, ClientProofs!timers,
         ClientProofs!sockets, ClientProofs!connect, ClientProofs!disconnect,
         ClientProofs!subscribe, ClientProofs!ReconnectTimer,
         ClientProofs!HeartbeatTick, ClientProofs!OnOpen,
         ClientProofs!OnClose, ClientProofs!OnPong,
         ClientProofs!ConnectionLost, ClientProofs!PeerGoesSilent,
         ClientProofs!doConnect, ClientProofs!startHeartbeat,
         ClientProofs!stopHeartbeat, ClientProofs!scheduleReconnect,
         ClientProofs!sendThrows, ClientProofs!resubscribe,
         ClientProofs!IsOpen, ClientProofs!TooManyMissed
<1> QED BY <1>1, <1>2

LEMMA SameLoop ==
  /\ Loop!Init <=> LoopProofs!Init
  /\ [Loop!Next]_Loop!vars <=> [LoopProofs!Next]_LoopProofs!vars
<1>1. Loop!Init <=> LoopProofs!Init
  BY Zenon DEF Loop!Init, LoopProofs!Init
<1>2. [Loop!Next]_Loop!vars <=> [LoopProofs!Next]_LoopProofs!vars
  BY Zenon
     DEF Loop!Next, Loop!vars, Loop!spineVars, Loop!cycleVars, Loop!Accept,
         Loop!WsStep, Loop!WsPush, Loop!WsHandlerReturns,
         Loop!WsHandlerThrows, Loop!WsSend, Loop!ConnectionUp,
         Loop!ConnectionDown, Loop!Stop, Loop!Tick, Loop!CycleStep,
         Loop!DrainOk, Loop!DrainError, Loop!EndOfBatch, Loop!AckOk,
         Loop!AckError, Loop!MessageStep, Loop!Begin, Loop!HandlerReturns,
         Loop!HandlerThrows, Loop!SendOk, Loop!SendError, Loop!Goto,
         Loop!Finish, Loop!AckOnError, Loop!DrainResult, Loop!Mailbox,
         Loop!Sent, Loop!IsFirst, Loop!Older, Loop!Reply,
         Loop!correlationIdFor, Loop!Intercepted, Loop!isPing,
         Loop!isHandledToolCall, Loop!Cardinality,
         LoopProofs!Next, LoopProofs!vars, LoopProofs!spineVars,
         LoopProofs!cycleVars, LoopProofs!Accept, LoopProofs!WsStep,
         LoopProofs!WsPush, LoopProofs!WsHandlerReturns,
         LoopProofs!WsHandlerThrows, LoopProofs!WsSend,
         LoopProofs!ConnectionUp, LoopProofs!ConnectionDown,
         LoopProofs!Stop, LoopProofs!Tick, LoopProofs!CycleStep,
         LoopProofs!DrainOk, LoopProofs!DrainError, LoopProofs!EndOfBatch,
         LoopProofs!AckOk, LoopProofs!AckError, LoopProofs!MessageStep,
         LoopProofs!Begin, LoopProofs!HandlerReturns,
         LoopProofs!HandlerThrows, LoopProofs!SendOk, LoopProofs!SendError,
         LoopProofs!Goto, LoopProofs!Finish, LoopProofs!AckOnError,
         LoopProofs!DrainResult, LoopProofs!Mailbox, LoopProofs!Sent,
         LoopProofs!IsFirst, LoopProofs!Older, LoopProofs!Reply,
         LoopProofs!correlationIdFor, LoopProofs!Intercepted,
         LoopProofs!isPing, LoopProofs!isHandledToolCall,
         LoopProofs!Cardinality
<1> QED BY <1>1, <1>2

LEMMA SameContract ==
  /\ Loop!Contract!Init <=> LoopProofs!Contract!Init
  /\ [Loop!Contract!Next]_Loop!status
       <=> [LoopProofs!Contract!Next]_LoopProofs!status
<1>1. Loop!status = LoopProofs!status
  BY Zenon DEF Loop!status, Loop!Mailbox, Loop!Sent, Loop!Served, Loop!Reply,
         Loop!correlationIdFor, Loop!Intercepted, Loop!isPing,
         Loop!isHandledToolCall,
         LoopProofs!status, LoopProofs!Mailbox, LoopProofs!Sent,
         LoopProofs!Served, LoopProofs!Reply, LoopProofs!correlationIdFor,
         LoopProofs!Intercepted, LoopProofs!isPing,
         LoopProofs!isHandledToolCall
<1>2. (Loop!status = LoopProofs!status)'
  BY <1>1, PTL
<1> QED
  BY <1>1, <1>2, Zenon
     DEF Loop!Contract!Init, Loop!Contract!Next, Loop!Contract!Arrive,
         Loop!Contract!Serve, Loop!Contract!Remove, LoopProofs!Contract!Init,
         LoopProofs!Contract!Next, LoopProofs!Contract!Arrive,
         LoopProofs!Contract!Serve, LoopProofs!Contract!Remove

-----------------------------------------------------------------------------
(* What a step of the organ is to the client and to the loop.              *)

LEMMA ClientMoves ==
  ASSUME [Next]_vars
  PROVE  [Client!Next]_Client!vars \/ Restart
<1>1. ASSUME UNCHANGED clientVars PROVE UNCHANGED Client!vars
  BY <1>1 DEF clientVars, Client!vars, Client!timers, Client!sockets
<1>2. CASE UNCHANGED vars
  BY <1>1, <1>2 DEF vars
<1>3. CASE Listen \/ Register \/ Startup \/ Signal \/ OwnerShutdown
           \/ ServerClosed \/ Crash
  BY <1>1, <1>3, Zenon
     DEF Listen, Register, Startup, Signal, OwnerShutdown, BeginShutdown,
         ServerClosed, Crash
<1>4. CASE StartLoop
  BY <1>4, Zenon DEF StartLoop, Client!Next
<1>5. ASSUME NEW f \in Filter, Subscribe(f) PROVE Client!Next
  BY <1>5, Zenon DEF Subscribe, Client!Next
<1>6. CASE CleanupEnds
  BY <1>6, Zenon DEF CleanupEnds, Client!Next
<1>7. CASE Reconnect \/ Heartbeat
  BY <1>7, Zenon DEF Reconnect, Heartbeat, Client!Next
<1>8. ASSUME NEW s \in Socket, Open(s) \/ Closed(s) \/ Peer(s)
      PROVE  Client!Next
  BY <1>8, Zenon DEF Open, Closed, Peer, Client!Next
<1>9. ASSUME NEW m \in Message, Arrive(m) \/ PushStep(m)
      PROVE  UNCHANGED clientVars
  BY <1>9, Zenon DEF Arrive, PushStep
<1>10. ASSUME NEW c \in Cycle, DrainTick(c) \/ LoopStep(c)
       PROVE  UNCHANGED clientVars
  BY <1>10, Zenon DEF DrainTick, LoopStep, InLoop
<1> QED
  BY <1>1, <1>2, <1>3, <1>4, <1>5, <1>6, <1>7, <1>8, <1>9, <1>10, Zenon
     DEF Next

\* The loop sees of the client only whether it is connected.
LEMMA ConnectionMoves ==
  ASSUME UNCHANGED loopVars
  PROVE  [Loop!Next]_Loop!vars
<1>1. CASE Client!isConnected' = Client!isConnected
  BY <1>1 DEF loopVars, Loop!vars
<1>2. CASE ~Client!isConnected /\ Client!isConnected'
  <2>1. Client!isConnected' = TRUE
    BY <1>2 DEF Client!isConnected
  <2>2. Loop!ConnectionUp
    BY <1>2, <2>1, Zenon DEF Loop!ConnectionUp, loopVars
  <2> QED BY <2>2, Zenon DEF Loop!Next
<1>3. CASE Client!isConnected /\ ~Client!isConnected'
  <2>1. Client!isConnected' = FALSE
    BY <1>3 DEF Client!isConnected
  <2>2. Loop!ConnectionDown
    BY <1>3, <2>1, Zenon DEF Loop!ConnectionDown, loopVars
  <2> QED BY <2>2, Zenon DEF Loop!Next
<1>4. Client!isConnected \in BOOLEAN /\ Client!isConnected' \in BOOLEAN
  BY DEF Client!isConnected
<1> QED BY <1>1, <1>2, <1>3, <1>4

LEMMA LoopMoves ==
  ASSUME [Next]_vars
  PROVE  [Loop!Next]_Loop!vars \/ Restart
<1>1. CASE UNCHANGED loopVars
  BY <1>1, ConnectionMoves
<1>2. CASE UNCHANGED vars
  BY <1>1, <1>2, Zenon DEF vars
<1>3. CASE Listen \/ Register \/ StartLoop \/ Startup \/ CleanupEnds
           \/ ServerClosed \/ Crash \/ Reconnect \/ Heartbeat
  BY <1>1, <1>3, Zenon
     DEF Listen, Register, StartLoop, Startup, CleanupEnds, ServerClosed,
         Crash, Reconnect, Heartbeat, InClient
<1>4. ASSUME NEW f \in Filter, Subscribe(f) PROVE UNCHANGED loopVars
  BY <1>4, Zenon DEF Subscribe
<1>5. ASSUME NEW s \in Socket, Open(s) \/ Closed(s) \/ Peer(s)
      PROVE  UNCHANGED loopVars
  BY <1>5, Zenon DEF Open, Closed, Peer, InClient
<1>6. CASE Signal \/ OwnerShutdown
  BY <1>1, <1>6, Zenon DEF Signal, OwnerShutdown, BeginShutdown, Loop!Next
<1>7. ASSUME NEW m \in Message, Arrive(m) \/ PushStep(m) PROVE Loop!Next
  BY <1>7, Zenon DEF Arrive, PushStep, Loop!Next
<1>8. ASSUME NEW c \in Cycle, DrainTick(c) \/ LoopStep(c) PROVE Loop!Next
  BY <1>8, Zenon DEF DrainTick, LoopStep, Loop!Next
<1> QED
  BY <1>1, <1>2, <1>3, <1>4, <1>5, <1>6, <1>7, <1>8, Zenon DEF Next

-----------------------------------------------------------------------------
(* A process that is started again: the client is as new, and the loop has *)
(* forgotten its batches and what it was about to acknowledge.             *)

LEMMA RestartClient == Restart => ClientProofs!IInv'
<1>1. Restart => Client!Init'
  BY DEF Restart, Client!Init
<1>2. Client!Init => ClientProofs!IInv
  BY SameClient, ClientProofs!InitIInv, OrganAssumption
     DEF Client!ClientAssumption
<1> QED BY <1>1, <1>2, PTL

LEMMA RestartLoop ==
  ASSUME LoopProofs!IInv, Restart
  PROVE  LoopProofs!IInv' /\ UNCHANGED LoopProofs!status
<1> USE DEF Restart, LoopProofs!IInv, LoopProofs!TypeOK
<1>1. UNCHANGED <<sentAt, acked, started, resolved, replies>>
  OBVIOUS
<1>2. \A m \in Message : LoopProofs!Served(m)' <=> LoopProofs!Served(m)
  BY <1>1, Zenon
     DEF LoopProofs!Served, LoopProofs!Intercepted, LoopProofs!isPing,
         LoopProofs!isHandledToolCall, LoopProofs!Reply,
         LoopProofs!correlationIdFor
<1>3. LoopProofs!TypeOK'
  BY DEF Client!isConnected
<1>4. LoopProofs!KnownMessages'
  BY DEF LoopProofs!KnownMessages, LoopProofs!Sent
<1>5. LoopProofs!CurrentMessage'
  BY DEF LoopProofs!CurrentMessage, LoopProofs!IsFirst
<1>6. LoopProofs!PushedReplies'
  BY DEF LoopProofs!PushedReplies
<1>7. LoopProofs!CollectedWasServed' /\ LoopProofs!AckedWasServed'
  BY <1>2 DEF LoopProofs!CollectedWasServed, LoopProofs!AckedWasServed
<1>8. UNCHANGED LoopProofs!status
  BY <1>1, <1>2, Zenon
     DEF LoopProofs!status, LoopProofs!Mailbox, LoopProofs!Sent
<1> QED BY <1>3, <1>4, <1>5, <1>6, <1>7, <1>8, Zenon DEF LoopProofs!IInv

-----------------------------------------------------------------------------
(* The invariant is inductive.                                             *)

LEMMA Bounds == MaxSignals \in Nat /\ MaxRestarts \in Nat
BY OrganAssumption

\* The names of tools do not matter to the loop.
LEMMA Named == LoopProofs!ToolAssumption
BY DEF LoopProofs!ToolAssumption, LoopProofs!Value

LEMMA InitLoop == Init => LoopProofs!IInv
BY SameLoop, LoopProofs!InitIInv, OrganAssumption, Named
   DEF Init, Loop!MessageAssumption, Loop!CorrelationAssumption,
       Loop!LimitAssumption, Loop!IsFiniteSet, LoopProofs!IsFiniteSet

LEMMA InitIInv == Init => IInv
<1> SUFFICES ASSUME Init PROVE IInv
  OBVIOUS
<1>1. ClientProofs!IInv
  BY SameClient, ClientProofs!InitIInv, OrganAssumption
     DEF Init, Client!ClientAssumption
<1>2. LoopProofs!IInv
  BY InitLoop
<1>3. OrganTypes /\ ShutdownOrder /\ Requests
  BY Bounds DEF Init, OrganTypes, ShutdownOrder, Requests
<1>4. exitWhenDone \in BOOLEAN
  BY DEF Init
<1> QED BY <1>1, <1>2, <1>3, <1>4 DEF IInv

LEMMA ClientStep ==
  ASSUME ~Reuse, IInv, [Next]_vars
  PROVE  ClientProofs!IInv'
<1> ClientProofs!IInv
  BY DEF IInv
<1>1. CASE [Client!Next]_Client!vars
  <2>1. [ClientProofs!Next]_ClientProofs!vars
    BY <1>1, SameClient, Zenon
  <2>2. ClientProofs!TypeOK' /\ ~crashed'
    BY <2>1, ClientProofs!TypeStep, OrganAssumption DEF Client!ClientAssumption
  <2>3. ClientProofs!Phases'
    BY <2>1, ClientProofs!PhaseStep, OrganAssumption DEF Client!ClientAssumption
  <2>4. ClientProofs!OpenSocket'
    BY <2>1, ClientProofs!OpenStep, OrganAssumption DEF Client!ClientAssumption
  <2> QED BY <2>2, <2>3, <2>4 DEF ClientProofs!IInv
<1>2. CASE Restart
  BY <1>2, RestartClient
<1> QED BY <1>1, <1>2, ClientMoves

LEMMA ContractStep ==
  ASSUME LoopProofs!IInv, [Next]_vars
  PROVE  LoopProofs!IInv' /\ [Loop!Contract!Next]_Loop!status
<1> USE OrganAssumption, Named
    DEF Loop!MessageAssumption, Loop!CorrelationAssumption,
        Loop!LimitAssumption, Loop!IsFiniteSet, LoopProofs!IsFiniteSet
<1>1. CASE [Loop!Next]_Loop!vars
  <2>1. [LoopProofs!Next]_LoopProofs!vars
    BY <1>1, SameLoop, Zenon
  <2>2. LoopProofs!IInv'
    BY <2>1, LoopProofs!TypeStep, LoopProofs!KnownStep,
       LoopProofs!CurrentStep, LoopProofs!PushStep, LoopProofs!ServedStep
       DEF LoopProofs!IInv
  <2>3. [LoopProofs!Contract!Next]_LoopProofs!status
    BY <2>1, LoopProofs!NextRefines
  <2> QED BY <2>2, <2>3, SameContract, Zenon
<1>2. CASE Restart
  <2>1. LoopProofs!IInv' /\ UNCHANGED LoopProofs!status
    BY <1>2, RestartLoop, Zenon
  <2>2. [Loop!Contract!Next]_Loop!status
    BY <2>1, SameContract, Zenon
  <2> QED BY <2>1, <2>2
<1> QED BY <1>1, <1>2, LoopMoves

LEMMA ShutdownStep ==
  ASSUME OrganTypes, ShutdownOrder, Requests, [Next]_vars
  PROVE  OrganTypes' /\ ShutdownOrder' /\ Requests'
<1> USE Bounds DEF OrganTypes, ShutdownOrder, Requests, Up
<1>1. CASE UNCHANGED vars
  BY <1>1 DEF vars, clientVars, organVars
<1>2. CASE Listen \/ Register \/ Startup
  BY <1>2 DEF Listen, Register, Startup, Boot, clientVars
<1>3. ASSUME NEW f \in Filter, Subscribe(f)
      PROVE  OrganTypes' /\ ShutdownOrder' /\ Requests'
  BY <1>3 DEF Subscribe, Boot, Client!subscribe
<1>4. CASE StartLoop
  BY <1>4 DEF StartLoop, Boot
<1>5. CASE Signal \/ OwnerShutdown
  BY <1>5 DEF Signal, OwnerShutdown, BeginShutdown, SecondCall, clientVars
<1>6. CASE CleanupEnds
  BY <1>6 DEF CleanupEnds, Client!disconnect
<1>7. CASE ServerClosed \/ Crash
  BY <1>7 DEF ServerClosed, Crash, clientVars
<1>8. CASE Restart
  BY <1>8 DEF Restart
<1>9. ASSUME InClient, UNCHANGED intentionalClose
      PROVE  OrganTypes' /\ ShutdownOrder' /\ Requests'
  BY <1>9 DEF InClient, organVars
<1>10. CASE Reconnect \/ Heartbeat
  BY <1>9, <1>10 DEF Reconnect, Heartbeat, Client!ReconnectTimer,
                     Client!HeartbeatTick
<1>11. ASSUME NEW s \in Socket, Open(s) \/ Closed(s) \/ Peer(s)
       PROVE  OrganTypes' /\ ShutdownOrder' /\ Requests'
  BY <1>9, <1>11 DEF Open, Closed, Peer, Client!OnOpen, Client!OnClose,
                     Client!OnPong, Client!ConnectionLost,
                     Client!PeerGoesSilent
<1>12. ASSUME UNCHANGED clientVars, UNCHANGED organVars
       PROVE  OrganTypes' /\ ShutdownOrder' /\ Requests'
  BY <1>12 DEF clientVars, organVars
<1>13. ASSUME NEW m \in Message, Arrive(m) \/ PushStep(m)
       PROVE  OrganTypes' /\ ShutdownOrder' /\ Requests'
  BY <1>12, <1>13, Zenon DEF Arrive, PushStep
<1>14. ASSUME NEW c \in Cycle, DrainTick(c) \/ LoopStep(c)
       PROVE  OrganTypes' /\ ShutdownOrder' /\ Requests'
  BY <1>12, <1>14, Zenon DEF DrainTick, LoopStep, InLoop
<1> QED
  BY <1>1, <1>2, <1>3, <1>4, <1>5, <1>6, <1>7, <1>8, <1>10, <1>11, <1>13,
     <1>14 DEF Next

LEMMA ExitStep ==
  ASSUME exitWhenDone \in BOOLEAN, [Next]_vars
  PROVE  exitWhenDone' \in BOOLEAN
<1>1. \/ exitWhenDone' = exitWhenDone
      \/ exitWhenDone' = TRUE
      \/ exitWhenDone' = FALSE
  BY Zenon
     DEF Next, vars, organVars, Listen, Register, Subscribe, StartLoop,
         Startup, Signal, OwnerShutdown, CleanupEnds, ServerClosed, Crash,
         Restart, Reconnect, Heartbeat, Open, Closed, Peer, InClient, Arrive,
         PushStep, DrainTick, LoopStep, InLoop
<1> QED BY <1>1

LEMMA Invariance ==
  ASSUME ~Reuse PROVE Spec => []IInv
<1>1. IInv /\ [Next]_vars => IInv'
  BY ClientStep, ContractStep, ShutdownStep, ExitStep DEF IInv
<1> QED BY InitIInv, <1>1, PTL DEF Spec

-----------------------------------------------------------------------------
\* Every variable of the organ, its client and its loop keeps its type,
\* through restarts too.
THEOREM Typing ==
  ASSUME ~Reuse PROVE Spec => []TypeOK
<1>1. IInv => Client!TypeOK
  BY DEF IInv, ClientProofs!IInv, ClientProofs!TypeOK, Client!TypeOK
<1>2. IInv => Loop!TypeOK
  BY DEF IInv, LoopProofs!IInv, LoopProofs!TypeOK, Loop!TypeOK
<1>3. IInv => TypeOK
  BY <1>1, <1>2 DEF IInv, OrganTypes, TypeOK
<1> QED BY <1>3, Invariance, PTL

\* Started and killed at any moment, booting or shutting down, the organ never
\* has two sockets, is never left without a reconnect before its shutdown, and
\* has acknowledged no message that was not served.
THEOREM ComponentsInside ==
  ASSUME ~Reuse
  PROVE  Spec => [](Client!OneSocket /\ Client!OneReconnect /\ Loop!AckedWasServed)
<1>1. IInv => Client!OneSocket /\ Client!OneReconnect
  BY DEF IInv, ClientProofs!IInv, ClientProofs!Phases, ClientProofs!Idle,
         ClientProofs!Working, ClientProofs!Disconnected,
         ClientProofs!TypeOK, Client!OneSocket, Client!OneReconnect,
         Client!Live
<1>2. LoopProofs!AckedWasServed => Loop!AckedWasServed
  BY Zenon
     DEF LoopProofs!AckedWasServed, LoopProofs!Served, LoopProofs!Reply,
         LoopProofs!correlationIdFor, LoopProofs!Intercepted,
         LoopProofs!isPing, LoopProofs!isHandledToolCall,
         Loop!AckedWasServed, Loop!Served, Loop!Reply,
         Loop!correlationIdFor, Loop!Intercepted, Loop!isPing,
         Loop!isHandledToolCall
<1>3. IInv => Loop!AckedWasServed
  BY <1>2 DEF IInv, LoopProofs!IInv
<1> QED BY <1>1, <1>3, Invariance, PTL

\* After CleanupEnds, the call of spine.close() in shutdown(), the client is
\* closed for good: no late open or close event, no timer and no cycle still
\* in flight brings a socket, a reconnect or a heartbeat back.
THEOREM NothingComesBack ==
  ASSUME ~Reuse PROVE Spec => []ShutdownReleases
<1>1. IInv => ShutdownReleases
  BY DEF IInv, OrganTypes, ShutdownOrder, ShutdownReleases, ClientProofs!IInv,
         ClientProofs!Phases, ClientProofs!Disconnected, Client!Live,
         Client!isConnected
<1> QED BY <1>1, Invariance, PTL

\* A process that was asked to stop once leaves only from the callback of
\* server.close(), with the connection and the server closed.
THEOREM ExitIsClean ==
  ASSUME ~Reuse PROVE Spec => []CleanExit
<1>1. IInv => CleanExit
  BY Bounds DEF IInv, OrganTypes, ShutdownOrder, Requests, CleanExit, ClientProofs!IInv,
         ClientProofs!Phases, ClientProofs!Disconnected, Client!Live
<1> QED BY <1>1, Invariance, PTL

\* On the connection the client gives it, through crashes, restarts and
\* shutdown, the loop of the organ processes its mailbox at least once.
THEOREM OrganKeepsContract == Spec => KeepsContract
<1>1. Init => Loop!Contract!Init
  BY DEF Init, Loop!Init, Loop!Contract!Init, Loop!status, Loop!Sent,
         Loop!Mailbox
<1>2. LoopProofs!IInv /\ [Next]_vars
        => LoopProofs!IInv' /\ [Loop!Contract!Next]_Loop!status
  BY ContractStep
<1> QED
  BY <1>1, <1>2, InitLoop, PTL
     DEF Spec, KeepsContract, Loop!ImplementsContract, Loop!Contract!Spec

=============================================================================
