-------------------------------- MODULE Organ --------------------------------
(***************************************************************************)
(* An organ as createOrgan puts it together (src/lib/organ-boot.js): the   *)
(* boot sequence, the Spine client and the live loop running side by side, *)
(* and the shutdown that signals and the owner ask for.                    *)
(*                                                                         *)
(* The loop reads the connection through spine.isConnected(), so its       *)
(* variable connected is the client's isConnected here.  Everything runs   *)
(* in one process: when it is gone only the Spine goes on.                 *)
(***************************************************************************)
EXTENDS Naturals, FiniteSets

CONSTANTS
  Message, Ping, ToolCall, ReplyTo, Poison, Pushed, EnvelopeCorr, PayloadCorr,
  CorrelationId, NoCorr, Cycle, DrainLimit, HasToolHandler,
  Socket, null, Filter, MAX_MISSED_PONGS, BASE_DELAY, MAX_RECONNECT_DELAY,
  Reuse, MaxConnects,
  MaxSignals,       \* bound on the requests to stop that a process gets
  MaxRestarts,      \* bound on the times a dead process is started again
  OwnerShutsDown    \* may the owner call the shutdown() createOrgan returned?

VARIABLES
  \* the Spine client
  ws, connected, intentionalClose, reconnectDelay, reconnectTimer, pingTimer,
  missedPongs, subscriptionFilters, readyState, subscribed, peerAlive, silent,
  connects, crashed,
  \* the live loop and the mailbox
  sentAt, acked, stopped, pc, todo, ackedIds, push, started, resolved, replies,
  \* createOrgan and shutdown
  boot,             \* the await createOrgan is at, or how it ended
  http,             \* the HTTP server
  shutdownPc,       \* where shutdown() is; "none" while ~shutdownCalled
  exitWhenDone,     \* the call of shutdown() that does the work is a signal's
  signals,          \* history: SIGTERM, SIGINT and the owner's calls so far
  restarts,         \* history: times the process was started again
  process           \* "up", "exited" by process.exit(0), or "killed"

Client == INSTANCE SpineClient
Loop == INSTANCE LiveLoop WITH connected <- Client!isConnected

ASSUME OrganAssumption ==
  /\ Client!ClientAssumption
  /\ Loop!MessageAssumption /\ Loop!CorrelationAssumption
  /\ Loop!LimitAssumption
  /\ MaxSignals \in Nat /\ MaxRestarts \in Nat /\ OwnerShutsDown \in BOOLEAN

clientVars == <<ws, connected, intentionalClose, reconnectDelay,
                reconnectTimer, pingTimer, missedPongs, subscriptionFilters,
                readyState, subscribed, peerAlive, silent, connects, crashed>>
loopVars == <<sentAt, acked, stopped, pc, todo, ackedIds, push, started,
              resolved, replies>>
organVars == <<boot, http, shutdownPc, exitWhenDone, signals, restarts, process>>
vars == <<clientVars, loopVars, organVars>>

-----------------------------------------------------------------------------
Init ==
  /\ Client!Init
  /\ Loop!Init
  /\ boot = "listen"
  /\ http = "down"
  /\ shutdownPc = "none"
  /\ exitWhenDone = FALSE
  /\ signals = 0
  /\ restarts = 0
  /\ process = "up"

Up == process = "up"

Boot(at, next) == Up /\ boot = at /\ boot' = next

-----------------------------------------------------------------------------
(* The boot sequence.                                                      *)

\* Steps 2 to 7: the dependencies are there and the HTTP server listens.  A
\* missing dependency rejects createOrgan.  A taken port does not: express 5
\* hands the error to the callback of app.listen, which resolves before the
\* error listener rejects, and the boot goes on without a server.
Listen ==
  /\ \/ Boot("listen", "register") /\ http' \in {"up", "down"}
     \/ Boot("listen", "failed") /\ UNCHANGED http
  /\ UNCHANGED <<clientVars, loopVars, shutdownPc, exitWhenDone, signals,
                 restarts, process>>

\* Step 8, await spine.register(); a failure leaves the server listening.
Register ==
  /\ Boot("register", "subscribe") \/ Boot("register", "failed")
  /\ UNCHANGED <<clientVars, loopVars, http, shutdownPc, exitWhenDone, signals,
                 restarts, process>>

\* Step 10 and then steps 9 and 11, without an await: the filters are handed
\* over before the connection exists, then the loop connects.
Subscribe(f) ==
  /\ Boot("subscribe", "subscribe")
  /\ Client!subscribe(f)
  /\ UNCHANGED <<loopVars, http, shutdownPc, exitWhenDone, signals, restarts,
                 process>>

StartLoop ==
  /\ Boot("subscribe", "startup")
  /\ subscriptionFilters = Filter
  /\ Client!connect
  /\ UNCHANGED <<loopVars, http, shutdownPc, exitWhenDone, signals, restarts,
                 process>>

\* Step 12, await onStartup; the signal handlers are wired only after it.
Startup ==
  /\ Boot("startup", "started") \/ Boot("startup", "failed")
  /\ UNCHANGED <<clientVars, loopVars, http, shutdownPc, exitWhenDone, signals,
                 restarts, process>>

LoopRuns == Up /\ connects > 0

-----------------------------------------------------------------------------
(* Shutdown.                                                               *)

\* shutdown() up to await onShutdown().
BeginShutdown ==
  /\ shutdownPc = "none"
  /\ shutdownPc' = "cleanup"
  /\ UNCHANGED clientVars
  /\ Loop!Stop

\* shutdown() returns at once when it was called before, so the second signal
\* exits whether or not the first call is done.
SecondCall == process' = "exited"

Signal ==
  /\ Up /\ signals < MaxSignals
  /\ signals' = signals + 1
  /\ \/ /\ boot # "started"                       \* default action
        /\ process' = "killed"
        /\ UNCHANGED <<clientVars, loopVars, shutdownPc, exitWhenDone>>
     \/ /\ boot = "started" /\ shutdownPc = "none"
        /\ BeginShutdown
        /\ exitWhenDone' = TRUE
        /\ UNCHANGED process
     \/ /\ boot = "started" /\ shutdownPc # "none"
        /\ SecondCall
        /\ UNCHANGED <<clientVars, loopVars, shutdownPc, exitWhenDone>>
  /\ UNCHANGED <<boot, http, restarts>>

OwnerShutdown ==
  /\ Up /\ OwnerShutsDown /\ boot = "started" /\ signals < MaxSignals
  /\ signals' = signals + 1
  /\ BeginShutdown
  /\ exitWhenDone' = FALSE
  /\ UNCHANGED <<boot, http, restarts, process>>

\* mutant: the process exits without waiting for server.close()
CleanupEndsAndExits ==
  /\ Up /\ shutdownPc = "cleanup"
  /\ shutdownPc' = "closing"
  /\ Client!disconnect
  /\ http' = "closing"
  /\ process' = "exited"
  /\ UNCHANGED <<loopVars, boot, exitWhenDone, signals, restarts>>

\* onShutdown has resolved, or thrown; the rest runs to server.close().
CleanupEnds ==
  /\ Up /\ shutdownPc = "cleanup"
  /\ shutdownPc' = "closing"
  /\ Client!disconnect
  /\ http' = "closing"
  /\ UNCHANGED <<loopVars, boot, exitWhenDone, signals, restarts, process>>

\* mutant: process.on(signal, shutdown), nobody exits
ServerClosedOnly ==
  /\ Up /\ shutdownPc = "closing"
  /\ shutdownPc' = "done"
  /\ http' = "closed"
  /\ UNCHANGED <<clientVars, loopVars, boot, exitWhenDone, signals, restarts,
                 process>>

\* The last HTTP connection has ended.
ServerClosed ==
  /\ Up /\ shutdownPc = "closing"
  /\ shutdownPc' = "done"
  /\ http' = "closed"
  /\ process' = IF exitWhenDone THEN "exited" ELSE process
  /\ UNCHANGED <<clientVars, loopVars, boot, exitWhenDone, signals, restarts>>

-----------------------------------------------------------------------------
(* Crash and restart, both from outside.  The mailbox is the Spine's and   *)
(* survives ("Messages persist in Spine's store"); the rest starts afresh, *)
(* the histories apart.                                                    *)

Crash ==
  /\ Up
  /\ process' = "killed"
  /\ UNCHANGED <<clientVars, loopVars, boot, http, shutdownPc, exitWhenDone,
                 signals, restarts>>

Restart ==
  /\ ~Up /\ restarts < MaxRestarts
  /\ restarts' = restarts + 1
  /\ process' = "up" /\ boot' = "listen" /\ http' = "down"
  /\ shutdownPc' = "none" /\ exitWhenDone' = FALSE
  /\ ws' = null /\ connected' = FALSE /\ intentionalClose' = FALSE
  /\ reconnectDelay' = BASE_DELAY /\ reconnectTimer' = FALSE
  /\ pingTimer' = FALSE /\ missedPongs' = 0
  /\ subscriptionFilters' = {} /\ connects' = 0 /\ crashed' = FALSE
  /\ readyState' = [s \in Socket |-> "CLOSED"]
  /\ subscribed' = [s \in Socket |-> {}]
  /\ peerAlive' = [s \in Socket |-> TRUE]
  /\ silent' = [s \in Socket |-> 0]
  /\ stopped' = FALSE
  /\ pc' = [c \in Cycle |-> "idle"]
  /\ todo' = [c \in Cycle |-> {}]
  /\ ackedIds' = [c \in Cycle |-> {}]
  /\ push' = [m \in Message |-> IF push[m] = "none" THEN "none" ELSE "done"]
  /\ signals' = 0
  /\ UNCHANGED <<sentAt, acked, started, resolved, replies>>

-----------------------------------------------------------------------------
(* The client and the loop at work.                                        *)

InClient == Up /\ UNCHANGED <<loopVars, organVars>>

Reconnect == InClient /\ Client!ReconnectTimer
Heartbeat == InClient /\ Client!HeartbeatTick
Open(s) == InClient /\ Client!OnOpen(s)
Closed(s) == InClient /\ Client!OnClose(s)

\* The other end answers, closes or falls silent.
Peer(s) ==
  InClient /\ (Client!OnPong(s) \/ Client!ConnectionLost(s)
               \/ Client!PeerGoesSilent(s))

Arrive(m) ==
  /\ UNCHANGED <<clientVars, organVars>>
  /\ Loop!Accept(m)

InLoop == LoopRuns /\ UNCHANGED <<clientVars, organVars>>

DrainTick(c) == InLoop /\ Loop!Tick(c)

LoopStep(c) == InLoop /\ Loop!CycleStep(c)

\* A frame is delivered by a socket that has not reported its close.
PushStep(m) ==
  /\ LoopRuns
  /\ push[m] = "none" =>
       \E s \in Socket : readyState[s] = "OPEN" \/ readyState[s] = "CLOSING"
  /\ UNCHANGED <<clientVars, organVars>>
  /\ Loop!WsStep(m)

Next ==
  \/ Listen \/ Register \/ StartLoop \/ Startup
  \/ \E f \in Filter : Subscribe(f)
  \/ Signal \/ OwnerShutdown \/ CleanupEnds \/ ServerClosed
  \/ Crash \/ Restart \/ Reconnect \/ Heartbeat
  \/ \E s \in Socket : Open(s) \/ Closed(s) \/ Peer(s)
  \/ \E m \in Message : Arrive(m) \/ PushStep(m)
  \/ \E c \in Cycle : DrainTick(c) \/ LoopStep(c)

Spec == Init /\ [][Next]_vars

(***************************************************************************)
(* Fairness: that of the client and of the loop, without the loop's        *)
(* assumption that the connection comes back (the client sees to that),    *)
(* and onShutdown and server.close() come to an end.                       *)
(***************************************************************************)
Fairness ==
  /\ WF_vars(CleanupEnds) /\ WF_vars(ServerClosed)
  /\ WF_vars(Reconnect) /\ WF_vars(Heartbeat)
  /\ \A s \in Socket : WF_vars(Closed(s))
  /\ SF_vars(\E s \in Socket : Open(s))
  /\ \A c \in Cycle :
       /\ SF_vars(DrainTick(c))
       /\ WF_vars(LoopStep(c))
       /\ SF_vars(InLoop /\ Loop!DrainOk(c))
       /\ SF_vars(InLoop /\ Loop!AckOk(c))
       /\ \A m \in Message :
            /\ SF_vars(InLoop /\ Loop!HandlerReturns(c, m))
            /\ SF_vars(InLoop /\ Loop!SendOk(c, m))

FairSpec == Spec /\ Fairness

-----------------------------------------------------------------------------
TypeOK ==
  /\ Client!TypeOK
  /\ Loop!TypeOK
  /\ boot \in {"listen", "register", "subscribe", "startup", "started", "failed"}
  /\ http \in {"down", "up", "closing", "closed"}
  /\ shutdownPc \in {"none", "cleanup", "closing", "done"}
  /\ exitWhenDone \in BOOLEAN
  /\ signals \in 0 .. MaxSignals
  /\ restarts \in 0 .. MaxRestarts
  /\ process \in {"up", "exited", "killed"}

\* The onShutdown hook is "pre-shutdown cleanup" (organ-boot.js:69): when the
\* process leaves by process.exit(0) the hook has ended, the connection is
\* closed and so is the HTTP server, unless it was asked to stop twice.
CleanExit ==
  process = "exited" /\ signals = 1 =>
    /\ shutdownPc = "done" /\ http = "closed"
    /\ Client!Live = {} /\ ~reconnectTimer

\* Once shutdown() has closed the Spine connection nothing brings it back,
\* though cycles and pushes in flight go on, and no heartbeat or timer is left.
ShutdownReleases ==
  shutdownPc \in {"closing", "done"} =>
    Client!Live = {} /\ ~reconnectTimer /\ ~pingTimer /\ ~Client!isConnected

\* The loop inside the organ keeps its promise on the connection the client
\* gives it, although the process may die at any point and start again.
KeepsContract == Loop!ImplementsContract

\* End to end: a message in the mailbox of an organ that has booted is
\* acknowledged unless the organ shuts down, whatever the connection does.
EndToEnd ==
  \A m \in Message :
    (m \in Loop!Sent /\ boot = "started")
      ~> (m \in acked \/ shutdownPc # "none" \/ ~Up)

\* A signal ends a booted organ.
SignalEnds == exitWhenDone ~> ~Up

=============================================================================
