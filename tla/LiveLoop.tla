------------------------------ MODULE LiveLoop ------------------------------
(***************************************************************************)
(* The organ's live loop (src/lib/live-loop.js): an interval timer starts  *)
(* drain cycles against the organ's mailbox in the Spine, each cycle hands *)
(* its messages one by one to a handler and acknowledges the ones it may,  *)
(* while the Spine also pushes messages over the WebSocket.                *)
(*                                                                         *)
(* JavaScript runs one handler at a time, so an action is the code between *)
(* two awaits.  setInterval does not wait for the promise drainCycle       *)
(* returns: a cycle that takes longer than drainInterval overlaps the next *)
(* one.  Cycle is the set of activations that may be in flight at once.    *)
(*                                                                         *)
(* The Spine is external.  From its use here: POST drain returns up to     *)
(* drainLimit unacknowledged messages, oldest first, and removes none;     *)
(* POST ack removes the listed ones; a request may fail, and may fail      *)
(* after the Spine has applied it.                                         *)
(***************************************************************************)
EXTENDS Naturals, FiniteSets

CONSTANTS
  Message,         \* message_ids of the envelopes addressed to this organ
  Ping,            \* those whose payload.event_type is "ping"
  ToolCall,        \* those whose payload.event_type is "tool_call_request"
  ReplyTo,         \* those that carry reply_to
  Poison,          \* those for which the organ's handler throws every time
  Pushed,          \* those the Spine also pushes over the WebSocket
  EnvelopeCorr,    \* envelope.correlation_id of each message, or NoCorr
  PayloadCorr,     \* envelope.payload.correlation_id of each, or NoCorr
  CorrelationId,   \* the ids a reply may carry, message_ids included
  NoCorr,          \* no correlation id given
  Cycle,           \* concurrent activations of drainCycle (a bound)
  DrainLimit,      \* config.drainLimit
  HasToolHandler   \* config.toolCallHandler was given

ASSUME MessageAssumption ==
  /\ IsFiniteSet(Message)
  /\ Ping \subseteq Message /\ ToolCall \subseteq Message
  /\ Ping \cap ToolCall = {}
  /\ ReplyTo \subseteq Message /\ Poison \subseteq Message
  /\ Pushed \subseteq Message

ASSUME CorrelationAssumption ==
  /\ Message \subseteq CorrelationId /\ NoCorr \notin CorrelationId
  /\ EnvelopeCorr \in [Message -> CorrelationId \cup {NoCorr}]
  /\ PayloadCorr \in [Message -> CorrelationId \cup {NoCorr}]

ASSUME LimitAssumption ==
  DrainLimit \in Nat \ {0} /\ HasToolHandler \in BOOLEAN

VARIABLES
  sentAt,      \* Spine: arrival number of each message, 0 before it arrives
  acked,       \* Spine: the messages it was told to drop from the mailbox
  connected,   \* spine.isConnected()
  stopped,     \* stop() was called
  pc,          \* where each drain cycle is
  todo,        \* drained messages the cycle has not finished, current one too
  ackedIds,    \* the cycle's ackedIds
  push,        \* where handleWsMessage is for each pushed message
  started,     \* history: messages whose handling in a drain cycle has begun
  resolved,    \* history: what onMessage resolved to in the drain cycles
  replies      \* history: the reply envelopes the Spine accepted

spineVars == <<sentAt, acked>>
cycleVars == <<pc, todo, ackedIds, started, resolved>>
vars == <<sentAt, acked, connected, stopped, pc, todo, ackedIds, push,
          started, resolved, replies>>

-----------------------------------------------------------------------------
Sent == {m \in Message : sentAt[m] > 0}
Mailbox == Sent \ acked
Older(m, n) == sentAt[m] < sentAt[n]

\* mutant: the batch is worked off in any order
AnyOf(m, S) == m \in S

\* The first message of S in the order the Spine lists them.
IsFirst(m, S) == m \in S /\ \A n \in S \ {m} : Older(m, n)

\* What a drain answers: the drainLimit oldest messages of the mailbox.
DrainResult ==
  {m \in Mailbox : Cardinality({n \in Mailbox : Older(n, m)}) < DrainLimit}

isPing(m) == m \in Ping
\* isToolCallRequest, and handleToolCallRequest does not return false.
isHandledToolCall(m) == m \in ToolCall /\ HasToolHandler
Intercepted(m) == isPing(m) \/ isHandledToolCall(m)

correlationIdFor(m) ==
  CASE EnvelopeCorr[m] # NoCorr -> EnvelopeCorr[m]
    [] EnvelopeCorr[m] = NoCorr /\ PayloadCorr[m] # NoCorr -> PayloadCorr[m]
    [] OTHER -> m

Reply(m) == [to |-> m, corr |-> correlationIdFor(m)]

-----------------------------------------------------------------------------
Init ==
  /\ sentAt = [m \in Message |-> 0]
  /\ acked = {}
  /\ connected = FALSE
  /\ stopped = FALSE
  /\ pc = [c \in Cycle |-> "idle"]
  /\ todo = [c \in Cycle |-> {}]
  /\ ackedIds = [c \in Cycle |-> {}]
  /\ push = [m \in Message |-> "none"]
  /\ started = {}
  /\ resolved = [m \in Message |-> {}]
  /\ replies = {}

-----------------------------------------------------------------------------
(* The Spine and the connection.                                           *)

\* A producer's envelope reaches the organ's mailbox.
Accept(m) ==
  /\ sentAt[m] = 0
  /\ sentAt' = [sentAt EXCEPT ![m] = Cardinality(Sent) + 1]
  /\ UNCHANGED <<acked, connected, stopped, pc, todo, ackedIds, push,
                 started, resolved, replies>>

\* The WebSocket opens or closes (SpineClient.tla models when).
ConnectionUp ==
  /\ ~connected
  /\ connected' = TRUE
  /\ UNCHANGED <<sentAt, acked, stopped, pc, todo, ackedIds, push,
                 started, resolved, replies>>

ConnectionDown ==
  /\ connected
  /\ connected' = FALSE
  /\ UNCHANGED <<sentAt, acked, stopped, pc, todo, ackedIds, push,
                 started, resolved, replies>>

\* loop.stop(): no further tick; cycles and pushes in flight go on.
Stop ==
  /\ ~stopped
  /\ stopped' = TRUE
  /\ UNCHANGED <<sentAt, acked, connected, pc, todo, ackedIds, push,
                 started, resolved, replies>>

-----------------------------------------------------------------------------
(* The drain cycle.                                                        *)

Goto(c, l) == pc' = [pc EXCEPT ![c] = l]

\* mutant: stop() leaves the interval running and drainCycle does not look
TickAfterStop(c) ==
  /\ connected
  /\ pc[c] = "idle"
  /\ Goto(c, "drain")
  /\ UNCHANGED <<spineVars, connected, stopped, todo, ackedIds, push,
                 started, resolved, replies>>

\* The interval fires: drainCycle runs up to await spine.drain(drainLimit).
Tick(c) ==
  /\ ~stopped /\ connected
  /\ pc[c] = "idle"
  /\ Goto(c, "drain")
  /\ UNCHANGED <<spineVars, connected, stopped, todo, ackedIds, push,
                 started, resolved, replies>>

DrainOk(c) ==
  /\ pc[c] = "drain"
  /\ todo' = [todo EXCEPT ![c] = DrainResult]
  /\ Goto(c, "next")
  /\ UNCHANGED <<spineVars, connected, stopped, ackedIds, push,
                 started, resolved, replies>>

DrainError(c) ==
  /\ pc[c] = "drain"
  /\ Goto(c, "idle")
  /\ UNCHANGED <<spineVars, connected, stopped, todo, ackedIds, push,
                 started, resolved, replies>>

\* mutant: ackedIds.push moved out of the try block
FinishAndAck(c, m, ids) ==
  /\ todo' = [todo EXCEPT ![c] = @ \ {m}]
  /\ ackedIds' = [ackedIds EXCEPT ![c] = @ \cup {m}]
  /\ Goto(c, "next")

\* The cycle is done with m and goes on to the next message of the batch;
\* ids is what it pushes onto ackedIds.
Finish(c, m, ids) ==
  /\ todo' = [todo EXCEPT ![c] = @ \ {m}]
  /\ ackedIds' = [ackedIds EXCEPT ![c] = @ \cup ids]
  /\ Goto(c, "next")

\* Next message of the batch, up to the await of the handler or the send.
Begin(c, m) ==
  /\ pc[c] = "next" /\ IsFirst(m, todo[c])
  /\ started' = started \cup {m}
  /\ \/ /\ isPing(m) /\ m \in ReplyTo
        /\ Goto(c, "reply")
        /\ UNCHANGED <<todo, ackedIds>>
     \/ /\ isPing(m) /\ m \notin ReplyTo
        /\ Finish(c, m, {m})
     \/ /\ ~isPing(m)
        /\ Goto(c, "handle")
        /\ UNCHANGED <<todo, ackedIds>>
  /\ UNCHANGED <<spineVars, connected, stopped, push, resolved, replies>>

\* onMessage or toolCallHandler resolves, to null or to a reply payload.
HandlerReturns(c, m) ==
  /\ pc[c] = "handle" /\ IsFirst(m, todo[c])
  /\ m \notin Poison
  /\ \E response \in {"null", "payload"} :
       /\ IF isHandledToolCall(m)
          THEN UNCHANGED resolved
          ELSE resolved' = [resolved EXCEPT ![m] = @ \cup {response}]
       /\ IF response = "payload" /\ m \in ReplyTo
          THEN Goto(c, "reply") /\ UNCHANGED <<todo, ackedIds>>
          ELSE Finish(c, m, {m})
  /\ UNCHANGED <<spineVars, connected, stopped, push, started, replies>>

\* mutant: a message is acknowledged even when its handler fails
AckAlways(m) == {m}

\* What a cycle acknowledges of a message whose handler or reply failed: a
\* ping or a tool call is "handled (even on error)", a plain one is not.
AckOnError(m) == IF Intercepted(m) THEN {m} ELSE {}

\* mutant: the error of one message ends the whole cycle
ThrowEndsCycle(c, m) ==
  /\ pc[c] = "handle" /\ IsFirst(m, todo[c])
  /\ todo' = [todo EXCEPT ![c] = {}]
  /\ ackedIds' = [ackedIds EXCEPT ![c] = {}]
  /\ Goto(c, "idle")
  /\ UNCHANGED <<spineVars, connected, stopped, push, started, resolved,
                 replies>>

HandlerThrows(c, m) ==
  /\ pc[c] = "handle" /\ IsFirst(m, todo[c])
  /\ Finish(c, m, AckOnError(m))
  /\ UNCHANGED <<spineVars, connected, stopped, push, started, resolved,
                 replies>>

SendOk(c, m) ==
  /\ pc[c] = "reply" /\ IsFirst(m, todo[c])
  /\ replies' = replies \cup {Reply(m)}
  /\ Finish(c, m, {m})
  /\ UNCHANGED <<spineVars, connected, stopped, push, started, resolved>>

\* spine.send throws; the Spine may have accepted the reply all the same.
SendError(c, m) ==
  /\ pc[c] = "reply" /\ IsFirst(m, todo[c])
  /\ replies' \in {replies, replies \cup {Reply(m)}}
  /\ Finish(c, m, AckOnError(m))
  /\ UNCHANGED <<spineVars, connected, stopped, push, started, resolved>>

\* The batch is finished: the cycle acks what it collected, if anything.
EndOfBatch(c) ==
  /\ pc[c] = "next" /\ todo[c] = {}
  /\ Goto(c, IF ackedIds[c] = {} THEN "idle" ELSE "ack")
  /\ UNCHANGED <<spineVars, connected, stopped, todo, ackedIds, push,
                 started, resolved, replies>>

AckOk(c) ==
  /\ pc[c] = "ack"
  /\ acked' = acked \cup ackedIds[c]
  /\ ackedIds' = [ackedIds EXCEPT ![c] = {}]
  /\ Goto(c, "idle")
  /\ UNCHANGED <<sentAt, connected, stopped, todo, push, started, resolved,
                 replies>>

\* The ack did not reach the Spine; the error is logged and dropped.
AckError(c) ==
  /\ pc[c] = "ack"
  /\ ackedIds' = [ackedIds EXCEPT ![c] = {}]
  /\ Goto(c, "idle")
  /\ UNCHANGED <<spineVars, connected, stopped, todo, push, started, resolved,
                 replies>>

-----------------------------------------------------------------------------
(* handleWsMessage: the same handlers, no ack, every error swallowed, and  *)
(* no look at stopped.  A push needs no connection: frames received before *)
(* the socket closed are delivered all the same.  One push per message     *)
(* (a bound).                                                              *)

WsPush(m) ==
  /\ m \in Pushed \cap Sent /\ push[m] = "none"
  /\ push' = [push EXCEPT ![m] =
                CASE isPing(m) /\ m \in ReplyTo -> "reply"
                  [] isPing(m) /\ m \notin ReplyTo -> "done"
                  [] OTHER -> "handle"]
  /\ UNCHANGED <<spineVars, connected, stopped, cycleVars, replies>>

WsHandlerReturns(m) ==
  /\ push[m] = "handle" /\ m \notin Poison
  /\ \E response \in {"null", "payload"} :
       push' = [push EXCEPT ![m] =
                  IF response = "payload" /\ m \in ReplyTo
                  THEN "reply" ELSE "done"]
  /\ UNCHANGED <<spineVars, connected, stopped, cycleVars, replies>>

WsHandlerThrows(m) ==
  /\ push[m] = "handle"
  /\ push' = [push EXCEPT ![m] = "done"]
  /\ UNCHANGED <<spineVars, connected, stopped, cycleVars, replies>>

\* The reply goes out, or the send throws (before or after it was accepted).
WsSend(m) ==
  /\ push[m] = "reply"
  /\ push' = [push EXCEPT ![m] = "done"]
  /\ replies' \in {replies, replies \cup {Reply(m)}}
  /\ UNCHANGED <<spineVars, connected, stopped, cycleVars>>

-----------------------------------------------------------------------------
MessageStep(c, m) ==
  Begin(c, m) \/ HandlerReturns(c, m) \/ HandlerThrows(c, m)
  \/ SendOk(c, m) \/ SendError(c, m)

CycleStep(c) ==
  \/ DrainOk(c) \/ DrainError(c) \/ EndOfBatch(c) \/ AckOk(c) \/ AckError(c)
  \/ \E m \in Message : MessageStep(c, m)

WsStep(m) ==
  WsPush(m) \/ WsHandlerReturns(m) \/ WsHandlerThrows(m) \/ WsSend(m)

Next ==
  \/ \E m \in Message : Accept(m) \/ WsStep(m)
  \/ ConnectionUp \/ ConnectionDown \/ Stop
  \/ \E c \in Cycle : Tick(c) \/ CycleStep(c)

Spec == Init /\ [][Next]_vars

(***************************************************************************)
(* Fairness.  The interval keeps firing and an await is eventually settled *)
(* (handlers and requests end).  The strong conditions say that a request  *)
(* or a healthy handler tried again and again succeeds some time, and that *)
(* the WebSocket is not down at every tick (SpineClient!Reconnects).       *)
(***************************************************************************)
Fairness ==
  /\ WF_vars(ConnectionUp)
  /\ \A c \in Cycle :
       /\ SF_vars(Tick(c))
       /\ WF_vars(CycleStep(c))
       /\ SF_vars(DrainOk(c))
       /\ SF_vars(AckOk(c))
  /\ \A c \in Cycle, m \in Message :
       SF_vars(HandlerReturns(c, m)) /\ SF_vars(SendOk(c, m))

FairSpec == Spec /\ Fairness

-----------------------------------------------------------------------------
TypeOK ==
  /\ sentAt \in [Message -> Nat]
  /\ acked \subseteq Message
  /\ connected \in BOOLEAN
  /\ stopped \in BOOLEAN
  /\ pc \in [Cycle -> {"idle", "drain", "next", "handle", "reply", "ack"}]
  /\ todo \in [Cycle -> SUBSET Message]
  /\ ackedIds \in [Cycle -> SUBSET Message]
  /\ push \in [Message -> {"none", "handle", "reply", "done"}]
  /\ started \subseteq Message
  /\ resolved \in [Message -> SUBSET {"null", "payload"}]
  /\ replies \subseteq [to : ReplyTo, corr : CorrelationId]

\* A drain cycle has done all that m asks for: an intercepted message was
\* taken up, a plain one was handled without error and answered if it had to.
Served(m) ==
  IF Intercepted(m)
  THEN m \in started
  ELSE \/ "null" \in resolved[m]
       \/ "payload" \in resolved[m] /\ (m \in ReplyTo => Reply(m) \in replies)

\* Safety of the acknowledgement ("if onMessage throws for one message, that
\* message is NOT acked"): whatever cycles overlap, and whichever requests
\* fail, a message leaves the mailbox only after it was served.
AckedWasServed == \A m \in acked : Served(m)

\* The drain path takes messages up in the order the Spine accepted them:
\* once the handling of a message has begun, that of every older one has too,
\* although cycles overlap and failed messages are drained again.
FirstAttemptInOrder ==
  \A n \in started : \A m \in Sent : Older(m, n) => m \in started

\* The loop and the Spine together implement at-least-once processing.
status ==
  [m \in Message |->
     CASE m \in acked -> "removed"
       [] m \in Mailbox /\ Served(m) -> "served"
       [] m \in Mailbox /\ ~Served(m) -> "waiting"
       [] OTHER -> "unknown"]

Contract == INSTANCE MailboxContract

\* Every step of the loop is a step of the contract or leaves it alone: no
\* message vanishes unserved, comes back after its removal or is taken back.
ImplementsContract == Contract!Spec

\* No healthy message is stuck: unless the loop is stopped, a message whose
\* handler does not always throw is acknowledged, however many times handler,
\* reply, drain and ack fail on the way (fewer than drainLimit poison ones).
HealthyAcked ==
  \A m \in Message :
    m \in Sent ~> (m \in acked \/ stopped \/ (m \in Poison /\ ~Intercepted(m)))

\* stop() lets the cycles in flight finish and starts no other.
StopQuiesces == stopped ~> [](\A c \in Cycle : pc[c] = "idle")

=============================================================================
