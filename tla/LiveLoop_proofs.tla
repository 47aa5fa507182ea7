--------------------------- MODULE LiveLoop_proofs ---------------------------
(***************************************************************************)
(* Theorems about LiveLoop and ToolCall, for any messages, any number of   *)
(* overlapping cycles and any drain limit.                                 *)
(***************************************************************************)
EXTENDS ToolCall, FiniteSetTheorems, TLAPS

-----------------------------------------------------------------------------
(* The inductive invariant.  AckedWasServed alone is not inductive: an ack *)
(* removes what the cycle collected, and a cycle collects a message on the *)
(* word of the reply it waits for.                                         *)

\* Only what was accepted is drained, only what was taken up is collected,
\* handled or acknowledged.
KnownMessages ==
  /\ started \subseteq Sent
  /\ acked \subseteq started
  /\ \A c \in Cycle : todo[c] \subseteq Sent /\ ackedIds[c] \subseteq started
  /\ \A m \in Message : resolved[m] # {} => m \in started

\* The message a cycle is at has been taken up; one whose reply is being
\* sent has reply_to, and its handler has resolved to the reply.
CurrentMessage ==
  \A c \in Cycle, m \in Message :
    IsFirst(m, todo[c]) =>
      /\ pc[c] \in {"handle", "reply"} => m \in started
      /\ pc[c] = "reply" =>
           m \in ReplyTo /\ (Intercepted(m) \/ "payload" \in resolved[m])

PushedReplies == \A m \in Message : push[m] = "reply" => m \in ReplyTo

CollectedWasServed == \A c \in Cycle : \A m \in ackedIds[c] : Served(m)

IInv ==
  /\ TypeOK
  /\ KnownMessages
  /\ CurrentMessage
  /\ PushedReplies
  /\ CollectedWasServed
  /\ AckedWasServed

-----------------------------------------------------------------------------
\* A batch has one first message.
LEMMA FirstUnique ==
  ASSUME TypeOK, NEW S \in SUBSET Message, NEW m, NEW n,
         IsFirst(m, S), IsFirst(n, S)
  PROVE  m = n
BY DEF TypeOK, IsFirst, Older

\* The id a reply carries is one of the declared ids.
LEMMA CorrelationType ==
  ASSUME NEW m \in Message
  PROVE  correlationIdFor(m) \in CorrelationId
BY CorrelationAssumption DEF correlationIdFor

\* A served message stays served when the histories grow.
LEMMA ServedMonotone ==
  ASSUME NEW m \in Message, Served(m),
         started \subseteq started', replies \subseteq replies',
         resolved[m] \subseteq resolved'[m]
  PROVE  Served(m)'
BY DEF Served, Intercepted, isPing, isHandledToolCall, Reply, correlationIdFor

-----------------------------------------------------------------------------
LEMMA InitIInv == Init => IInv
<1> SUFFICES ASSUME Init PROVE IInv
  OBVIOUS
<1> USE DEF Init
<1>1. TypeOK
  BY MessageAssumption DEF TypeOK
<1>2. KnownMessages
  BY DEF KnownMessages, Sent
<1>3. CurrentMessage
  BY DEF CurrentMessage, IsFirst
<1>4. PushedReplies /\ CollectedWasServed /\ AckedWasServed
  BY DEF PushedReplies, CollectedWasServed, AckedWasServed
<1> QED BY <1>1, <1>2, <1>3, <1>4 DEF IInv

LEMMA HistoriesGrow ==
  ASSUME TypeOK, [Next]_vars
  PROVE  /\ started \subseteq started'
         /\ replies \subseteq replies'
         /\ \A m \in Message : resolved[m] \subseteq resolved'[m]
<1> USE DEF TypeOK, spineVars, cycleVars
<1>1. CASE UNCHANGED vars
  BY <1>1 DEF vars
<1>2. ASSUME NEW m \in Message, Accept(m) \/ WsStep(m)
      PROVE  UNCHANGED <<started, resolved>> /\ replies \subseteq replies'
  BY <1>2 DEF Accept, WsStep, WsPush, WsHandlerReturns, WsHandlerThrows, WsSend
<1>3. CASE ConnectionUp \/ ConnectionDown \/ Stop
  BY <1>3 DEF ConnectionUp, ConnectionDown, Stop
<1>4. ASSUME NEW c \in Cycle, Tick(c)
      PROVE  UNCHANGED <<started, resolved, replies>>
  BY <1>4 DEF Tick
<1>5. ASSUME NEW c \in Cycle,
             DrainOk(c) \/ DrainError(c) \/ EndOfBatch(c) \/ AckOk(c) \/ AckError(c)
      PROVE  UNCHANGED <<started, resolved, replies>>
  BY <1>5 DEF DrainOk, DrainError, EndOfBatch, AckOk, AckError
<1>6. ASSUME NEW c \in Cycle, NEW m \in Message, MessageStep(c, m)
      PROVE  /\ started \subseteq started' /\ replies \subseteq replies'
             /\ \A n \in Message : resolved[n] \subseteq resolved'[n]
  <2>1. CASE Begin(c, m)
    BY <2>1 DEF Begin
  <2>2. CASE HandlerReturns(c, m)
    BY <2>2 DEF HandlerReturns
  <2>3. CASE HandlerThrows(c, m)
    BY <2>3 DEF HandlerThrows
  <2>4. CASE SendOk(c, m) \/ SendError(c, m)
    BY <2>4 DEF SendOk, SendError
  <2> QED BY <1>6, <2>1, <2>2, <2>3, <2>4 DEF MessageStep
<1> QED BY <1>1, <1>2, <1>3, <1>4, <1>5, <1>6 DEF Next, CycleStep

-----------------------------------------------------------------------------
(* Typing.                                                                 *)

LEMMA TypeStep == IInv /\ [Next]_vars => TypeOK'
<1> SUFFICES ASSUME IInv, [Next]_vars PROVE TypeOK'
  OBVIOUS
<1> USE DEF IInv, TypeOK, spineVars, cycleVars, Goto, Finish
<1>1. CASE UNCHANGED vars
  BY <1>1 DEF vars
<1>2. ASSUME NEW m \in Message, Accept(m) PROVE TypeOK'
  <2>1. IsFiniteSet(Sent)
    BY MessageAssumption, FS_Subset DEF Sent
  <2>2. Cardinality(Sent) + 1 \in Nat
    BY <2>1, FS_CardinalityType
  <2> QED BY <1>2, <2>2 DEF Accept
<1>3. ASSUME NEW m \in Message, WsStep(m) PROVE TypeOK'
  <2>1. CASE WsPush(m)
    BY <2>1 DEF WsPush
  <2>2. CASE WsHandlerReturns(m) \/ WsHandlerThrows(m)
    BY <2>2 DEF WsHandlerReturns, WsHandlerThrows
  <2>3. CASE WsSend(m)
    <3>1. Reply(m) \in [to : ReplyTo, corr : CorrelationId]
      BY <2>3, CorrelationType DEF WsSend, PushedReplies, Reply
    <3> QED BY <2>3, <3>1 DEF WsSend
  <2> QED BY <1>3, <2>1, <2>2, <2>3 DEF WsStep
<1>4. CASE ConnectionUp \/ ConnectionDown \/ Stop
  BY <1>4 DEF ConnectionUp, ConnectionDown, Stop
<1>5. ASSUME NEW c \in Cycle,
             Tick(c) \/ DrainOk(c) \/ DrainError(c) \/ EndOfBatch(c)
               \/ AckOk(c) \/ AckError(c)
      PROVE  TypeOK'
  <2>1. DrainResult \subseteq Message
    BY DEF DrainResult, Mailbox, Sent
  <2> QED BY <1>5, <2>1
          DEF Tick, DrainOk, DrainError, EndOfBatch, AckOk, AckError
<1>6. ASSUME NEW c \in Cycle, NEW m \in Message, MessageStep(c, m)
      PROVE  TypeOK'
  <2>1. AckOnError(m) \subseteq Message
    BY DEF AckOnError
  <2>2. CASE Begin(c, m)
    BY <2>2 DEF Begin
  <2>3. CASE HandlerReturns(c, m)
    BY <2>3 DEF HandlerReturns
  <2>4. CASE HandlerThrows(c, m)
    BY <2>4, <2>1 DEF HandlerThrows
  <2>5. CASE SendOk(c, m) \/ SendError(c, m)
    <3>1. Reply(m) \in [to : ReplyTo, corr : CorrelationId]
      BY <2>5, CorrelationType DEF SendOk, SendError, CurrentMessage, Reply
    <3> QED BY <2>5, <2>1, <3>1 DEF SendOk, SendError
  <2> QED BY <1>6, <2>2, <2>3, <2>4, <2>5 DEF MessageStep
<1> QED BY <1>1, <1>2, <1>3, <1>4, <1>5, <1>6 DEF Next, CycleStep

-----------------------------------------------------------------------------
(* The mailbox only grows by Accept, acked only by AckOk.                  *)

LEMMA KnownStep == IInv /\ [Next]_vars => KnownMessages'
<1> SUFFICES ASSUME IInv, [Next]_vars PROVE KnownMessages'
  OBVIOUS
<1> USE DEF IInv, TypeOK, KnownMessages, Sent, spineVars, cycleVars, Goto, Finish
<1>1. CASE UNCHANGED vars
  BY <1>1 DEF vars
<1>2. ASSUME NEW m \in Message, Accept(m) PROVE KnownMessages'
  <2>1. Cardinality(Sent) \in Nat
    BY MessageAssumption, FS_Subset, FS_CardinalityType
  <2>2. Sent \subseteq Sent'
    BY <1>2, <2>1 DEF Accept
  <2> QED BY <1>2, <2>2 DEF Accept
<1>3. ASSUME NEW m \in Message, WsStep(m) PROVE KnownMessages'
  BY <1>3 DEF WsStep, WsPush, WsHandlerReturns, WsHandlerThrows, WsSend
<1>4. CASE ConnectionUp \/ ConnectionDown \/ Stop
  BY <1>4 DEF ConnectionUp, ConnectionDown, Stop
<1>5. ASSUME NEW c \in Cycle,
             Tick(c) \/ DrainOk(c) \/ DrainError(c) \/ EndOfBatch(c)
               \/ AckOk(c) \/ AckError(c)
      PROVE  KnownMessages'
  <2>1. DrainResult \subseteq Sent
    BY DEF DrainResult, Mailbox
  <2> QED BY <1>5, <2>1
          DEF Tick, DrainOk, DrainError, EndOfBatch, AckOk, AckError
<1>6. ASSUME NEW c \in Cycle, NEW m \in Message, MessageStep(c, m)
      PROVE  KnownMessages'
  <2>1. CASE Begin(c, m)
    <3>1. m \in Sent
      BY <2>1 DEF Begin, IsFirst
    <3> QED BY <2>1, <3>1 DEF Begin
  <2>2. IsFirst(m, todo[c]) /\ pc[c] \in {"handle", "reply"} => m \in started
    BY DEF CurrentMessage
  <2>3. CASE HandlerReturns(c, m)
    BY <2>2, <2>3 DEF HandlerReturns
  <2>4. CASE HandlerThrows(c, m)
    BY <2>2, <2>4 DEF HandlerThrows, AckOnError
  <2>5. CASE SendOk(c, m) \/ SendError(c, m)
    BY <2>2, <2>5 DEF SendOk, SendError, AckOnError
  <2> QED BY <1>6, <2>1, <2>3, <2>4, <2>5 DEF MessageStep
<1> QED BY <1>1, <1>2, <1>3, <1>4, <1>5, <1>6 DEF Next, CycleStep

-----------------------------------------------------------------------------
(* The message a cycle is at.                                              *)

LEMMA CurrentStep == IInv /\ [Next]_vars => CurrentMessage'
<1> SUFFICES ASSUME IInv, [Next]_vars PROVE CurrentMessage'
  OBVIOUS
<1> USE DEF IInv, TypeOK, CurrentMessage, spineVars, cycleVars, Goto, Finish,
            Intercepted, isPing, isHandledToolCall
<1>1. CASE UNCHANGED vars
  BY <1>1 DEF vars, IsFirst, Older
<1>2. ASSUME NEW m \in Message, Accept(m) PROVE CurrentMessage'
  <2>1. ASSUME NEW c \in Cycle, NEW n \in Message, IsFirst(n, todo[c])'
        PROVE  IsFirst(n, todo[c])
    <3>1. todo' = todo /\ todo[c] \subseteq Sent
      BY <1>2 DEF Accept, KnownMessages
    <3>2. IsFirst(n, todo[c]) <=> IsFirst(n, todo[c])'
      BY <1>2, <3>1 DEF Accept, IsFirst, Older, Sent
    <3> QED BY <2>1, <3>2
  <2> QED BY <1>2, <2>1 DEF Accept
<1>3. ASSUME NEW m \in Message, WsStep(m) PROVE CurrentMessage'
  BY <1>3 DEF WsStep, WsPush, WsHandlerReturns, WsHandlerThrows, WsSend,
              IsFirst, Older
<1>4. CASE ConnectionUp \/ ConnectionDown \/ Stop
  BY <1>4 DEF ConnectionUp, ConnectionDown, Stop, IsFirst, Older
<1>5. ASSUME NEW c \in Cycle,
             Tick(c) \/ DrainOk(c) \/ DrainError(c) \/ EndOfBatch(c)
               \/ AckOk(c) \/ AckError(c)
      PROVE  CurrentMessage'
  BY <1>5 DEF Tick, DrainOk, DrainError, EndOfBatch, AckOk, AckError,
              IsFirst, Older
<1>6. ASSUME NEW c \in Cycle, NEW m \in Message, MessageStep(c, m)
      PROVE  CurrentMessage'
  <2>1. CASE Begin(c, m)
    <3>1. ASSUME NEW n \in Message, IsFirst(n, todo[c]) PROVE n = m
      BY <2>1, <3>1, FirstUnique DEF Begin
    <3> QED BY <2>1, <3>1 DEF Begin, IsFirst, Older
  <2>2. CASE HandlerReturns(c, m)
    <3>1. ASSUME NEW n \in Message, IsFirst(n, todo[c]) PROVE n = m
      BY <2>2, <3>1, FirstUnique DEF HandlerReturns
    <3> QED BY <2>2, <3>1 DEF HandlerReturns, IsFirst, Older
  <2>3. CASE HandlerThrows(c, m)
    BY <2>3 DEF HandlerThrows, IsFirst, Older
  <2>4. CASE SendOk(c, m) \/ SendError(c, m)
    BY <2>4 DEF SendOk, SendError, IsFirst, Older
  <2> QED BY <1>6, <2>1, <2>2, <2>3, <2>4 DEF MessageStep
<1> QED BY <1>1, <1>2, <1>3, <1>4, <1>5, <1>6 DEF Next, CycleStep

LEMMA PushStep == IInv /\ [Next]_vars => PushedReplies'
<1> SUFFICES ASSUME IInv, [Next]_vars PROVE PushedReplies'
  OBVIOUS
<1> USE DEF IInv, TypeOK, PushedReplies, Goto, Finish
<1>1. CASE UNCHANGED vars
  BY <1>1 DEF vars
<1>2. ASSUME NEW m \in Message, Accept(m) PROVE PushedReplies'
  BY <1>2 DEF Accept
<1>3. ASSUME NEW m \in Message, WsStep(m) PROVE PushedReplies'
  BY <1>3 DEF WsStep, WsPush, WsHandlerReturns, WsHandlerThrows, WsSend
<1>4. CASE ConnectionUp \/ ConnectionDown \/ Stop
  BY <1>4 DEF ConnectionUp, ConnectionDown, Stop
<1>5. ASSUME NEW c \in Cycle, Tick(c) \/ CycleStep(c) PROVE PushedReplies'
  BY <1>5 DEF Tick, CycleStep, DrainOk, DrainError, EndOfBatch, AckOk, AckError,
              MessageStep, Begin, HandlerReturns, HandlerThrows, SendOk,
              SendError
<1> QED BY <1>1, <1>2, <1>3, <1>4, <1>5 DEF Next

-----------------------------------------------------------------------------
(* The acknowledgements.                                                   *)

LEMMA ServedStep == IInv /\ [Next]_vars => CollectedWasServed' /\ AckedWasServed'
<1> SUFFICES ASSUME IInv, [Next]_vars
             PROVE  CollectedWasServed' /\ AckedWasServed'
  OBVIOUS
<1> USE DEF IInv, spineVars, cycleVars
<1>1. ASSUME NEW m \in Message, Served(m) PROVE Served(m)'
  BY <1>1, HistoriesGrow, ServedMonotone
<1>2. (\A c \in Cycle : ackedIds[c] \subseteq Message) /\ acked \subseteq Message
  BY DEF TypeOK
\* It is enough that a step acknowledges only what was collected and collects
\* only what is served.
<1>3. SUFFICES /\ \A n \in acked' : n \in acked \/ \E c \in Cycle : n \in ackedIds[c]
               /\ \A c \in Cycle : \A n \in ackedIds'[c] :
                     n \in ackedIds[c] \/ (n \in Message /\ Served(n)')
  BY <1>1, <1>2, <1>3 DEF CollectedWasServed, AckedWasServed
<1> USE DEF TypeOK, Goto, Finish
<1>4. CASE UNCHANGED vars
  BY <1>4 DEF vars
<1>5. ASSUME NEW m \in Message, Accept(m) \/ WsStep(m)
      PROVE  UNCHANGED <<acked, ackedIds>>
  BY <1>5 DEF Accept, WsStep, WsPush, WsHandlerReturns, WsHandlerThrows, WsSend
<1>6. CASE ConnectionUp \/ ConnectionDown \/ Stop
  BY <1>6 DEF ConnectionUp, ConnectionDown, Stop
<1>7. ASSUME NEW c \in Cycle,
             Tick(c) \/ DrainOk(c) \/ DrainError(c) \/ EndOfBatch(c) \/ AckError(c)
      PROVE  acked' = acked /\ \A d \in Cycle : ackedIds'[d] \subseteq ackedIds[d]
  BY <1>7 DEF Tick, DrainOk, DrainError, EndOfBatch, AckError
<1>8. ASSUME NEW c \in Cycle, AckOk(c)
      PROVE  /\ acked' = acked \cup ackedIds[c]
             /\ \A d \in Cycle : ackedIds'[d] \subseteq ackedIds[d]
  BY <1>8 DEF AckOk
<1>9. ASSUME NEW c \in Cycle, NEW m \in Message, MessageStep(c, m)
      PROVE  /\ acked' = acked
             /\ \A d \in Cycle : \A n \in ackedIds'[d] :
                   n \in ackedIds[d] \/ (n \in Message /\ Served(n)')
  <2> DEFINE Collects == /\ acked' = acked
                         /\ \A d \in Cycle : \A n \in ackedIds'[d] :
                               n \in ackedIds[d] \/ (n = m /\ Served(m)')
  <2>1. CASE Begin(c, m)
    <3>1. isPing(m) => Served(m)'
      BY <2>1 DEF Begin, Served, Intercepted, isPing
    <3>2. Collects
      BY <2>1, <3>1 DEF Begin
    <3> QED BY <3>2
  <2>2. CASE HandlerReturns(c, m)
    <3>1. isHandledToolCall(m) => Served(m)'
      BY <2>2 DEF HandlerReturns, CurrentMessage, Served, Intercepted,
                  isHandledToolCall
    <3>2. ~isHandledToolCall(m) /\ m \in ackedIds'[c] => m \in ackedIds[c] \/ Served(m)'
      BY <2>2 DEF HandlerReturns, CurrentMessage, Served, Intercepted, isPing,
                  isHandledToolCall
    <3>3. \A d \in Cycle : \A n \in ackedIds'[d] : n \in ackedIds[d] \/ (n = m /\ d = c)
      BY <2>2 DEF HandlerReturns
    <3>4. Collects
      BY <2>2, <3>1, <3>2, <3>3 DEF HandlerReturns
    <3> QED BY <3>4
  <2>3. CASE HandlerThrows(c, m)
    <3>1. Intercepted(m) => Served(m)'
      BY <2>3 DEF HandlerThrows, CurrentMessage, Served, Intercepted, isPing,
                  isHandledToolCall
    <3>2. Collects
      BY <2>3, <3>1 DEF HandlerThrows, AckOnError
    <3> QED BY <3>2
  <2>4. CASE SendOk(c, m)
    <3>1. Reply(m)' = Reply(m) /\ Reply(m) \in replies'
      BY <2>4 DEF SendOk, Reply, correlationIdFor
    <3>2. Served(m)'
      BY <2>4, <3>1 DEF SendOk, CurrentMessage, Served, Intercepted, isPing,
                        isHandledToolCall
    <3>3. Collects
      BY <2>4, <3>2 DEF SendOk
    <3> QED BY <3>3
  <2>5. CASE SendError(c, m)
    <3>1. Intercepted(m) => Served(m)'
      BY <2>5 DEF SendError, CurrentMessage, Served, Intercepted, isPing,
                  isHandledToolCall
    <3>2. Collects
      BY <2>5, <3>1 DEF SendError, AckOnError
    <3> QED BY <3>2
  <2> QED BY <1>9, <2>1, <2>2, <2>3, <2>4, <2>5 DEF MessageStep
<1> QED BY <1>4, <1>5, <1>6, <1>7, <1>8, <1>9 DEF Next, CycleStep

-----------------------------------------------------------------------------
LEMMA Invariance == Spec => []IInv
<1>1. IInv /\ [Next]_vars => IInv'
  BY TypeStep, KnownStep, CurrentStep, PushStep, ServedStep DEF IInv
<1> QED BY InitIInv, <1>1, PTL DEF Spec

\* Every variable keeps its type: in particular every reply goes out for a
\* message that has reply_to, under a declared correlation id.
THEOREM Typing == Spec => []TypeOK
BY Invariance, PTL DEF IInv

\* The acknowledgement is safe (drainCycle): whatever cycles overlap and
\* whichever handlers and requests fail, a message leaves the mailbox only
\* after its handler succeeded and its reply, if it wants one, was accepted.
THEOREM AckSafety == Spec => []AckedWasServed
BY Invariance, PTL DEF IInv

-----------------------------------------------------------------------------
(* Order.  A batch is a prefix of the mailbox, so what is older than a     *)
(* message of a batch is in the batch as well or has been taken up.        *)

\* Arrival numbers do not run ahead of the number of arrivals.
ArrivalNumbers == \A m \in Sent : sentAt[m] <= Cardinality(Sent)

OldestFirst ==
  \A c \in Cycle : \A n \in todo[c] : \A m \in Sent :
    Older(m, n) => m \in todo[c] \cup started

OrderInv == IInv /\ ArrivalNumbers /\ OldestFirst /\ FirstAttemptInOrder

\* With a message, a drain answers every older one still in the mailbox.
LEMMA DrainIsPrefix ==
  ASSUME TypeOK, NEW n \in DrainResult, NEW m \in Mailbox, Older(m, n)
  PROVE  m \in DrainResult
<1> DEFINE Before(k) == {j \in Mailbox : Older(j, k)}
<1>1. IsFiniteSet(Mailbox)
  BY MessageAssumption, FS_Subset DEF Mailbox, Sent
<1>2. IsFiniteSet(Before(m)) /\ IsFiniteSet(Before(n))
  BY <1>1, FS_Subset
<1>3. Before(m) \subseteq Before(n)
  BY DEF TypeOK, Mailbox, Sent, Older, DrainResult
<1>4. Cardinality(Before(m)) <= Cardinality(Before(n))
  BY <1>2, <1>3, FS_Subset
<1>5. Cardinality(Before(n)) < DrainLimit
  BY DEF DrainResult
<1>6. Cardinality(Before(m)) < DrainLimit
  BY <1>2, <1>4, <1>5, FS_CardinalityType, LimitAssumption
<1> QED BY <1>6 DEF DrainResult

\* A message that arrives joins the others under a number of its own.
LEMMA AcceptAddsOne ==
  ASSUME TypeOK, NEW m \in Message, Accept(m)
  PROVE  /\ IsFiniteSet(Sent) /\ Cardinality(Sent) \in Nat
         /\ m \notin Sent /\ Sent' = Sent \cup {m}
         /\ sentAt'[m] = Cardinality(Sent) + 1
         /\ \A n \in Message \ {m} : sentAt'[n] = sentAt[n]
<1>1. IsFiniteSet(Sent)
  BY MessageAssumption, FS_Subset DEF Sent
<1>2. PICK k \in Nat : k = Cardinality(Sent)
  BY <1>1, FS_CardinalityType
<1>3. sentAt' = [sentAt EXCEPT ![m] = k + 1] /\ sentAt[m] = 0
  BY <1>2 DEF Accept
<1>4. m \notin Sent /\ Sent' = Sent \cup {m}
  BY <1>3 DEF TypeOK, Sent
<1>5. sentAt'[m] = k + 1 /\ \A n \in Message \ {m} : sentAt'[n] = sentAt[n]
  BY <1>3 DEF TypeOK
<1> QED BY <1>1, <1>2, <1>4, <1>5

LEMMA ArrivalStep == OrderInv /\ [Next]_vars => ArrivalNumbers'
<1> SUFFICES ASSUME OrderInv, [Next]_vars PROVE ArrivalNumbers'
  OBVIOUS
<1> USE DEF OrderInv, IInv, TypeOK
<1>1. CASE UNCHANGED sentAt
  BY <1>1 DEF ArrivalNumbers, Sent
<1>2. ASSUME NEW m \in Message, Accept(m) PROVE ArrivalNumbers'
  <2>1. Cardinality(Sent') = Cardinality(Sent) + 1
    BY <1>2, AcceptAddsOne, FS_AddElement
  <2>2. ASSUME NEW n \in Sent' PROVE sentAt'[n] <= Cardinality(Sent) + 1
    <3>1. n = m \/ (n \in Sent /\ n \in Message \ {m})
      BY <1>2, AcceptAddsOne DEF Sent
    <3>2. n \in Sent => sentAt[n] <= Cardinality(Sent) /\ sentAt[n] \in Nat
      BY DEF ArrivalNumbers, Sent
    <3> QED BY <1>2, <3>1, <3>2, AcceptAddsOne
  <2> QED BY <2>1, <2>2 DEF ArrivalNumbers
<1>3. CASE \A m \in Message : ~Accept(m)
  <2>1. UNCHANGED sentAt
    BY <1>3 DEF vars, spineVars, Next, WsStep, WsPush, WsHandlerReturns,
                WsHandlerThrows, WsSend, ConnectionUp, ConnectionDown, Stop,
                Tick, CycleStep, DrainOk, DrainError, EndOfBatch, AckOk,
                AckError, MessageStep, Begin, HandlerReturns, HandlerThrows,
                SendOk, SendError
  <2> QED BY <1>1, <2>1
<1> QED BY <1>2, <1>3

LEMMA OrderStep == OrderInv /\ [Next]_vars => OldestFirst' /\ FirstAttemptInOrder'
<1> SUFFICES ASSUME OrderInv, [Next]_vars
             PROVE  OldestFirst' /\ FirstAttemptInOrder'
  OBVIOUS
<1> USE DEF OrderInv, IInv, TypeOK, OldestFirst, FirstAttemptInOrder, Older,
            spineVars, cycleVars, Goto, Finish
<1>1. CASE UNCHANGED vars
  BY <1>1 DEF vars, Sent
<1>2. ASSUME NEW m \in Message, Accept(m)
      PROVE  OldestFirst' /\ FirstAttemptInOrder'
  \* The newcomer is younger than all the others.
  <2>1. Sent' = Sent \cup {m} /\ Sent \subseteq Message \ {m}
    BY <1>2, AcceptAddsOne DEF Sent
  <2>2. \A n \in Sent : ~Older(m, n)'
    <3>1. ASSUME NEW n \in Sent PROVE ~(sentAt'[m] < sentAt'[n])
      <4>1. sentAt'[m] = Cardinality(Sent) + 1 /\ sentAt'[n] = sentAt[n]
        BY <1>2, <2>1, AcceptAddsOne
      <4>2. sentAt[n] <= Cardinality(Sent) /\ sentAt[n] \in Nat
        BY <2>1 DEF ArrivalNumbers
      <4> QED BY <4>1, <4>2, <1>2, AcceptAddsOne
    <3> QED BY <3>1
  <2>3. \A k \in Sent, n \in Sent : Older(k, n)' <=> Older(k, n)
    BY <1>2, <2>1, AcceptAddsOne
  <2>4. started \subseteq Sent /\ \A c \in Cycle : todo[c] \subseteq Sent
    BY DEF KnownMessages
  <2> QED BY <1>2, <2>1, <2>2, <2>3, <2>4 DEF Accept
<1>3. ASSUME NEW m \in Message, WsStep(m)
      PROVE  OldestFirst' /\ FirstAttemptInOrder'
  BY <1>3 DEF WsStep, WsPush, WsHandlerReturns, WsHandlerThrows, WsSend, Sent
<1>4. CASE ConnectionUp \/ ConnectionDown \/ Stop
  BY <1>4 DEF ConnectionUp, ConnectionDown, Stop, Sent
<1>5. ASSUME NEW c \in Cycle,
             Tick(c) \/ DrainError(c) \/ EndOfBatch(c) \/ AckOk(c) \/ AckError(c)
      PROVE  OldestFirst' /\ FirstAttemptInOrder'
  BY <1>5 DEF Tick, DrainError, EndOfBatch, AckOk, AckError, Sent
<1>6. ASSUME NEW c \in Cycle, DrainOk(c)
      PROVE  OldestFirst' /\ FirstAttemptInOrder'
  <2>1. ASSUME NEW n \in DrainResult, NEW m \in Sent, Older(m, n)
        PROVE  m \in DrainResult \cup started
    BY <2>1, DrainIsPrefix DEF Mailbox, KnownMessages
  <2> QED BY <1>6, <2>1 DEF DrainOk, Sent
<1>7. ASSUME NEW c \in Cycle, NEW m \in Message, MessageStep(c, m)
      PROVE  OldestFirst' /\ FirstAttemptInOrder'
  <2>1. CASE Begin(c, m)
    <3>1. \A k \in Sent : Older(k, m) => k \in started
      BY <2>1 DEF Begin, IsFirst
    <3> QED BY <2>1, <3>1 DEF Begin, Sent
  <2>2. IsFirst(m, todo[c]) /\ pc[c] \in {"handle", "reply"} => m \in started
    BY DEF CurrentMessage
  <2>3. CASE HandlerReturns(c, m)
    BY <2>2, <2>3 DEF HandlerReturns, Sent
  <2>4. CASE HandlerThrows(c, m)
    BY <2>2, <2>4 DEF HandlerThrows, Sent
  <2>5. CASE SendOk(c, m) \/ SendError(c, m)
    BY <2>2, <2>5 DEF SendOk, SendError, Sent
  <2> QED BY <1>7, <2>1, <2>3, <2>4, <2>5 DEF MessageStep
<1> QED BY <1>1, <1>2, <1>3, <1>4, <1>5, <1>6, <1>7 DEF Next, CycleStep

\* drainCycle takes messages up in arrival order, whatever cycles overlap and
\* however often a failed message is drained again.
THEOREM AttemptOrder == Spec => []FirstAttemptInOrder
<1>1. Init => OrderInv
  <2>1. Init => ArrivalNumbers /\ OldestFirst /\ FirstAttemptInOrder
    BY DEF Init, ArrivalNumbers, OldestFirst, FirstAttemptInOrder, Sent
  <2> QED BY <2>1, InitIInv DEF OrderInv
<1>2. OrderInv /\ [Next]_vars => OrderInv'
  BY TypeStep, KnownStep, CurrentStep, PushStep, ServedStep, ArrivalStep,
     OrderStep DEF OrderInv, IInv
<1>3. OrderInv => FirstAttemptInOrder
  BY DEF OrderInv
<1> QED BY <1>1, <1>2, <1>3, PTL DEF Spec

-----------------------------------------------------------------------------
(* The loop implements MailboxContract.                                    *)

\* A step that serves at most m and touches neither the mailbox's arrivals
\* nor its removals is a Serve(m) or leaves every status alone.
LEMMA ServeRefines ==
  ASSUME NEW m \in Message, UNCHANGED spineVars,
         Served(m) => Served(m)',
         \A n \in Message \ {m} : Served(n)' <=> Served(n)
  PROVE  [Contract!Next]_status
<1>1. \A n \in Message \ {m} : status'[n] = status[n]
  BY DEF status, Mailbox, Sent, spineVars
<1>2. status'[m] = status[m] \/ (status[m] = "waiting" /\ status'[m] = "served")
  BY DEF status, Mailbox, Sent, spineVars
<1>3. CASE status'[m] = status[m]
  <2>1. status' = status
    BY <1>1, <1>3 DEF status
  <2> QED BY <2>1
<1>4. CASE status[m] = "waiting" /\ status'[m] = "served"
  <2>1. status' = [status EXCEPT ![m] = "served"]
    BY <1>1, <1>4 DEF status
  <2>2. Contract!Serve(m)
    BY <1>4, <2>1 DEF Contract!Serve
  <2> QED BY <2>2 DEF Contract!Next
<1> QED BY <1>2, <1>3, <1>4

LEMMA ArriveRefines ==
  ASSUME IInv, NEW m \in Message, Accept(m)
  PROVE  [Contract!Next]_status
<1>1. m \notin Sent /\ Sent' = Sent \cup {m}
  BY AcceptAddsOne DEF IInv
<1>2. m \notin acked /\ ~Served(m)
  BY <1>1 DEF IInv, KnownMessages, Served
<1>3. UNCHANGED <<acked, started, resolved, replies>>
  BY DEF Accept
<1>4. \A n \in Message : Served(n)' <=> Served(n)
  BY <1>3 DEF Served, Intercepted, isPing, isHandledToolCall, Reply,
              correlationIdFor
<1>5. status[m] = "unknown" /\ status'[m] = "waiting"
  BY <1>1, <1>2, <1>3, <1>4 DEF status, Mailbox
<1>6. \A n \in Message \ {m} : status'[n] = status[n]
  BY <1>1, <1>3, <1>4 DEF status, Mailbox
<1>7. status' = [status EXCEPT ![m] = "waiting"]
  BY <1>5, <1>6 DEF status
<1> QED BY <1>5, <1>7 DEF Contract!Next, Contract!Arrive

LEMMA AckRefines ==
  ASSUME IInv, NEW c \in Cycle, AckOk(c)
  PROVE  [Contract!Next]_status
<1> DEFINE S == ackedIds[c] \ acked
<1>1. /\ acked' = acked \cup S
      /\ UNCHANGED <<sentAt, started, resolved, replies>>
  BY DEF AckOk
<1>2. \A n \in Message : Served(n)' <=> Served(n)
  BY <1>1 DEF Served, Intercepted, isPing, isHandledToolCall, Reply,
              correlationIdFor
<1>3. S \subseteq Mailbox /\ S \subseteq Message /\ \A n \in S : Served(n)
  BY DEF IInv, TypeOK, KnownMessages, CollectedWasServed, Mailbox
<1>4. \A n \in S : status[n] = "served"
  BY <1>3 DEF status
<1>5. \A n \in Message : status'[n] = IF n \in S THEN "removed" ELSE status[n]
  BY <1>1, <1>2 DEF status, Mailbox, Sent
<1>6. status' = [n \in Message |-> IF n \in S THEN "removed" ELSE status[n]]
  BY <1>5 DEF status
<1>7. CASE S = {}
  BY <1>6, <1>7 DEF status
<1>8. CASE S # {}
  <2>1. Contract!Remove(S)
    BY <1>4, <1>6, <1>8 DEF Contract!Remove
  <2> QED BY <2>1, <1>3 DEF Contract!Next
<1> QED BY <1>7, <1>8

LEMMA NextRefines == IInv /\ [Next]_vars => [Contract!Next]_status
<1> SUFFICES ASSUME IInv, [Next]_vars PROVE [Contract!Next]_status
  OBVIOUS
<1>1. ASSUME UNCHANGED spineVars, UNCHANGED <<started, resolved, replies>>
      PROVE  [Contract!Next]_status
  <2>1. \A n \in Message : Served(n)' <=> Served(n)
    BY <1>1 DEF Served, Intercepted, isPing, isHandledToolCall, Reply,
                correlationIdFor
  <2>2. status' = status
    BY <1>1, <2>1 DEF status, Mailbox, Sent, spineVars
  <2> QED BY <2>2
<1>2. ASSUME NEW m \in Message, UNCHANGED spineVars,
             \A n \in Message \ {m} :
               /\ n \in started' <=> n \in started
               /\ resolved'[n] = resolved[n]
               /\ Reply(n) \in replies' <=> Reply(n) \in replies
      PROVE  [Contract!Next]_status
  <2>1. Served(m) => Served(m)'
    BY HistoriesGrow, ServedMonotone DEF IInv
  <2>2. \A n \in Message \ {m} : Served(n)' <=> Served(n)
    BY <1>2 DEF Served, Intercepted, isPing, isHandledToolCall, Reply,
                correlationIdFor
  <2> QED BY <1>2, <2>1, <2>2, ServeRefines
<1> USE DEF IInv, TypeOK, cycleVars
<1>3. CASE UNCHANGED vars
  BY <1>1, <1>3 DEF vars, spineVars
<1>4. ASSUME NEW m \in Message, Accept(m) PROVE [Contract!Next]_status
  BY <1>4, ArriveRefines
<1>5. ASSUME NEW m \in Message, WsStep(m) PROVE [Contract!Next]_status
  <2>1. CASE WsPush(m) \/ WsHandlerReturns(m) \/ WsHandlerThrows(m)
    BY <1>1, <2>1 DEF WsPush, WsHandlerReturns, WsHandlerThrows
  <2>2. CASE WsSend(m)
    BY <1>2, <2>2 DEF WsSend, Reply
  <2> QED BY <1>5, <2>1, <2>2 DEF WsStep
<1>6. CASE ConnectionUp \/ ConnectionDown \/ Stop
  BY <1>1, <1>6 DEF ConnectionUp, ConnectionDown, Stop, spineVars
<1>7. ASSUME NEW c \in Cycle,
             Tick(c) \/ DrainOk(c) \/ DrainError(c) \/ EndOfBatch(c) \/ AckError(c)
      PROVE  [Contract!Next]_status
  BY <1>1, <1>7 DEF Tick, DrainOk, DrainError, EndOfBatch, AckError
<1>8. ASSUME NEW c \in Cycle, AckOk(c) PROVE [Contract!Next]_status
  BY <1>8, AckRefines
<1>9. ASSUME NEW c \in Cycle, NEW m \in Message, MessageStep(c, m)
      PROVE  [Contract!Next]_status
  <2>1. CASE Begin(c, m)
    BY <1>2, <2>1 DEF Begin
  <2>2. CASE HandlerReturns(c, m)
    BY <1>2, <2>2 DEF HandlerReturns
  <2>3. CASE HandlerThrows(c, m)
    BY <1>1, <2>3 DEF HandlerThrows
  <2>4. CASE SendOk(c, m) \/ SendError(c, m)
    BY <1>2, <2>4 DEF SendOk, SendError, Reply
  <2> QED BY <1>9, <2>1, <2>2, <2>3, <2>4 DEF MessageStep
<1> QED BY <1>3, <1>4, <1>5, <1>6, <1>7, <1>8, <1>9 DEF Next, CycleStep

\* Drain cycles, WebSocket pushes, failing requests and all, the loop is an
\* implementation of at-least-once processing.
THEOREM Refinement == Spec => ImplementsContract
<1>1. Init => Contract!Init
  BY DEF Init, Contract!Init, status, Sent, Mailbox
<1>2. IInv /\ [Next]_vars => [Contract!Next]_status
  BY NextRefines
<1> QED BY <1>1, <1>2, Invariance, PTL DEF Spec, Contract!Spec, ImplementsContract

-----------------------------------------------------------------------------
(* Replies to tool calls.                                                  *)

\* A payload has the fields of its own status only.
Built(p) ==
  /\ "status" \in DOMAIN p
  /\ DOMAIN p \cap ErrorFields # {} => p.status = "TOOL_ERROR"
  /\ "reason" \in DOMAIN p => p.status \in {"NOT_IMPLEMENTED", "TOOL_NOT_FOUND"}
  /\ DOMAIN p \cap {"elapsed_ms", "limit_ms"} # {} => p.status = "TOOL_TIMEOUT"
  /\ "checks_status" \in DOMAIN p => p.status = "ORGAN_DEGRADED"

LEMMA MetaBuilt ==
  ASSUME NEW p, Built(p), NEW meta
  PROVE  Built(WithMeta(p, meta))
<1> DEFINE q == With(p, "meta", meta)
<1>1. DOMAIN q = DOMAIN p \cup {"meta"} /\ q.status = p.status
  BY DEF With, Built
<1> HIDE DEF q
<1>2. Built(q)
  BY <1>1 DEF Built, ErrorFields
<1> QED BY <1>2, Zenon DEF WithMeta, q

\* Whatever the builders are given.
LEMMA BuiltByStatus ==
  ASSUME NEW tool, NEW v, NEW w, NEW meta
  PROVE  /\ Built(success(tool, v, meta)) /\ Built(toolError(tool, v, w, meta))
         /\ Built(toolTimeout(tool, v, w)) /\ Built(organDegraded(tool, v))
         /\ Built(notImplemented(tool)) /\ Built(toolNotFound(tool))
<1> DEFINE common == {"event_type", "schema_version", "status", "tool"}
<1>1. Built(success(tool, v, meta))
  <2> DEFINE p == With(Common("SUCCESS", tool), "data", v)
  <2>1. DOMAIN p = common \cup {"data"} /\ p.status = "SUCCESS"
    BY DEF With, Common
  <2> HIDE DEF p
  <2>2. Built(p)
    BY <2>1 DEF Built, ErrorFields
  <2> QED BY <2>2, MetaBuilt, Zenon DEF success, p
<1>2. Built(toolError(tool, v, w, meta))
  <2> DEFINE p == With(With(Common("TOOL_ERROR", tool), "error.code", v),
                       "error.message", w)
  <2>1. DOMAIN p = common \cup ErrorFields /\ p.status = "TOOL_ERROR"
    BY DEF With, Common, ErrorFields
  <2> HIDE DEF p
  <2>2. Built(p)
    BY <2>1 DEF Built, ErrorFields
  <2> QED BY <2>2, MetaBuilt, Zenon DEF toolError, p
<1>3. Built(toolTimeout(tool, v, w))
  <2> DEFINE p == toolTimeout(tool, v, w)
  <2>1. DOMAIN p = common \cup {"elapsed_ms", "limit_ms"} /\ p.status = "TOOL_TIMEOUT"
    BY DEF With, Common, toolTimeout
  <2> HIDE DEF p
  <2>2. Built(p)
    BY <2>1 DEF Built, ErrorFields
  <2> QED BY <2>2 DEF p
<1>4. Built(organDegraded(tool, v))
  <2> DEFINE p == organDegraded(tool, v)
  <2>1. DOMAIN p = common \cup {"checks_status"} /\ p.status = "ORGAN_DEGRADED"
    BY DEF With, Common, organDegraded
  <2> HIDE DEF p
  <2>2. Built(p)
    BY <2>1 DEF Built, ErrorFields
  <2> QED BY <2>2 DEF p
<1>5. Built(notImplemented(tool)) /\ Built(toolNotFound(tool))
  <2> DEFINE p == notImplemented(tool)
             q == toolNotFound(tool)
  <2>1. /\ DOMAIN p = common \cup {"reason"} /\ p.status = "NOT_IMPLEMENTED"
        /\ DOMAIN q = common \cup {"reason"} /\ q.status = "TOOL_NOT_FOUND"
    BY DEF With, Common, notImplemented, toolNotFound
  <2> HIDE DEF p, q
  <2>2. Built(p) /\ Built(q)
    BY <2>1 DEF Built, ErrorFields
  <2> QED BY <2>2 DEF p, q
<1> QED BY <1>1, <1>2, <1>3, <1>4, <1>5

LEMMA AllBuilt == \A p \in Constructed : Built(p)
<1> SUFFICES ASSUME NEW p \in Constructed PROVE Built(p)
  OBVIOUS
<1>1. PICK tool \in {"empty", "text"}, v \in Value, w \in Value :
        p \in {success(tool, v, w), toolError(tool, v, w, "undefined"),
              toolError(tool, "text", v, w), toolTimeout(tool, v, w),
              organDegraded(tool, v), notImplemented(tool), toolNotFound(tool)}
  BY DEF Constructed
<1> QED BY <1>1, BuiltByStatus, Zenon

\* What arrives of a field.
LEMMA WireField ==
  ASSUME NEW p
  PROVE  /\ \A f : Field(Wire(p), f) =
                     IF Field(p, f) = "not_finite" THEN "null" ELSE Field(p, f)
         /\ DOMAIN Wire(p) \subseteq DOMAIN p
         /\ \A f : f \in DOMAIN Wire(p) <=> Field(p, f) # "undefined"
         /\ \A f \in DOMAIN Wire(p) : Wire(p)[f] = Field(Wire(p), f)
BY DEF Wire, Field

LEMMA WireValid ==
  ASSUME NEW p, Built(p), validateToolResponse(p), ~Lossy(p)
  PROVE  validateToolResponse(Wire(p)) /\ TOOL_RESPONSE_SCHEMA(Wire(p))
<1> DEFINE w == Wire(p)
<1>1. /\ \A f : Field(w, f) =
                  IF Field(p, f) = "not_finite" THEN "null" ELSE Field(p, f)
      /\ DOMAIN w \subseteq DOMAIN p
      /\ \A f : f \in DOMAIN w <=> Field(p, f) # "undefined"
      /\ \A f \in DOMAIN w : w[f] = Field(w, f)
  BY WireField
<1> HIDE DEF w
<1>2. /\ DOMAIN p \subseteq ALLOWED_KEYS
      /\ Field(p, "event_type") = "tool_call_response"
      /\ Field(p, "schema_version") = SCHEMA_VERSION
      /\ Field(p, "tool") = "text"
      /\ Field(p, "status") \in TOOL_STATUS
      /\ ConditionalFields(p)
      /\ "meta" \in DOMAIN p => p.meta = "object"
  BY DEF validateToolResponse
<1>3. "status" \in DOMAIN p /\ p.status = Field(p, "status")
  BY DEF Built, Field
<1>4. /\ DOMAIN w \subseteq ALLOWED_KEYS
      /\ Field(w, "event_type") = "tool_call_response"
      /\ Field(w, "schema_version") = SCHEMA_VERSION
      /\ Field(w, "tool") = "text"
      /\ {"event_type", "schema_version", "status", "tool"} \subseteq DOMAIN w
  BY <1>1, <1>2 DEF SCHEMA_VERSION, TOOL_STATUS
<1>5. w.status = p.status /\ Field(w, "status") = p.status /\ p.status \in TOOL_STATUS
  BY <1>1, <1>2, <1>3, <1>4 DEF TOOL_STATUS
<1>6. "meta" \in DOMAIN w => w.meta = "object"
  BY <1>1, <1>2 DEF Field
<1>7. /\ p.status = "SUCCESS" => "data" \in DOMAIN w
      /\ p.status \in {"NOT_IMPLEMENTED", "TOOL_NOT_FOUND"} => Field(w, "reason") = "text"
      /\ p.status = "TOOL_ERROR" =>
           Field(w, "error.code") = "text" /\ IsString(Field(w, "error.message"))
      /\ p.status = "TOOL_TIMEOUT" =>
           Field(w, "elapsed_ms") = "number" /\ Field(w, "limit_ms") = "number"
      /\ p.status = "ORGAN_DEGRADED" => Field(w, "checks_status") = "text"
  <2>1. CASE p.status = "SUCCESS"
    BY <1>1, <2>1 DEF Lossy
  <2>2. CASE p.status \in {"NOT_IMPLEMENTED", "TOOL_NOT_FOUND"}
    <3>1. Field(p, "reason") = "text"
      BY <1>2, <2>2 DEF ConditionalFields
    <3> QED BY <1>1, <2>2, <3>1
  <2>3. CASE p.status = "TOOL_ERROR"
    <3>1. Field(p, "error.code") = "text" /\ Field(p, "error.message") \in {"empty", "text"}
      BY <1>2, <2>3 DEF ConditionalFields, IsString
    <3> QED BY <1>1, <2>3, <3>1 DEF IsString
  <2>4. CASE p.status = "TOOL_TIMEOUT"
    <3>1. \A f \in {"elapsed_ms", "limit_ms"} :
            Field(p, f) \in {"number", "not_finite"} /\ Field(p, f) # "not_finite"
      BY <1>2, <2>4 DEF ConditionalFields, IsElapsed, IsNumber, Lossy
    <3> QED BY <1>1, <2>4, <3>1
  <2>5. CASE p.status = "ORGAN_DEGRADED"
    <3>1. Field(p, "checks_status") = "text"
      BY <1>2, <2>5 DEF ConditionalFields
    <3> QED BY <1>1, <2>5, <3>1
  <2> QED BY <1>5, <2>1, <2>2, <2>3, <2>4, <2>5 DEF TOOL_STATUS
<1>8. ConditionalFields(w)
  BY <1>5, <1>7 DEF ConditionalFields, TOOL_STATUS, IsElapsed, IsNumber
<1>9. validateToolResponse(w)
  BY <1>4, <1>5, <1>6, <1>8, Zenon DEF validateToolResponse
<1>10. TOOL_RESPONSE_SCHEMA(w)
  <2>1. /\ "error.code" \in DOMAIN w => w["error.code"] = "text"
        /\ "error.message" \in DOMAIN w => w["error.message"] \in {"empty", "text"}
    BY <1>1, <1>7 DEF Built, ErrorFields, IsString
  <2>2. /\ "reason" \in DOMAIN w => w.reason = "text"
        /\ "checks_status" \in DOMAIN w => w.checks_status = "text"
        /\ "elapsed_ms" \in DOMAIN w => w.elapsed_ms = "number"
        /\ "limit_ms" \in DOMAIN w => w.limit_ms = "number"
        /\ w.tool = "text"
    BY <1>1, <1>4, <1>7 DEF Built
  <2> QED BY <1>4, <1>5, <1>6, <2>1, <2>2 DEF TOOL_RESPONSE_SCHEMA
<1> QED BY <1>9, <1>10 DEF w

LEMMA FallbackValid ==
  ASSUME NEW t
  PROVE  validateToolResponse(Wire(toolFallbackHandler(t)))
<1> DEFINE p == notImplemented("text")
<1>1. toolFallbackHandler(t) = p
  BY Zenon DEF toolFallbackHandler, extractTool
<1>2. /\ DOMAIN p = {"event_type", "schema_version", "status", "tool", "reason"}
      /\ p.event_type = "tool_call_response" /\ p.schema_version = SCHEMA_VERSION
      /\ p.status = "NOT_IMPLEMENTED" /\ p.tool = "text" /\ p.reason = "text"
  BY DEF notImplemented, With, Common
<1> HIDE DEF p
<1>3. validateToolResponse(p) /\ ~Lossy(p) /\ Built(p)
  BY <1>2 DEF validateToolResponse, Lossy, Built, ConditionalFields, Field,
              ALLOWED_KEYS, ErrorFields, TOOL_STATUS
<1> QED BY <1>1, <1>3, WireValid

\* Whatever a request carries for its tool's name, the fallback's reply is valid
\* where it arrives, and so is every reply that was valid where it was built,
\* unless JSON cannot carry it (tool-errors.js, tool-fallback-handler.js).
THEOREM RepliesAreValid == Spec => []ToolRepliesValid
<1>1. Travels
  BY AllBuilt, WireValid, Zenon DEF Travels
<1>2. ToolRepliesValid
  BY <1>1, FallbackValid, Zenon DEF ToolRepliesValid
<1> QED BY <1>2, PTL

=============================================================================
