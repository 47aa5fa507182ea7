-------------------------- MODULE LLMCascade_proofs --------------------------
(***************************************************************************)
(* Theorems about chat(), alone and with the writer of its usage events:   *)
(* for any number of stages and providers, any budgets, and any failures.  *)
(***************************************************************************)
EXTENDS UsageWriter, TLAPS

-----------------------------------------------------------------------------
(* The inductive invariant.                                                *)

Types ==
  /\ totalTimeoutMs \in Timeouts
  /\ clock \in Nat
  /\ stage \in Stage
  /\ pc \in {"next", "await", "done"}
  /\ call \in [Stage -> {"none", "running", "ok", "failed"}]

\* The stages are called one after the other.
InTurn ==
  /\ \A i \in Stage : i < stage => call[i] # "none"
  /\ \A i \in Stage : i > stage => call[i] = "none"
  /\ pc = "await" => call[stage] = "running"
  /\ pc = "next" => call[stage] = "none"

\* Time passes only while a stage is awaited.
FirstInTime == pc = "next" /\ stage = 1 => clock = 0

NotYet == pc # "done" => outcome = Pending /\ usage = <<>>

ClassOf(i) == classifyLLMFailure(chatError(Provider[i], failure))

\* The cascade goes on after failures of an eligible class, and only after
\* them, and each of them has been attempted.
WhyItGoesOn ==
  /\ pc # "done" => Len(attempted) = stage - 1
  /\ pc # "done" /\ failure # NoFailure =>
       /\ stage > 1 /\ failure \in FailureOf(Provider[stage - 1])
       /\ ClassOf(stage - 1) \in EligibleClass
  /\ GaveUp =>
       failure \in FailureOf(Provider[stage]) /\ ClassOf(stage) \notin EligibleClass

\* What TypeOK adds.
OtherTypes ==
  /\ clock <= MaxClock
  /\ attempted \in Seq([stage : Stage, class : Class])
  /\ failure \in Failure \cup {NoFailure}
  /\ usage \in Seq([stage : Stage, outcome : {"success", "cascade_exhausted"}])
  /\ outcome.kind \in {"pending", "result", "exhausted"}

CascadeInv ==
  Types /\ OtherTypes /\ InTurn /\ FirstInTime /\ NotYet /\ OneUsageEvent
    /\ WhyItGoesOn

-----------------------------------------------------------------------------
LEMMA StageType == Stage = 1 .. Stages /\ Stages \in Nat /\ Stages > 0
  BY CascadeAssumption DEF Stage

\* A budget is a number of ticks.
LEMMA BudgetType == totalTimeoutMs \in Timeouts /\ HasBudget => totalTimeoutMs \in Nat
  BY CascadeAssumption DEF HasBudget

\* The kinds of outcome exclude each other.
LEMMA OutcomeKinds ==
  /\ Pending.kind = "pending"
  /\ \A i : Result(i).kind = "result" /\ Result(i).stage = i
  /\ \A list : Exhausted(list).kind = "exhausted"
  BY DEF Pending, Result, Exhausted

LEMMA InitInv == Init => CascadeInv
  <1> SUFFICES ASSUME Init PROVE CascadeInv
    OBVIOUS
  <1>1. Types
    BY StageType DEF Init, Types
  <1>2. InTurn /\ FirstInTime /\ NotYet
    BY StageType DEF Init, InTurn, FirstInTime, NotYet
  <1>3. OneUsageEvent
    BY OutcomeKinds DEF Init, OneUsageEvent
  <1>4. OtherTypes
    BY OutcomeKinds, CascadeAssumption DEF Init, OtherTypes
  <1>5. WhyItGoesOn
    BY OutcomeKinds DEF Init, WhyItGoesOn, GaveUp
  <1> QED
    BY <1>1, <1>2, <1>3, <1>4, <1>5 DEF CascadeInv

-----------------------------------------------------------------------------
(* The parts, for every step.                                              *)

LEMMA TypesStep == ASSUME CascadeInv, [Next]_vars PROVE Types'
  <1> USE StageType DEF CascadeInv, Types
  <1>1. CASE StageTooLate
    BY <1>1 DEF StageTooLate, raiseExhausted
  <1>2. CASE StageStart
    BY <1>2 DEF StageStart
  <1>3. CASE StageSucceeds
    BY <1>3 DEF StageSucceeds
  <1>4. CASE StageFails
    <2>1. stage' \in Stage /\ pc' \in {"next", "await", "done"}
      BY <1>4 DEF StageFails, HasNext, raiseExhausted
    <2> QED
      BY <1>4, <2>1 DEF StageFails
  <1>5. CASE BudgetExpires
    BY <1>5 DEF BudgetExpires, raiseExhausted
  <1>6. CASE Tick
    BY <1>6 DEF Tick
  <1>7. ASSUME NEW i \in Stage, LoserEnds(i) PROVE Types'
    BY <1>7 DEF LoserEnds
  <1>8. CASE UNCHANGED vars
    BY <1>8 DEF vars
  <1> QED
    BY <1>1, <1>2, <1>3, <1>4, <1>5, <1>6, <1>7, <1>8 DEF Next

\* A failure ends the call or goes on to the next stage.
LEMMA FailureEnds ==
  ASSUME StageFails
  PROVE \/ /\ HasNext /\ stage' = stage + 1 /\ pc' = "next"
           /\ UNCHANGED <<outcome, usage>>
        \/ raiseExhausted(stage) /\ UNCHANGED stage
  BY DEF StageFails, NoEvent

LEMMA InTurnStep == ASSUME CascadeInv, [Next]_vars PROVE InTurn'
  <1> USE StageType DEF CascadeInv, Types, InTurn
  <1>1. CASE StageTooLate
    BY <1>1 DEF StageTooLate, raiseExhausted
  <1>2. CASE StageStart
    BY <1>2 DEF StageStart
  <1>3. CASE StageSucceeds
    BY <1>3 DEF StageSucceeds
  <1>4. CASE StageFails
    <2>1. call' = [call EXCEPT ![stage] = "failed"] /\ pc = "await"
      BY <1>4 DEF StageFails
    <2>2. CASE HasNext /\ stage' = stage + 1 /\ pc' = "next"
      BY <2>1, <2>2 DEF HasNext
    <2>3. CASE raiseExhausted(stage) /\ UNCHANGED stage
      BY <2>1, <2>3 DEF raiseExhausted
    <2> QED
      BY <1>4, <2>2, <2>3, FailureEnds
  <1>5. CASE BudgetExpires
    BY <1>5 DEF BudgetExpires, raiseExhausted
  <1>6. CASE Tick
    BY <1>6 DEF Tick
  <1>7. ASSUME NEW i \in Stage, LoserEnds(i) PROVE InTurn'
    BY <1>7 DEF LoserEnds
  <1>8. CASE UNCHANGED vars
    BY <1>8 DEF vars
  <1> QED
    BY <1>1, <1>2, <1>3, <1>4, <1>5, <1>6, <1>7, <1>8 DEF Next

LEMMA WaitingStep == ASSUME CascadeInv, [Next]_vars PROVE FirstInTime' /\ NotYet'
  <1> USE StageType DEF CascadeInv, Types, FirstInTime, NotYet
  <1>1. CASE StageTooLate
    BY <1>1 DEF StageTooLate, raiseExhausted
  <1>2. CASE StageStart
    BY <1>2 DEF StageStart
  <1>3. CASE StageSucceeds
    BY <1>3 DEF StageSucceeds
  <1>4. CASE StageFails
    <2>1. pc = "await"
      BY <1>4 DEF StageFails
    <2>2. CASE HasNext /\ stage' = stage + 1 /\ pc' = "next" /\ UNCHANGED <<outcome, usage>>
      BY <2>1, <2>2
    <2>3. CASE raiseExhausted(stage) /\ UNCHANGED stage
      BY <2>3 DEF raiseExhausted
    <2> QED
      BY <1>4, <2>2, <2>3, FailureEnds
  <1>5. CASE BudgetExpires
    BY <1>5 DEF BudgetExpires, raiseExhausted
  <1>6. CASE Tick
    BY <1>6 DEF Tick
  <1>7. ASSUME NEW i \in Stage, LoserEnds(i) PROVE FirstInTime' /\ NotYet'
    BY <1>7 DEF LoserEnds
  <1>8. CASE UNCHANGED vars
    BY <1>8 DEF vars
  <1> QED
    BY <1>1, <1>2, <1>3, <1>4, <1>5, <1>6, <1>7, <1>8 DEF Next

-----------------------------------------------------------------------------
(* OneUsageEvent.                                                          *)

\* What chat() does when it throws, at the last stage that it called.
LEMMA RaiseOK ==
  ASSUME usage = <<>>, NEW i \in Stage, raiseExhausted(i), call'[i] # "none",
         \A j \in i + 1 .. Stages : call'[j] = "none"
  PROVE OneUsageEvent'
  <1>1. usage' = <<Event(i, "cascade_exhausted")>>
    BY DEF raiseExhausted, emitUsage
  <1>2. outcome'.kind = "exhausted"
    BY OutcomeKinds DEF raiseExhausted
  <1> QED
    BY <1>1, <1>2, StageType DEF OneUsageEvent

\* What became of a call that is over stays.
LEMMA LoserKeepsEvent ==
  ASSUME CascadeInv, NEW i \in Stage, LoserEnds(i) PROVE OneUsageEvent'
  <1>1. UNCHANGED <<outcome, usage>>
    BY DEF LoserEnds
  <1>2. \A j \in Stage : call'[j] = "none" <=> call[j] = "none"
    BY DEF LoserEnds, CascadeInv, Types
  <1>3. \A k \in Stage : k + 1 .. Stages \subseteq Stage
    BY StageType
  <1> QED
    BY <1>1, <1>2, <1>3 DEF CascadeInv, OneUsageEvent

LEMMA EventStep == ASSUME CascadeInv, [Next]_vars PROVE OneUsageEvent'
  <1> USE StageType DEF CascadeInv, Types, InTurn
  <1>1. CASE StageTooLate
    <2>1. totalTimeoutMs \in Nat /\ clock > totalTimeoutMs /\ pc = "next"
      BY <1>1, BudgetType DEF StageTooLate, TooLate
    <2>2. stage - 1 \in Stage
      BY <2>1 DEF FirstInTime
    <2>3. /\ call'[stage - 1] # "none"
          /\ \A j \in (stage - 1) + 1 .. Stages : call'[j] = "none"
      BY <1>1, <2>1, <2>2 DEF StageTooLate
    <2> QED
      BY <1>1, <2>1, <2>2, <2>3, RaiseOK DEF StageTooLate, NotYet
  <1>2. CASE StageStart
    BY <1>2, OutcomeKinds DEF StageStart, NotYet, OneUsageEvent
  <1>3. CASE StageSucceeds
    <2>1. usage' = <<Event(stage, "success")>> /\ outcome' = Result(stage)
      BY <1>3 DEF StageSucceeds, emitUsage, NotYet
    <2> QED
      BY <2>1, OutcomeKinds DEF OneUsageEvent
  <1>4. CASE StageFails
    <2>1. call' = [call EXCEPT ![stage] = "failed"] /\ pc = "await"
      BY <1>4 DEF StageFails
    <2>2. CASE UNCHANGED <<outcome, usage>>
      BY <2>1, <2>2, OutcomeKinds DEF NotYet, OneUsageEvent
    <2>3. CASE raiseExhausted(stage)
      <3>1. /\ call'[stage] # "none"
            /\ \A j \in stage + 1 .. Stages : call'[j] = "none"
        BY <2>1
      <3> QED
        BY <2>1, <2>3, <3>1, RaiseOK DEF NotYet
    <2> QED
      BY <1>4, <2>2, <2>3, FailureEnds
  <1>5. CASE BudgetExpires
    <2>1. /\ call'[stage] # "none"
          /\ \A j \in stage + 1 .. Stages : call'[j] = "none"
      BY <1>5 DEF BudgetExpires
    <2> QED
      BY <1>5, <2>1, RaiseOK DEF BudgetExpires, NotYet
  <1>6. CASE Tick
    BY <1>6 DEF Tick, OneUsageEvent
  <1>7. ASSUME NEW i \in Stage, LoserEnds(i) PROVE OneUsageEvent'
    BY <1>7, LoserKeepsEvent
  <1>8. CASE UNCHANGED vars
    BY <1>8 DEF vars, OneUsageEvent
  <1> QED
    BY <1>1, <1>2, <1>3, <1>4, <1>5, <1>6, <1>7, <1>8 DEF Next

-----------------------------------------------------------------------------
(* The classifier.                                                         *)

\* The first rule that matches exists.
LEMMA LeastOf ==
  ASSUME NEW S \in SUBSET (1 .. 11), S # {}
  PROVE  Min(S) \in S /\ \A y \in S : Min(S) <= y
<1>1. ASSUME \A x \in S : \E y \in S : ~(x <= y) PROVE FALSE
  <2>1. \A k \in 1 .. 11 : (\A j \in 1 .. 11 : j < k => j \notin S) => k \notin S
    BY <1>1
  <2>2. \A k \in 1 .. 6 : k \notin S
    BY <2>1
  <2>3. \A k \in 7 .. 11 : k \notin S
    BY <2>1, <2>2
  <2>4. PICK x \in S : x \in 1 .. 11
    OBVIOUS
  <2> QED BY <2>2, <2>3, <2>4
<1>2. \E x \in S : \A y \in S : x <= y
  BY <1>1
<1> QED BY <1>2, Zenon DEF Min

\* The first seven rules name the eligible classes.
LEMMA RuleNames ==
  ASSUME NEW err
  PROVE  /\ DOMAIN Rules(err) = 1 .. 11
         /\ \A i \in 1 .. 7 : Rules(err)[i][1] \in EligibleClass
         /\ \A i \in 8 .. 11 : Rules(err)[i][1] \in ClosedClass
BY DEF Rules, EligibleClass, ClosedClass

\* classifyLLMFailure always finds a class: the first seven rules decide whether
\* it is an eligible one.
LEMMA Classes ==
  ASSUME NEW err
  PROVE  /\ classifyLLMFailure(err) \in EligibleClass \cup ClosedClass
         /\ classifyLLMFailure(err) \in EligibleClass
              <=> \E i \in 1 .. 7 : Rules(err)[i][2]
<1> DEFINE rules == Rules(err)
           matches == {i \in DOMAIN rules : rules[i][2]}
<1>1. classifyLLMFailure(err) =
        IF matches = {} THEN "unknown" ELSE rules[Min(matches)][1]
  BY Zenon DEF classifyLLMFailure
<1>2. EligibleClass \cap ClosedClass = {} /\ "unknown" \in ClosedClass
  BY DEF EligibleClass, ClosedClass
<1>3. DOMAIN rules = 1 .. 11
  BY RuleNames
<1>4. CASE matches = {}
  BY <1>1, <1>2, <1>3, <1>4
<1>5. CASE matches # {}
  <2>1. Min(matches) \in matches /\ \A i \in matches : Min(matches) <= i
    BY <1>3, <1>5, LeastOf
  <2>2. classifyLLMFailure(err) = rules[Min(matches)][1]
    BY <1>1, <1>5
  <2>3. Min(matches) \in 1 .. 11 /\ rules[Min(matches)][2]
    BY <1>3, <2>1
  <2> DEFINE least == Min(matches)
  <2>4. \A i \in 1 .. 7 : rules[i][2] => least <= i
    BY <1>3, <2>1
  <2> HIDE DEF least, rules
  <2>5. CASE least \in 1 .. 7
    BY <2>2, <2>3, <2>5, RuleNames DEF least, rules
  <2>6. CASE least \in 8 .. 11
    <3>1. classifyLLMFailure(err) \in ClosedClass
      BY <2>2, <2>6, RuleNames DEF least, rules
    <3>2. \A i \in 1 .. 7 : ~rules[i][2]
      BY <2>4, <2>6
    <3> QED BY <1>2, <3>1, <3>2 DEF rules
  <2> QED BY <2>3, <2>5, <2>6 DEF least
<1> QED BY <1>4, <1>5

-----------------------------------------------------------------------------
\* The failures DownFallsBack is about: the provider is down or overloaded.
DownFailure(f) ==
  \/ f.kind \in {"refused", "timed_out", "aborted"}
  \/ f.kind = "http" /\ f.status \in {429} \cup 500 .. 599

\* Those MistakeNotPassedOn is about: the request itself is refused, or its
\* answer is no JSON.
MistakeFailure(f) ==
  \/ f.kind = "not_JSON"
  \/ /\ f.kind = "http" /\ f.status \in 400 .. 499 \ {429}
     /\ f.says \cap {"not_loaded", "timeout", "ECONNREFUSED"} = {}

\* Only the innermost cause of an error has a code.
LEMMA Code ==
  ASSUME NEW err, NEW k \in DOMAIN err, DOMAIN err \subseteq Nat,
         \A i \in DOMAIN err \ {k} : err[i].code = "none",
         err[k].code \in {"ECONNREFUSED", "ECONNRESET", "ETIMEDOUT"}
  PROVE  readSyscallCode(err) = err[k].code
<1>1. {i \in DOMAIN err :
         err[i].code \in {"ECONNREFUSED", "ECONNRESET", "ETIMEDOUT"}} = {k}
  OBVIOUS
<1>2. Min({k}) = k
  BY DEF Min
<1> QED BY <1>1, <1>2, Zenon DEF readSyscallCode

\* No error of the chain has one.
LEMMA NoCode ==
  ASSUME NEW err,
         \A i \in DOMAIN err :
           err[i].code \notin {"ECONNREFUSED", "ECONNRESET", "ETIMEDOUT"}
  PROVE  readSyscallCode(err) = "none"
<1>1. {i \in DOMAIN err :
         err[i].code \in {"ECONNREFUSED", "ECONNRESET", "ETIMEDOUT"}} = {}
  OBVIOUS
<1> QED BY <1>1, Zenon DEF readSyscallCode

\* What the first seven rules ask.
LEMMA RuleConditions ==
  ASSUME NEW err
  PROVE  /\ Rules(err)[1][2] <=>
              readSyscallCode(err) = "ECONNREFUSED" \/ "ECONNREFUSED" \in err[1].says
         /\ Rules(err)[2][2] <=>
              \/ readSyscallCode(err) \in {"ETIMEDOUT", "UND_ERR_CONNECT_TIMEOUT"}
              \/ isAbortError(err) \/ "timeout" \in err[1].says
         /\ Rules(err)[3][2] <=> readStatus(err) = 503 /\ "not_loaded" \in readBody(err)
         /\ Rules(err)[4][2] <=> readStatus(err) = 503
         /\ Rules(err)[5][2] <=> readStatus(err) = 429
         /\ Rules(err)[6][2] <=> "not_loaded" \in readBody(err)
         /\ Rules(err)[7][2] <=> Is5xx(readStatus(err))
BY DEF Rules

LEMMA PlainType ==
  /\ PlainError.code = "none" /\ PlainError.isAbort = FALSE
  /\ PlainError.status = NoStatus /\ PlainError.body = NoBody
  /\ PlainError.says = {} /\ PlainError.saysStatus = NoStatus
  /\ DOMAIN PlainError = {"code", "isAbort", "isSyntax", "status", "body", "says", "saysStatus"}
BY DEF PlainError

\* An error and its causes: a sequence of n errors.
IsChain(err, n) == err = [i \in 1 .. n |-> err[i]]

\* w is err under one more error.
Wraps(w, t, err) == w = <<t>> \o err

\* Its elements, one by one.
IsAbove(w, t, err, n) == w[1] = t /\ \A i \in 1 .. n : w[i + 1] = err[i]

LEMMA Wrapped ==
  ASSUME NEW t, NEW n \in Nat, NEW err, IsChain(err, n),
         NEW w, Wraps(w, t, err)
  PROVE  IsChain(w, n + 1) /\ IsAbove(w, t, err, n)
<1>1. err \in Seq({err[i] : i \in 1 .. n}) /\ Len(err) = n
  BY DEF IsChain
<1> QED BY <1>1 DEF IsChain, IsAbove, Wraps

LEMMA Alone == ASSUME NEW e PROVE IsChain(<<e>>, 1) /\ <<e>>[1] = e
BY DEF IsChain

LEMMA Two ==
  ASSUME NEW d, NEW e
  PROVE  IsChain(<<d, e>>, 2) /\ <<d, e>>[1] = d /\ <<d, e>>[2] = e
BY DEF IsChain

\* One error of the chain has the code c, and no other has any.
HasCode(err, c) ==
  \E n \in Nat \ {0} :
    /\ IsChain(err, n)
    /\ \E k \in 1 .. n :
         err[k].code = c /\ \A i \in 1 .. n \ {k} : err[i].code = "none"

\* One error of the chain is an AbortError.
HasAbort(err) == \E n \in Nat \ {0} : IsChain(err, n) /\ \E k \in 1 .. n : err[k].isAbort

\* Wrapping hides neither.
LEMMA WrapCode ==
  ASSUME NEW t, NEW err, NEW c, HasCode(err, c), t.code = "none",
         NEW w, Wraps(w, t, err)
  PROVE  HasCode(w, c)
<1>1. PICK n \in Nat \ {0} :
        /\ IsChain(err, n)
        /\ \E k \in 1 .. n :
             err[k].code = c /\ \A i \in 1 .. n \ {k} : err[i].code = "none"
  BY DEF HasCode
<1>2. PICK k \in 1 .. n :
        err[k].code = c /\ \A i \in 1 .. n \ {k} : err[i].code = "none"
  BY <1>1
<1>3. IsChain(w, n + 1) /\ IsAbove(w, t, err, n)
  <2>1. n \in Nat /\ IsChain(err, n)
    BY <1>1
  <2> QED BY <2>1, Wrapped, Zenon
<1>4. k + 1 \in 1 .. n + 1 /\ w[k + 1].code = c
  BY <1>2, <1>3 DEF IsAbove
<1>5. ASSUME NEW i \in 1 .. n + 1, i # k + 1 PROVE w[i].code = "none"
  <2>1. CASE i = 1
    BY <1>3, <2>1 DEF IsAbove
  <2>2. CASE i # 1
    <3>1. i - 1 \in 1 .. n /\ i - 1 # k /\ i = (i - 1) + 1
      BY <1>5, <2>2
    <3> QED BY <1>2, <1>3, <3>1 DEF IsAbove
  <2> QED BY <2>1, <2>2
<1>6. n + 1 \in Nat \ {0}
  BY <1>1
<1> QED BY <1>3, <1>4, <1>5, <1>6 DEF HasCode

LEMMA WrapAbort ==
  ASSUME NEW t, NEW err, HasAbort(err), NEW w, Wraps(w, t, err)
  PROVE  HasAbort(w)
<1>1. PICK n \in Nat \ {0} :
        IsChain(err, n) /\ \E k \in 1 .. n : err[k].isAbort
  BY DEF HasAbort
<1>2. PICK k \in 1 .. n : err[k].isAbort
  BY <1>1
<1>3. IsChain(w, n + 1) /\ IsAbove(w, t, err, n)
  <2>1. n \in Nat /\ IsChain(err, n)
    BY <1>1
  <2> QED BY <2>1, Wrapped, Zenon
<1>4. k + 1 \in 1 .. n + 1 /\ w[k + 1].isAbort
  BY <1>2, <1>3 DEF IsAbove
<1>5. n + 1 \in Nat \ {0}
  BY <1>1
<1> QED BY <1>3, <1>4, <1>5 DEF HasAbort

\* What fetch rejects with.
LEMMA Rejected ==
  ASSUME NEW f
  PROVE  /\ f.kind = "refused" => HasCode(fetchRejection(f), "ECONNREFUSED")
         /\ f.kind = "timed_out" => HasCode(fetchRejection(f), "ETIMEDOUT")
         /\ f.kind = "aborted" => HasAbort(fetchRejection(f))
<1>1. ASSUME NEW d, NEW e, NEW c, d.code = "none", e.code = c
      PROVE  HasCode(<<d, e>>, c)
  BY <1>1, Two DEF HasCode
<1>2. ASSUME NEW e, e.isAbort PROVE HasAbort(<<e>>)
  BY <1>2, Alone DEF HasAbort
<1>3. CASE f.kind = "refused"
  <2> DEFINE e == [PlainError EXCEPT !.code = "ECONNREFUSED", !.says = {"ECONNREFUSED"}]
  <2>1. fetchRejection(f) = <<PlainError, e>>
    BY <1>3 DEF fetchRejection
  <2>2. e.code = "ECONNREFUSED"
    BY PlainType
  <2> HIDE DEF e
  <2>3. HasCode(<<PlainError, e>>, "ECONNREFUSED")
    BY <1>1, <2>2, PlainType
  <2> QED BY <1>3, <2>1, <2>3
<1>4. CASE f.kind = "timed_out"
  <2> DEFINE e == [PlainError EXCEPT !.code = "ETIMEDOUT", !.says = {}]
  <2>1. fetchRejection(f) = <<PlainError, e>>
    BY <1>4 DEF fetchRejection
  <2>2. e.code = "ETIMEDOUT"
    BY PlainType
  <2> HIDE DEF e
  <2>3. HasCode(<<PlainError, e>>, "ETIMEDOUT")
    BY <1>1, <2>2, PlainType
  <2> QED BY <1>4, <2>1, <2>3
<1>5. CASE f.kind = "aborted"
  <2> DEFINE e == [PlainError EXCEPT !.isAbort = TRUE]
  <2>1. fetchRejection(f) = <<e>>
    BY <1>5 DEF fetchRejection
  <2>2. e.isAbort
    BY PlainType
  <2> HIDE DEF e
  <2> QED BY <1>2, <1>5, <2>1, <2>2
<1> QED BY <1>3, <1>4, <1>5

\* The classifier finds both at any depth.
LEMMA ReadsCode ==
  ASSUME NEW err, NEW c \in {"ECONNREFUSED", "ETIMEDOUT"}, HasCode(err, c)
  PROVE  readSyscallCode(err) = c
<1>1. PICK n \in Nat \ {0} :
        /\ IsChain(err, n)
        /\ \E k \in 1 .. n :
             err[k].code = c /\ \A i \in 1 .. n \ {k} : err[i].code = "none"
  BY DEF HasCode
<1>2. PICK k \in 1 .. n :
        err[k].code = c /\ \A i \in 1 .. n \ {k} : err[i].code = "none"
  BY <1>1
<1>3. DOMAIN err = 1 .. n
  BY <1>1 DEF IsChain
<1>4. k \in DOMAIN err /\ DOMAIN err \subseteq Nat
  BY <1>2, <1>3
<1>5. \A i \in DOMAIN err \ {k} : err[i].code = "none"
  BY <1>2, <1>3
<1> QED BY <1>2, <1>4, <1>5, Code

LEMMA ReadsAbort ==
  ASSUME NEW err, HasAbort(err)
  PROVE  isAbortError(err)
BY DEF HasAbort, IsChain, isAbortError

\* What the provider's client throws, and chat() wraps.
Cause(p, f) == IF p = "anthropic" THEN callAnthropic(f) ELSE callOpenAICompatible(f)

\* Neither a code nor an abort.
Quiet(e) == e.code = "none" /\ e.isAbort = FALSE

\* top is the error chat() makes of it: its message quotes the cause.
Tops(top, cause) ==
  /\ Quiet(top)
  /\ top.status = NoStatus /\ top.body = NoBody
  /\ top.says = cause[1].says /\ top.saysStatus = cause[1].saysStatus

LEMMA Chat ==
  ASSUME NEW p, NEW f, f.kind # "no_key", NEW err, err = chatError(p, f),
         NEW cause, cause = Cause(p, f)
  PROVE  \E top : Tops(top, cause) /\ Wraps(err, top, cause)
<1> DEFINE top == [PlainError EXCEPT !.says = cause[1].says,
                                     !.saysStatus = cause[1].saysStatus]
<1>1. err = <<top>> \o cause
  BY Zenon DEF chatError, Cause
<1>2. Tops(top, cause)
  BY PlainType DEF Tops, Quiet
<1> HIDE DEF top
<1>3. Wraps(err, top, cause)
  BY <1>1, Zenon DEF Wraps
<1> QED BY <1>2, <1>3

\* A rejection of fetch under the errors that wrap it.
LEMMA NetworkError ==
  ASSUME NEW p, NEW f, f.kind \in {"refused", "timed_out", "aborted"},
         NEW err, err = chatError(p, f)
  PROVE  /\ f.kind = "refused" => readSyscallCode(err) = "ECONNREFUSED"
         /\ f.kind = "timed_out" => readSyscallCode(err) = "ETIMEDOUT"
         /\ f.kind = "aborted" => isAbortError(err)
<1>1. PICK top : Wraps(err, top, Cause(p, f)) /\ top.code = "none"
  <2>1. PICK top : Wraps(err, top, Cause(p, f)) /\ Quiet(top)
    BY Chat DEF Tops
  <2> QED
    BY <2>1 DEF Quiet
<1>2. \/ Cause(p, f) = fetchRejection(f)
      \/ Wraps(Cause(p, f), PlainError, fetchRejection(f))
  BY DEF Cause, callAnthropic, callOpenAICompatible, Wraps
<1>3. ASSUME NEW c, HasCode(fetchRejection(f), c) PROVE HasCode(err, c)
  <2>1. HasCode(Cause(p, f), c)
    BY <1>2, <1>3, WrapCode, PlainType
  <2> QED BY <1>1, <2>1, WrapCode
<1>4. ASSUME HasAbort(fetchRejection(f)) PROVE HasAbort(err)
  <2>1. HasAbort(Cause(p, f))
    BY <1>2, <1>4, WrapAbort
  <2> QED BY <1>1, <2>1, WrapAbort
<1>5. CASE f.kind = "refused"
  <2>1. HasCode(err, "ECONNREFUSED")
    BY <1>3, <1>5, Rejected
  <2> QED BY <1>5, <2>1, ReadsCode
<1>6. CASE f.kind = "timed_out"
  <2>1. HasCode(err, "ETIMEDOUT")
    BY <1>3, <1>6, Rejected
  <2> QED BY <1>6, <2>1, ReadsCode
<1>7. CASE f.kind = "aborted"
  BY <1>4, <1>7, Rejected, ReadsAbort
<1> QED BY <1>5, <1>6, <1>7

\* An error of two, neither of which has a code.
LEMMA ReadsTwo ==
  ASSUME NEW err, NEW top, NEW cause, NEW n \in Nat \ {0}, IsChain(cause, n),
         Wraps(err, top, cause), Quiet(top), \A i \in 1 .. n : Quiet(cause[i])
  PROVE  /\ err[1] = top /\ err[2] = cause[1] /\ Len(err) > 1
         /\ readSyscallCode(err) = "none" /\ ~isAbortError(err)
<1>1. /\ IsChain(err, n + 1) /\ err[1] = top
      /\ \A i \in 1 .. n : err[i + 1] = cause[i]
  <2>1. n \in Nat
    OBVIOUS
  <2>2. IsChain(err, n + 1) /\ IsAbove(err, top, cause, n)
    BY <2>1, Wrapped, Zenon
  <2> QED BY <2>2 DEF IsAbove
<1>2. DOMAIN err = 1 .. n + 1 /\ Len(err) = n + 1
  BY <1>1 DEF IsChain
<1>3. ASSUME NEW i \in DOMAIN err PROVE Quiet(err[i])
  <2>1. CASE i = 1
    BY <1>1, <2>1
  <2>2. CASE i # 1
    <3>1. i - 1 \in 1 .. n /\ i = (i - 1) + 1
      BY <1>2, <2>2
    <3> QED BY <1>1, <3>1
  <2> QED BY <2>1, <2>2
<1>4. readSyscallCode(err) = "none"
  BY <1>3, NoCode DEF Quiet
<1>5. ~isAbortError(err)
  BY <1>3 DEF isAbortError, Quiet
<1> QED BY <1>1, <1>2, <1>4, <1>5

\* What the classifier reads of an answer with an error status, of either API.
LEMMA HttpError ==
  ASSUME NEW p, NEW f, f.kind = "http", f.status \in HttpStatus,
         NEW err, err = chatError(p, f)
  PROVE  /\ readStatus(err) = f.status /\ readBody(err) = f.says
         /\ err[1].says = f.says
         /\ readSyscallCode(err) = "none" /\ ~isAbortError(err)
<1>1. PICK cause : cause = Cause(p, f)
  OBVIOUS
<1>2. PICK e : /\ cause = <<e>>
               /\ Quiet(e) /\ e.says = f.says /\ e.saysStatus = f.status
               /\ \/ e.status = NoStatus /\ e.body = NoBody
                  \/ e.status = f.status /\ e.body = f.says
  <2>1. CASE p = "anthropic"
    <3> DEFINE e == [PlainError EXCEPT !.says = f.says, !.saysStatus = f.status]
    <3>1. cause = <<e>>
      BY <1>1, <2>1 DEF Cause, callAnthropic
    <3>2. /\ Quiet(e) /\ e.says = f.says /\ e.saysStatus = f.status
          /\ e.status = NoStatus /\ e.body = NoBody
      BY PlainType DEF Quiet
    <3> HIDE DEF e
    <3> QED BY <3>1, <3>2
  <2>2. CASE p # "anthropic"
    <3> DEFINE e == [PlainError EXCEPT !.status = f.status, !.body = f.says,
                                       !.says = f.says, !.saysStatus = f.status]
    <3>1. cause = <<e>>
      BY <1>1, <2>2 DEF Cause, callOpenAICompatible
    <3>2. /\ Quiet(e) /\ e.says = f.says /\ e.saysStatus = f.status
          /\ e.status = f.status /\ e.body = f.says
      BY PlainType DEF Quiet
    <3> HIDE DEF e
    <3> QED BY <3>1, <3>2
  <2> QED BY <2>1, <2>2
<1>3. IsChain(cause, 1) /\ cause[1] = e
  BY <1>2, Alone
<1>4. PICK top : Tops(top, cause) /\ Wraps(err, top, cause)
  BY <1>1, Chat
<1>5. /\ err[1] = top /\ err[2] = e /\ Len(err) > 1
      /\ readSyscallCode(err) = "none" /\ ~isAbortError(err)
  <2>1. \A i \in 1 .. 1 : Quiet(cause[i])
    BY <1>2, <1>3
  <2> QED BY <1>3, <1>4, <2>1, ReadsTwo DEF Tops
<1>6. f.status # NoStatus
  BY FailureAssumption DEF NoStatus
<1>7. readStatus(err) = f.status
  BY <1>2, <1>3, <1>4, <1>5, <1>6 DEF readStatus, FirstOfTwo, Tops
<1>8. readBody(err) = f.says
  BY <1>2, <1>3, <1>4, <1>5 DEF readBody, FirstOfTwo, Tops
<1> QED BY <1>2, <1>3, <1>4, <1>5, <1>7, <1>8 DEF Tops

\* It says that the answer is no JSON, and is not of another kind.
SaysJSON(e) ==
  /\ e.says = {"JSON"} /\ e.body = NoBody
  /\ e.saysStatus = NoStatus /\ e.status \in {NoStatus, 200}

LEMMA NotJSONCause ==
  ASSUME NEW p, NEW f, f.kind = "not_JSON", NEW cause, cause = Cause(p, f)
  PROVE  \E n \in Nat \ {0} :
           /\ IsChain(cause, n) /\ SaysJSON(cause[1])
           /\ \A i \in 1 .. n : Quiet(cause[i])
<1> DEFINE e == [PlainError EXCEPT !.status = 200, !.says = {"JSON"}]
<1>1. Quiet(syntaxError) /\ SaysJSON(syntaxError)
  BY PlainType DEF syntaxError, Quiet, SaysJSON
<1>2. Quiet(e) /\ SaysJSON(e)
  BY PlainType DEF Quiet, SaysJSON
<1>3. cause = <<syntaxError>> \/ cause = <<e, syntaxError>>
  BY DEF Cause, callAnthropic, callOpenAICompatible
<1> HIDE DEF e
<1>4. CASE cause = <<syntaxError>>
  <2>1. IsChain(cause, 1) /\ cause[1] = syntaxError
    BY <1>4, Alone
  <2>2. \A i \in 1 .. 1 : Quiet(cause[i])
    BY <1>1, <2>1
  <2> QED BY <1>1, <2>1, <2>2
<1>5. CASE cause = <<e, syntaxError>>
  <2>1. IsChain(cause, 2) /\ cause[1] = e /\ cause[2] = syntaxError
    BY <1>5, Two
  <2>2. \A i \in 1 .. 2 : Quiet(cause[i])
    BY <1>1, <1>2, <2>1
  <2> QED BY <1>2, <2>1, <2>2
<1> QED BY <1>3, <1>4, <1>5

\* What the classifier reads of an answer that is no JSON.
LEMMA NotJSONError ==
  ASSUME NEW p, NEW f, f.kind = "not_JSON", NEW err, err = chatError(p, f)
  PROVE  /\ readStatus(err) \in {NoStatus, 200}
         /\ readBody(err) = {"JSON"} /\ err[1].says = {"JSON"}
         /\ readSyscallCode(err) = "none" /\ ~isAbortError(err)
<1>1. PICK cause : cause = Cause(p, f)
  OBVIOUS
<1>2. PICK n \in Nat \ {0} :
        /\ IsChain(cause, n) /\ SaysJSON(cause[1])
        /\ \A i \in 1 .. n : Quiet(cause[i])
  BY <1>1, NotJSONCause
<1>3. PICK top : Tops(top, cause) /\ Wraps(err, top, cause)
  BY <1>1, Chat
<1>4. /\ err[1] = top /\ err[2] = cause[1] /\ Len(err) > 1
      /\ readSyscallCode(err) = "none" /\ ~isAbortError(err)
  BY <1>2, <1>3, ReadsTwo DEF Tops
<1>5. readStatus(err) \in {NoStatus, 200}
  BY <1>2, <1>3, <1>4 DEF readStatus, FirstOfTwo, Tops, SaysJSON
<1>6. readBody(err) = {"JSON"}
  BY <1>2, <1>3, <1>4 DEF readBody, FirstOfTwo, Tops, SaysJSON
<1> QED BY <1>2, <1>3, <1>4, <1>5, <1>6 DEF Tops, SaysJSON

-----------------------------------------------------------------------------
\* The first seven rules are those of the eligible classes.
LEMMA Eligible ==
  ASSUME NEW err, NEW i \in 1 .. 7, Rules(err)[i][2]
  PROVE  classifyLLMFailure(err) \in EligibleClass
BY Classes

\* When none of the seven applies, the class is a closed one.
LEMMA Closed ==
  ASSUME NEW err, readSyscallCode(err) = "none", ~isAbortError(err),
         readStatus(err) \notin {429, 503}, ~Is5xx(readStatus(err)),
         "not_loaded" \notin readBody(err),
         err[1].says \cap {"timeout", "ECONNREFUSED"} = {}
  PROVE  classifyLLMFailure(err) \notin EligibleClass
<1>1. ~Rules(err)[1][2] /\ ~Rules(err)[2][2]
  BY RuleConditions
<1>2. ~Rules(err)[3][2] /\ ~Rules(err)[4][2] /\ ~Rules(err)[5][2]
  BY RuleConditions
<1>3. ~Rules(err)[6][2] /\ ~Rules(err)[7][2]
  BY RuleConditions
<1>4. \A i \in 1 .. 7 : i = 1 \/ i = 2 \/ i = 3 \/ i = 4 \/ i = 5 \/ i = 6 \/ i = 7
  OBVIOUS
<1>5. ASSUME NEW i \in 1 .. 7, Rules(err)[i][2] PROVE FALSE
  BY <1>1, <1>2, <1>3, <1>4, <1>5, Zenon
<1> QED BY <1>5, Classes, Zenon

\* D4: a provider that is down or overloaded is fallback-eligible, whichever
\* client reports it.
LEMMA DownIsEligible ==
  ASSUME NEW p, NEW f \in FailureOf(p), DownFailure(f), NEW err, err = chatError(p, f)
  PROVE  classifyLLMFailure(err) \in EligibleClass
<1>1. f \in Failure
  BY DEF FailureOf
<1>2. CASE f.kind = "refused"
  <2>1. readSyscallCode(err) = "ECONNREFUSED"
    BY <1>2, NetworkError
  <2>2. Rules(err)[1][2]
    BY <2>1, RuleConditions
  <2> QED BY <2>2, Eligible
<1>3. CASE f.kind \in {"timed_out", "aborted"}
  <2>1. readSyscallCode(err) = "ETIMEDOUT" \/ isAbortError(err)
    BY <1>3, NetworkError
  <2>2. Rules(err)[2][2]
    BY <2>1, RuleConditions
  <2> QED BY <2>2, Eligible
<1>4. CASE f.kind = "http" /\ f.status \in {429} \cup 500 .. 599
  <2>1. f.status \in HttpStatus
    BY <1>1, <1>4 DEF Failure, NetworkKind
  <2>2. readStatus(err) = 429 \/ Is5xx(readStatus(err))
    BY <1>4, <2>1, HttpError DEF Is5xx
  <2>3. Rules(err)[5][2] \/ Rules(err)[7][2]
    BY <2>2, RuleConditions
  <2> QED BY <2>3, Eligible
<1> QED BY <1>2, <1>3, <1>4 DEF DownFailure

\* D5: the caller's own mistake is not.
LEMMA MistakeIsClosed ==
  ASSUME NEW p, NEW f \in FailureOf(p), MistakeFailure(f), NEW err, err = chatError(p, f)
  PROVE  classifyLLMFailure(err) \notin EligibleClass
<1>1. f \in Failure
  BY DEF FailureOf
<1>2. CASE f.kind = "not_JSON"
  <2>1. /\ readStatus(err) \in {NoStatus, 200} /\ readBody(err) = {"JSON"}
        /\ err[1].says = {"JSON"} /\ readSyscallCode(err) = "none"
        /\ ~isAbortError(err)
    BY <1>2, NotJSONError
  <2>2. readStatus(err) \notin {429, 503} /\ ~Is5xx(readStatus(err))
    BY <2>1 DEF Is5xx, NoStatus
  <2>3. /\ "not_loaded" \notin readBody(err)
        /\ err[1].says \cap {"timeout", "ECONNREFUSED"} = {}
    BY <2>1
  <2> QED BY <2>1, <2>2, <2>3, Closed
<1>3. CASE /\ f.kind = "http" /\ f.status \in 400 .. 499 \ {429}
           /\ f.says \cap {"not_loaded", "timeout", "ECONNREFUSED"} = {}
  <2>1. f.status \in HttpStatus
    BY <1>1, <1>3 DEF Failure, NetworkKind
  <2>2. /\ readStatus(err) = f.status /\ readBody(err) = f.says
        /\ err[1].says = f.says /\ readSyscallCode(err) = "none"
        /\ ~isAbortError(err)
    BY <1>3, <2>1, HttpError
  <2>3. readStatus(err) \notin {429, 503} /\ ~Is5xx(readStatus(err))
    BY <1>3, <2>2 DEF Is5xx
  <2>4. /\ "not_loaded" \notin readBody(err)
        /\ err[1].says \cap {"timeout", "ECONNREFUSED"} = {}
    BY <1>3, <2>2
  <2> QED BY <2>2, <2>3, <2>4, Closed
<1> QED BY <1>2, <1>3 DEF MistakeFailure

-----------------------------------------------------------------------------
(* The classes of the failures.                                            *)

LEMMA OtherTypesStep == ASSUME CascadeInv, [Next]_vars PROVE OtherTypes'
  <1> USE StageType DEF CascadeInv, Types, OtherTypes
  <1>1. ASSUME NEW i \in Stage, NEW k \in {"success", "cascade_exhausted"},
               emitUsage(i, k)
        PROVE  usage' \in Seq([stage : Stage, outcome : {"success", "cascade_exhausted"}])
    BY <1>1 DEF emitUsage, Event
  <1>2. ASSUME NEW i \in Stage, raiseExhausted(i)
        PROVE  /\ usage' \in Seq([stage : Stage, outcome : {"success", "cascade_exhausted"}])
               /\ outcome'.kind \in {"pending", "result", "exhausted"}
    BY <1>1, <1>2, OutcomeKinds DEF raiseExhausted
  <1>3. CASE StageTooLate
    <2>1. totalTimeoutMs \in Nat /\ clock > totalTimeoutMs /\ pc = "next"
      BY <1>3, BudgetType DEF StageTooLate, TooLate
    <2>2. stage - 1 \in Stage
      BY <2>1 DEF FirstInTime
    <2> QED
      BY <1>2, <1>3, <2>2 DEF StageTooLate
  <1>4. CASE StageStart
    BY <1>4 DEF StageStart
  <1>5. CASE StageSucceeds
    <2>1. emitUsage(stage, "success") /\ outcome' = Result(stage)
          /\ UNCHANGED <<clock, attempted, failure>>
      BY <1>5 DEF StageSucceeds
    <2> QED
      BY <1>1, <2>1, OutcomeKinds
  <1>6. CASE StageFails
    <2> DEFINE class == classifyLLMFailure(chatError(Provider[stage], failure'))
    <2>1. class \in Class
      BY Classes DEF Class
    <2>2. attempted' = Append(attempted, [stage |-> stage, class |-> class])
      BY <1>6 DEF StageFails
    <2>3. failure' \in Failure /\ UNCHANGED clock
      BY <1>6 DEF StageFails, FailureOf
    <2> HIDE DEF class
    <2>4. attempted' \in Seq([stage : Stage, class : Class])
      BY <2>1, <2>2
    <2> QED
      BY <1>2, <1>6, <2>3, <2>4, FailureEnds
  <1>7. CASE BudgetExpires
    BY <1>2, <1>7 DEF BudgetExpires
  <1>8. CASE Tick
    BY <1>8, CascadeAssumption DEF Tick
  <1>9. ASSUME NEW i \in Stage, LoserEnds(i) PROVE OtherTypes'
    BY <1>9 DEF LoserEnds
  <1>10. CASE UNCHANGED vars
    BY <1>10 DEF vars
  <1> QED
    BY <1>3, <1>4, <1>5, <1>6, <1>7, <1>8, <1>9, <1>10 DEF Next

LEMMA WhyStep == ASSUME CascadeInv, [Next]_vars PROVE WhyItGoesOn'
  <1> USE StageType DEF CascadeInv, Types, WhyItGoesOn
  <1>1. ASSUME UNCHANGED attempted, pc # "done", UNCHANGED stage, pc' = "done"
        PROVE  WhyItGoesOn'
    BY <1>1 DEF GaveUp
  <1>2. CASE StageTooLate
    BY <1>1, <1>2 DEF StageTooLate, raiseExhausted
  <1>3. CASE StageStart
    <2>1. pc # "done" /\ pc' # "done" /\ UNCHANGED <<stage, attempted, failure, outcome>>
      BY <1>3 DEF StageStart
    <2> QED
      BY <2>1, OutcomeKinds DEF NotYet, GaveUp, ClassOf
  <1>4. CASE StageSucceeds
    BY <1>1, <1>4 DEF StageSucceeds
  <1>5. CASE StageFails
    <2> DEFINE class == classifyLLMFailure(chatError(Provider[stage], failure'))
    <2>1. /\ pc = "await" /\ failure' \in FailureOf(Provider[stage])
          /\ attempted' = Append(attempted, [stage |-> stage, class |-> class])
      BY <1>5 DEF StageFails
    <2>2. Len(attempted') = stage
      BY <2>1 DEF OtherTypes
    <2>3. CASE class \in EligibleClass /\ HasNext
      <3>1. stage' = stage + 1 /\ pc' = "next" /\ UNCHANGED outcome
        BY <1>5, <2>3 DEF StageFails, FallbackEligible
      <3>2. stage' - 1 = stage
        BY <3>1
      <3>3. (ClassOf(stage - 1))' = class
        <4>1. Provider[stage' - 1] = Provider[stage]
          BY <3>2
        <4> QED
          BY <4>1 DEF ClassOf
      <3>4. ~GaveUp'
        BY <2>1, <3>1, OutcomeKinds DEF NotYet, GaveUp
      <3> QED
        BY <2>1, <2>2, <2>3, <3>1, <3>2, <3>3, <3>4
    <2>4. CASE ~(class \in EligibleClass /\ HasNext)
      <3>1. pc' = "done" /\ UNCHANGED stage
        BY <1>5, <2>4 DEF StageFails, FallbackEligible, raiseExhausted
      <3>2. HasNext' <=> HasNext
        BY <3>1 DEF HasNext
      <3>3. (ClassOf(stage))' = class
        BY <3>1 DEF ClassOf
      <3> QED
        BY <2>1, <2>4, <3>1, <3>2, <3>3 DEF GaveUp
    <2> QED
      BY <2>3, <2>4
  <1>6. CASE BudgetExpires
    BY <1>1, <1>6 DEF BudgetExpires, raiseExhausted
  <1>7. CASE Tick
    BY <1>7 DEF Tick, GaveUp, HasNext, ClassOf
  <1>8. ASSUME NEW i \in Stage, LoserEnds(i) PROVE WhyItGoesOn'
    BY <1>8 DEF LoserEnds, GaveUp, HasNext, ClassOf
  <1>9. CASE UNCHANGED vars
    BY <1>9 DEF vars, GaveUp, HasNext, ClassOf
  <1> QED
    BY <1>2, <1>3, <1>4, <1>5, <1>6, <1>7, <1>8, <1>9 DEF Next

-----------------------------------------------------------------------------
LEMMA Invariance == Spec => []CascadeInv
  <1>1. CascadeInv /\ [Next]_vars => CascadeInv'
    BY TypesStep, OtherTypesStep, InTurnStep, WaitingStep, EventStep, WhyStep
       DEF CascadeInv
  <1> QED
    BY <1>1, InitInv, PTL DEF Spec

\* The registry and the promises of the writer never touch chat(): it takes its
\* steps as if there were none ("never awaited", and errors that stay where
\* they are).
THEOREM WriterInvisible == UsageSpec => Spec
  <1>1. UsageInit => Init
    BY DEF UsageInit
  <1>2. [UsageNext]_usageVars => [Next]_vars
    BY DEF UsageNext, usageVars, WithWriter, WriterStep, InsertConcept,
           InsertBinding, InsertDone, InsertFails, SetDefaultUsageWriter
  <1> QED
    BY <1>1, <1>2, PTL DEF UsageSpec, Spec

\* A settled chat() has emitted one usage event, of the last stage it called and
\* with its outcome, a pending one none, with any writer.
THEOREM OneEvent == UsageSpec => []OneUsageEvent
  <1>1. CascadeInv => OneUsageEvent
    BY DEF CascadeInv
  <1> QED
    BY <1>1, Invariance, WriterInvisible, PTL

\* No stage is called once the budget is spent.
THEOREM BudgetIsFinal == UsageSpec => NoStageAfterBudget
  <1> DEFINE Starts(i) == call[i] = "none" /\ call'[i] = "running"
             InBudget ==
               \A i \in Stage : Starts(i) /\ HasBudget /\ totalTimeoutMs # 0
                                  => clock <= totalTimeoutMs
  <1>1. ASSUME CascadeInv, [Next]_vars PROVE [InBudget]_vars
    <2> SUFFICES ASSUME Next, NEW i \in Stage, Starts(i), HasBudget, totalTimeoutMs # 0
                 PROVE  clock <= totalTimeoutMs
      BY <1>1
    <2> USE StageType DEF CascadeInv, Types
    <2>1. CASE StageStart
      BY <1>1, <2>1, BudgetType DEF StageStart, TooLate
    <2>2. ~StageTooLate /\ ~StageSucceeds /\ ~StageFails /\ ~BudgetExpires /\ ~Tick
      BY <1>1 DEF StageTooLate, StageSucceeds, StageFails, BudgetExpires, Tick
    <2>3. \A k \in Stage : ~LoserEnds(k)
      BY <1>1 DEF LoserEnds
    <2> QED
      BY <2>1, <2>2, <2>3 DEF Next
  <1>2. Spec => [][InBudget]_vars
    BY <1>1, Invariance, PTL DEF Spec
  <1> QED
    BY <1>2, WriterInvisible DEF NoStageAfterBudget

\* Every variable of chat() keeps its type; in particular each failure has one
\* of the classes of FAILURE_CLASSES.
THEOREM Typing == UsageSpec => []TypeOK
  <1>1. CascadeInv => TypeOK
    BY StageType, CascadeAssumption DEF CascadeInv, Types, OtherTypes, TypeOK
  <1> QED
    BY <1>1, Invariance, WriterInvisible, PTL

\* A provider that is down or overloaded never ends the cascade while a stage
\* is left: classifyLLMFailure finds it eligible under all that wraps it (D4).
THEOREM DownIsPassedOn == UsageSpec => []DownFallsBack
  <1>1. CascadeInv => DownFallsBack
    BY DownIsEligible DEF CascadeInv, WhyItGoesOn, ClassOf, DownFallsBack, DownFailure
  <1> QED
    BY <1>1, Invariance, WriterInvisible, PTL

\* The next provider is never called for the caller's own mistake (D5).
THEOREM MistakesEnd == UsageSpec => []MistakeNotPassedOn
  <1>1. CascadeInv => MistakeNotPassedOn
    BY MistakeIsClosed
       DEF CascadeInv, WhyItGoesOn, ClassOf, MistakeNotPassedOn, MistakeFailure
  <1> QED
    BY <1>1, Invariance, WriterInvisible, PTL

=============================================================================
