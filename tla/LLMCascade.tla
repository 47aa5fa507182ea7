------------------------------ MODULE LLMCascade ------------------------------
(***************************************************************************)
(* One chat() of createCascadeChat (src/lib/llm-cascade.js): it walks the  *)
(* stages, the primary and its fallbacks, under the classification of each *)
(* failure and under the cascade's total time budget.                      *)
(*                                                                         *)
(* Stage i here is the source's stage i - 1.  Time is a clock in ticks     *)
(* since the call began.  A stage call that lost the race against the      *)
(* budget timer is not cancelled: it goes on at the provider.              *)
(***************************************************************************)
EXTENDS Integers, LLMFailure

CONSTANTS
  Stages,          \* the primary and the fallback entries
  Provider,        \* the provider of each stage
  Timeouts,        \* values of cascade_total_timeout_ms to consider
  NoTimeout,       \* its absence
  MaxClock         \* bound on the clock

ASSUME CascadeAssumption ==
  /\ Stages \in Nat \ {0} /\ MaxClock \in Nat
  /\ Provider \in [1 .. Stages -> {"anthropic", "openai-compatible"}]
  /\ NoTimeout \notin 0 .. MaxClock
  /\ Timeouts \subseteq (0 .. MaxClock) \cup {NoTimeout}

Stage == 1 .. Stages
Class == EligibleClass \cup ClosedClass

VARIABLES
  totalTimeoutMs,
  clock,        \* Date.now() - cascadeStart
  stage,        \* the loop's i
  pc,           \* "next" stage to start, "await" its answer, "done"
  call,         \* the provider's side of each stage call
  attempted,    \* the array the error will carry
  failure,      \* history: what went wrong at the provider last
  usage,        \* the usage events emitted
  outcome       \* what chat() settled with

vars == <<totalTimeoutMs, clock, stage, pc, call, attempted, failure,
          usage, outcome>>

NoFailure == [kind |-> "none"]
Pending == [kind |-> "pending"]
Result(i) == [kind |-> "result", stage |-> i]
\* LLMCascadeExhausted carries attempted and nothing else.
Exhausted(list) == [kind |-> "exhausted", attempted |-> list]

Event(i, kind) == [stage |-> i, outcome |-> kind]

Init ==
  /\ totalTimeoutMs \in Timeouts
  /\ clock = 0
  /\ stage = 1
  /\ pc = "next"
  /\ call = [i \in Stage |-> "none"]
  /\ attempted = <<>>
  /\ failure = NoFailure
  /\ usage = <<>>
  /\ outcome = Pending

HasBudget == totalTimeoutMs # NoTimeout
\* mutant: a budget of 0 starts no timer either
BudgetDueUnlessZero == HasBudget /\ totalTimeoutMs # 0 /\ clock >= totalTimeoutMs

BudgetDue == HasBudget /\ clock >= totalTimeoutMs

emitUsage(i, kind) == usage' = Append(usage, Event(i, kind))

\* chat() throws: one usage event, and the error with what was attempted.
raiseExhausted(i) ==
  /\ emitUsage(i, "cascade_exhausted")
  /\ outcome' = Exhausted(attempted')
  /\ pc' = "done"

-----------------------------------------------------------------------------
\* mutant: the clock is looked at only by the budget timer
NeverTooLate == FALSE

\* The check before each stage; a budget of 0 is falsy and skips it.
TooLate == HasBudget /\ totalTimeoutMs # 0 /\ clock > totalTimeoutMs

StageTooLate ==
  /\ pc = "next" /\ TooLate
  /\ UNCHANGED attempted
  /\ raiseExhausted(stage - 1)
  /\ UNCHANGED <<totalTimeoutMs, clock, stage, call, failure>>

StageStart ==
  /\ pc = "next" /\ ~TooLate
  /\ call' = [call EXCEPT ![stage] = "running"]
  /\ pc' = "await"
  /\ UNCHANGED <<totalTimeoutMs, clock, stage, attempted, failure, usage, outcome>>

StageSucceeds ==
  /\ pc = "await" /\ call[stage] = "running"
  /\ call' = [call EXCEPT ![stage] = "ok"]
  /\ emitUsage(stage, "success")
  /\ outcome' = Result(stage)
  /\ pc' = "done"
  /\ UNCHANGED <<totalTimeoutMs, clock, stage, attempted, failure>>

\* mutant: the event is emitted for every stage that fails
EmitPerFailure(class) == usage' = Append(usage, Event(stage, "cascade_exhausted"))

\* A failure that lets the cascade go on says nothing of usage.
NoEvent(class) == UNCHANGED usage

FallbackEligible(class) == class \in EligibleClass

HasNext == stage < Stages

StageFails ==
  /\ pc = "await" /\ call[stage] = "running"
  /\ call' = [call EXCEPT ![stage] = "failed"]
  /\ failure' \in FailureOf(Provider[stage])
  /\ LET class == classifyLLMFailure(chatError(Provider[stage], failure')) IN
       /\ attempted' = Append(attempted, [stage |-> stage, class |-> class])
       /\ IF FallbackEligible(class) /\ HasNext
          THEN /\ stage' = stage + 1
               /\ pc' = "next"
               /\ NoEvent(class)
               /\ UNCHANGED outcome
          ELSE raiseExhausted(stage) /\ UNCHANGED stage
  /\ UNCHANGED <<totalTimeoutMs, clock>>

\* The timer of Promise.race wins.  The stage is not pushed onto attempted.
BudgetExpires ==
  /\ pc = "await" /\ BudgetDue
  /\ UNCHANGED attempted
  /\ raiseExhausted(stage)
  /\ UNCHANGED <<totalTimeoutMs, clock, stage, call, failure>>

\* A call that lost the race ends; nobody looks at it any more.
LoserEnds(i) ==
  /\ pc = "done" /\ call[i] = "running"
  /\ \E end \in {"ok", "failed"} : call' = [call EXCEPT ![i] = end]
  /\ UNCHANGED <<totalTimeoutMs, clock, stage, pc, attempted, failure, usage,
                 outcome>>

\* Time passes while chat() awaits; the rest of its code is synchronous.  The
\* timer may be late: an answer can still come first when it is due.
Tick ==
  /\ clock < MaxClock /\ pc = "await"
  /\ clock' = clock + 1
  /\ UNCHANGED <<totalTimeoutMs, stage, pc, call, attempted, failure, usage,
                 outcome>>

Next ==
  \/ StageTooLate \/ StageStart \/ StageSucceeds \/ StageFails
  \/ BudgetExpires \/ Tick
  \/ \E i \in Stage : LoserEnds(i)

Spec == Init /\ [][Next]_vars

-----------------------------------------------------------------------------
TypeOK ==
  /\ totalTimeoutMs \in Timeouts
  /\ clock \in 0 .. MaxClock
  /\ stage \in Stage
  /\ pc \in {"next", "await", "done"}
  /\ call \in [Stage -> {"none", "running", "ok", "failed"}]
  /\ attempted \in Seq([stage : Stage, class : Class])
  /\ failure \in Failure \cup {NoFailure}
  /\ usage \in Seq([stage : Stage, outcome : {"success", "cascade_exhausted"}])
  /\ outcome.kind \in {"pending", "result", "exhausted"}

Settled == outcome.kind # "pending"

\* "one event per llm.chat() completion": a settled call has emitted exactly
\* one usage event, of the stage it ended at and saying how it ended; a
\* pending one has emitted none.
OneUsageEvent ==
  CASE outcome.kind = "pending" -> usage = <<>>
    [] outcome.kind = "result" -> usage = <<Event(outcome.stage, "success")>>
    [] OTHER -> \E i \in Stage :
         /\ usage = <<Event(i, "cascade_exhausted")>>
         /\ call[i] # "none" /\ \A j \in i + 1 .. Stages : call[j] = "none"

\* The last stage's failure ended the cascade although there were more stages.
GaveUp ==
  outcome.kind = "exhausted" /\ Len(attempted) = stage /\ HasNext

\* A provider that is down or overloaded never ends the cascade while a stage
\* is left, whichever client reports it and through however many wrappings
\* of the error (D4, which has no class for a connection that is reset).
DownFallsBack ==
  GaveUp =>
    /\ failure.kind \notin {"refused", "timed_out", "aborted"}
    /\ failure.kind = "http" => failure.status \notin {429} \cup 500 .. 599

\* The caller's own mistake is not sent to the next provider (D5): a 4xx other
\* than 429, unless its body speaks of the provider's state, and an answer
\* that cannot be parsed.
MistakeNotPassedOn ==
  pc \in {"next", "await"} /\ failure # NoFailure =>
    /\ failure.kind # "not_JSON"
    /\ failure.kind = "http" /\ failure.status \in 400 .. 499 \ {429} =>
         failure.says \cap {"not_loaded", "timeout", "ECONNREFUSED"} # {}

\* `syscall === 'UND_ERR_CONNECT_TIMEOUT'` (llm-classifier.js:169): a connect
\* timeout is a timeout, and falls back.
ConnectTimeoutFallsBack == GaveUp => failure.kind # "connect_timeout"

\* A budget bounds the call: once it is spent no further stage is started,
\* even when the failure of the last one overtakes a late timer.
NoStageAfterBudget ==
  [][\A i \in Stage :
       call[i] = "none" /\ call'[i] = "running" /\ HasBudget /\ totalTimeoutMs # 0
         => clock <= totalTimeoutMs]_vars

\* A budget makes chat() settle even when a provider never answers.
BudgetSettles == HasBudget ~> Settled

=============================================================================
