----------------------------- MODULE UsageWriter -----------------------------
(***************************************************************************)
(* What becomes of the usage event of a chat(): the process-wide writer    *)
(* (src/lib/llm-usage-writer.js, src/lib/usage-attribution.js) inserts a   *)
(* concept and its binding to the tenant with the graph client             *)
(* (src/lib/graph-client.js), while nobody waits for it.                   *)
(***************************************************************************)
EXTENDS LLMCascade

VARIABLES
  defaultUsageWriter, \* "none" or "registered"
  write,    \* the await of the promise chain: "concept", "binding"; "none", "ended"
  stored,   \* what the graph holds of the event
  logged,   \* history: the reasons the writer has logged
  emitted   \* history: the event has reached a writer

writerVars == <<write, stored, logged, emitted>>
usageVars == <<vars, defaultUsageWriter, writerVars>>

UsageInit ==
  /\ Init
  /\ defaultUsageWriter \in {"none", "registered"}
  /\ write = "none" /\ stored = {} /\ logged = {} /\ emitted = FALSE

\* initializeUsageAttribution at boot and on a reload, setDefaultUsageWriter(null).
SetDefaultUsageWriter ==
  /\ defaultUsageWriter' = IF defaultUsageWriter = "none" THEN "registered" ELSE "none"
  /\ UNCHANGED <<vars, writerVars>>

\* The synchronous part: an event without a tenant is refused.  Without a
\* writer the event is dropped.
writeLLMUsageEvent ==
  \/ /\ defaultUsageWriter = "none"
     /\ UNCHANGED writerVars
  \/ /\ defaultUsageWriter = "registered"
     /\ emitted' = TRUE
     /\ \/ write' = "concept" /\ UNCHANGED <<stored, logged>>
        \/ /\ logged' = logged \cup {"invalid_event"}
           /\ UNCHANGED <<write, stored>>

\* A step of chat(); where it emits its usage event the writer is called.
WithWriter(step) ==
  /\ step
  /\ IF usage' # usage THEN writeLLMUsageEvent ELSE UNCHANGED writerVars
  /\ UNCHANGED defaultUsageWriter

InsertDone(record, next) ==
  /\ write = record
  /\ stored' = stored \cup {record}
  /\ write' = next
  /\ UNCHANGED <<vars, defaultUsageWriter, logged, emitted>>

\* mutant: only the first insert has a catch
CatchConcept(record) == logged' = IF record = "concept" THEN logged \cup {record} ELSE logged

CatchError(record) == logged' = logged \cup {record}

\* The graph refuses, cannot be reached, or stores it and its answer is late.
InsertFails(record) ==
  /\ write = record
  /\ stored' \in {stored, stored \cup {record}}
  /\ CatchError(record)
  /\ write' = "ended"
  /\ UNCHANGED <<vars, defaultUsageWriter, emitted>>

InsertConcept == InsertDone("concept", "binding")
InsertBinding == InsertDone("binding", "ended")
WriterStep ==
  \/ InsertConcept \/ InsertBinding
  \/ InsertFails("concept") \/ InsertFails("binding")

UsageNext == WithWriter(Next) \/ WriterStep \/ SetDefaultUsageWriter

UsageSpec == UsageInit /\ [][UsageNext]_usageVars

\* The cascade's loop runs on, the clock too, timers fire; nothing is assumed of
\* the providers: a call may hang.  A request to the graph is answered or
\* aborted by the graph client's own timer.
UsageFairness ==
  /\ WF_usageVars(WithWriter(StageTooLate)) /\ WF_usageVars(WithWriter(StageStart))
  /\ WF_usageVars(WithWriter(BudgetExpires)) /\ WF_usageVars(WithWriter(Tick))
  /\ WF_usageVars(WriterStep)

UsageFairSpec == UsageSpec /\ UsageFairness

-----------------------------------------------------------------------------
\* An event that has reached a writer is in the end stored and bound, or the
\* log says why not, whatever the graph does and whether or not the writer is
\* replaced meanwhile.
EventAccounted == emitted ~> (stored = {"concept", "binding"} \/ logged # {})

=============================================================================
