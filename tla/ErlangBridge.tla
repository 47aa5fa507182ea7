----------------------------- MODULE ErlangBridge -----------------------------
(***************************************************************************)
(* The bridge to the Erlang ModelBroker (src/lib/erlang-bridge-exporter.js *)
(* and src/lib/erlang-bridge-importer.js): a settings file becomes a       *)
(* record with every field of the contract, null where the file has none,  *)
(* and a record becomes a file again.                                      *)
(*                                                                         *)
(* The number and the file name, which each export is given anew, and the  *)
(* order of the keys are left out.                                         *)
(***************************************************************************)
EXTENDS LLMSettings

CONSTANT null

CONTRACT_VERSION == 1

OrNull(s, field) == IF field \in DOMAIN s THEN s[field] ELSE null

normalizeThinking(raw) ==
  IF raw = null THEN null
  ELSE [enabled |-> raw.enabled,
        budget_tokens |-> IF "budget_tokens" \in DOMAIN raw THEN raw.budget_tokens ELSE 0]

StageRecord(s) ==
  [f \in StageFields |->
     IF f = "thinking" THEN normalizeThinking(OrNull(s, f)) ELSE OrNull(s, f)]

normalizeFallback(raw) ==
  IF raw \in {null, <<>>} THEN null ELSE [i \in DOMAIN raw |-> StageRecord(raw[i])]

collectDeprecated(s) ==
  LET found == DEPRECATED_DOC_FIELDS \cap DOMAIN s
  IN IF found = {} THEN null ELSE [f \in found |-> s[f]]

\* Only a file that the schema accepts is exported.  A standalone one has none
\* of the fields of a stage, which are null then.
exportSettingsToJSON(s) ==
  [contract_version |-> CONTRACT_VERSION, schema_version |-> s.schema_version,
   organ_name |-> s.organ, llm_required |-> ~IsStandalone(s),
   fallback |-> normalizeFallback(OrNull(s, "fallback")),
   tenant_urn |-> OrNull(s, "tenant_urn"),
   huggingface_autoprovision |-> OrNull(s, "huggingface_autoprovision"),
   deprecated_doc_fields |-> collectDeprecated(s)]
    @@ StageRecord(s)

-----------------------------------------------------------------------------
(* The way back.                                                           *)

Present(r, fields) == [f \in {g \in fields : r[g] # null} |-> r[f]]

\* mutant: a budget of 0 is written out
BudgetAsGiven(t) == t

denormalizeThinking(t) ==
  "enabled" :> t.enabled
    @@ (IF t.budget_tokens > 0 THEN "budget_tokens" :> t.budget_tokens ELSE <<>>)

\* The fields of a stage that the record has.
StageOf(r) ==
  (IF r.thinking # null THEN "thinking" :> denormalizeThinking(r.thinking) ELSE <<>>)
    @@ Present(r, StageFields)

denormalizeFallback(arr) == [i \in DOMAIN arr |-> StageOf(arr[i])]

importSettingsFromJSON(r) ==
  [schema_version |-> r.schema_version, organ |-> r.organ_name]
    @@ Present(r, {"tenant_urn"})
    @@ (IF r.deprecated_doc_fields # null THEN r.deprecated_doc_fields ELSE <<>>)
    @@ (IF r.llm_required = FALSE THEN "llm_required" :> FALSE
        ELSE StageOf(r)
               @@ Present(r, {"huggingface_autoprovision"})
               @@ (IF r.fallback # null
                   THEN "fallback" :> denormalizeFallback(r.fallback)
                   ELSE <<>>))

-----------------------------------------------------------------------------
Bridged(s) == importSettingsFromJSON(exportSettingsToJSON(s))

\* A field may be null only if no check asks for it (llm-settings-schema.js:156),
\* and null and malformed are none of the objects and lists that the bridge makes.
NotNull(obj, fields) == \A f \in DOMAIN obj \cap fields : obj[f] # null

ASSUME NullAssumption ==
  /\ null \notin [enabled : BOOLEAN, budget_tokens : Nat]
  /\ \A s \in Objects : validateSettings(s) =>
       /\ NotNull(s, PROBABILISTIC_PERMITTED)
       /\ null # [f \in DEPRECATED_DOC_FIELDS \cap DOMAIN s |-> s[f]]
       /\ malformed # Bridged(s)
       /\ "fallback" \in DOMAIN s =>
            LET records == [i \in DOMAIN s.fallback |-> StageRecord(s.fallback[i])] IN
              /\ \A i \in DOMAIN s.fallback : NotNull(s.fallback[i], StageFields)
              /\ null # records /\ malformed # denormalizeFallback(records)

\* What a file can say that no record does: that it has no fallback at all, and
\* in so many words that it needs a model.
SaysMore(s) == Get(s, "fallback") = <<>> \/ Get(s, "llm_required") = TRUE

\* The stages without the list they are built from.
StagesOf(settings) ==
  LET config == toLLMClientConfig(settings)
      stages == stageConfigs(config)
  IN IF IsStandalone(settings) THEN <<config>>
     ELSE [i \in DOMAIN stages |->
             [f \in DOMAIN stages[i] \ {"fallback"} |-> stages[i][f]]]

\* "the Erlang ModelBroker bridge (R11) round-trips it"
\* (llm-settings-schema-v1.md:12): every file in force comes back valid and
\* with the same record, and from files that came back every agent resolves to
\* the stages it had, also where it inherits, unless its own file says more
\* than a record can.
BridgeKeepsStages ==
  cache # undefined =>
    LET own(a) == IF a \in DOMAIN cache.agents THEN cache.agents[a] ELSE <<>>
        back(a) == IF a \in DOMAIN cache.agents THEN Bridged(cache.agents[a]) ELSE <<>>
    IN /\ \A s \in {cache.default} \cup {cache.agents[a] : a \in DOMAIN cache.agents} :
            /\ validateSettings(Bridged(s))
            /\ exportSettingsToJSON(Bridged(s)) = exportSettingsToJSON(s)
       /\ \A a \in File : ~SaysMore(own(a)) =>
            StagesOf(back(a) @@ Bridged(cache.default)) = StagesOf(own(a) @@ cache.default)

=============================================================================
