----------------------------- MODULE LLMSettings -----------------------------
(***************************************************************************)
(* The settings of one organ: the schema its files must satisfy            *)
(* (src/lib/llm-settings-schema.js), the loader that reads them while they *)
(* may be edited, and what it resolves for an agent                        *)
(* (src/lib/llm-settings-loader.js), up to the stages of a cascade         *)
(* (src/lib/llm-cascade.js) and the check of the orchestrator              *)
(* (src/lib/hf-orchestrator.js).                                           *)
(*                                                                         *)
(* A settings file is a JavaScript object: a function on the fields it     *)
(* has.  The constant malformed stands for a value no check accepts.       *)
(***************************************************************************)
EXTENDS Naturals, Sequences

CONSTANTS
  Agent,        \* the agents that may have a file of their own
  Disks,        \* what may be on disk when the organ starts
  Edits,        \* the contents an operator may write
  MaxEdits,     \* bound on the edits during one load
  undefined, malformed

\* The object {...g, ...f}, and the one with the single field a.
f @@ g ==
  [x \in DOMAIN f \cup DOMAIN g |-> IF x \in DOMAIN f THEN f[x] ELSE g[x]]
a :> b == [x \in {a} |-> b]

File == Agent \cup {"default"}

\* What a file can hold, and what can be in force: objects.
Contents == Edits \cup {d[f] : d \in Disks, f \in File}
Objects == Contents \ {undefined, malformed}
AgentMaps == UNION {[A -> Objects] : A \in SUBSET Agent}
Caches == [default : Objects, agents : AgentMaps]

\* An object that comes out of YAML is a function on its fields, none of which
\* is undefined.
IsParsed(obj) ==
  /\ obj = [field \in DOMAIN obj |-> obj[field]]
  /\ \A field \in DOMAIN obj : obj[field] # undefined

ASSUME SettingsAssumption ==
  /\ "default" \notin Agent /\ MaxEdits \in Nat
  /\ Disks \subseteq [File -> Contents]
  /\ undefined # malformed /\ undefined \notin BOOLEAN \cup Nat
  /\ undefined \notin Caches
  /\ \A s \in Objects :
       /\ IsParsed(s)
       /\ "huggingface_autoprovision" \in DOMAIN s =>
            s.huggingface_autoprovision = malformed
              \/ IsParsed(s.huggingface_autoprovision)
       /\ "fallback" \in DOMAIN s =>
            s.fallback = malformed
              \/ \A i \in DOMAIN s.fallback :
                   s.fallback[i] = malformed \/ IsParsed(s.fallback[i])

Get(obj, field) == IF field \in DOMAIN obj THEN obj[field] ELSE undefined
Pick(obj, field, name) ==
  IF field \in DOMAIN obj THEN name :> obj[field] ELSE <<>>

-----------------------------------------------------------------------------
(* llm-settings-schema.js                                                  *)

PROVIDER_CLASSES == {"anthropic", "openai-compatible", "huggingface-autoprovision"}
HF_QUANTIZATION_CLASSES == {"awq", "gptq", "none"}

\* Neither is one of the strings that a check asks for.
ASSUME StringsAssumption ==
  {undefined, malformed}
    \cap (PROVIDER_CLASSES \cup HF_QUANTIZATION_CLASSES \cup {"claude", "open"}) = {}

StageFields ==
  {"provider", "model", "max_tokens", "thinking", "deployment_target",
   "api_key_env_var"}
STANDALONE_PERMITTED == {"schema_version", "organ", "llm_required", "tenant_urn"}

PROBABILISTIC_REQUIRED ==
  {"schema_version", "organ", "provider", "model", "max_tokens"}
PROBABILISTIC_PERMITTED ==
  STANDALONE_PERMITTED \cup StageFields
    \cup {"fallback", "huggingface_autoprovision"}
DEPRECATED_DOC_FIELDS ==
  {"agent", "api_key_path", "temperature", "notes", "runtime_source_file"}

\* Of a model name only its family is kept: "claude" passes the D11 pattern.
checkModel(model, provider) ==
  /\ model \in {"claude", "open"}
  /\ provider = "anthropic" => model = "claude"

checkThinking(thinking) ==
  thinking \in [enabled : BOOLEAN]
                 \cup [enabled : BOOLEAN, budget_tokens : Nat \ {0}]

\* The checks that a settings file and a fallback entry share.
checkStage(s) ==
  /\ Get(s, "provider") \in PROVIDER_CLASSES
  /\ checkModel(Get(s, "model"), Get(s, "provider"))
  /\ "max_tokens" \in DOMAIN s => s.max_tokens \in Nat \ {0}
  /\ "thinking" \in DOMAIN s => checkThinking(s.thinking)
  /\ Get(s, "deployment_target") # malformed
  /\ Get(s, "api_key_env_var") # malformed

\* A revision is pinned or the name of a branch.
checkHFAutoprovision(s) ==
  IF "huggingface_autoprovision" \in DOMAIN s
  THEN LET hf == s.huggingface_autoprovision IN
         /\ hf # malformed
         /\ DOMAIN hf = {"repo", "revision", "quantization"}
         /\ hf.repo # malformed /\ hf.revision = "pinned"
         /\ hf.quantization \in HF_QUANTIZATION_CLASSES
  ELSE s.provider # "huggingface-autoprovision"

IsArray(x) == x \in Seq({x[i] : i \in DOMAIN x})

validateProbabilistic(s) ==
  /\ PROBABILISTIC_REQUIRED \subseteq DOMAIN s
  /\ checkStage(s)
  /\ Get(s, "tenant_urn") # malformed
  /\ checkHFAutoprovision(s)
  /\ "fallback" \in DOMAIN s =>
       /\ s.fallback # malformed /\ IsArray(s.fallback)
       /\ \A i \in DOMAIN s.fallback :
            /\ s.fallback[i] # malformed
            /\ DOMAIN s.fallback[i] \subseteq StageFields /\ checkStage(s.fallback[i])
  /\ DOMAIN s \subseteq PROBABILISTIC_PERMITTED \cup DEPRECATED_DOC_FIELDS

validateStandalone(s) ==
  /\ DOMAIN s \cap (StageFields \cup {"fallback"}) = {}
  /\ Get(s, "tenant_urn") # malformed
  /\ DOMAIN s \subseteq STANDALONE_PERMITTED \cup DEPRECATED_DOC_FIELDS

IsStandalone(s) == Get(s, "llm_required") = FALSE

validateSettings(s) ==
  /\ s # malformed
  /\ Get(s, "schema_version") = 1 /\ Get(s, "organ") \notin {undefined, malformed}
  /\ \/ IsStandalone(s) /\ validateStandalone(s)
     \/ /\ Get(s, "llm_required") \in {undefined, TRUE}
        /\ validateProbabilistic(s)

-----------------------------------------------------------------------------
(* hf-orchestrator.js and quantization-validator.js: the check of the same *)
(* block when the model is deployed.                                       *)

RAW_PRECISION_STRINGS == {"bf16", "fp16"}

\* mutant: a model without quantization counts as raw precision
RefuseRaw(q) == q \notin RAW_PRECISION_STRINGS \cup {"none"}

diagnoseQuantization(q) ==
  q \notin RAW_PRECISION_STRINGS \cup {undefined, malformed}
    /\ q \in HF_QUANTIZATION_CLASSES

validateHFConfig(hf) ==
  /\ hf \notin {undefined, malformed}
  /\ Get(hf, "repo") \notin {undefined, malformed}
  /\ Get(hf, "revision") = "pinned"
  /\ diagnoseQuantization(Get(hf, "quantization"))

-----------------------------------------------------------------------------
(* What is resolved from validated files.                                  *)

ThinkingConfig(thinking) ==
  "thinking" :> thinking.enabled
    @@ (IF thinking.enabled THEN Pick(thinking, "budget_tokens", "thinkingBudget")
        ELSE <<>>)

DEFAULT_TENANT_URN == "llm-ops-platform"

TenantOf(merged) ==
  IF "tenant_urn" \in DOMAIN merged THEN merged.tenant_urn ELSE DEFAULT_TENANT_URN

\* A standalone configuration has none of the client's fields.
toLLMClientConfig(merged) ==
  IF IsStandalone(merged)
  THEN [llm_required |-> FALSE, tenant_urn |-> TenantOf(merged)]
  ELSE [defaultProvider |-> Get(merged, "provider"),
        defaultModel |-> Get(merged, "model"),
        maxTokens |-> Get(merged, "max_tokens"), tenant_urn |-> TenantOf(merged)]
         @@ Pick(merged, "api_key_env_var", "apiKeyEnvVar")
         @@ (IF "thinking" \in DOMAIN merged THEN ThinkingConfig(merged.thinking)
             ELSE <<>>)
         @@ Pick(merged, "deployment_target", "baseUrl")
         @@ Pick(merged, "fallback", "fallback")

\* mutant: an absent block inherits the primary's budget, a present one too
InheritThinking(primary, entry) ==
  Pick(primary, "thinkingBudget", "thinkingBudget")
    @@ (IF "thinking" \in DOMAIN entry THEN ThinkingConfig(entry.thinking)
        ELSE Pick(primary, "thinking", "thinking"))

StageThinking(primary, entry) ==
  IF "thinking" \in DOMAIN entry THEN ThinkingConfig(entry.thinking)
  ELSE Pick(primary, "thinking", "thinking")
         @@ Pick(primary, "thinkingBudget", "thinkingBudget")

StageMaxTokens(primary, entry) ==
  Pick(entry, "max_tokens", "maxTokens") @@ Pick(primary, "maxTokens", "maxTokens")

\* The entry's fields, and the primary's for those it does not have.
buildFallbackStageConfig(primary, entry) ==
  [defaultProvider |-> entry.provider, defaultModel |-> entry.model,
   tenant_urn |-> primary.tenant_urn]
    @@ StageMaxTokens(primary, entry)
    @@ Pick(entry, "api_key_env_var", "apiKeyEnvVar")
    @@ Pick(entry, "deployment_target", "baseUrl")
    @@ Pick(primary, "apiKeyEnvVar", "apiKeyEnvVar")
    @@ Pick(primary, "baseUrl", "baseUrl")
    @@ StageThinking(primary, entry)

\* The stages of createCascadeChat for a configuration that is not standalone.
stageConfigs(config) ==
  LET entries == IF "fallback" \in DOMAIN config THEN config.fallback ELSE <<>>
  IN  <<config>> \o
        [i \in DOMAIN entries |-> buildFallbackStageConfig(config, entries[i])]

-----------------------------------------------------------------------------
VARIABLES
  disk,       \* the files: content, or undefined
  cache,      \* the settings in force, or undefined before the first load
  newCache,   \* the cache a load is building
  pc,         \* what the load does next, "idle" between loads
  todo,       \* the agent files listed and not yet read
  seen,       \* history: what each file has held since the load began
  edits       \* bound: the edits since the load began

vars == <<disk, cache, newCache, pc, todo, seen, edits>>
loadVars == <<newCache, pc, todo, seen, edits>>

Init ==
  /\ disk \in Disks
  /\ cache = undefined /\ newCache = undefined
  /\ pc = "idle" /\ todo = {}
  /\ seen = [f \in File |-> {}] /\ edits = 0

Idle ==
  /\ pc' = "idle" /\ newCache' = undefined /\ todo' = {}
  /\ seen' = [f \in File |-> {}] /\ edits' = 0

\* Somebody edits a file, possibly while the loader is reading.
Edit(f) ==
  /\ edits < MaxEdits
  /\ \E content \in Edits \ {disk[f]} :
       /\ disk' = [disk EXCEPT ![f] = content]
       /\ seen' = IF pc = "idle" THEN seen ELSE [seen EXCEPT ![f] = @ \cup {content}]
  /\ edits' = edits + 1
  /\ UNCHANGED <<cache, newCache, pc, todo>>

\* mutant: the agents read before are kept
AgentsKept == IF cache = undefined THEN <<>> ELSE cache.agents

NoAgents == <<>>

Readable(f) == disk[f] # undefined /\ validateSettings(disk[f])

\* createLoader() the first time, reload() from then on.  A missing, garbled
\* or invalid default file ends the load.
LoadDefault ==
  /\ pc = "idle"
  /\ \/ /\ Readable("default")
        /\ newCache' = [default |-> disk["default"], agents |-> NoAgents]
        /\ pc' = "list"
        /\ seen' = [f \in File |-> {disk[f]}] /\ edits' = 0
        /\ UNCHANGED todo
     \/ ~Readable("default") /\ Idle
  /\ UNCHANGED <<disk, cache>>

AgentFiles == {a \in Agent : disk[a] # undefined}

ListAgents ==
  /\ pc = "list"
  /\ todo' = AgentFiles
  /\ pc' = "agents"
  /\ UNCHANGED <<disk, cache, newCache, seen, edits>>

\* mutant: an agent's file is taken as it is
AgentExists(a) == disk[a] \notin {undefined, malformed}

AgentReadable(a) == Readable(a)

\* Agent files are read one by one; one that is gone or invalid ends the load.
LoadAgent(a) ==
  /\ pc = "agents" /\ a \in todo
  /\ \/ /\ AgentReadable(a)
        /\ newCache' = [newCache EXCEPT !.agents = (a :> disk[a]) @@ @]
        /\ todo' = todo \ {a}
        /\ UNCHANGED <<pc, seen, edits>>
     \/ ~AgentReadable(a) /\ Idle
  /\ UNCHANGED <<disk, cache>>

Swap ==
  /\ pc = "agents" /\ todo = {}
  /\ cache' = newCache
  /\ Idle
  /\ UNCHANGED disk

Next ==
  \/ LoadDefault \/ ListAgents \/ Swap
  \/ \E f \in File : Edit(f) \/ LoadAgent(f)

Spec == Init /\ [][Next]_vars

\* The agent's fields over the organ's, each field as a whole.
merged(agentName) ==
  IF agentName \in DOMAIN cache.agents
  THEN cache.agents[agentName] @@ cache.default ELSE cache.default

resolve(agentName) == toLLMClientConfig(merged(agentName))

-----------------------------------------------------------------------------
TypeOK ==
  /\ disk \in [File -> Contents]
  /\ cache \in Caches \cup {undefined}
  /\ newCache \in Caches \cup {undefined}
  /\ pc \in {"idle", "list", "agents"}
  /\ pc = "idle" <=> newCache = undefined
  /\ todo \subseteq Agent
  /\ seen \in [File -> SUBSET Contents]
  /\ edits \in 0 .. MaxEdits

Stages(agentName) == stageConfigs(resolve(agentName))
Resolves(agentName) == cache # undefined /\ ~IsStandalone(resolve(agentName))

\* Whatever files were loaded and however an agent's fields and the default's
\* mix, every stage of its cascade has a provider, a model that suits the
\* provider (D11) and a limit on its output, and a thinking budget only if it
\* thinks: that block is inherited or overridden as a whole (D9).
StagesComplete ==
  \A a \in File : Resolves(a) =>
    LET stages == Stages(a) IN \A i \in DOMAIN stages :
      LET stage == stages[i] IN
        /\ stage.defaultProvider \in PROVIDER_CLASSES
        /\ stage.defaultModel \in
             IF stage.defaultProvider = "anthropic" THEN {"claude"} ELSE {"claude", "open"}
        /\ Get(stage, "maxTokens") \in Nat \ {0}
        /\ "thinkingBudget" \in DOMAIN stage => Get(stage, "thinking") = TRUE

\* Whatever block the schema lets pass, the orchestrator does too, although
\* each has a validator of its own: settings in force can be deployed.
DeployableIfValid ==
  cache # undefined =>
    \A a \in File :
      LET s == merged(a) IN
        ~IsStandalone(s) /\ Get(s, "provider") = "huggingface-autoprovision"
          => validateHFConfig(Get(s, "huggingface_autoprovision"))

\* Every file in force has passed the schema, also when it was edited between
\* its listing and its reading.
InForceValid ==
  cache # undefined =>
    /\ validateSettings(cache.default)
    /\ \A a \in DOMAIN cache.agents : validateSettings(cache.agents[a])

\* "On any failure the existing `cache` reference is unchanged"
\* (llm-settings-loader.js:151), and a reload that succeeds replaces everything:
\* no file of an earlier load is carried over, and no agent that had a file all
\* the time is forgotten.
ReloadIsCurrent ==
  [][cache' # cache =>
       /\ cache' # undefined
       /\ cache'.default \in seen["default"]
       /\ \A a \in DOMAIN cache'.agents : cache'.agents[a] \in seen[a]
       /\ \A a \in Agent : undefined \notin seen[a] => a \in DOMAIN cache'.agents]_vars

\* docs/llm-settings-schema-v1.md:46: `true` OR absent (default) is
\* "Probabilistic".  An agent whose file says so has a cascade.
ProbabilisticAgentResolves ==
  cache # undefined =>
    \A a \in DOMAIN cache.agents : ~IsStandalone(cache.agents[a]) => Resolves(a)

=============================================================================
