-------------------------- MODULE LLMSettings_proofs --------------------------
(***************************************************************************)
(* Theorems about LLMSettings and ErlangBridge, for any agents, any files  *)
(* on disk, any contents an operator may write and any number of edits     *)
(* during a load.                                                          *)
(***************************************************************************)
EXTENDS ErlangBridge, TLAPS

-----------------------------------------------------------------------------
(* The inductive invariant: what a load has collected so far.              *)

\* seen has been kept up with the disk, and what was read is in it; an agent
\* that had a file all the time has been read or is still listed.
LoadIsCurrent ==
  pc # "idle" =>
    /\ \A f \in File : disk[f] \in seen[f]
    /\ newCache.default \in seen["default"]
    /\ \A a \in DOMAIN newCache.agents : newCache.agents[a] \in seen[a]
    /\ pc = "agents" =>
         \A a \in Agent :
           undefined \notin seen[a] => a \in todo \/ a \in DOMAIN newCache.agents

ValidCache(c) ==
  /\ validateSettings(c.default)
  /\ \A a \in DOMAIN c.agents : validateSettings(c.agents[a])

LoadIsValid == pc # "idle" => ValidCache(newCache)

IInv == TypeOK /\ LoadIsCurrent /\ LoadIsValid /\ InForceValid

-----------------------------------------------------------------------------
(* Objects: {...g, ...f}.                                                  *)

\* What one more agent's file makes of the agents read.
LEMMA OneMore ==
  ASSUME NEW a \in Agent, NEW v \in Objects, NEW g \in AgentMaps
  PROVE  /\ (a :> v) @@ g \in AgentMaps
         /\ DOMAIN ((a :> v) @@ g) = DOMAIN g \cup {a}
         /\ ((a :> v) @@ g)[a] = v
         /\ \A b \in DOMAIN g \ {a} : ((a :> v) @@ g)[b] = g[b]
<1>1. PICK A \in SUBSET Agent : g \in [A -> Objects]
  BY DEF AgentMaps
<1>2. (a :> v) @@ g \in [A \cup {a} -> Objects]
  BY <1>1 DEF @@, :>
<1>3. A \cup {a} \in SUBSET Agent
  BY <1>1
<1>4. (a :> v) @@ g \in AgentMaps
  BY <1>2, <1>3 DEF AgentMaps
<1> QED BY <1>1, <1>4 DEF @@, :>

LEMMA NoneYet == NoAgents \in AgentMaps /\ DOMAIN NoAgents = {}
<1>1. NoAgents \in [{} -> Objects]
  BY DEF NoAgents
<1> QED BY <1>1 DEF AgentMaps

-----------------------------------------------------------------------------
(* The loader.                                                             *)

LEMMA IdleType ==
  ASSUME Idle
  PROVE  /\ pc' = "idle" /\ newCache' = undefined /\ todo' = {}
         /\ seen' \in [File -> SUBSET Contents] /\ edits' \in 0 .. MaxEdits
BY SettingsAssumption DEF Idle

LEMMA InitIInv == Init => IInv
<1> SUFFICES ASSUME Init PROVE IInv
  OBVIOUS
<1>1. TypeOK
  BY SettingsAssumption DEF Init, TypeOK
<1> QED BY <1>1 DEF Init, IInv, LoadIsCurrent, LoadIsValid, InForceValid

\* A cache is two parts.
LEMMA CacheParts ==
  ASSUME NEW c \in Caches
  PROVE  /\ c.default \in Objects
         /\ c.agents \in AgentMaps
         /\ DOMAIN c.agents \subseteq Agent
         /\ c # undefined
BY SettingsAssumption DEF Caches, AgentMaps

LEMMA LoadDefaultStep == IInv /\ LoadDefault => IInv'
<1> SUFFICES ASSUME IInv, LoadDefault PROVE IInv'
  OBVIOUS
<1>1. CASE Readable("default") /\ ~Idle
  <2> DEFINE c == [default |-> disk["default"], agents |-> NoAgents]
  <2>1. /\ newCache' = c /\ pc' = "list" /\ edits' = 0
        /\ seen' = [f \in File |-> {disk[f]}]
        /\ UNCHANGED <<disk, cache, todo>>
    BY <1>1 DEF LoadDefault
  <2>2. c \in Caches /\ DOMAIN c.agents = {} /\ c.default = disk["default"]
    BY <1>1, NoneYet DEF Caches, IInv, TypeOK, File, Objects, Readable, validateSettings
  <2>3. TypeOK'
    BY <2>1, <2>2, CacheParts, SettingsAssumption DEF IInv, TypeOK
  <2>4. LoadIsCurrent' /\ LoadIsValid'
    BY <1>1, <2>1, <2>2
       DEF IInv, TypeOK, LoadIsCurrent, LoadIsValid, ValidCache, Readable, File
  <2> QED BY <2>1, <2>3, <2>4 DEF IInv, InForceValid
<1>2. CASE Idle
  BY <1>2, IdleType
     DEF LoadDefault, IInv, TypeOK, LoadIsCurrent, LoadIsValid, InForceValid
<1> QED BY <1>1, <1>2 DEF LoadDefault

LEMMA ListStep == IInv /\ ListAgents => IInv'
BY SettingsAssumption
   DEF ListAgents, AgentFiles, IInv, TypeOK, LoadIsCurrent, LoadIsValid,
       ValidCache, InForceValid, File

LEMMA EditStep ==
  ASSUME IInv, NEW f \in File, Edit(f)
  PROVE  IInv'
<1>1. PICK content \in Edits :
        /\ disk' = [disk EXCEPT ![f] = content]
        /\ seen' = IF pc = "idle" THEN seen
                   ELSE [seen EXCEPT ![f] = @ \cup {content}]
  BY DEF Edit
<1>2. edits' \in 0 .. MaxEdits /\ UNCHANGED <<cache, newCache, pc, todo>>
  BY SettingsAssumption DEF Edit, IInv, TypeOK
<1>3. content \in Contents
  BY DEF Contents
<1>4. TypeOK'
  BY <1>1, <1>2, <1>3 DEF IInv, TypeOK
<1>5. \A g \in File : seen[g] \subseteq seen'[g]
  BY <1>1 DEF IInv, TypeOK
<1>6. LoadIsCurrent'
  BY <1>1, <1>2, <1>5, CacheParts DEF IInv, TypeOK, LoadIsCurrent, File
<1> QED BY <1>2, <1>4, <1>6 DEF IInv, LoadIsValid, ValidCache, InForceValid

LEMMA LoadAgentStep ==
  ASSUME IInv, NEW a \in File, LoadAgent(a)
  PROVE  IInv'
<1>1. CASE AgentReadable(a) /\ ~Idle
  <2> DEFINE agents == (a :> disk[a]) @@ newCache.agents
             old == newCache.agents
  <2>1. /\ pc = "agents" /\ a \in todo /\ a \in Agent
        /\ newCache' = [newCache EXCEPT !.agents = agents]
        /\ todo' = todo \ {a}
        /\ UNCHANGED <<pc, seen, edits, disk, cache>>
    BY <1>1 DEF LoadAgent, IInv, TypeOK
  <2>2. newCache \in Caches /\ disk[a] \in Objects
    BY <1>1, <2>1
       DEF IInv, TypeOK, AgentReadable, Readable, validateSettings, Objects
  <2>3. /\ agents \in AgentMaps
        /\ DOMAIN agents = DOMAIN old \cup {a}
        /\ agents[a] = disk[a]
        /\ \A b \in DOMAIN old \ {a} : agents[b] = old[b]
    <3> HIDE DEF agents
    <3>1. old \in AgentMaps
      BY <2>2, CacheParts
    <3>2. a \in Agent /\ disk[a] \in Objects
      BY <2>1, <2>2
    <3> QED BY <3>1, <3>2, OneMore, Zenon DEF agents
  <2> HIDE DEF agents
  <2>4. /\ newCache' \in Caches
        /\ newCache'.default = newCache.default
        /\ newCache'.agents = agents
    BY <2>1, <2>2, <2>3 DEF Caches
  <2>5. TypeOK'
    BY <2>1, <2>4, CacheParts DEF IInv, TypeOK
  <2>6. disk[a] \in seen[a] /\ validateSettings(disk[a])
    BY <1>1, <2>1 DEF IInv, LoadIsCurrent, AgentReadable, Readable, File
  <2>7. LoadIsCurrent'
    BY <2>1, <2>3, <2>4, <2>6 DEF IInv, LoadIsCurrent
  <2>8. LoadIsValid'
    BY <2>1, <2>3, <2>4, <2>6 DEF IInv, LoadIsValid, ValidCache
  <2> QED BY <2>1, <2>5, <2>7, <2>8 DEF IInv, InForceValid
<1>2. CASE Idle
  BY <1>2, IdleType
     DEF LoadAgent, IInv, TypeOK, LoadIsCurrent, LoadIsValid, InForceValid
<1> QED BY <1>1, <1>2 DEF LoadAgent

LEMMA SwapStep == IInv /\ Swap => IInv'
<1> SUFFICES ASSUME IInv, Swap PROVE IInv'
  OBVIOUS
<1>1. pc = "agents" /\ cache' = newCache /\ Idle /\ UNCHANGED disk
  BY DEF Swap
<1>2. newCache \in Caches /\ ValidCache(newCache)
  BY <1>1 DEF IInv, TypeOK, LoadIsValid
<1> QED BY <1>1, <1>2, IdleType
        DEF IInv, TypeOK, LoadIsCurrent, LoadIsValid, ValidCache, InForceValid

LEMMA Invariance == Spec => []IInv
<1>1. IInv /\ [Next]_vars => IInv'
  <2> SUFFICES ASSUME IInv, [Next]_vars PROVE IInv'
    OBVIOUS
  <2>1. CASE UNCHANGED vars
    BY <2>1 DEF vars, IInv, TypeOK, LoadIsCurrent, LoadIsValid, ValidCache,
                InForceValid
  <2> QED BY <2>1, LoadDefaultStep, ListStep, SwapStep, EditStep,
             LoadAgentStep DEF Next
<1> QED BY InitIInv, <1>1, PTL DEF Spec

-----------------------------------------------------------------------------
\* Every variable of the loader keeps its type.
THEOREM Typing == Spec => []TypeOK
BY Invariance, PTL DEF IInv

\* Whatever is edited between its listing, its reading and the swap, no file
\* that the schema rejects is ever in force (loadCache, readAndValidate).
THEOREM OnlyValidInForce == Spec => []InForceValid
BY Invariance, PTL DEF IInv

\* A load that fails changes nothing, and one that succeeds replaces all: each
\* file in force was on disk during that very load (loadCache, reload).
THEOREM ReloadReplaces == Spec => ReloadIsCurrent
<1> DEFINE Current ==
      cache' # cache =>
        /\ cache' # undefined
        /\ cache'.default \in seen["default"]
        /\ \A a \in DOMAIN cache'.agents : cache'.agents[a] \in seen[a]
        /\ \A a \in Agent : undefined \notin seen[a] => a \in DOMAIN cache'.agents
<1>1. ASSUME IInv, [Next]_vars PROVE Current
  <2>1. CASE Swap
    <3>1. pc = "agents" /\ todo = {} /\ cache' = newCache
      BY <2>1 DEF Swap
    <3>2. newCache # undefined
      BY <1>1, <3>1 DEF IInv, TypeOK
    <3> QED BY <1>1, <3>1, <3>2 DEF IInv, LoadIsCurrent
  <2>2. CASE UNCHANGED vars \/ LoadDefault \/ ListAgents
    BY <2>2 DEF vars, LoadDefault, ListAgents
  <2>3. ASSUME NEW f \in File, Edit(f) \/ LoadAgent(f) PROVE UNCHANGED cache
    BY <2>3 DEF Edit, LoadAgent
  <2> QED BY <1>1, <2>1, <2>2, <2>3 DEF Next
<1>2. IInv /\ [Next]_vars => [Current]_vars
  BY <1>1
<1> QED BY <1>2, Invariance, PTL DEF Spec, ReloadIsCurrent

-----------------------------------------------------------------------------
(* What the schema lets pass.                                              *)

\* A stage has what a call of the client needs.
Whole(m) ==
  /\ {"provider", "model", "max_tokens"} \subseteq DOMAIN m
  /\ m.provider \in PROVIDER_CLASSES
  /\ checkModel(m.model, m.provider)
  /\ m.max_tokens \in Nat \ {0}

\* The blocks that are inherited or overridden as a whole.
Blocks(m) ==
  /\ "thinking" \in DOMAIN m => checkThinking(m.thinking)
  /\ "fallback" \in DOMAIN m =>
       /\ IsArray(m.fallback)
       /\ \A i \in DOMAIN m.fallback : checkStage(m.fallback[i])

LEMMA ValidBlocks ==
  ASSUME NEW s, validateSettings(s)
  PROVE  Blocks(s)
<1>1. CASE validateStandalone(s)
  BY <1>1 DEF validateStandalone, Blocks, StageFields
<1>2. CASE validateProbabilistic(s)
  BY <1>2 DEF validateProbabilistic, checkStage, Blocks
<1> QED BY <1>1, <1>2 DEF validateSettings

LEMMA ValidWhole ==
  ASSUME NEW s, validateSettings(s), ~IsStandalone(s)
  PROVE  Whole(s) /\ validateProbabilistic(s)
<1>1. validateProbabilistic(s)
  BY DEF validateSettings
<1>2. {"provider", "model", "max_tokens"} \subseteq DOMAIN s /\ checkStage(s)
  BY <1>1 DEF validateProbabilistic, PROBABILISTIC_REQUIRED
<1>3. Whole(s)
  BY <1>2 DEF checkStage, Whole, Get
<1> QED BY <1>1, <1>3

\* Fields that come together come from one file.
LEMMA MergedWhole ==
  ASSUME NEW s, NEW d, validateSettings(s), validateSettings(d),
         ~IsStandalone(s @@ d)
  PROVE  Whole(s @@ d) /\ Blocks(s @@ d) /\ ~IsStandalone(s)
<1>1. ~IsStandalone(s)
  BY SettingsAssumption DEF IsStandalone, Get, @@
<1>2. Whole(s)
  BY <1>1, ValidWhole
<1>3. Whole(s @@ d)
  BY <1>2 DEF Whole, @@
<1>4. Blocks(s) /\ Blocks(d)
  BY ValidBlocks
<1>5. Blocks(s @@ d)
  BY <1>4 DEF Blocks, @@
<1> QED BY <1>1, <1>3, <1>5

-----------------------------------------------------------------------------
(* What is built from it.                                                  *)

\* A stage thinks before it has a budget for it.
BudgetOnlyIfThinking(c) ==
  "thinkingBudget" \in DOMAIN c => "thinking" \in DOMAIN c /\ c.thinking = TRUE

LEMMA ThinkingParts ==
  ASSUME NEW t, checkThinking(t)
  PROVE  /\ DOMAIN ThinkingConfig(t) \subseteq {"thinking", "thinkingBudget"}
         /\ BudgetOnlyIfThinking(ThinkingConfig(t))
<1>1. "enabled" \in DOMAIN t /\ t.enabled \in BOOLEAN
  BY SettingsAssumption DEF checkThinking, Get
<1>2. ASSUME NEW g, DOMAIN g \subseteq {"thinkingBudget"},
             "thinkingBudget" \in DOMAIN g => t.enabled = TRUE
      PROVE  /\ DOMAIN ("thinking" :> t.enabled @@ g)
                  \subseteq {"thinking", "thinkingBudget"}
             /\ BudgetOnlyIfThinking("thinking" :> t.enabled @@ g)
  BY <1>2 DEF BudgetOnlyIfThinking, @@, :>
<1>3. CASE t.enabled
  <2> DEFINE g == Pick(t, "budget_tokens", "thinkingBudget")
  <2>1. DOMAIN g \subseteq {"thinkingBudget"}
    BY DEF Pick, :>
  <2>2. ThinkingConfig(t) = "thinking" :> t.enabled @@ g
    BY <1>3, Zenon DEF ThinkingConfig
  <2>3. t.enabled = TRUE
    BY <1>1, <1>3
  <2> HIDE DEF g
  <2> QED BY <1>2, <2>1, <2>2, <2>3, Zenon
<1>4. CASE ~t.enabled
  <2>1. ThinkingConfig(t) = "thinking" :> t.enabled @@ <<>>
    BY <1>4, Zenon DEF ThinkingConfig
  <2>2. DOMAIN <<>> = {}
    OBVIOUS
  <2> QED BY <1>2, <2>1, <2>2, Zenon
<1> QED BY <1>3, <1>4

\* What a call of the client is given, the list of its fallbacks apart.
Usable(stage) ==
  /\ {"defaultProvider", "defaultModel", "maxTokens", "tenant_urn"}
       \subseteq DOMAIN stage
  /\ stage.defaultProvider \in PROVIDER_CLASSES
  /\ checkModel(stage.defaultModel, stage.defaultProvider)
  /\ stage.maxTokens \in Nat \ {0}
  /\ BudgetOnlyIfThinking(stage)

LEMMA ConfigUsable ==
  ASSUME NEW m, Whole(m), Blocks(m), ~IsStandalone(m)
  PROVE  /\ Usable(toLLMClientConfig(m))
         /\ "fallback" \in DOMAIN toLLMClientConfig(m) =>
              /\ "fallback" \in DOMAIN m
              /\ toLLMClientConfig(m).fallback = m.fallback
<1> DEFINE R == [defaultProvider |-> Get(m, "provider"),
                 defaultModel |-> Get(m, "model"),
                 maxTokens |-> Get(m, "max_tokens"), tenant_urn |-> TenantOf(m)]
           P == Pick(m, "api_key_env_var", "apiKeyEnvVar")
           T == IF "thinking" \in DOMAIN m THEN ThinkingConfig(m.thinking)
                ELSE <<>>
           B == Pick(m, "deployment_target", "baseUrl")
           F == Pick(m, "fallback", "fallback")
           c == toLLMClientConfig(m)
<1>1. c = R @@ P @@ T @@ B @@ F
  BY Zenon DEF toLLMClientConfig
<1>2. /\ DOMAIN R = {"defaultProvider", "defaultModel", "maxTokens", "tenant_urn"}
      /\ R.defaultProvider = m.provider /\ R.defaultModel = m.model
      /\ R.maxTokens = m.max_tokens
  BY DEF Whole, Get
<1>3. /\ DOMAIN P \subseteq {"apiKeyEnvVar"} /\ DOMAIN B \subseteq {"baseUrl"}
      /\ DOMAIN F = IF "fallback" \in DOMAIN m THEN {"fallback"} ELSE {}
      /\ "fallback" \in DOMAIN m => F.fallback = m.fallback
  BY DEF Pick, :>
<1>4. DOMAIN T \subseteq {"thinking", "thinkingBudget"} /\ BudgetOnlyIfThinking(T)
  <2>1. CASE "thinking" \in DOMAIN m
    <3>1. T = ThinkingConfig(m.thinking) /\ checkThinking(m.thinking)
      BY <2>1 DEF Blocks
    <3> HIDE DEF T
    <3> QED BY <3>1, ThinkingParts, Zenon
  <2>2. CASE "thinking" \notin DOMAIN m
    BY <2>2 DEF BudgetOnlyIfThinking
  <2> QED BY <2>1, <2>2
<1> HIDE DEF R, P, T, B, F, c
<1>5. /\ DOMAIN c = DOMAIN R \cup DOMAIN P \cup DOMAIN T \cup DOMAIN B
                      \cup DOMAIN F
      /\ \A x \in DOMAIN R : c[x] = R[x]
      /\ \A x \in DOMAIN T : x \notin DOMAIN R \cup DOMAIN P => c[x] = T[x]
      /\ \A x \in DOMAIN F :
           x \notin DOMAIN R \cup DOMAIN P \cup DOMAIN T \cup DOMAIN B
             => c[x] = F[x]
  BY <1>1 DEF @@
<1>6. BudgetOnlyIfThinking(c)
  BY <1>2, <1>3, <1>4, <1>5 DEF BudgetOnlyIfThinking
<1>7. Usable(c)
  BY <1>2, <1>5, <1>6 DEF Usable, Whole
<1>8. "fallback" \in DOMAIN c => "fallback" \in DOMAIN m /\ c.fallback = m.fallback
  BY <1>2, <1>3, <1>4, <1>5
<1> QED BY <1>7, <1>8 DEF c

\* A fallback entry need not have a limit or a thinking block: the stage has
\* the primary's then, the block as a whole (buildFallbackStageConfig).
LEMMA FallbackUsable ==
  ASSUME NEW primary, NEW entry, Usable(primary), checkStage(entry)
  PROVE  Usable(buildFallbackStageConfig(primary, entry))
<1> DEFINE R == [defaultProvider |-> entry.provider, defaultModel |-> entry.model,
                 tenant_urn |-> primary.tenant_urn]
           L == StageMaxTokens(primary, entry)
           K == Pick(entry, "api_key_env_var", "apiKeyEnvVar")
           B == Pick(entry, "deployment_target", "baseUrl")
           PK == Pick(primary, "apiKeyEnvVar", "apiKeyEnvVar")
           PB == Pick(primary, "baseUrl", "baseUrl")
           T == StageThinking(primary, entry)
           c == buildFallbackStageConfig(primary, entry)
<1>1. c = R @@ L @@ K @@ B @@ PK @@ PB @@ T
  BY Zenon DEF buildFallbackStageConfig
<1>2. /\ DOMAIN R = {"defaultProvider", "defaultModel", "tenant_urn"}
      /\ R.defaultProvider = entry.provider /\ R.defaultModel = entry.model
  OBVIOUS
<1>3. entry.provider \in PROVIDER_CLASSES /\ checkModel(entry.model, entry.provider)
  <2>1. /\ Get(entry, "provider") \in PROVIDER_CLASSES
        /\ checkModel(Get(entry, "model"), Get(entry, "provider"))
    BY DEF checkStage
  <2>2. "provider" \in DOMAIN entry /\ "model" \in DOMAIN entry
    BY <2>1, StringsAssumption DEF checkModel, Get
  <2> QED BY <2>1, <2>2 DEF Get
<1>4. DOMAIN L = {"maxTokens"} /\ L.maxTokens \in Nat \ {0}
  BY DEF StageMaxTokens, Pick, @@, :>, Usable, checkStage
<1>5. DOMAIN K \cup DOMAIN B \cup DOMAIN PK \cup DOMAIN PB
        \subseteq {"apiKeyEnvVar", "baseUrl"}
  BY DEF Pick, :>
<1>6. DOMAIN T \subseteq {"thinking", "thinkingBudget"} /\ BudgetOnlyIfThinking(T)
  <2>1. CASE "thinking" \in DOMAIN entry
    <3>1. T = ThinkingConfig(entry.thinking) /\ checkThinking(entry.thinking)
      BY <2>1 DEF checkStage, StageThinking
    <3> HIDE DEF T
    <3> QED BY <3>1, ThinkingParts, Zenon
  <2>2. CASE "thinking" \notin DOMAIN entry
    <3>1. T = Pick(primary, "thinking", "thinking")
                @@ Pick(primary, "thinkingBudget", "thinkingBudget")
      BY <2>2, Zenon DEF StageThinking
    <3> HIDE DEF T
    <3> QED BY <3>1 DEF Usable, BudgetOnlyIfThinking, Pick, @@, :>
  <2> QED BY <2>1, <2>2
<1> HIDE DEF R, L, K, B, PK, PB, T, c
<1>7. /\ {"defaultProvider", "defaultModel", "maxTokens", "tenant_urn"} \subseteq DOMAIN c
      /\ c.defaultProvider = R.defaultProvider /\ c.defaultModel = R.defaultModel
      /\ c.maxTokens = L.maxTokens
      /\ \A x \in {"thinking", "thinkingBudget"} :
           x \in DOMAIN c <=> x \in DOMAIN T
      /\ \A x \in {"thinking", "thinkingBudget"} \cap DOMAIN T : c[x] = T[x]
  BY <1>1, <1>2, <1>4, <1>5 DEF @@
<1>8. BudgetOnlyIfThinking(c)
  BY <1>6, <1>7 DEF BudgetOnlyIfThinking
<1>9. Usable(c)
  BY <1>2, <1>3, <1>4, <1>7, <1>8 DEF Usable
<1> QED BY <1>9 DEF c

\* The elements of a sequence with one more in front.
LEMMA InFront ==
  ASSUME NEW c, NEW n \in Nat, NEW g, g = [i \in 1 .. n |-> g[i]]
  PROVE  /\ DOMAIN (<<c>> \o g) = 1 .. n + 1
         /\ (<<c>> \o g)[1] = c
         /\ \A i \in 1 .. n : (<<c>> \o g)[i + 1] = g[i]
<1>1. g \in Seq({g[i] : i \in 1 .. n}) /\ Len(g) = n
  OBVIOUS
<1> QED BY <1>1

LEMMA StagesUsable ==
  ASSUME NEW config, Usable(config),
         "fallback" \in DOMAIN config =>
           /\ IsArray(config.fallback)
           /\ \A i \in DOMAIN config.fallback : checkStage(config.fallback[i])
  PROVE  \A i \in DOMAIN stageConfigs(config) : Usable(stageConfigs(config)[i])
<1> DEFINE entries == IF "fallback" \in DOMAIN config THEN config.fallback ELSE <<>>
           built == [i \in DOMAIN entries |->
                       buildFallbackStageConfig(config, entries[i])]
           stages == stageConfigs(config)
<1>1. stages = <<config>> \o built
  BY Zenon DEF stageConfigs
<1>2. PICK n \in Nat : DOMAIN entries = 1 .. n
  BY DEF IsArray
<1>3. \A i \in DOMAIN entries : checkStage(entries[i])
  OBVIOUS
<1> HIDE DEF entries
<1>4. \A i \in 1 .. n : Usable(built[i])
  BY <1>2, <1>3, FallbackUsable
<1>5. built = [i \in 1 .. n |-> built[i]]
  BY <1>2
<1> HIDE DEF built, stages
<1>6. /\ DOMAIN stages = 1 .. n + 1 /\ stages[1] = config
      /\ \A i \in 1 .. n : stages[i + 1] = built[i]
  BY <1>1, <1>5, InFront
<1>7. ASSUME NEW i \in DOMAIN stages PROVE Usable(stages[i])
  <2>1. CASE i = 1
    BY <1>6, <2>1
  <2>2. CASE i # 1
    <3>1. i - 1 \in 1 .. n /\ i = (i - 1) + 1
      BY <1>6, <2>2
    <3> QED BY <1>4, <1>6, <3>1
  <2> QED BY <2>1, <2>2
<1> QED BY <1>7 DEF stages

-----------------------------------------------------------------------------
(* What is resolved from the files in force.                               *)

\* A configuration is standalone exactly if the files are.
LEMMA StandaloneConfig ==
  ASSUME NEW m, IsStandalone(m)
  PROVE  IsStandalone(toLLMClientConfig(m))
<1>1. toLLMClientConfig(m) = [llm_required |-> FALSE, tenant_urn |-> TenantOf(m)]
  BY Zenon DEF toLLMClientConfig
<1> QED BY <1>1 DEF IsStandalone, Get

LEMMA MergedInForce ==
  ASSUME IInv, cache # undefined, NEW a \in File, ~IsStandalone(merged(a))
  PROVE  Whole(merged(a)) /\ Blocks(merged(a))
<1>1. CASE a \in DOMAIN cache.agents
  <2>1. validateSettings(cache.agents[a]) /\ validateSettings(cache.default)
    BY <1>1 DEF IInv, InForceValid
  <2>2. merged(a) = cache.agents[a] @@ cache.default
    BY <1>1, Zenon DEF merged
  <2> QED BY <2>1, <2>2, MergedWhole, Zenon
<1>2. CASE a \notin DOMAIN cache.agents
  <2>1. validateSettings(cache.default) /\ merged(a) = cache.default
    BY <1>2 DEF IInv, InForceValid, merged
  <2> QED BY <2>1, ValidBlocks, ValidWhole, Zenon
<1> QED BY <1>1, <1>2

LEMMA CompleteNow == IInv => StagesComplete
<1> SUFFICES ASSUME IInv, NEW a \in File, Resolves(a),
                    NEW i \in DOMAIN Stages(a)
             PROVE  LET stage == Stages(a)[i] IN
                      /\ stage.defaultProvider \in PROVIDER_CLASSES
                      /\ stage.defaultModel \in
                           IF stage.defaultProvider = "anthropic" THEN {"claude"}
                           ELSE {"claude", "open"}
                      /\ Get(stage, "maxTokens") \in Nat \ {0}
                      /\ "thinkingBudget" \in DOMAIN stage
                           => Get(stage, "thinking") = TRUE
  BY DEF StagesComplete
<1> DEFINE m == merged(a)
           c == toLLMClientConfig(m)
<1>1. cache # undefined /\ ~IsStandalone(c) /\ Stages(a) = stageConfigs(c)
  BY DEF Resolves, Stages, resolve
<1>2. ~IsStandalone(m)
  BY <1>1, StandaloneConfig
<1>3. Whole(m) /\ Blocks(m)
  BY <1>1, <1>2, MergedInForce
<1>4. /\ Usable(c)
      /\ "fallback" \in DOMAIN c =>
           "fallback" \in DOMAIN m /\ c.fallback = m.fallback
  BY <1>2, <1>3, ConfigUsable
<1>5. "fallback" \in DOMAIN c =>
        /\ IsArray(c.fallback)
        /\ \A j \in DOMAIN c.fallback : checkStage(c.fallback[j])
  BY <1>3, <1>4 DEF Blocks
<1>6. Usable(Stages(a)[i])
  BY <1>1, <1>4, <1>5, StagesUsable
<1> QED BY <1>6 DEF Usable, checkModel, BudgetOnlyIfThinking, Get

\* The schema's check of the block implies the orchestrator's.
LEMMA DeployableBlock ==
  ASSUME NEW s \in Objects, validateProbabilistic(s),
         s.provider = "huggingface-autoprovision"
  PROVE  /\ "huggingface_autoprovision" \in DOMAIN s
         /\ validateHFConfig(s.huggingface_autoprovision)
<1> DEFINE hf == s.huggingface_autoprovision
<1>1. /\ "huggingface_autoprovision" \in DOMAIN s
      /\ hf # malformed
      /\ DOMAIN hf = {"repo", "revision", "quantization"}
      /\ hf.repo # malformed /\ hf.revision = "pinned"
      /\ hf.quantization \in HF_QUANTIZATION_CLASSES
  BY DEF validateProbabilistic, checkHFAutoprovision
<1>2. hf # undefined /\ hf.repo # undefined
  BY <1>1, SettingsAssumption DEF IsParsed
<1>3. diagnoseQuantization(hf.quantization)
  BY <1>1, StringsAssumption
     DEF diagnoseQuantization, RAW_PRECISION_STRINGS, HF_QUANTIZATION_CLASSES
<1> QED BY <1>1, <1>2, <1>3 DEF validateHFConfig, Get

\* A file that names the provider has the block: an agent's file brings both.
LEMMA DeployableNow == IInv => DeployableIfValid
<1> SUFFICES ASSUME IInv, cache # undefined, NEW a \in File,
                    ~IsStandalone(merged(a)),
                    Get(merged(a), "provider") = "huggingface-autoprovision"
             PROVE  validateHFConfig(Get(merged(a), "huggingface_autoprovision"))
  BY DEF DeployableIfValid
<1>1. cache \in Caches
  BY DEF IInv, TypeOK
<1>2. CASE a \in DOMAIN cache.agents
  <2> DEFINE own == cache.agents[a]
  <2>1. validateSettings(own) /\ validateSettings(cache.default) /\ own \in Objects
    BY <1>1, <1>2, CacheParts DEF IInv, InForceValid, AgentMaps
  <2>2. merged(a) = own @@ cache.default
    BY <1>2, Zenon DEF merged
  <2> HIDE DEF own
  <2>3. ~IsStandalone(own)
    BY <2>1, <2>2, MergedWhole, Zenon
  <2>4. validateProbabilistic(own) /\ "provider" \in DOMAIN own
    BY <2>1, <2>3, ValidWhole DEF Whole
  <2>5. own.provider = "huggingface-autoprovision"
    BY <2>2, <2>4 DEF Get, @@
  <2> QED BY <2>1, <2>2, <2>4, <2>5, DeployableBlock DEF Get, @@
<1>3. CASE a \notin DOMAIN cache.agents
  <2>1. /\ merged(a) = cache.default /\ cache.default \in Objects
        /\ validateSettings(cache.default)
    BY <1>1, <1>3, CacheParts DEF IInv, InForceValid, merged
  <2>2. validateProbabilistic(cache.default) /\ "provider" \in DOMAIN cache.default
    BY <2>1, ValidWhole DEF Whole
  <2> QED BY <2>1, <2>2, DeployableBlock DEF Get
<1> QED BY <1>2, <1>3

-----------------------------------------------------------------------------
(* The bridge.                                                             *)

LEMMA SingleField ==
  ASSUME NEW x, NEW v
  PROVE  DOMAIN (x :> v) = {x} /\ (x :> v)[x] = v
BY DEF :>

LEMMA Over ==
  ASSUME NEW f, NEW g
  PROVE  /\ f @@ g = [x \in DOMAIN f \cup DOMAIN g |-> (f @@ g)[x]]
         /\ DOMAIN (f @@ g) = DOMAIN f \cup DOMAIN g
         /\ \A x \in DOMAIN f : (f @@ g)[x] = f[x]
         /\ \A x \in DOMAIN g \ DOMAIN f : (f @@ g)[x] = g[x]
BY DEF @@

\* A thinking block: the budget of 0 stands for none.
LEMMA ThinkingBack ==
  ASSUME NEW t, checkThinking(t), t # null
  PROVE  /\ normalizeThinking(t) # null
         /\ denormalizeThinking(normalizeThinking(t)) = t
<1> DEFINE r == normalizeThinking(t)
           b == IF "budget_tokens" \in DOMAIN t THEN t.budget_tokens ELSE 0
           d == IF r.budget_tokens > 0 THEN "budget_tokens" :> r.budget_tokens ELSE <<>>
<1>1. r = [enabled |-> t.enabled, budget_tokens |-> b]
  BY Zenon DEF normalizeThinking
<1>2. t.enabled \in BOOLEAN /\ b \in Nat
  BY DEF checkThinking
<1>3. r # null
  BY <1>1, <1>2, NullAssumption
<1>4. denormalizeThinking(r) = "enabled" :> t.enabled @@ d
  BY <1>1 DEF denormalizeThinking
<1>5. CASE t \in [enabled : BOOLEAN]
  <2>1. b = 0 /\ d = <<>>
    BY <1>1, <1>5
  <2>2. DOMAIN (<<>>) = {}
    OBVIOUS
  <2>3. DOMAIN t = {"enabled"} /\ t = [x \in {"enabled"} |-> t[x]]
    BY <1>5
  <2>4. "enabled" :> t.enabled @@ <<>> = [x \in {"enabled"} |-> t[x]]
    BY <2>2 DEF @@, :>
  <2> QED
    BY <1>3, <1>4, <2>1, <2>3, <2>4, Zenon
<1>6. CASE t \in [enabled : BOOLEAN, budget_tokens : Nat \ {0}]
  <2>1. b = t.budget_tokens /\ d = "budget_tokens" :> t.budget_tokens
    BY <1>1, <1>6
  <2>2. t = [x \in {"enabled", "budget_tokens"} |-> t[x]]
    BY <1>6
  <2>3. "enabled" :> t.enabled @@ "budget_tokens" :> t.budget_tokens
          = [x \in {"enabled", "budget_tokens"} |-> t[x]]
    BY DEF @@, :>
  <2> QED
    BY <1>3, <1>4, <2>1, <2>2, <2>3, Zenon
<1> QED
  BY <1>5, <1>6 DEF checkThinking

\* A stage comes back as it was.
LEMMA StageBack ==
  ASSUME NEW e, "thinking" \in DOMAIN e => checkThinking(e.thinking),
         NotNull(e, StageFields)
  PROVE  StageOf(StageRecord(e)) = [f \in DOMAIN e \cap StageFields |-> e[f]]
<1> DEFINE r == StageRecord(e)
           T == IF r.thinking # null THEN "thinking" :> denormalizeThinking(r.thinking)
                ELSE <<>>
           P == Present(r, StageFields)
<1>1. /\ r.thinking = normalizeThinking(OrNull(e, "thinking"))
      /\ \A f \in StageFields \ {"thinking"} : r[f] = OrNull(e, f)
      /\ "thinking" \in StageFields
  BY DEF StageRecord, StageFields
<1>2. StageOf(r) = T @@ P
  BY Zenon DEF StageOf
<1>3. CASE "thinking" \in DOMAIN e
  <2>1. /\ checkThinking(e.thinking) /\ e.thinking # null
        /\ r.thinking = normalizeThinking(e.thinking)
    BY <1>1, <1>3 DEF NotNull, OrNull
  <2>2. r.thinking # null /\ denormalizeThinking(r.thinking) = e.thinking
    BY <2>1, ThinkingBack
  <2>3. DOMAIN T = {"thinking"} /\ T["thinking"] = e.thinking
    BY <2>2, SingleField
  <2>4. /\ DOMAIN P = DOMAIN e \cap StageFields
        /\ \A f \in DOMAIN P \ {"thinking"} : P[f] = e[f]
    <3> HIDE DEF r
    <3> QED
      BY <1>1, <1>3, <2>2 DEF Present, OrNull, NotNull
  <2> HIDE DEF T, P, r
  <2>5. /\ T @@ P = [f \in DOMAIN T \cup DOMAIN P |-> (T @@ P)[f]]
        /\ DOMAIN (T @@ P) = DOMAIN T \cup DOMAIN P
        /\ \A f \in DOMAIN T : (T @@ P)[f] = T[f]
        /\ \A f \in DOMAIN P \ DOMAIN T : (T @@ P)[f] = P[f]
    BY Over
  <2>6. StageOf(r) = [f \in DOMAIN e \cap StageFields |-> e[f]]
    BY <1>1, <1>2, <1>3, <2>3, <2>4, <2>5
  <2> QED
    BY <2>6 DEF r
<1>4. CASE "thinking" \notin DOMAIN e
  <2>1. r.thinking = null
    BY <1>1, <1>4 DEF OrNull, normalizeThinking
  <2>2. T = <<>>
    BY <2>1
  <2>3. DOMAIN <<>> = {}
    OBVIOUS
  <2>4. /\ DOMAIN P = DOMAIN e \cap StageFields
        /\ \A f \in DOMAIN P : P[f] = e[f]
    <3> HIDE DEF r
    <3> QED
      BY <1>1, <1>4, <2>1 DEF Present, OrNull, NotNull
  <2> HIDE DEF T, P, r
  <2>5. /\ T @@ P = [f \in DOMAIN T \cup DOMAIN P |-> (T @@ P)[f]]
        /\ DOMAIN (T @@ P) = DOMAIN T \cup DOMAIN P
        /\ \A f \in DOMAIN P \ DOMAIN T : (T @@ P)[f] = P[f]
    BY Over
  <2>6. StageOf(r) = [f \in DOMAIN e \cap StageFields |-> e[f]]
    BY <1>2, <2>2, <2>3, <2>4, <2>5
  <2> QED
    BY <2>6 DEF r
<1> QED
  BY <1>3, <1>4

\* So does a list of fallbacks, if there is anything in it.
LEMMA FallbackBack ==
  ASSUME NEW s \in Objects, validateSettings(s), validateProbabilistic(s),
         "fallback" \in DOMAIN s
  PROVE  LET r == normalizeFallback(s.fallback) IN
           IF s.fallback = <<>> THEN r = null
           ELSE r # null /\ denormalizeFallback(r) = s.fallback
<1> DEFINE fb == s.fallback
           records == [i \in DOMAIN fb |-> StageRecord(fb[i])]
<1>1. /\ IsArray(fb) /\ fb # malformed
      /\ \A i \in DOMAIN fb :
           fb[i] # malformed /\ DOMAIN fb[i] \subseteq StageFields /\ checkStage(fb[i])
  BY DEF validateProbabilistic
<1>2. /\ \A i \in DOMAIN fb : NotNull(fb[i], StageFields)
      /\ null # records /\ fb # null
  BY NullAssumption DEF NotNull, PROBABILISTIC_PERMITTED
<1>3. \A i \in DOMAIN fb : IsParsed(fb[i])
  BY <1>1, SettingsAssumption
<1>4. ASSUME NEW i \in DOMAIN fb PROVE StageOf(StageRecord(fb[i])) = fb[i]
  <2>1. checkStage(fb[i]) /\ DOMAIN fb[i] \subseteq StageFields
    BY <1>1
  <2>2. StageOf(StageRecord(fb[i])) = [f \in DOMAIN fb[i] \cap StageFields |-> fb[i][f]]
    BY <1>2, <2>1, StageBack DEF checkStage
  <2>3. DOMAIN fb[i] \cap StageFields = DOMAIN fb[i]
    BY <2>1
  <2> QED
    BY <1>3, <2>2, <2>3 DEF IsParsed
<1>5. fb = [i \in DOMAIN fb |-> fb[i]]
  BY <1>1 DEF IsArray
<1>6. denormalizeFallback(records) = [i \in DOMAIN fb |-> StageOf(StageRecord(fb[i]))]
  BY DEF denormalizeFallback
<1>7. denormalizeFallback(records) = fb
  <2> HIDE DEF fb, records
  <2> QED
    BY <1>4, <1>5, <1>6
<1>8. normalizeFallback(fb) = IF fb \in {null, <<>>} THEN null ELSE records
  BY Zenon DEF normalizeFallback
<1> HIDE DEF fb, records
<1> QED
  BY <1>2, <1>7, <1>8 DEF fb

\* Objects that have nothing that s has not.
PartOf(g, s) == DOMAIN g \subseteq DOMAIN s /\ \A f \in DOMAIN g : g[f] = s[f]

LEMMA PartsOver ==
  ASSUME NEW s, NEW f, NEW g, PartOf(f, s), PartOf(g, s)
  PROVE  PartOf(f @@ g, s)
<1>1. /\ DOMAIN (f @@ g) = DOMAIN f \cup DOMAIN g
      /\ \A x \in DOMAIN f : (f @@ g)[x] = f[x]
      /\ \A x \in DOMAIN g \ DOMAIN f : (f @@ g)[x] = g[x]
  BY Over
<1> QED
  BY <1>1 DEF PartOf

LEMMA NoPart == ASSUME NEW s PROVE PartOf(<<>>, s) /\ DOMAIN <<>> = {}
<1>1. DOMAIN <<>> = {}
  OBVIOUS
<1> QED
  BY <1>1 DEF PartOf

LEMMA PartField ==
  ASSUME NEW s, NEW f \in DOMAIN s
  PROVE  PartOf(f :> s[f], s) /\ DOMAIN (f :> s[f]) = {f}
BY SingleField DEF PartOf

LEMMA PresentBack ==
  ASSUME NEW s, NEW r, NEW fields, \A f \in fields : r[f] = OrNull(s, f),
         NotNull(s, fields)
  PROVE  /\ PartOf(Present(r, fields), s)
         /\ DOMAIN Present(r, fields) = DOMAIN s \cap fields
BY DEF Present, OrNull, NotNull, PartOf

\* The record of a file, field by field.
LEMMA RecordFields ==
  ASSUME NEW s
  PROVE  LET r == exportSettingsToJSON(s) IN
           /\ r.schema_version = s.schema_version /\ r.organ_name = s.organ
           /\ r.llm_required = ~IsStandalone(s)
           /\ r.fallback = normalizeFallback(OrNull(s, "fallback"))
           /\ \A f \in {"tenant_urn", "huggingface_autoprovision"} : r[f] = OrNull(s, f)
           /\ r.deprecated_doc_fields = collectDeprecated(s)
           /\ \A f \in StageFields : r[f] = StageRecord(s)[f]
<1> DEFINE r == exportSettingsToJSON(s)
           h == [contract_version |-> CONTRACT_VERSION, schema_version |-> s.schema_version,
                 organ_name |-> s.organ, llm_required |-> ~IsStandalone(s),
                 fallback |-> normalizeFallback(OrNull(s, "fallback")),
                 tenant_urn |-> OrNull(s, "tenant_urn"),
                 huggingface_autoprovision |-> OrNull(s, "huggingface_autoprovision"),
                 deprecated_doc_fields |-> collectDeprecated(s)]
           H == {"contract_version", "schema_version", "organ_name", "llm_required",
                 "fallback", "tenant_urn", "huggingface_autoprovision",
                 "deprecated_doc_fields"}
<1>1. r = h @@ StageRecord(s)
  BY Zenon DEF exportSettingsToJSON
<1>2. DOMAIN h = H /\ DOMAIN StageRecord(s) = StageFields
  BY DEF StageRecord
<1>3. H \cap StageFields = {}
  BY DEF StageFields
<1> DEFINE needed == ~IsStandalone(s)
<1> HIDE DEF needed
<1>4. /\ h.schema_version = s.schema_version /\ h.organ_name = s.organ
      /\ h.llm_required = needed
      /\ h.fallback = normalizeFallback(OrNull(s, "fallback"))
      /\ \A f \in {"tenant_urn", "huggingface_autoprovision"} : h[f] = OrNull(s, f)
      /\ h.deprecated_doc_fields = collectDeprecated(s)
  BY DEF needed
<1> HIDE DEF h, r
<1>5. /\ \A f \in H : r[f] = h[f]
      /\ \A f \in StageFields : r[f] = StageRecord(s)[f]
  <2>1. /\ \A f \in DOMAIN h : (h @@ StageRecord(s))[f] = h[f]
        /\ \A f \in DOMAIN StageRecord(s) \ DOMAIN h :
             (h @@ StageRecord(s))[f] = StageRecord(s)[f]
    BY Over, Zenon
  <2> HIDE DEF H
  <2> QED
    BY <1>1, <1>2, <1>3, <2>1
<1> QED
  BY <1>4, <1>5, Zenon DEF r, needed

\* The deprecated fields come back, the null ones too.
LEMMA DeprecatedBack ==
  ASSUME NEW s \in Objects, validateSettings(s)
  PROVE  LET c == collectDeprecated(s)
             d == IF c # null THEN c ELSE <<>>
         IN PartOf(d, s) /\ DOMAIN d = DEPRECATED_DOC_FIELDS \cap DOMAIN s
<1> DEFINE found == DEPRECATED_DOC_FIELDS \cap DOMAIN s
           g == [f \in found |-> s[f]]
           c == collectDeprecated(s)
           d == IF c # null THEN c ELSE <<>>
<1>1. c = IF found = {} THEN null ELSE g
  BY Zenon DEF collectDeprecated
<1>2. g # null
  BY NullAssumption
<1>3. PartOf(g, s) /\ DOMAIN g = found
  BY DEF PartOf
<1>4. d = IF found = {} THEN <<>> ELSE g
  BY <1>1, <1>2
<1> HIDE DEF g, d
<1>5. PartOf(d, s) /\ DOMAIN d = found
  BY <1>3, <1>4, NoPart
<1> QED
  BY <1>5, Zenon DEF d

\* What no record says: that there is no fallback at all, and in so many words
\* that a model is needed.
Unsaid(s) ==
  {f \in DOMAIN s :
     \/ f = "fallback" /\ s.fallback = <<>>
     \/ f = "llm_required" /\ s.llm_required = TRUE}

LEMMA ValidHas ==
  ASSUME NEW s, validateSettings(s)
  PROVE  {"schema_version", "organ"} \subseteq DOMAIN s
BY SettingsAssumption DEF validateSettings, Get

LEMMA ValidEither ==
  ASSUME NEW s \in Objects, validateSettings(s)
  PROVE  IF IsStandalone(s)
         THEN validateStandalone(s) /\ "llm_required" \in DOMAIN s /\ s.llm_required = FALSE
         ELSE validateProbabilistic(s)
                /\ ("llm_required" \in DOMAIN s => s.llm_required = TRUE)
<1>1. undefined \notin BOOLEAN
  BY SettingsAssumption
<1>2. CASE IsStandalone(s)
  <2>1. "llm_required" \in DOMAIN s /\ s.llm_required = FALSE
    BY <1>1, <1>2 DEF IsStandalone, Get
  <2>2. Get(s, "llm_required") \notin {undefined, TRUE}
    BY <1>1, <1>2 DEF IsStandalone
  <2> QED
    BY <1>2, <2>1, <2>2, Zenon DEF validateSettings
<1>3. CASE ~IsStandalone(s)
  <2>1. Get(s, "llm_required") \in {undefined, TRUE} /\ validateProbabilistic(s)
    BY <1>3, Zenon DEF validateSettings
  <2>2. "llm_required" \in DOMAIN s => s.llm_required \in {undefined, TRUE}
    BY <2>1, Zenon DEF Get
  <2>3. "llm_required" \in DOMAIN s => s.llm_required # undefined
    BY SettingsAssumption DEF IsParsed
  <2> QED
    BY <1>3, <2>1, <2>2, <2>3, Zenon
<1> QED
  BY <1>2, <1>3

LEMMA BridgedParts ==
  ASSUME NEW s \in Objects, validateSettings(s)
  PROVE  /\ PartOf(Bridged(s), s)
         /\ DOMAIN Bridged(s) = DOMAIN s \ Unsaid(s)
         /\ Bridged(s) = [f \in DOMAIN Bridged(s) |-> Bridged(s)[f]]
<1> DEFINE r == exportSettingsToJSON(s)
           h == [schema_version |-> r.schema_version, organ |-> r.organ_name]
           P == Present(r, {"tenant_urn"})
           c == r.deprecated_doc_fields
           D == IF c # null THEN c ELSE <<>>
           PH == Present(r, {"huggingface_autoprovision"})
           F == IF r.fallback # null THEN "fallback" :> denormalizeFallback(r.fallback)
                ELSE <<>>
           L == "llm_required" :> FALSE
           W == StageOf(r) @@ PH @@ F
           E == IF r.llm_required = FALSE THEN L ELSE W
           b == importSettingsFromJSON(r)
<1>1. b = h @@ P @@ D @@ E
  BY Zenon DEF importSettingsFromJSON
<1>2. Bridged(s) = b
  BY Zenon DEF Bridged
<1>3. NotNull(s, PROBABILISTIC_PERMITTED)
  BY NullAssumption
<1>4. PartOf(h, s) /\ DOMAIN h = {"schema_version", "organ"}
  <2>1. r.schema_version = s.schema_version /\ r.organ_name = s.organ
    BY RecordFields, Zenon
  <2> HIDE DEF r
  <2> QED
    BY <2>1, ValidHas DEF PartOf
<1>5. PartOf(P, s) /\ DOMAIN P = DOMAIN s \cap {"tenant_urn"}
  <2>1. \A f \in {"tenant_urn"} : r[f] = OrNull(s, f)
    BY RecordFields
  <2>2. NotNull(s, {"tenant_urn"})
    BY <1>3 DEF NotNull, PROBABILISTIC_PERMITTED, STANDALONE_PERMITTED
  <2> QED
    BY <2>1, <2>2, PresentBack, Zenon
<1>6. PartOf(PH, s) /\ DOMAIN PH = DOMAIN s \cap {"huggingface_autoprovision"}
  <2>1. \A f \in {"huggingface_autoprovision"} : r[f] = OrNull(s, f)
    BY RecordFields
  <2>2. NotNull(s, {"huggingface_autoprovision"})
    BY <1>3 DEF NotNull, PROBABILISTIC_PERMITTED
  <2> QED
    BY <2>1, <2>2, PresentBack, Zenon
<1>7. PartOf(D, s) /\ DOMAIN D = DEPRECATED_DOC_FIELDS \cap DOMAIN s
  <2>1. c = collectDeprecated(s)
    BY RecordFields, Zenon
  <2> HIDE DEF r, c
  <2> QED
    BY <2>1, DeprecatedBack
<1>8. r.llm_required = ~IsStandalone(s)
  BY RecordFields, Zenon
<1>9. PartOf(E, s) /\ DOMAIN s \ Unsaid(s) =
        {"schema_version", "organ"} \cup (DOMAIN s \cap {"tenant_urn"})
          \cup (DEPRECATED_DOC_FIELDS \cap DOMAIN s) \cup DOMAIN E
  <2>1. CASE IsStandalone(s)
    <3>1. /\ validateStandalone(s) /\ "llm_required" \in DOMAIN s
          /\ s.llm_required = FALSE
      BY <2>1, ValidEither
    <3>2. E = L
      <4>1. r.llm_required = FALSE
        BY <1>8, <2>1, Zenon
      <4> QED
        BY <4>1, Zenon
    <3>3. PartOf(L, s) /\ DOMAIN L = {"llm_required"}
      BY <3>1, PartField
    <3>4. Unsaid(s) = {}
      BY <3>1 DEF Unsaid, validateStandalone
    <3>5. DOMAIN s \subseteq {"schema_version", "organ", "llm_required", "tenant_urn"}
                              \cup DEPRECATED_DOC_FIELDS
      BY <3>1 DEF validateStandalone, STANDALONE_PERMITTED
    <3> HIDE DEF E, L
    <3> QED
      BY <3>1, <3>2, <3>3, <3>4, <3>5, ValidHas
  <2>2. CASE ~IsStandalone(s)
    <3>1. /\ validateProbabilistic(s)
          /\ "llm_required" \in DOMAIN s => s.llm_required = TRUE
      BY <2>2, ValidEither
    <3>2. E = W
      <4>1. r.llm_required # FALSE
        BY <1>8, <2>2, Zenon
      <4> QED
        BY <4>1, Zenon
    <3>3. PartOf(StageOf(r), s) /\ DOMAIN StageOf(r) = DOMAIN s \cap StageFields
      <4>1. NotNull(s, StageFields)
        BY <1>3 DEF NotNull, PROBABILISTIC_PERMITTED
      <4>2. "thinking" \in DOMAIN s => checkThinking(s.thinking)
        BY <3>1 DEF validateProbabilistic, checkStage
      <4>3. StageOf(StageRecord(s)) = [f \in DOMAIN s \cap StageFields |-> s[f]]
        BY <4>1, <4>2, StageBack
      <4>4. \A f \in StageFields : r[f] = StageRecord(s)[f]
        BY RecordFields, Zenon
      <4> HIDE DEF r
      <4>5. Present(r, StageFields) = Present(StageRecord(s), StageFields)
        BY <4>4 DEF Present
      <4>6. r.thinking = StageRecord(s).thinking
        BY <4>4 DEF StageFields
      <4>7. StageOf(r) = StageOf(StageRecord(s))
        BY <4>5, <4>6, Zenon DEF StageOf
      <4> QED
        BY <4>3, <4>7 DEF PartOf
    <3>4. PartOf(F, s) /\ DOMAIN F = (DOMAIN s \cap {"fallback"}) \ Unsaid(s)
      <4>1. r.fallback = normalizeFallback(OrNull(s, "fallback"))
        BY RecordFields, Zenon
      <4> HIDE DEF r
      <4>2. CASE "fallback" \notin DOMAIN s
        <5>1. r.fallback = null
          BY <4>1, <4>2 DEF OrNull, normalizeFallback
        <5>2. F = <<>>
          BY <5>1
        <5> HIDE DEF F
        <5> QED
          BY <4>2, <5>2, NoPart
      <4>3. CASE "fallback" \in DOMAIN s /\ s.fallback = <<>>
        <5>1. r.fallback = null
          BY <4>1, <4>3 DEF OrNull, normalizeFallback
        <5>2. F = <<>> /\ "fallback" \in Unsaid(s)
          BY <4>3, <5>1 DEF Unsaid
        <5> HIDE DEF F
        <5> QED
          BY <5>2, NoPart
      <4>4. CASE "fallback" \in DOMAIN s /\ s.fallback # <<>>
        <5>1. r.fallback = normalizeFallback(s.fallback)
          BY <4>1, <4>4 DEF OrNull
        <5>2. r.fallback # null /\ denormalizeFallback(r.fallback) = s.fallback
          BY <3>1, <4>4, <5>1, FallbackBack
        <5>3. F = "fallback" :> s.fallback /\ "fallback" \notin Unsaid(s)
          BY <4>4, <5>2 DEF Unsaid
        <5>4. /\ PartOf("fallback" :> s.fallback, s)
              /\ DOMAIN ("fallback" :> s.fallback) = {"fallback"}
          BY <4>4, PartField
        <5> HIDE DEF F
        <5> QED
          BY <4>4, <5>3, <5>4
      <4> QED
        BY <4>2, <4>3, <4>4
    <3>5. /\ PartOf(W, s)
          /\ DOMAIN W = DOMAIN StageOf(r) \cup DOMAIN PH \cup DOMAIN F
      <4> HIDE DEF r, PH, F
      <4>1. DOMAIN W = DOMAIN StageOf(r) \cup DOMAIN PH \cup DOMAIN F
        BY DEF @@
      <4>2. PartOf(W, s)
        BY <1>6, <3>3, <3>4, PartsOver
      <4> QED
        BY <4>1, <4>2
    <3>6. DOMAIN s \subseteq {"schema_version", "organ", "llm_required", "tenant_urn"}
            \cup StageFields \cup {"fallback", "huggingface_autoprovision"}
            \cup DEPRECATED_DOC_FIELDS
      BY <3>1 DEF validateProbabilistic, PROBABILISTIC_PERMITTED, STANDALONE_PERMITTED
    <3>7. /\ Unsaid(s) \subseteq {"fallback", "llm_required"}
          /\ "llm_required" \in DOMAIN s => "llm_required" \in Unsaid(s)
          /\ ("fallback" \in DOMAIN s \/ "fallback" \notin Unsaid(s))
      BY <3>1 DEF Unsaid
    <3>8. /\ "llm_required" \notin StageFields \cup DEPRECATED_DOC_FIELDS
          /\ "fallback" \notin StageFields \cup DEPRECATED_DOC_FIELDS
      BY DEF StageFields, DEPRECATED_DOC_FIELDS
    <3> HIDE DEF E, W, PH, F, r
    <3> QED
      BY <1>6, <3>2, <3>3, <3>4, <3>5, <3>6, <3>7, <3>8, ValidHas
  <2> QED
    BY <2>1, <2>2
<1>10. PartOf(b, s) /\ DOMAIN b = DOMAIN h \cup DOMAIN P \cup DOMAIN D \cup DOMAIN E
  <2> HIDE DEF r, h, P, c, D, PH, F, L, W, E, b
  <2>0. PartOf(h, s) /\ PartOf(P, s) /\ PartOf(D, s) /\ PartOf(E, s)
    BY <1>4, <1>5, <1>7, <1>9
  <2>1. DOMAIN b = DOMAIN h \cup DOMAIN P \cup DOMAIN D \cup DOMAIN E
    BY <1>1 DEF @@
  <2>2. PartOf(h @@ P, s)
    BY <2>0, PartsOver, Zenon
  <2>3. PartOf(h @@ P @@ D, s)
    BY <2>0, <2>2, PartsOver, Zenon
  <2> QED
    BY <1>1, <2>0, <2>1, <2>3, PartsOver, Zenon
<1>11. b = [f \in DOMAIN b |-> b[f]]
  <2> HIDE DEF r, h, P, c, D, PH, F, L, W, E, b
  <2> QED
    BY <1>1, Over
<1> HIDE DEF r, h, P, c, D, PH, F, L, W, E, b
<1>12. DOMAIN b = DOMAIN s \ Unsaid(s)
  BY <1>4, <1>5, <1>7, <1>9, <1>10
<1> QED
  BY <1>2, <1>10, <1>11, <1>12

\* b is s but for what it leaves unsaid.
Alike(b, s) == PartOf(b, s) /\ DOMAIN s \ DOMAIN b \subseteq Unsaid(s)

LEMMA BridgedAlike ==
  ASSUME NEW s \in Objects, validateSettings(s)
  PROVE  Alike(Bridged(s), s)
<1>1. PartOf(Bridged(s), s) /\ DOMAIN Bridged(s) = DOMAIN s \ Unsaid(s)
  BY BridgedParts
<1> QED
  BY <1>1 DEF Alike

\* Nobody asks for what is unsaid.
LEMMA AlikeFields ==
  ASSUME NEW b, NEW s, Alike(b, s)
  PROVE  \A f : f \notin {"fallback", "llm_required"} =>
           /\ f \in DOMAIN b <=> f \in DOMAIN s
           /\ f \in DOMAIN b => b[f] = s[f]
BY DEF Alike, PartOf, Unsaid

LEMMA AlikeReads ==
  ASSUME NEW b, NEW s, Alike(b, s), NEW f, f \notin {"fallback", "llm_required"}
  PROVE  /\ Get(b, f) = Get(s, f) /\ OrNull(b, f) = OrNull(s, f)
         /\ \A name : Pick(b, f, name) = Pick(s, f, name)
<1>1. /\ f \in DOMAIN b <=> f \in DOMAIN s
      /\ f \in DOMAIN b => b[f] = s[f]
  BY AlikeFields
<1> QED
  BY <1>1, Zenon DEF Get, OrNull, Pick

LEMMA AlikeStandalone ==
  ASSUME NEW b, NEW s, Alike(b, s)
  PROVE  /\ IsStandalone(b) <=> IsStandalone(s)
         /\ Get(s, "llm_required") \in {undefined, TRUE} =>
              Get(b, "llm_required") \in {undefined, TRUE}
<1>1. undefined \notin BOOLEAN
  BY SettingsAssumption
<1>2. CASE "llm_required" \in DOMAIN b
  <2>1. "llm_required" \in DOMAIN s /\ b.llm_required = s.llm_required
    BY <1>2 DEF Alike, PartOf
  <2> QED
    BY <1>2, <2>1, Zenon DEF IsStandalone, Get
<1>3. CASE "llm_required" \notin DOMAIN b /\ "llm_required" \in DOMAIN s
  <2>1. s.llm_required = TRUE
    BY <1>3 DEF Alike, Unsaid
  <2> QED
    BY <1>1, <1>3, <2>1 DEF IsStandalone, Get
<1>4. CASE "llm_required" \notin DOMAIN s
  <2>1. "llm_required" \notin DOMAIN b
    BY <1>4 DEF Alike, PartOf
  <2> QED
    BY <1>4, <2>1 DEF IsStandalone, Get
<1> QED
  BY <1>2, <1>3, <1>4

LEMMA AlikeFallback ==
  ASSUME NEW b, NEW s, Alike(b, s)
  PROVE  IF "fallback" \in DOMAIN b
         THEN "fallback" \in DOMAIN s /\ b.fallback = s.fallback
         ELSE "fallback" \in DOMAIN s => s.fallback = <<>>
BY DEF Alike, PartOf, Unsaid

\* A file that is valid comes back valid.
LEMMA ValidBack ==
  ASSUME NEW s \in Objects, validateSettings(s)
  PROVE  validateSettings(Bridged(s))
<1> DEFINE b == Bridged(s)
<1>1. b # malformed
  BY NullAssumption
<1>2. Alike(b, s)
  BY BridgedAlike
<1> HIDE DEF b
<1>3. /\ \A f : f \notin {"fallback", "llm_required"} =>
           /\ f \in DOMAIN b <=> f \in DOMAIN s
           /\ f \in DOMAIN b => b[f] = s[f]
      /\ DOMAIN b \subseteq DOMAIN s
  BY <1>2, AlikeFields DEF Alike, PartOf
<1>4. \A f : f \notin {"fallback", "llm_required"} => Get(b, f) = Get(s, f)
  BY <1>2, AlikeReads, Zenon
<1>5. Get(b, "schema_version") = 1 /\ Get(b, "organ") \notin {undefined, malformed}
  BY <1>4 DEF validateSettings
<1>6. CASE IsStandalone(s)
  <2>1. validateStandalone(s)
    BY <1>6, ValidEither
  <2>2. validateStandalone(b)
    <3>1. /\ DOMAIN b \cap (StageFields \cup {"fallback"}) = {}
          /\ DOMAIN b \subseteq STANDALONE_PERMITTED \cup DEPRECATED_DOC_FIELDS
      BY <1>3, <2>1 DEF validateStandalone
    <3>2. Get(b, "tenant_urn") # malformed
      BY <1>4, <2>1 DEF validateStandalone
    <3> QED
      BY <3>1, <3>2, Zenon DEF validateStandalone
  <2>3. IsStandalone(b)
    BY <1>2, <1>6, AlikeStandalone
  <2> QED
    BY <1>1, <1>5, <2>2, <2>3, Zenon DEF validateSettings, b
<1>7. CASE ~IsStandalone(s)
  <2>1. validateProbabilistic(s) /\ Get(s, "llm_required") \in {undefined, TRUE}
    BY <1>7, Zenon DEF validateSettings
  <2>2. Get(b, "llm_required") \in {undefined, TRUE}
    BY <1>2, <2>1, AlikeStandalone
  <2>3. checkStage(b)
    <3>1. checkStage(s)
      BY <2>1 DEF validateProbabilistic
    <3> QED
      BY <1>3, <1>4, <3>1 DEF checkStage
  <2>4. PROBABILISTIC_REQUIRED \subseteq DOMAIN b
    BY <1>3, <2>1 DEF validateProbabilistic, PROBABILISTIC_REQUIRED
  <2>5. checkHFAutoprovision(b)
    <3>1. "provider" \in DOMAIN b
      BY <2>4 DEF PROBABILISTIC_REQUIRED
    <3> QED
      BY <1>3, <2>1, <3>1 DEF validateProbabilistic, checkHFAutoprovision
  <2>6. "fallback" \in DOMAIN b => "fallback" \in DOMAIN s /\ b.fallback = s.fallback
    BY <1>2, AlikeFallback
  <2>7. validateProbabilistic(b)
    <3>1. Get(b, "tenant_urn") # malformed
      BY <1>4, <2>1 DEF validateProbabilistic
    <3>2. DOMAIN b \subseteq PROBABILISTIC_PERMITTED \cup DEPRECATED_DOC_FIELDS
      BY <1>3, <2>1, Zenon DEF validateProbabilistic
    <3>3. "fallback" \in DOMAIN b =>
            /\ b.fallback # malformed /\ IsArray(b.fallback)
            /\ \A i \in DOMAIN b.fallback :
                 /\ b.fallback[i] # malformed
                 /\ DOMAIN b.fallback[i] \subseteq StageFields
                 /\ checkStage(b.fallback[i])
      BY <2>1, <2>6, Zenon DEF validateProbabilistic
    <3> QED
      BY <2>3, <2>4, <2>5, <3>1, <3>2, <3>3, Zenon DEF validateProbabilistic
  <2> QED
    BY <1>1, <1>5, <2>2, <2>7, Zenon DEF validateSettings, b
<1> QED
  BY <1>6, <1>7 DEF b

\* What is alike has one record.
LEMMA AlikeExport ==
  ASSUME NEW b, NEW s, Alike(b, s), {"schema_version", "organ"} \subseteq DOMAIN s
  PROVE  exportSettingsToJSON(b) = exportSettingsToJSON(s)
<1>1. \A f : f \notin {"fallback", "llm_required"} =>
        /\ f \in DOMAIN b <=> f \in DOMAIN s
        /\ f \in DOMAIN b => b[f] = s[f]
  BY AlikeFields, Zenon
<1>2. \A f : f \notin {"fallback", "llm_required"} => OrNull(b, f) = OrNull(s, f)
  BY AlikeReads, Zenon
<1>3. /\ b.schema_version = s.schema_version /\ b.organ = s.organ
      /\ OrNull(b, "tenant_urn") = OrNull(s, "tenant_urn")
      /\ OrNull(b, "huggingface_autoprovision") = OrNull(s, "huggingface_autoprovision")
  BY <1>1, <1>2
<1>4. StageRecord(b) = StageRecord(s)
  <2>1. \A f \in StageFields : OrNull(b, f) = OrNull(s, f)
    BY <1>2 DEF StageFields
  <2> QED
    BY <2>1 DEF StageRecord
<1>5. collectDeprecated(b) = collectDeprecated(s)
  <2>1. DEPRECATED_DOC_FIELDS \cap DOMAIN b = DEPRECATED_DOC_FIELDS \cap DOMAIN s
    BY <1>1 DEF DEPRECATED_DOC_FIELDS
  <2>2. [f \in DEPRECATED_DOC_FIELDS \cap DOMAIN b |-> b[f]]
          = [f \in DEPRECATED_DOC_FIELDS \cap DOMAIN s |-> s[f]]
    BY <1>1, <2>1 DEF DEPRECATED_DOC_FIELDS
  <2> QED
    BY <2>1, <2>2, Zenon DEF collectDeprecated
<1>6. normalizeFallback(OrNull(b, "fallback")) = normalizeFallback(OrNull(s, "fallback"))
  <2>1. CASE "fallback" \in DOMAIN b
    <3>1. "fallback" \in DOMAIN s /\ b.fallback = s.fallback
      BY <2>1, AlikeFallback
    <3> QED
      BY <2>1, <3>1, Zenon DEF OrNull
  <2>2. CASE "fallback" \notin DOMAIN b
    <3>1. OrNull(b, "fallback") = null
      BY <2>2 DEF OrNull
    <3>2. OrNull(s, "fallback") \in {null, <<>>}
      BY <2>2, AlikeFallback DEF OrNull
    <3> QED
      BY <3>1, <3>2, Zenon DEF normalizeFallback
  <2> QED
    BY <2>1, <2>2
<1>7. (~IsStandalone(b)) = (~IsStandalone(s))
  BY AlikeStandalone
<1> QED
  BY <1>3, <1>4, <1>5, <1>6, <1>7, Zenon DEF exportSettingsToJSON

LEMMA AlikeOver ==
  ASSUME NEW b, NEW s, NEW e, NEW d, Alike(b, s), DOMAIN b = DOMAIN s, Alike(e, d)
  PROVE  Alike(b @@ e, s @@ d)
<1>1. /\ DOMAIN (b @@ e) = DOMAIN b \cup DOMAIN e
      /\ \A x \in DOMAIN b : (b @@ e)[x] = b[x]
      /\ \A x \in DOMAIN e \ DOMAIN b : (b @@ e)[x] = e[x]
  BY Over
<1>2. /\ DOMAIN (s @@ d) = DOMAIN s \cup DOMAIN d
      /\ \A x \in DOMAIN s : (s @@ d)[x] = s[x]
      /\ \A x \in DOMAIN d \ DOMAIN s : (s @@ d)[x] = d[x]
  BY Over
<1>3. PartOf(b @@ e, s @@ d)
  BY <1>1, <1>2 DEF Alike, PartOf
<1>4. ASSUME NEW f \in DOMAIN (s @@ d) \ DOMAIN (b @@ e)
      PROVE  f \in Unsaid(s @@ d)
  <2>1. f \in DOMAIN d \ DOMAIN e /\ (s @@ d)[f] = d[f]
    BY <1>1, <1>2, <1>4
  <2>2. f \in Unsaid(d)
    BY <2>1 DEF Alike
  <2> QED
    BY <1>2, <2>1, <2>2 DEF Unsaid
<1> QED
  BY <1>3, <1>4 DEF Alike

\* A list of stages is not empty, and the fallback is no part of any.
LEMMA NoEntries ==
  ASSUME NEW c, "fallback" \in DOMAIN c => c.fallback = <<>>
  PROVE  stageConfigs(c) = <<c>>
<1> DEFINE entries == IF "fallback" \in DOMAIN c THEN c.fallback ELSE <<>>
           built == [i \in DOMAIN entries |-> buildFallbackStageConfig(c, entries[i])]
<1>1. stageConfigs(c) = <<c>> \o built
  BY Zenon DEF stageConfigs
<1>2. entries = <<>> /\ DOMAIN <<>> = {}
  OBVIOUS
<1>3. built = <<>>
  <2> HIDE DEF entries
  <2> QED
    BY <1>2
<1> HIDE DEF built
<1> QED
  BY <1>1, <1>3

\* What is alike resolves to the same stages.
LEMMA AlikeStages ==
  ASSUME NEW M, NEW m, Alike(M, m),
         "thinking" \in DOMAIN m => checkThinking(m.thinking)
  PROVE  StagesOf(M) = StagesOf(m)
<1> DEFINE Strip(c) == [f \in DOMAIN c \ {"fallback"} |-> c[f]]
<1>1. TenantOf(M) = TenantOf(m)
  <2>1. /\ "tenant_urn" \in DOMAIN M <=> "tenant_urn" \in DOMAIN m
        /\ "tenant_urn" \in DOMAIN M => M.tenant_urn = m.tenant_urn
    BY AlikeFields
  <2> QED
    BY <2>1, Zenon DEF TenantOf
<1>2. CASE IsStandalone(m)
  <2>1. IsStandalone(M)
    BY <1>2, AlikeStandalone
  <2>2. toLLMClientConfig(M) = toLLMClientConfig(m)
    BY <1>1, <1>2, <2>1, Zenon DEF toLLMClientConfig
  <2> QED
    BY <1>2, <2>1, <2>2, Zenon DEF StagesOf
<1>3. CASE ~IsStandalone(m)
  <2> DEFINE R(o) == [defaultProvider |-> Get(o, "provider"),
                      defaultModel |-> Get(o, "model"),
                      maxTokens |-> Get(o, "max_tokens"), tenant_urn |-> TenantOf(o)]
             P(o) == Pick(o, "api_key_env_var", "apiKeyEnvVar")
             T(o) == IF "thinking" \in DOMAIN o THEN ThinkingConfig(o.thinking) ELSE <<>>
             B(o) == Pick(o, "deployment_target", "baseUrl")
             F(o) == Pick(o, "fallback", "fallback")
             X == R(m) @@ P(m) @@ T(m) @@ B(m)
             C == toLLMClientConfig(M)
             c == toLLMClientConfig(m)
  <2>1. ~IsStandalone(M)
    BY <1>3, AlikeStandalone
  <2>2. c = X @@ F(m)
    BY <1>3, Zenon DEF toLLMClientConfig
  <2>3. C = R(M) @@ P(M) @@ T(M) @@ B(M) @@ F(M)
    BY <2>1, Zenon DEF toLLMClientConfig
  <2>4. R(M) = R(m) /\ P(M) = P(m) /\ B(M) = B(m)
    <3>1. \A f : f \notin {"fallback", "llm_required"} =>
            /\ Get(M, f) = Get(m, f)
            /\ \A name : Pick(M, f, name) = Pick(m, f, name)
      BY AlikeReads, Zenon
    <3>2. /\ Get(M, "provider") = Get(m, "provider") /\ Get(M, "model") = Get(m, "model")
          /\ Get(M, "max_tokens") = Get(m, "max_tokens")
          /\ P(M) = P(m) /\ B(M) = B(m)
      BY <3>1
    <3> QED
      BY <1>1, <3>2, Zenon
  <2>5. T(M) = T(m)
    <3>1. /\ "thinking" \in DOMAIN M <=> "thinking" \in DOMAIN m
          /\ "thinking" \in DOMAIN M => M.thinking = m.thinking
      BY AlikeFields
    <3> QED
      BY <3>1, Zenon
  <2>6. C = X @@ F(M)
    BY <2>3, <2>4, <2>5, Zenon
  <2>7. "fallback" \notin DOMAIN X
    <3>1. "fallback" \notin DOMAIN R(m) \cup DOMAIN P(m) \cup DOMAIN B(m)
      BY DEF Pick, :>
    <3>2. "fallback" \notin DOMAIN T(m)
      <4>1. CASE "thinking" \in DOMAIN m
        <5>1. T(m) = ThinkingConfig(m.thinking)
          BY <4>1
        <5> HIDE DEF T
        <5> QED
          BY <4>1, <5>1, ThinkingParts
      <4>2. CASE "thinking" \notin DOMAIN m
        <5>1. T(m) = <<>> /\ DOMAIN <<>> = {}
          BY <4>2
        <5> HIDE DEF T
        <5> QED
          BY <5>1
      <4> QED
        BY <4>1, <4>2
    <3> HIDE DEF R, P, T, B
    <3>3. DOMAIN X = DOMAIN R(m) \cup DOMAIN P(m) \cup DOMAIN T(m) \cup DOMAIN B(m)
      BY DEF @@
    <3> QED
      BY <3>1, <3>2, <3>3
  <2>8. CASE F(M) = F(m)
    <3> HIDE DEF R, P, T, B, F
    <3>1. C = c
      BY <2>2, <2>6, <2>8, Zenon
    <3> QED
      BY <1>3, <2>1, <3>1, Zenon DEF StagesOf
  <2>9. CASE F(M) # F(m)
    <3>1. "fallback" \notin DOMAIN M /\ "fallback" \in DOMAIN m /\ m.fallback = <<>>
      <4>1. CASE "fallback" \in DOMAIN M
        <5>1. "fallback" \in DOMAIN m /\ M.fallback = m.fallback
          BY <4>1, AlikeFallback
        <5> QED
          BY <2>9, <4>1, <5>1, Zenon DEF Pick
      <4>2. CASE "fallback" \notin DOMAIN M /\ "fallback" \notin DOMAIN m
        BY <2>9, <4>2, Zenon DEF Pick
      <4> QED
        BY <4>1, <4>2, AlikeFallback
    <3>2. F(M) = <<>> /\ DOMAIN <<>> = {}
      BY <3>1 DEF Pick
    <3>3. DOMAIN F(m) = {"fallback"} /\ F(m)["fallback"] = <<>>
      BY <3>1, SingleField DEF Pick
    <3> HIDE DEF R, P, T, B, F, X, C, c
    <3>4. /\ DOMAIN C = DOMAIN X
          /\ \A x \in DOMAIN X : C[x] = X[x]
      <4>1. /\ DOMAIN (X @@ <<>>) = DOMAIN X \cup DOMAIN <<>>
            /\ \A x \in DOMAIN X : (X @@ <<>>)[x] = X[x]
        BY Over, Zenon
      <4>2. C = X @@ <<>>
        BY <2>6, <3>2, Zenon
      <4> QED
        BY <3>2, <4>1, <4>2
    <3>5. /\ DOMAIN c = DOMAIN X \cup {"fallback"}
          /\ \A x \in DOMAIN X : c[x] = X[x]
          /\ c["fallback"] = <<>>
      <4> DEFINE g == F(m)
      <4>1. c = X @@ g /\ DOMAIN g = {"fallback"} /\ g["fallback"] = <<>>
        BY <2>2, <3>3, Zenon
      <4> HIDE DEF g
      <4>2. /\ DOMAIN (X @@ g) = DOMAIN X \cup DOMAIN g
            /\ \A x \in DOMAIN X : (X @@ g)[x] = X[x]
            /\ \A x \in DOMAIN g \ DOMAIN X : (X @@ g)[x] = g[x]
        BY Over, Zenon
      <4> QED
        BY <2>7, <4>1, <4>2
    <3>6. stageConfigs(C) = <<C>> /\ stageConfigs(c) = <<c>>
      BY <2>7, <3>4, <3>5, NoEntries
    <3>7. Strip(C) = Strip(c)
      BY <2>7, <3>4, <3>5
    <3>8. /\ StagesOf(M) = [i \in DOMAIN <<C>> |-> Strip(<<C>>[i])]
          /\ StagesOf(m) = [i \in DOMAIN <<c>> |-> Strip(<<c>>[i])]
      <4>1. /\ StagesOf(M) = [i \in DOMAIN stageConfigs(C) |-> Strip(stageConfigs(C)[i])]
            /\ StagesOf(m) = [i \in DOMAIN stageConfigs(c) |-> Strip(stageConfigs(c)[i])]
        BY <1>3, <2>1, Zenon DEF StagesOf, C, c
      <4> QED
        BY <3>6, <4>1, Zenon
    <3> HIDE DEF Strip
    <3>9. DOMAIN <<C>> = {1} /\ DOMAIN <<c>> = {1} /\ <<C>>[1] = C /\ <<c>>[1] = c
      OBVIOUS
    <3> QED
      BY <3>7, <3>8, <3>9
  <2> QED
    BY <2>8, <2>9
<1> QED
  BY <1>2, <1>3

\* A file that says no more than a record can comes back with all its fields.
LEMMA BackAlike ==
  ASSUME NEW s \in Objects, validateSettings(s), ~SaysMore(s)
  PROVE  Alike(Bridged(s), s) /\ DOMAIN Bridged(s) = DOMAIN s
<1>1. Unsaid(s) = {}
  BY DEF SaysMore, Unsaid, Get
<1> QED
  BY <1>1, BridgedParts, BridgedAlike

LEMMA BridgeNow == IInv => BridgeKeepsStages
<1> SUFFICES ASSUME IInv, cache # undefined
             PROVE  BridgeKeepsStages
  BY DEF BridgeKeepsStages
<1> DEFINE own(a) == IF a \in DOMAIN cache.agents THEN cache.agents[a] ELSE <<>>
           back(a) == IF a \in DOMAIN cache.agents THEN Bridged(cache.agents[a]) ELSE <<>>
           d == cache.default
<1>1. /\ d \in Objects /\ validateSettings(d)
      /\ \A a \in DOMAIN cache.agents :
           cache.agents[a] \in Objects /\ validateSettings(cache.agents[a])
  BY CacheParts DEF IInv, TypeOK, InForceValid, AgentMaps
<1>2. ASSUME NEW s \in {d} \cup {cache.agents[a] : a \in DOMAIN cache.agents}
      PROVE  /\ validateSettings(Bridged(s))
             /\ exportSettingsToJSON(Bridged(s)) = exportSettingsToJSON(s)
  <2>1. s \in Objects /\ validateSettings(s)
    BY <1>1
  <2> QED
    BY <2>1, ValidBack, ValidHas, BridgedAlike, AlikeExport, Zenon
<1>3. ASSUME NEW a \in File, ~SaysMore(own(a))
      PROVE  StagesOf(back(a) @@ Bridged(d)) = StagesOf(own(a) @@ d)
  <2>1. Alike(Bridged(d), d)
    BY <1>1, BridgedAlike
  <2>2. Alike(back(a), own(a)) /\ DOMAIN back(a) = DOMAIN own(a)
    <3>1. CASE a \in DOMAIN cache.agents
      <4>1. own(a) = cache.agents[a] /\ back(a) = Bridged(cache.agents[a])
        BY <3>1
      <4> HIDE DEF own, back
      <4> QED
        BY <1>1, <1>3, <3>1, <4>1, BackAlike
    <3>2. CASE a \notin DOMAIN cache.agents
      BY <3>2 DEF Alike, PartOf
    <3> QED
      BY <3>1, <3>2
  <2>3. "thinking" \in DOMAIN own(a) => checkThinking(own(a).thinking)
    <3>1. CASE a \in DOMAIN cache.agents
      <4>1. own(a) = cache.agents[a]
        BY <3>1
      <4> HIDE DEF own
      <4> QED
        BY <1>1, <3>1, <4>1, ValidBlocks DEF Blocks
    <3>2. CASE a \notin DOMAIN cache.agents
      BY <3>2
    <3> QED
      BY <3>1, <3>2
  <2>4. "thinking" \in DOMAIN d => checkThinking(d.thinking)
    BY <1>1, ValidBlocks DEF Blocks
  <2> HIDE DEF own, back, d
  <2>5. Alike(back(a) @@ Bridged(d), own(a) @@ d)
    BY <2>1, <2>2, AlikeOver
  <2>6. "thinking" \in DOMAIN (own(a) @@ d) => checkThinking((own(a) @@ d).thinking)
    <3> DEFINE o == own(a)
    <3>1. "thinking" \in DOMAIN o => checkThinking(o.thinking)
      BY <2>3
    <3> HIDE DEF o
    <3>2. "thinking" \in DOMAIN (o @@ d) => checkThinking((o @@ d).thinking)
      <4>1. /\ DOMAIN (o @@ d) = DOMAIN o \cup DOMAIN d
            /\ \A x \in DOMAIN o : (o @@ d)[x] = o[x]
            /\ \A x \in DOMAIN d \ DOMAIN o : (o @@ d)[x] = d[x]
        BY Over, Zenon
      <4> DEFINE od == o @@ d
      <4>2. /\ "thinking" \in DOMAIN o => od.thinking = o.thinking
            /\ "thinking" \in DOMAIN d \ DOMAIN o => od.thinking = d.thinking
        BY <4>1
      <4>3. "thinking" \in DOMAIN od => "thinking" \in DOMAIN o \cup DOMAIN d
        BY <4>1
      <4> HIDE DEF od
      <4> QED
        BY <2>4, <3>1, <4>2, <4>3, Zenon DEF od
    <3> QED
      BY <3>2 DEF o
  <2> QED
    BY <2>5, <2>6, AlikeStages
<1> QED
  BY <1>2, <1>3, Zenon DEF BridgeKeepsStages

-----------------------------------------------------------------------------
\* However an agent's file and the default are mixed, every stage of the
\* cascade has a provider, a model that suits it, a limit, and a thinking
\* budget only if it thinks (toLLMClientConfig, buildFallbackStageConfig).
THEOREM EveryStageComplete == Spec => []StagesComplete
BY Invariance, CompleteNow, PTL

\* Settings in force that name the HF provider can be deployed: the block came
\* in the file that named it (checkHFAutoprovision, validateHFConfig).
THEOREM EveryBlockDeployable == Spec => []DeployableIfValid
BY Invariance, DeployableNow, PTL

\* Every file in force comes back from the Erlang side valid and with the same
\* record, and files that came back resolve to the stages they had
\* (exportSettingsToJSON, importSettingsFromJSON).
THEOREM BridgeKeeps == Spec => []BridgeKeepsStages
BY Invariance, BridgeNow, PTL

=============================================================================
