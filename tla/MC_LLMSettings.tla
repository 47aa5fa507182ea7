---------------------------- MODULE MC_LLMSettings ----------------------------
(* TLC instances of LLMSettings and ErlangBridge.                          *)
EXTENDS ErlangBridge

Maybe(field, values) == {<<>>} \cup {field :> v : v \in values}
Entry(provider, model) == [provider |-> provider, model |-> model]

Heads ==
  {[provider |-> "anthropic", model |-> "claude", max_tokens |-> 512],
   [provider |-> "anthropic", model |-> "open", max_tokens |-> 512],
   [provider |-> "openai-compatible", model |-> "open", max_tokens |-> 1024,
    deployment_target |-> "server", notes |-> "local"],
   [provider |-> "huggingface-autoprovision", model |-> "open", max_tokens |-> 1024],
   [provider |-> "anthropic", model |-> "claude", max_tokens |-> 0],
   [provider |-> "anthropic", max_tokens |-> 512],
   [model |-> "open", max_tokens |-> 512],
   [provider |-> "openai-compatible", model |-> "open"], <<>>}

Thinking ==
  {[enabled |-> TRUE], [enabled |-> TRUE, budget_tokens |-> 8],
   [enabled |-> FALSE, budget_tokens |-> 8]}
Fallbacks ==
  {<<>>,
   <<Entry("anthropic", "claude") @@ ("thinking" :> [enabled |-> FALSE]),
     [max_tokens |-> 64, api_key_env_var |-> "KEY"] @@ Entry("openai-compatible", "open")>>,
   <<Entry("anthropic", "open")>>}
Pinned == [repo |-> "org", revision |-> "pinned", quantization |-> "awq"]
HF == {Pinned, [Pinned EXCEPT !.quantization = "none"],
       [Pinned EXCEPT !.revision = "main"], [Pinned EXCEPT !.quantization = "bf16"]}

Common == [schema_version |-> 1, organ |-> "nomos"]

Settings(required, thinking, fallback, hf) ==
  {h @@ r @@ t @@ f @@ p @@ Common :
     h \in Heads, r \in Maybe("llm_required", required),
     t \in Maybe("thinking", thinking), f \in Maybe("fallback", fallback),
     p \in Maybe("huggingface_autoprovision", hf)}

DefaultFiles == Settings({FALSE}, Thinking, Fallbacks, {Pinned})
AgentContents ==
  Settings({FALSE}, {[enabled |-> FALSE, budget_tokens |-> 8]}, {<<>>}, HF)

\* Any default file with any agent file, and disks on which much can go wrong.
MC_Disks ==
  {[f \in File |-> IF f = "default" THEN d ELSE a] :
     d \in {s \in DefaultFiles : validateSettings(s)}, a \in AgentContents}

Probabilistic ==
  [llm_required |-> TRUE, provider |-> "anthropic", model |-> "claude", max_tokens |-> 256]
    @@ Common
MC_Edits ==
  {undefined, malformed, Probabilistic,
   ("cascade_total_timeout_ms" :> 50) @@ Probabilistic,
   ("llm_required" :> FALSE) @@ Common}

=============================================================================
