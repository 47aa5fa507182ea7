---------------------------- MODULE MC_LLMCascade ----------------------------
(* TLC instances of LLMCascade, alone and with the writer of its events.   *)
EXTENDS UsageWriter

MC_Provider ==
  [i \in 1 .. Stages |-> IF i = 1 THEN "anthropic" ELSE "openai-compatible"]

=============================================================================
