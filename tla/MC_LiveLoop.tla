----------------------------- MODULE MC_LiveLoop -----------------------------
(* TLC instances of LiveLoop.                                              *)
EXTENDS ToolCall, TLC

CONSTANTS ping, tool, plain, bad, trace1, trace2

MC_CorrelationId == Message \cup {trace1, trace2}

\* The tool call carries both correlation ids, the others none.
MC_EnvelopeCorr ==
  [m \in Message |-> IF m = tool THEN trace1 ELSE NoCorr]
MC_PayloadCorr ==
  [m \in Message |-> IF m = tool THEN trace2 ELSE NoCorr]

\* Every tool call is malformed: its tool has no name.
MC_Tool == [m \in Message |-> "empty"]

CycleSymmetry == Permutations(Cycle)

=============================================================================
