\* Two overlapping cycles over a plain, a poison and a tool call message; the plain one is pushed too.
CONSTANTS
  ping = ping
  tool = tool
  plain = plain
  bad = bad
  trace1 = trace1
  trace2 = trace2
  NoCorr = NoCorr
  Message = {tool, plain, bad}
  Ping = {}
  ToolCall = {tool}
  ReplyTo = {tool, plain}
  Poison = {bad}
  Pushed = {plain}
  CorrelationId <- MC_CorrelationId
  EnvelopeCorr <- MC_EnvelopeCorr
  PayloadCorr <- MC_PayloadCorr
  Tool <- MC_Tool
  Cycle = {c1, c2}
  DrainLimit = 2
  HasToolHandler = TRUE
SYMMETRY CycleSymmetry
SPECIFICATION Spec
INVARIANTS
  AckedWasServed
  FirstAttemptInOrder
  ToolRepliesValid
PROPERTIES
  ImplementsContract
