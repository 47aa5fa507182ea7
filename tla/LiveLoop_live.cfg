\* Fairness: a ping, a tool call nobody intercepts and a poison message, two per drain
CONSTANTS
  ping = ping
  tool = tool
  plain = plain
  bad = bad
  trace1 = trace1
  trace2 = trace2
  NoCorr = NoCorr
  Message = {ping, plain, bad}
  Ping = {ping}
  ToolCall = {plain}
  ReplyTo = {ping, plain}
  Poison = {bad}
  Pushed = {}
  CorrelationId <- MC_CorrelationId
  EnvelopeCorr <- MC_EnvelopeCorr
  PayloadCorr <- MC_PayloadCorr
  Tool <- MC_Tool
  Cycle = {c1}
  DrainLimit = 2
  HasToolHandler = FALSE
SPECIFICATION FairSpec
PROPERTIES
  HealthyAcked
  StopQuiesces
