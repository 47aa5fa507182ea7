\* Two requests to stop, a crash and a restart at any moment; a pushed message
CONSTANTS
  Message = {plain}
  Ping = {}
  ToolCall = {}
  ReplyTo = {}
  Poison = {}
  Pushed = {plain}
  NoCorr = NoCorr
  EnvelopeCorr <- MC_NoCorrelation
  PayloadCorr <- MC_NoCorrelation
  CorrelationId = {plain}
  Cycle = {c1}
  DrainLimit = 10
  HasToolHandler = TRUE
  Socket = {s1}
  null = null
  Filter = {f1}
  MAX_MISSED_PONGS = 1
  BASE_DELAY = 1
  MAX_RECONNECT_DELAY = 1
  Reuse = FALSE
  MaxConnects = 1
  MaxSignals = 2
  OwnerShutsDown = TRUE
  MaxRestarts = 1
SPECIFICATION FairSpec
CHECK_DEADLOCK FALSE
INVARIANTS
  CleanExit
  ShutdownReleases
PROPERTIES
  KeepsContract
  EndToEnd
  SignalEnds
