\* The client as createOrgan uses it: one connect(), one disconnect(); the Spine
\* comes and goes and peers fall silent.
CONSTANTS
  Socket = {s1, s2}
  null = null
  Filter = {f1, f2}
  MAX_MISSED_PONGS = 3
  BASE_DELAY = 1
  MAX_RECONNECT_DELAY = 30
  Reuse = FALSE
  MaxConnects = 1
SPECIFICATION FairSpec
INVARIANTS
  OneSocket
  CloseAllConnections
  SubscriptionsKept
PROPERTIES
  OnlySilentTerminated
  Reconnects
  DeadPeerDetected
