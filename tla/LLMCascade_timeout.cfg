\* A provider whose connection cannot be made in time
CONSTANTS
  HttpStatus = {400, 429, 500, 503}
  BodyText = {{}, {"not_loaded"}, {"timeout"}, {"JSON"}, {"context_length", "content_filter"}}
  Stages = 3
  Provider <- MC_Provider
  NoTimeout = NoTimeout
  Timeouts = {NoTimeout, 0, 1, 3}
  MaxClock = 5
SPECIFICATION UsageSpec
CHECK_DEADLOCK FALSE
INVARIANT
  ConnectTimeoutFallsBack
