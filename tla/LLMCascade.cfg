\* Three stages; no budget, a budget of 0, budgets that expire in any stage; the
\* clock and the timers are fair, the providers need not be.
CONSTANTS
  HttpStatus = {400, 429, 500, 503}
  BodyText = {{}, {"not_loaded"}, {"timeout"}, {"JSON"}, {"context_length", "content_filter"}}
  Stages = 3
  Provider <- MC_Provider
  NoTimeout = NoTimeout
  Timeouts = {NoTimeout, 0, 1, 3}
  MaxClock = 5
SPECIFICATION UsageFairSpec
CHECK_DEADLOCK FALSE
INVARIANTS
  OneUsageEvent
  DownFallsBack
  MistakeNotPassedOn
PROPERTIES
  NoStageAfterBudget
  BudgetSettles
  EventAccounted
