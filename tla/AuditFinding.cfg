SPECIFICATION Spec
CONSTANTS
  GoodCodes = {c200}
  BadCodes = {c500}
  Endpoints = {e1}
  Dispatches = {d1}
  Replays = {p1}
  Workers = {w1, w2}
  MaxRetries = 1
  MaxChains = 2
  NoLog = NoLog
  NoEndpoint = NoEndpoint
INVARIANT
  FailedAttemptShowsNoSuccessCode
CHECK_DEADLOCK FALSE
