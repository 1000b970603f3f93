SPECIFICATION FairSpec
CONSTANTS
  GoodCodes = {c200}
  BadCodes = {}
  Endpoints = {e1}
  Dispatches = {d1}
  Replays = {p1}
  Workers = {w1, w2}
  MaxRetries = 1
  MaxChains = 2
  NoLog = NoLog
  NoEndpoint = NoEndpoint
PROPERTIES
  EventuallySettled
CHECK_DEADLOCK FALSE
