SPECIFICATION Spec
CONSTANTS
  GoodCodes = {c200}
  BadCodes = {c300}
  Accepted = c200
  Moved = c300
  CodeOf <- MCCodeOf
  Endpoints = {e1, e2}
  Dispatches = {d1}
  Replays = {}
  Workers = {w1, w2}
  MaxRetries = 1
  MaxChains = 1
  NoLog = NoLog
  NoEndpoint = NoEndpoint
INVARIANTS
  NoLostDelivery
  AuditIsExact
  OrphanIsWhereDispatchStopped
  AcceptedCoversTargets
  StatsTellTheTruth
CHECK_DEADLOCK FALSE
