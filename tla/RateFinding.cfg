SPECIFICATION Spec
CONSTANTS
  Keys = {k1}
  Plan <- MCPlan
  Override <- MCOverride
  MCLimit = 1
  Requests = {r1, r2, r3, r4}
  TTL = 165
  TicksPerSecond = 2
  Steps = {45}
  MaxDelay = 45
  MaxTime = 270
  NoKey = NoKey
INVARIANT
  RateIsEnforced
CHECK_DEADLOCK FALSE
