SPECIFICATION Spec
CONSTANTS
  Deliveries = {l1, l2}
  Secrets = {s1, s2}
  MaxRetries = 1
  Tolerance = 1
  TicksPerSecond = 2
  MaxDrift = 1
  MaxTime = 4
  MaxChanged = 1
SYMMETRY MCSymmetry
INVARIANTS
  TypeOK
  FreshIsAccepted
  AcceptedIsAuthentic
  ExampleIsSound
CHECK_DEADLOCK FALSE
