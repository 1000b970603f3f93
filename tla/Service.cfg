SPECIFICATION FairSpec
CONSTANTS
  Migrators = {up, hand}
  Api = up
  Requests = {r1, r2}
  PoolSize = 1
  RedisSize = 1
  MaxTargets = 2
  NoRequest = NoRequest
  MaxFaults = 2
INVARIANTS
  TypeOK
  SchemaIsARevision
  ServesOnlyAtHead
  ConnectionsAccounted
  SomeoneCanMove
  OutagesEnd
  HealthIsAnswered
PROPERTIES
  StepsLeadOn
  EventuallyServes
  EveryRequestAnswered
CHECK_DEADLOCK FALSE
