SPECIFICATION Spec
CONSTANTS
  GoodCodes = {c200}
  BadCodes = {}
  Endpoints = {e1}
  Dispatches = {d1}
  Replays = {p1}
  Workers = {w1, w2}
  MaxRetries = 1
  MaxChains = 2
  NoLog = NoLog
  NoEndpoint = NoEndpoint
SYMMETRY MCSymmetry
INVARIANTS
  TypeOK
  NoLostDelivery
  SuccessIsReal
  ExhaustedMeansTried
  DuplicatesAreBounded
PROPERTIES
  SettledIsFinal
  ImplementsDelivery
CHECK_DEADLOCK FALSE
