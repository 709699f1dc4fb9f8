CONSTANTS
  e1 = e1
  e2 = e2
  e3 = e3
  r1 = r1
  r2 = r2
  r3 = r3
  Provider <- MCProvider
  Tier <- MCTier
  PoolOrder <- OnePool
  Keyed = {e1}
  NoAuth = {}
  Requests = {r1, r2}
  MaxRetries = 1
  Disturbances = {"cancel", "toggle", "reset", "snapshot", "reload"}
  FailureThreshold = 2
  HalfOpenMaxCalls = 2
  SuccessThreshold = 2
SPECIFICATION FairSpec
INVARIANTS OneFallback NoMockWhenDisabled
PROPERTIES KeyedRecovers CallsEnd KeyKeptWhileOneWaits
