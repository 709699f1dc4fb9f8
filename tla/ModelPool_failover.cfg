CONSTANTS
  e1 = e1
  e2 = e2
  e3 = e3
  r1 = r1
  r2 = r2
  r3 = r3
  PoolOrder <- ThreePool
  Provider <- MCProvider
  Tier <- MCTier
  Keyed = {e1}
  NoAuth = {e1, e2}
  Requests = {r1}
  MaxRetries = 3
  Disturbances = {"cancel", "storage_error"}
  FailureThreshold = 2
  HalfOpenMaxCalls = 1
  SuccessThreshold = 1
SPECIFICATION Spec
PROPERTIES FailsFastOnlyIfNoneUsable
