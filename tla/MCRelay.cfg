SPECIFICATION PackFairSpec
CONSTANTS
  r1 = r1
  r2 = r2
  NoOne = NoOne
  None = None
  Replicas = {r1, r2}
  MaxRows = 2
  batchSize = 2
  leaseTTL = 6
  leaseRenewEvery = 2
  storeTimeout = 1
  publishTimeout = 1
  Punctual = TRUE
  MaxFaults = 1
INVARIANTS
  StreamIsFaithful
  PublishersTakeTurns
  UpdatesTakeEffectOnce
PROPERTIES
  NothingLeftBehind
