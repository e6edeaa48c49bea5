SPECIFICATION PackSpec
CONSTANTS
  u1 = u1
  t1 = t1
  t2 = t2
  v1 = v1
  v2 = v2
  NotRun = NotRun
  NoConv = NoConv
  NoReplica = NoReplica
  Jobs = {1, 2}
  Users = {u1}
  Replicas = {t1, t2}
  UserOf <- MCUserOf
  ConvOf <- MCApart
  MaxAttempts = 1
  MaxInflight = 1
  Limit = 2
  Coalesce = FALSE
  OperatorRouting = FALSE
  AllowLegacy = TRUE
  MaxClaims = 2
SYMMETRY Symmetry
PROPERTIES
  DevicesAreOwned
INVARIANTS
  ManagedInflightCap
  DigestsAreFaithful
