SPECIFICATION FairSpec
CONSTANTS
  u1 = u1
  r1 = r1
  r2 = r2
  convA = convA
  NoConv = NoConv
  NoReplica = NoReplica
  Jobs = {1, 2}
  Users = {u1}
  Replicas = {r1, r2}
  UserOf <- MCUserOf
  ConvOf <- MCConvOf
  MaxAttempts = 2
  MaxInflight = 1
  Limit = 2
  Coalesce = TRUE
  OperatorRouting = TRUE
  AllowLegacy = TRUE
  MaxClaims = 2
INVARIANTS
  ConversationSerial
  ClaimsAreExact
  TurnsAreWhole
PROPERTIES
  HistoryIsFixed
  SilentWorkerRecovered
