SPECIFICATION FairSpec
CONSTANTS
  w1 = w1
  w2 = w2
  j1 = j1
  j2 = j2
  None = None
  Workers = {w1, w2}
  Jobs = {j1, j2}
  Conv <- ConvOf
  Slots = 2
  MaxAttempts = 2
  MaxLeads = 2
  Scenarios <- ScenariosValue
INVARIANTS
  RunsAreHonest
PROPERTIES
  WritesUnderTheClaim
  EveryRunEnds
\* Every job and every run ended.
CHECK_DEADLOCK FALSE
