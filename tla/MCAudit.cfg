SPECIFICATION PackSpec
CONSTANTS
  t1 = t1
  t2 = t2
  k1 = k1
  k2 = k2
  c3 = c3
  c1 = c1
  self = self
  NotRun = NotRun
  Calls = {t1, t2, c3}
  Edited = Edited
  Postgres = FALSE
  NanosPerMicro = 2
  Retention = 1
  MaxClock = 3
  MaxTampering = 2
SYMMETRY Symmetry
INVARIANTS
  
  GrantsAreSound

  
  
\* Every call logged, every request answered, every command ended.
CHECK_DEADLOCK FALSE
