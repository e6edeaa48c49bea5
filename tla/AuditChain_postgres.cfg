\* One call logged on Postgres, nothing edited.
SPECIFICATION Spec
CONSTANTS
  c1 = c1
  Calls = {c1}
  Edited = Edited
  Postgres = TRUE
  NanosPerMicro = 2
  Retention = 0
  MaxClock = 1
  MaxTampering = 0
INVARIANT UntouchedChainVerifies
CHECK_DEADLOCK FALSE
