SPECIFICATION PackSpec
CONSTANTS
  t1 = t1
  t2 = t2
  a1 = a1
  a2 = a2
  b1 = b1
  b2 = b2
  q1 = q1
  q2 = q2
  j1 = j1
  j2 = j2
  None = None
  Intents = {"i1", "i2"}
  BaseIntents = {"i1"}
  Tools = {"t1", "t2", "t3"}
  BaseTools = {"t1", "t2"}
  MaxLimit = 2
  Edits <- SinglePart
SYMMETRY Symmetry
INVARIANTS
  ForkNeverWidens
  SpendingIsBounded

  
\* Forks installed, requests served, jobs run.
CHECK_DEADLOCK FALSE
