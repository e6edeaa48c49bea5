SPECIFICATION PackFairSpec
CONSTANTS
  r1 = r1
  n1 = n1
  n2 = n2
  None = None
  Requests = {r1}
  MaxVersion = 2
  Notifiers = {n1, n2}
  Commands = {"c1"}
  Scenarios <- Asked
INVARIANTS
  
  CommandsTakeEffectOnce
PROPERTIES
  OwnerIsHeard
\* No question open, every command answered.
CHECK_DEADLOCK FALSE
