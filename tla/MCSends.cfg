SPECIFICATION PackSpec
CONSTANTS
  a1 = a1
  a2 = a2
  t1 = t1
  t2 = t2
  NotRun = NotRun
  Actions = {a1}
  Executors = {t1, t2}
  MaxSendAttempts = 2
  MaxAutonomousTurns = 1
  Overlap = TRUE
  Redelivery = TRUE
  MaxCrashes = 1
  MaxRandomIds = 2
  MaxOwnerSteps = 0
SYMMETRY Symmetry
INVARIANTS
  AtMostOnce
  SendsAreRecorded
  TurnBudgetHolds

  
\* Every draft settled, every sign-in ended.
CHECK_DEADLOCK FALSE
