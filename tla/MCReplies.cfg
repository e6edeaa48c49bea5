SPECIFICATION PackFairSpec
CONSTANTS
  a1 = a1
  e1 = e1
  e2 = e2
  Actions = {a1}
  Executors = {e1, e2}
  MaxSendAttempts = 2
  MaxAutonomousTurns = 1
  Overlap = FALSE
  Redelivery = TRUE
  MaxCrashes = 1
  MaxRandomIds = 2
  MaxOwnerSteps = 2
INVARIANTS
  DeliveriesAreTrue
PROPERTIES
  TakeoverStopsReplies
  HonestOutcome
  EverySendSettles
  EveryCampaignEnds
\* Every draft settled, every campaign ended.
CHECK_DEADLOCK FALSE
