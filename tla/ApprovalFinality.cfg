CONSTANTS
  c1 = c1
  c2 = c2
  plan = plan
  opportunity = opportunity
  owner = owner
  nobody = nobody
  sweep = sweep
  Calls <- TwoCalls
  Resources <- OnlyPlan
  Hashed <- OnlyPlan
  Humans <- Owner
  NoOne = nobody
  Sweeper = sweep
  MaxApprovals = 1
  MaxVersion = 2
  MaxTime = 1
  ExpiryPeriod = 1
  MaxCrashes = 0
SPECIFICATION Spec
CHECK_DEADLOCK FALSE
PROPERTIES
  DecisionIsFinal
