CONSTANTS
  c1 = c1
  c2 = c2
  plan = plan
  opportunity = opportunity
  owner = owner
  nobody = nobody
  sweep = sweep
  Calls <- TwoCalls
  Resources <- OnlyPlan
  Hashed <- OnlyPlan
  Humans <- Owner
  NoOne = nobody
  Sweeper = sweep
  MaxApprovals = 2
  MaxVersion = 2
  MaxTime = 1
  ExpiryPeriod = 0
  MaxCrashes = 1
SPECIFICATION Spec
CHECK_DEADLOCK FALSE
SYMMETRY CallSymmetry
INVARIANTS
  ExecutionsAreHumanApproved
  ExecutionsMatchTheRequest
VIEW Unannounced
