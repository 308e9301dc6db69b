CONSTANTS
  c1 = c1
  c2 = c2
  plan = plan
  opportunity = opportunity
  owner = owner
  nobody = nobody
  sweep = sweep
  Calls <- OneCall
  Resources <- BothResources
  Hashed <- OnlyPlan
  Humans <- Owner
  NoOne = nobody
  Sweeper = sweep
  MaxApprovals = 2
  MaxVersion = 2
  MaxTime = 1
  ExpiryPeriod = 0
  MaxCrashes = 1
SPECIFICATION FairSpec
CHECK_DEADLOCK FALSE
INVARIANTS
  TypeOK
  AnnouncedDecisionsStand
PROPERTIES
  ImplementsLedger
  VerdictsAreAnnounced
