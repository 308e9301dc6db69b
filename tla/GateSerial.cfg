CONSTANTS
  c1 = c1
  c2 = c2
  owner = owner
  nobody = nobody
  sweep = sweep
  Calls <- OneCall
  Humans <- Owner
  NoOne = nobody
  Sweeper = sweep
  Decisions <- ApproveOrReject
  Autonomous = TRUE
  MaxPlans = 2
  MaxApprovals = 2
  MaxDeployments = 3
  MaxStops = 1
  MaxCrashes = 0
SPECIFICATION FairSpec
CHECK_DEADLOCK FALSE
INVARIANTS
  PlansAreExecutedOnce
  RollbacksTakeEffect
PROPERTIES
  RejectedLaunchesAreNotDeployed
  NothingGoesLiveWhileStopped
  DeployingEnds
