CONSTANTS
  c1 = c1
  c2 = c2
  owner = owner
  nobody = nobody
  sweep = sweep
  Calls <- TwoCalls
  Humans <- Owner
  NoOne = nobody
  Sweeper = sweep
  Decisions <- ApproveOrReject
  Autonomous = TRUE
  MaxPlans = 1
  MaxApprovals = 1
  MaxDeployments = 2
  MaxStops = 0
  MaxCrashes = 1
SPECIFICATION Spec
CHECK_DEADLOCK FALSE
SYMMETRY CallSymmetry
INVARIANTS
  TypeOK
  LiveDeploymentsAreHumanApproved
  ExecutedPlansAreDeployed
