SPECIFICATION Spec
CONSTANTS
  c1 = c1
  c2 = c2
  Calls <- TwoCalls
  Experiments <- OneRow
  Messages <- TwoRows
  MaxProspects = 2
  MaxApprovals = 2
  MaxResponses = 1
  Sources <- OneSource
  Channel <- Channels
  MaxSendAttempts = 2
  SendsPerMinute = 1
  MaxMessagesPerExperiment = 1
  MaxMessagesPerDestination = 1
  MaxActiveExperiments = 1
  MaxExtractions = 1
  OutreachUses <- OutreachInstance
  MaxModels = 1
  MaxPlans = 2
  MaxAccounts = 2
  MaxEvents = 2
  BillingUses <- BillingInstance
  MAX_TASK_ATTEMPTS = 2
  FactoryUses <- FactoryInstance
  DecisionUses <- DecisionInstance
  MaxIdentities = 3
  MaxAgents = 1
  MaxGrants = 2
  AccessUses <- AccessInstance
  MaxAlerts = 2
  MaxRaises = 2
  MaxRows = 2
  MaxDecisions = 2
  MaxItems = 2
  DeskUses <- DeskInstance
  RECENT_COMPARISON_WINDOW = 2
  MAX_CLUSTERS_TO_COMPARE = 1
  ResearchUses <- ResearchInstance
  MaxRequests = 2
  GrowthUses <- GrowthInstance
  MaxTime = 2
  MaxHistory = 2
  PredictionUses <- PredictionInstance
  DiscoveryUses <- DiscoveryInstance
SYMMETRY CallSymmetry
INVARIANTS
  TypeOK
  HumansApprovedWhatMatters
  ContactsAreBackedAndBounded
  AccountsAndRevenueAreBacked
  ApprovedBuildsWereWholeAndShown
  ClaimsFollowTheirEvidence
  CyclesKeepTheirBudget
  AuthorityIsHumanAndAudited
  NothingIsHiddenFromTheFounder
  ResearchIsBackedAndHandedOn
  LessonsFollowOutcomes
CHECK_DEADLOCK FALSE
