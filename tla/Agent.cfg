CONSTANTS
  e1 = e1
  r1 = r1
  Executions <- OneExecution
  Registrars <- OneRegistrar
  Permissions <- ThePermissions
  Gated <- NoneGated
  Tools <- TheTools
  Requires <- TheirPermissions
  MaxSteps = 0
  MaxToolCalls = 2
  MaxModelCalls = 1
  MaxRetries = 1
  MaxGrants = 2
  MaxCrashes = 1
SPECIFICATION FairSpec
CHECK_DEADLOCK FALSE
INVARIANTS
  TypeOK
  ToolsRunWithPermission
  CompletedRowsAccountForEveryCall
  RunsEndInTheirRow
PROPERTIES
  RunsEnd
  ImplementsBoundedWorker
