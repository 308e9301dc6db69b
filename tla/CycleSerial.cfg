CONSTANTS
  c1 = c1
  c2 = c2
  Calls <- OneCall
  Keys <- NoKeys
  Profiles <- Serial
  MaxCycles = 1
  MaxEvents = 15
SPECIFICATION Spec
CHECK_DEADLOCK FALSE
INVARIANTS
  TypeOK
  WorkMatchesStage
PROPERTIES
  SettledCyclesHoldStill
  NothingStartsExecutingWhileStopped
