CONSTANTS
  c1 = c1
  c2 = c2
  Calls <- TwoCalls
  Keys <- Keyed
  Profiles <- Racing
  MaxCycles = 3
  MaxEvents = 10
SPECIFICATION Spec
SYMMETRY CallSymmetry
CHECK_DEADLOCK FALSE
INVARIANTS
  ExecutingWasDecided
  CompletedCyclesDidEveryStage
  NoCycleStartsTwice
