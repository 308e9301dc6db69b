CONSTANTS
  c1 = c1
  c2 = c2
  Calls <- OneCall
  Keys <- NoKeys
  Profiles <- Bookkept
  MaxCycles = 1
  MaxEvents = 11
SPECIFICATION Spec
CHECK_DEADLOCK FALSE
INVARIANTS
  ExecutingWasDecided
