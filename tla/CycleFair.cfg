CONSTANTS
  c1 = c1
  c2 = c2
  Calls <- OneCall
  Keys <- NoKeys
  Profiles <- Fair
  MaxCycles = 1
  MaxEvents = 15
SPECIFICATION FairSpec
CHECK_DEADLOCK FALSE
PROPERTIES
  ReviewsReenterTheirStage
  CyclesEnd
