SPECIFICATION FairSpec
CONSTANTS
  Callers = {owner, app}
  Owner = owner
  NoThread = none
  MaxStarts = 3
  Overlap = TRUE
  SelfEnding = FALSE
PROPERTIES
  StopReturns
CHECK_DEADLOCK FALSE
