SPECIFICATION FairSpec
CONSTANTS
  Callers = {owner, app}
  Owner = owner
  NoThread = none
  MaxStarts = 3
  Overlap = TRUE
  SelfEnding = TRUE
PROPERTIES
  StartsStillWork
CHECK_DEADLOCK FALSE
