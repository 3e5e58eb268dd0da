SPECIFICATION FairSpec
CONSTANTS
  Callers = {owner, app, worker}
  Owner = owner
  NoThread = none
  MaxStarts = 4
  Overlap = FALSE
  SelfEnding = FALSE
INVARIANTS
  TypeOK
  OneWorker
  StoppedIsQuiet
PROPERTIES
  StopReturns
  ImplementsLifecycle
CHECK_DEADLOCK FALSE
