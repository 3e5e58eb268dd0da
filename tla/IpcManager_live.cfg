SPECIFICATION FairSpec
CONSTANTS
  Clients = {c1}
  Objects = {}
  Tasks = {t1, t2}
  Main = main
  Worker = worker
  None = none
  IdModulus = 8
  MaxOld = 1
  Prompt = TRUE
PROPERTIES
  SweepsReap
  EndedIsRestarted
  CallsReturn
CHECK_DEADLOCK FALSE
