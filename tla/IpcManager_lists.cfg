SPECIFICATION Spec
CONSTANTS
  Clients = {c1, c2}
  Objects = {o1}
  Tasks = {t1, t2}
  Main = main
  Worker = worker
  None = none
  IdModulus = 4
  MaxOld = 0
  Prompt = FALSE
INVARIANTS
  TypeOK
  UniqueIds
  AloneWithLists
  NothingDangles
  StoppedForGood
PROPERTIES
  ImplementsRegistry
SYMMETRY Interchangeable
CHECK_DEADLOCK FALSE
