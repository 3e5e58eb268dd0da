SPECIFICATION Spec
CONSTANTS
  Peers = {self, p1}
  Self = self
  MaxStarts = 1
  MaxInbox = 1
  Rebinds = FALSE
INVARIANTS
  TypeOK
  ApplicationKnows
PROPERTIES
  CallbackOrder
  HearsWhileRunning
CHECK_DEADLOCK FALSE
