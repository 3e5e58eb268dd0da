SPECIFICATION FairSpec
CONSTANTS
  Peers = {self}
  Self = self
  MaxStarts = 2
  MaxInbox = 1
  Rebinds = FALSE
INVARIANTS
  UniquePeers
PROPERTIES
  DeadIsDown
  Discovered
CHECK_DEADLOCK FALSE
