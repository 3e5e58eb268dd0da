SPECIFICATION Spec
CONSTANTS
  s1 = s1
  s2 = s2
  a = a
  b = b
  c = c
  MaxSize = 15
  Servers <- MCServers
  Plain <- MCPlain
  Host <- MCHost
  ObjectIds <- MCObjectIds
  Setups <- MCSetups
INVARIANT
  UnmappedLeavesNothing
CHECK_DEADLOCK FALSE
