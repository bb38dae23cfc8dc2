CONSTANTS
  c1 = c1
  c2 = c2
  c3 = c3
  gost = gost
  plain = plain
  None = None
  Client <- MCClient
  Host <- MCHost
  Primary <- gost
  Kind <- MCKind
  Cookie <- OwnName
  MaxFaults = 1
SPECIFICATION Spec
INVARIANTS
  BadPinNotRetried
CHECK_DEADLOCK FALSE
