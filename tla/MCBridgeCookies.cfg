CONSTANTS
  c1 = c1
  c2 = c2
  c3 = c3
  gost = gost
  plain = plain
  None = None
  Client <- MCClient
  Host <- MCHost
  Primary <- gost
  Kind <- MCKind
  Cookie <- OneName
  MaxFaults = 0
SPECIFICATION FairSpec
PROPERTIES
  SessionPersists
CHECK_DEADLOCK FALSE
