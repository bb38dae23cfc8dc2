CONSTANTS
  Message <- MCMessage
  Method <- MCMethod
  Parts <- MCParts
  Pump <- MCPump
  Chunks = 2
  MaxTrouble = 2
SPECIFICATION FairSpec
INVARIANTS
  OwnAnswer
CHECK_DEADLOCK FALSE
