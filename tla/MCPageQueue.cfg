CONSTANTS
  Message <- MCMessage
  Method <- MCMethod
  Parts <- MCParts
  Pump <- MCPump
  Chunks = 2
  MaxTrouble = 2
SPECIFICATION FairSpec
INVARIANTS
  TypeOK
  TokenUse
PROPERTIES
  RepliesOnce
  Answered
CHECK_DEADLOCK FALSE
