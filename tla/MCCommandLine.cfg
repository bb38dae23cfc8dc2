CONSTANTS
  Invocation <- MCInvocation
  Document = {d1, d2}
  Certificate <- MCCertificate
  Environment <- MCEnvironment
  DotEnv <- MCDotEnv
  Token <- MCToken
  Ports <- MCPorts
  Free = Free
  Empty = Empty
  Missing = Missing
  Nothing = Nothing
  MaxTries = 2
  MaxRequests = 2
  MaxTroubles = 2
SPECIFICATION Spec
INVARIANTS
  TypeOK
  RefusedUntouched
  OutputWhole
  SignedAsAsked
  PinToNamedToken
CHECK_DEADLOCK FALSE
