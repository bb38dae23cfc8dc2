CONSTANTS
  client = client
  server = server
  handshake = handshake
  appdata = appdata
  empty = empty
  byte = byte
  Noise = Noise
  End <- MCEnd
  ContentType <- MCContentType
  Fragment <- MCFragment
  Size <- MCSize
  IMIT_TAG_LEN = 2
  MaxSent <- MCMaxSent
  MaxFaults = 2
SPECIFICATION FairSpec
INVARIANTS
  TypeOK
  AcceptedInOrder
  InStep
PROPERTIES
  Delivered
  ImplementsChannel
CHECK_DEADLOCK FALSE
