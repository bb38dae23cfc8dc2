CONSTANTS
  Call <- MCCall
  Supported = {"d1", "d2"}
  Files <- MCFiles
  Certificate <- MCCertificate
  Understood = {"relative"}
  RightPin = "right"
  NoPin = "none"
  LastSuffix = 1
  MaxChunks = 3
  MaxTries = 3
  ReaderDepth = 2
  MaxCalls = 1
  MaxFaults = 2
SPECIFICATION FairSpec
PROPERTIES
  CallEnds
CHECK_DEADLOCK FALSE
