CONSTANTS
  Call <- MCCall
  Supported = {"d1", "d2"}
  Files <- MCFiles
  Certificate <- MCCertificate
  Understood = {"relative"}
  RightPin = "right"
  NoPin = "none"
  LastSuffix = 1
  MaxChunks = 3
  MaxTries = 3
  ReaderDepth = 2
  MaxCalls = 3
  MaxFaults = 3
SPECIFICATION Spec
INVARIANTS
  TypeOK
  OwnOutcome
  WholeCertificate
  WrongPinRefused
  OneTryPerCall
  FaultlessCallSucceeds
CHECK_DEADLOCK FALSE
