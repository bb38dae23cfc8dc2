SPECIFICATION MCSpec
CONSTANTS
  Stream <- MCStream
  Refused = Refused
  MaxHeaders = 20
  MaxPieces = 4
  Curve <- MCCurve
  Infinity = Infinity
  None = None
  Radix = 16
  MaxUkm = 19
  Block = 3
  MeshBlocks = 2
  MaxBytes = 20
INVARIANTS TypeOK KeystreamByOffset MacInOnePass HttpReadsBack KeysAgree
CHECK_DEADLOCK FALSE
