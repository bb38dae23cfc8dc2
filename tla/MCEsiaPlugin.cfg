SPECIFICATION FairSpec
CONSTANTS
  Function <- MCFunction
  None = None
  Certificate = Certificate
  Failed = Failed
  MaxTroubles = 2
INVARIANTS TypeOK OwnReply SignsOnce
PROPERTY Answered
CHECK_DEADLOCK FALSE
