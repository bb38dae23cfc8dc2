CONSTANTS
  Cut <- MCCut
  MaxFaults = 2
SPECIFICATION FairSpec
INVARIANTS
  TypeOK
  Agreement
  AlertNamed
  Untroubled
PROPERTIES
  LoginReturns
CHECK_DEADLOCK FALSE
