SPECIFICATION FairSpec
CONSTANTS
  Ults <- OneThread
  MaxCalls = 1
PROPERTY CpyReturns
CHECK_DEADLOCK FALSE
