SPECIFICATION FairSpec
CONSTANTS
  Ults <- OneThread
  MaxCalls = 4
INVARIANT TypeOK
PROPERTIES CallReturns ImplementsRpc
CHECK_DEADLOCK FALSE
