SPECIFICATION Spec
CONSTANTS
  Ults <- TwoThreads
  MaxCalls = 2
INVARIANT OwnAnswer
CHECK_DEADLOCK FALSE
