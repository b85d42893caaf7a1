SPECIFICATION Spec
CONSTANTS
  MAX_ULTS = 3
  MaxSignals = 2
  MaxThreads = 3
  MaxYields = 1
INVARIANTS NeverAborts
