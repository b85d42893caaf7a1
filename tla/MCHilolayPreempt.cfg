SPECIFICATION Spec
CONSTANTS
  MAX_ULTS = 4
  MaxSignals = 2
  MaxThreads = 4
  MaxYields = 1
INVARIANTS TypeOK AbortsOnlyStrayed NobodyLost
