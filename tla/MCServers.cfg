SPECIFICATION FairSpec
CONSTANTS
  INT = 2
  B = 8
  Clients = {"c1", "c2"}
  Lib = lib
  None = none
  Conns <- MCConns
  Readers <- MCReaders
  Threads <- MCThreads
  Cases <- MCCases
  Garbage <- MCGarbage
  LibMessages <- MCLibMessages
  Operations <- MCOperations
  Pointers <- MCPointers
  MAX_FD = 2
  MaxSent = 2
INVARIANTS TypeOK OwnConnection Delivered
PROPERTY AllArrive
CHECK_DEADLOCK FALSE
