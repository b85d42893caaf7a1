SPECIFICATION HeapSpec
CONSTANTS
  Pids = {p1}
  Sizes <- TightSizes
  W = 4096
  PAGE_SIZE = 64
  MEMORY_SIZE = 128
  SWAP_SIZE = 0
  B = 8
  POINTER = 4
  Garbage = {0}
  Contents = {5}
  Lengths = {10}
  MaxBlocks = 3
  MaxStrayed = 1
INVARIANT ClosestApart
