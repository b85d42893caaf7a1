SPECIFICATION HeapSpec
CONSTANTS
  Pids = {p1, p2, p3}
  Sizes <- SomeSizes
  W = 4096
  PAGE_SIZE = 32
  MEMORY_SIZE = 128
  SWAP_SIZE = 32
  B = 8
  POINTER = 4
  Garbage = {0, 7}
  Contents = {5}
  Lengths = {10}
  MaxBlocks = 3
  MaxStrayed = 1
SYMMETRY Alike
INVARIANTS OneSegmentEach PageIsFrame SegmentsDisjoint SegmentsContiguous
INVARIANTS HeapTypeOK BlocksApart HeadersIntact DataIntact StaysUp
