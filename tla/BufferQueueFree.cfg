CONSTANTS
  Buffers = {b1, b2, b3, b4}
  NULL = NULL
  BufferNum = 2
  InitialNum = 2
  Elastic = TRUE
SPECIFICATION Spec
INVARIANTS TypeOK ListIntact NoLostWakeup NeverBelowMinimum
PROPERTIES PoolSpec
