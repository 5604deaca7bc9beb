CONSTANTS
  Buffers = {b1, b2, b3, b4}
  NULL = NULL
  BufferNum = 2
  InitialNum = 0
  Elastic = FALSE
SPECIFICATION FairSpec
PROPERTIES PopReturns
