CONSTANTS
  Buffers = {b1, b2}
  NULL = NULL
  BufferNum = 1
  InitialNum = 1
  Elastic = TRUE
SPECIFICATION FairSpec
PROPERTY PopAllocates
