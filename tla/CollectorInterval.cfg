CONSTANTS
  Buffers = {b1, b2, b3, b4}
  NULL = NULL
  BufferNum = 1
  BufferSize = 3
  MaxDatagramSamples = 1
  MaxSamples = 1
SPECIFICATION FairSpec
PROPERTY ReceivedIsWritten
