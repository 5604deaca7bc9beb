CONSTANTS
  Buffers = {b1, b2, b3, b4}
  NULL = NULL
  BufferNum = 1
  BufferSize = 2
  MaxDatagramSamples = 2
  MaxSamples = 3
SPECIFICATION FairSpec
INVARIANTS TypeOK OneOwner NoOverflow SamplesInOrder FlushInLockstep FreeIsEmpty
PROPERTIES FreePoolSpec FlushPoolSpec FlushReturns FlushedIsWritten
