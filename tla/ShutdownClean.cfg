CONSTANTS
  BufferNum = 1
  MaxPairs = 3
  MaxSignals = 1
SPECIFICATION FairSpec
PROPERTY CleanExit
CHECK_DEADLOCK FALSE
