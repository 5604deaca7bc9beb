CONSTANTS
  BufferNum = 1
  MaxPairs = 3
  MaxSignals = 2
SPECIFICATION FairSpec
INVARIANTS TypeOK ExitLeavesNothingQueued
PROPERTY CollectorEnds
CHECK_DEADLOCK FALSE
