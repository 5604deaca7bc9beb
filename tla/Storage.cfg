CONSTANTS
  Frames <- MCFrames
  HashRange = 2
  Tails = {0, 1}
  Word = 4
  Day = 2
  Settings <- MCSettings
  NoDay = NoDay
  CsvBuckets = 2
  Rotation = 2
  FlowFiles <- MCFlowFiles
  CounterFiles <- MCCounterFiles
  Bulk = 2
  Epoch = 4
  MaxMinute = 8
  MaxBatches = 2
  MaxCrashes = 1
SPECIFICATION Spec
INVARIANTS TypeOK CurrentTableExists RecentConversationsAreStored RecentCountersAreStored  CsvFollowsCounters
CHECK_DEADLOCK FALSE
