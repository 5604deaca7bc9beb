CONSTANTS
  Agents = {a1}
  Kinds = {"other", "udp"}
  NULL = NULL
  QueueSize = 1
  MaxMinute = 3
  MaxSamples = 3
  MaxRestarts = 1
  MaxCrashes = 1
  MaxRefusals = 1
SPECIFICATION FairSpec
INVARIANTS TypeOK AnnouncedIsComplete NoFileForgotten BatchesSeparate
INVARIANTS NothingLost StoredOnceWhileRunning LayersNested
PROPERTIES AnnouncedIsFinal AnnouncedIsStored
CHECK_DEADLOCK FALSE
