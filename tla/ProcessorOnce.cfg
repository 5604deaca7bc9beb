CONSTANTS
  Agents = {a1}
  Kinds = {"other"}
  NULL = NULL
  QueueSize = 1
  MaxMinute = 3
  MaxSamples = 4
  MaxRestarts = 0
  MaxCrashes = 1
  MaxRefusals = 0
SPECIFICATION Spec
INVARIANT StoredOnce
CHECK_DEADLOCK FALSE
