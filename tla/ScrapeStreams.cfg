SPECIFICATION FairSpec
CONSTANTS
  a1 = a1
  a2 = a2
  NoAts = NoAts
  NoRun = NoRun
  Ats = {a1, a2}
  Streams = {s1, s2}
  Duplicates = FALSE
  QueueSize = 7
  HistoryKeep = 1
  MaxRuns = 1
  MaxProgress = 1
  MaxFaults = 0
  MaxCrashes = 0
  MaxRestarts = 0
INVARIANTS ShimsContained
PROPERTIES CancelEndsRun 
CHECK_DEADLOCK FALSE
