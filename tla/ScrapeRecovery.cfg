SPECIFICATION FairSpec
CONSTANTS
  a1 = a1
  a2 = a2
  NoAts = NoAts
  NoRun = NoRun
  Ats = {a1, a2}
  Streams = {}
  Duplicates = FALSE
  QueueSize = 1
  HistoryKeep = 1
  MaxRuns = 2
  MaxProgress = 1
  MaxFaults = 1
  MaxCrashes = 0
  MaxRestarts = 1
  
PROPERTIES EveryRunEnds
CHECK_DEADLOCK FALSE
