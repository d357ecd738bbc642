SPECIFICATION Spec
CONSTANTS
  a1 = a1
  a2 = a2
  NoAts = NoAts
  NoRun = NoRun
  Ats = {a1, a2}
  Streams = {s1}
  Duplicates = TRUE
  QueueSize = 1
  HistoryKeep = 1
  MaxRuns = 2
  MaxProgress = 0
  MaxFaults = 0
  MaxCrashes = 1
  MaxRestarts = 1
SYMMETRY AtsSymmetry
INVARIANTS TypeOK SingleFlight StatusTruthful
CHECK_DEADLOCK FALSE
