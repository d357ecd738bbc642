SPECIFICATION Spec
CONSTANTS
  j1 = j1
  a1 = a1
  NoAts = NoAts
  NoJob = NoJob
  Jobs = {j1}
  Users = {u1, u2}
  Ats = {a1}
  AtsOf <- OneAts
  Threads = {t1}
  Checks = {c1}
  DetectionEnabled = TRUE
  AutoMarking = TRUE
  Threshold = 1
  MaxHour = 1
  MaxMissed = 2
  MaxBumps = 2
INVARIANTS TypeOK ExpiryBudget ExpiryHasCause 
PROPERTIES ImplementsLedger
SYMMETRY Interchangeable
