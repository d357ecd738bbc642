SPECIFICATION FairSpec
CONSTANTS
  j1 = j1
  j2 = j2
  j3 = j3
  NoDrain = NoDrain
  NoRow = NoRow
  Jobs = {j1, j2}
  AtsOf <- AllGreenhouse
  SweepTicks = {sweep}
  SuspectTicks = {suspect}
  DropDrains = {drop}
  AdminSweeps = {admin}
  SweepBatch = 1
  SuspectBatch = 1
  DropBatch = 2
  GlobalLimit = 2
  HostLimit = 1
  Verdicts <- GoneOrBusy
  MaxDisturbances = 1
INVARIANTS TypeOK  CompletedCounted
PROPERTIES  RunSettles EveryActiveChecked
CHECK_DEADLOCK FALSE
