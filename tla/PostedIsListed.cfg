SPECIFICATION Spec
CONSTANTS
  country = country
  v1 = v1
  v2 = v2
  w1 = w1
  r1 = r1
  r2 = r2
  NoQuery = NoQuery
  NoRow = NoRow
  Columns = {country}
  Values = {v1, v2}
  Words = {w1}
  MaxDay = 1
  Hours = 2
  Cap = 2
  Ids = {1}
  Requests = {r1}
  Asked <- Recent
  MaxCycles = 1
INVARIANT PostedIsListed
CHECK_DEADLOCK FALSE
