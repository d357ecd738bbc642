SPECIFICATION FairSpec
CONSTANTS
  country = country
  v1 = v1
  v2 = v2
  w1 = w1
  r1 = r1
  r2 = r2
  NoQuery = NoQuery
  NoRow = NoRow
  Columns = {country}
  Values = {v1, v2}
  Words = {w1}
  MaxDay = 1
  Hours = 1
  Cap = 1
  Ids = {1, 2}
  Requests = {r1}
  Asked <- RecentSearch
  MaxCycles = 1
INVARIANTS TypeOK HitsAreCurrent FacetsForetell 
PROPERTY TotalSettles
CHECK_DEADLOCK FALSE
