SPECIFICATION Spec
CONSTANTS
  b1 = b1
  b2 = b2
  t1 = t1
  t2 = t2
  t3 = t3
  u1 = u1
  None = None
  Anonymous = Anonymous
  NoCount = NoCount
  Browsers = {b1, b2}
  Tokens = {t1, t2, t3}
  Users = {u1}
  Companies = {acme}
  acme = acme
  DayMax = 2
  CompanyMax = 1
SYMMETRY AccountsSymmetry
INVARIANTS TypeOK  ReportsBounded
CHECK_DEADLOCK FALSE
