SPECIFICATION Spec
CONSTANTS
  c1 = c1
  c2 = c2
  e1 = e1
  i1 = i1
  NoRow = NoRow
  Clients = {c1, c2}
  IpOf <- OneIp
  Emails = {e1}
  Policies <- TwoPolicies
  MaxCount = 2
SYMMETRY ClientSymmetry
INVARIANTS TypeOK LockJustified
CHECK_DEADLOCK FALSE
