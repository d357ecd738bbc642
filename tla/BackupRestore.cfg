SPECIFICATION Spec
CONSTANTS
  o1 = o1
  o2 = o2
  w1 = w1
  w2 = w2
  x1 = x1
  x2 = x2
  n1 = n1
  n2 = n2
  n3 = n3
  Absent = Absent
  Ops = {o1}
  Writers = {w1}
  Background = {w1}
  Writes = {x1, x2}
  Names = {n1, n2}
  MaxGen = 1
  MaxCrashes = 1
SYMMETRY BackupSymmetry
INVARIANTS TypeOK 
CHECK_DEADLOCK FALSE
