--------------------------- MODULE MCBackupRestore ---------------------------
(* BackupRestore on small instances. *)
EXTENDS BackupRestore, TLC

CONSTANTS o1, o2, w1, w2, x1, x2, n1, n2, n3

BackupSymmetry == Permutations(Names) \cup Permutations(Writes) \cup Permutations(Ops)
=============================================================================
