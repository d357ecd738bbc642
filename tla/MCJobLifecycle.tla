--------------------------- MODULE MCJobLifecycle ---------------------------
(* Small instances of the job lifecycle. *)
EXTENDS JobLifecycle, TLC

CONSTANTS j1, a1

OneAts      == [j \in Jobs |-> a1]

Interchangeable == Permutations(Threads) \cup Permutations(Users)
=============================================================================
