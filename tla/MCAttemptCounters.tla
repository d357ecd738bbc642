------------------------- MODULE MCAttemptCounters -------------------------
(* AttemptCounters on small instances. *)
EXTENDS AttemptCounters, TLC

CONSTANTS c1, c2, e1, i1

OneIp == [c \in Clients |-> i1]
TwoPolicies == { [k \in Kinds |-> 2], [k \in Kinds |-> IF k = "pair" THEN 1 ELSE 2] }
ClientSymmetry == Permutations(Clients)
=============================================================================
