------------------------------ MODULE MCAccounts ------------------------------
(* Accounts on small instances. *)
EXTENDS Accounts, TLC

CONSTANTS b1, b2, t1, t2, t3, u1, acme

AccountsSymmetry == Permutations(Browsers) \cup Permutations(Tokens)
=============================================================================
