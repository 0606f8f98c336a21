----------------------------- MODULE MCAccounts -----------------------------
(* Model values and symmetry for the TLC run of Accounts.                  *)
EXTENDS Accounts, TLC

CONSTANTS t1, t2, e1, e2, p1, p2

Symmetry ==
  Permutations(Threads) \cup Permutations(Emails) \cup Permutations(Passwords)
=============================================================================
