----------------------------- MODULE MCAccounts -----------------------------
(* Small instances of Accounts for TLC.                                     *)
EXTENDS Accounts, TLC

CONSTANTS r1, r2, e1, e2

Calm      == {}
Faults    == {"db_fails", "crash"}
Symmetric == Permutations(Requests) \cup Permutations(Emails)
=============================================================================
