----------------------------- MODULE MCAccounts -----------------------------
(***************************************************************************)
(* Small instances of the user accounts.                                   *)
(***************************************************************************)
EXTENDS UserAccounts, TLC

\* Accounts with the nicknames they start with, and requests, are interchangeable.
Symmetry == Permutations(Accounts) \cup Permutations(Requests)
=============================================================================
