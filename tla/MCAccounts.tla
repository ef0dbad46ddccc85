------------------------------ MODULE MCAccounts ------------------------------
(***************************************************************************)
(* Model values for Accounts: two owners and an account to come; requests  *)
(* and tickets are interchangeable.                                        *)
(***************************************************************************)
EXTENDS Accounts, TLC

Symmetry == Permutations(Requests)
=============================================================================
