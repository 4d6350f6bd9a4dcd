----------------------------- MODULE MCAccounts -----------------------------
(***************************************************************************)
(* Accounts for TLC.  Names mean nothing here, so they are symmetric.      *)
(***************************************************************************)
EXTENDS Accounts, TLC

NameSymmetry ==
    Permutations(Users) \cup Permutations(Requests) \cup Permutations(Links)
=============================================================================
