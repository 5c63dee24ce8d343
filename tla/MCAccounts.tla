----------------------------- MODULE MCAccounts -----------------------------
(***************************************************************************)
(* A small instance of Accounts.  Users, requests, wallets and codes may   *)
(* be swapped: no property names one.                                      *)
(***************************************************************************)
EXTENDS Accounts, TLC

Symmetries ==
  Permutations(User) \cup Permutations(Req) \cup Permutations(Wallet) \cup Permutations(Code)
=============================================================================
