----------------------------- MODULE MCDeposits -----------------------------
(***************************************************************************)
(* Small instances of Deposits.  All deposits belong to the same user and  *)
(* have equal amounts where that matters: the listener matches a mint to   *)
(* a deposit by the user's wallet, and equal contents give equal hashes.   *)
(***************************************************************************)
EXTENDS Deposits, TLC

CONSTANTS u1, w1, w2, r1, r2

SameOwner   == [d \in Deposit |-> u1]
EqualAmount == [d \in Deposit |-> 1]
MixedAmount == [d \in Deposit |-> IF d = 3 THEN 2 ELSE 1]
FirstIsPen  == {1}

Requests == Permutations(Req)
=============================================================================
