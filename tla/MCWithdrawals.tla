--------------------------- MODULE MCWithdrawals ---------------------------
(***************************************************************************)
(* Small instances of Withdrawals: one withdrawal of one user.  The        *)
(* requests may be swapped: no property names one.                         *)
(***************************************************************************)
EXTENDS Withdrawals, TLC

CONSTANTS u1, w1, r1, r2

SameOwner == [w \in Withdrawal |-> u1]
OwnAmount == [w \in Withdrawal |-> w]

Requests == Permutations(Req)
=============================================================================
