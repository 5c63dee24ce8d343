----------------------------- MODULE MintLedger -----------------------------
(***************************************************************************)
(* What the deposit pipeline promises its treasury, with no requests, Safe *)
(* or job in sight: a deposit is credited by a reviewer, then its amount   *)
(* is issued on the chain, once, and then it is settled, and none of this  *)
(* is ever taken back.                                                     *)
(***************************************************************************)
EXTENDS Naturals

CONSTANTS Deposit, Amount

VARIABLES credited, issued, settled, supply

Init == credited = {} /\ issued = {} /\ settled = {} /\ supply = 0

Credit(d) ==
  /\ d \notin credited
  /\ credited' = credited \cup {d}
  /\ UNCHANGED <<issued, settled, supply>>

Issue(d) ==
  /\ d \in credited \ issued
  /\ issued' = issued \cup {d}
  /\ supply' = supply + Amount[d]
  /\ UNCHANGED <<credited, settled>>

Settle(d) ==
  /\ d \in issued \ settled
  /\ settled' = settled \cup {d}
  /\ UNCHANGED <<credited, issued, supply>>

Next == \E d \in Deposit : Credit(d) \/ Issue(d) \/ Settle(d)

Spec == Init /\ [][Next]_<<credited, issued, settled, supply>>
=============================================================================
