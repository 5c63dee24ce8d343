--------------------------- MODULE EventDelivery ---------------------------
(***************************************************************************)
(* What the listener gives the domain: the events of the contract are      *)
(* taken in the order of the chain, each at most once, and only the one    *)
(* taken last can still have its effects carried out.  It does not promise *)
(* that every event is taken, nor that the effects of one that was taken   *)
(* are completed.                                                          *)
(***************************************************************************)
EXTENDS Naturals

CONSTANTS Log, Writes

VARIABLES
  taken,   \* the last event taken, 0 for none
  applied  \* applied[l]: how many of the updates of event l were carried out

Init == taken = 0 /\ applied = [l \in Log |-> 0]

Take(l) ==
  /\ l > taken
  /\ taken' = l
  /\ UNCHANGED applied

Apply(l) ==
  /\ l = taken
  /\ applied[l] < Writes[l]
  /\ applied' = [applied EXCEPT ![l] = @ + 1]
  /\ UNCHANGED taken

Next == \E l \in Log : Take(l) \/ Apply(l)

Spec == Init /\ [][Next]_<<taken, applied>>
=============================================================================
