------------------------------ MODULE MCOrders ------------------------------
(***************************************************************************)
(* A small instance of Orders: one account number in each country, amounts *)
(* at both limits of the fixed fee, and rates that reach them.             *)
(***************************************************************************)
EXTENDS Orders, TLC

CONSTANTS k1, k2

Countries == [k \in Key |-> IF k = k1 THEN "PERU" ELSE "Bolivia"]
=============================================================================
