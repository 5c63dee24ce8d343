-------------------------- MODULE MCEventListener --------------------------
(***************************************************************************)
(* Four logs in four blocks: two logs share the first block, block 2 is    *)
(* empty, the third log is one the listener ignores, and the fourth has a  *)
(* handler that updates nothing.                                           *)
(***************************************************************************)
EXTENDS EventListener

Blocks  == <<1, 1, 3, 4>>
Updates == <<1, 2, 0, 0>>
=============================================================================
