------------------------- MODULE MCInterruptGuards -------------------------
(* TLC instances of InterruptGuards: two handlers deep, two guards nested.   *)
EXTENDS InterruptGuards
=============================================================================
