--------------------------- MODULE MCProcessTable ---------------------------
(* TLC instances of ProcessTable.  The cfg files differ in the number of     *)
(* slots and pages and in ZeroState; the bounds are explained in README.md.  *)
EXTENDS ProcessTable
=============================================================================
