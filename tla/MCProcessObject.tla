--------------------------- MODULE MCProcessObject ---------------------------
(* TLC instance of ProcessObject: two waiters, two setters, one spurious     *)
(* wake-up.                                                                  *)
EXTENDS ProcessObject
=============================================================================
