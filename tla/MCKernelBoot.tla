---------------------------- MODULE MCKernelBoot ----------------------------
(* TLC instance of KernelBoot: a short period between dots, a loop counter that   *)
(* wraps early.                                                              *)
EXTENDS KernelBoot
=============================================================================
