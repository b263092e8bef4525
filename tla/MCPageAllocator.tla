--------------------------- MODULE MCPageAllocator ---------------------------
(* TLC instance of PageAllocator: two callers and a few pages beyond the     *)
(* kernel's, in an address space the RAM fills completely (4 GB of RAM).     *)
EXTENDS PageAllocator
=============================================================================
