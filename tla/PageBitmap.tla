----------------------------- MODULE PageBitmap -----------------------------
(***************************************************************************)
(* The physical page bitmap of kernel/memory.cpp as pure operators.        *)
(*                                                                         *)
(* memory_bitmap is an array of 32-bit words; bit (i % 32) of word (i / 32)*)
(* is page i, so the array is the SET of the pages whose bit is 1.         *)
(* Addresses are 32-bit: AddrMod is 2^32 in the build, and a pointer made  *)
(* from a page number wraps at it.  total_pages is a static that no        *)
(* function of the repository ever assigns (it stays 0), so it is a        *)
(* parameter here: TotalPages = 0 is the kernel as shipped.                *)
(***************************************************************************)
EXTENDS Naturals, FiniteSets

CONSTANTS TotalPages,   \* static size_t total_pages
          PAGE_SIZE,    \* 4096 in the build
          AddrMod       \* 2^32 in the build

ASSUME PageAssumption ==
    /\ TotalPages \in Nat
    /\ PAGE_SIZE \in Nat \ {0}
    /\ AddrMod \in Nat \ {0}
    /\ TotalPages * PAGE_SIZE <= AddrMod   \* RAM fits the address space

Page == 0 .. TotalPages - 1

\* What a null pointer is: the address 0, which is also the address of page 0.
nullptr == 0

FreePages(bitmap) == Page \ bitmap

\* The loops scan upwards and stop at the first clear bit.
FirstFree(bitmap) ==
    CHOOSE i \in FreePages(bitmap) : \A j \in FreePages(bitmap) : i <= j

AddressOf(i) == (i * PAGE_SIZE) % AddrMod
PageOf(ptr)  == ptr \div PAGE_SIZE

\* Mutant: the page is returned but its bit is not set.
allocate_page_unmarked(bitmap) ==
    IF FreePages(bitmap) = {}
      THEN [ptr |-> nullptr, bitmap |-> bitmap]
      ELSE [ptr |-> AddressOf(FirstFree(bitmap)), bitmap |-> bitmap]

\* allocate_page: the pointer returned and the bitmap left behind.
allocate_page(bitmap) ==
    IF FreePages(bitmap) = {}
      THEN [ptr |-> nullptr, bitmap |-> bitmap]
      ELSE [ptr    |-> AddressOf(FirstFree(bitmap)),
            bitmap |-> bitmap \cup {FirstFree(bitmap)}]

\* Mutant: the page number is rounded up to the next page.
free_page_rounds_up(bitmap, ptr) == bitmap \ {(ptr + PAGE_SIZE) \div PAGE_SIZE}

\* free_page checks neither the range nor the state of the page.
free_page(bitmap, ptr) == bitmap \ {PageOf(ptr)}

\* Both results are size_t products and wrap at 2^32.
get_total_memory == (TotalPages * PAGE_SIZE) % AddrMod

\* Mutant: the last page is not looked at.
get_free_memory_short(bitmap) ==
    (Cardinality(FreePages(bitmap) \ {TotalPages - 1}) * PAGE_SIZE) % AddrMod

get_free_memory(bitmap) == (Cardinality(FreePages(bitmap)) * PAGE_SIZE) % AddrMod
=============================================================================
