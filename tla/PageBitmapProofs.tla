-------------------------- MODULE PageBitmapProofs --------------------------
(***************************************************************************)
(* What the operators of PageBitmap promise, for every number of pages,    *)
(* page size and address width.  The proofs about the allocator and about  *)
(* the process table rest on these lemmas.                                 *)
(***************************************************************************)
EXTENDS PageBitmap, WellFoundedInduction, TLAPS

(***************************************************************************)
(* A non-empty set of naturals has a least element: the upward scans of    *)
(* allocate_page, create_process and schedule find what they look for.     *)
(***************************************************************************)
LEMMA LeastNatural ==
    ASSUME NEW S, S \subseteq Nat, S # {}
    PROVE  \E i \in S : \A j \in S : i <= j
<1> DEFINE Below == OpToRel(<, Nat)
<1>1. \E i \in S : \A j \in S : ~(<<j, i>> \in Below)
  <2>1. IsWellFoundedOn(Below, Nat)
    BY NatLessThanWellFounded
  <2> HIDE DEF Below
  <2> QED
    BY <2>1, WFMin
<1>2. \A i, j \in S : j < i => <<j, i>> \in Below
  BY DEF OpToRel
<1> HIDE DEF Below
<1>3. PICK i \in S : \A j \in S : ~(<<j, i>> \in Below)
  BY <1>1
<1>4. \A j \in S : ~(j < i)
  BY <1>2, <1>3
<1>5. \A j \in S : i <= j
  BY <1>4
<1> QED
  BY <1>5

(***************************************************************************)
(* allocate_page's scan stops at a page whose bit is clear.                *)
(***************************************************************************)
LEMMA FirstFreeIsFree ==
    ASSUME NEW bitmap, FreePages(bitmap) # {}
    PROVE  FirstFree(bitmap) \in FreePages(bitmap)
<1>1. FreePages(bitmap) \subseteq Nat
  BY DEF FreePages, Page
<1>2. \E i \in FreePages(bitmap) : \A j \in FreePages(bitmap) : i <= j
  BY <1>1, LeastNatural
<1> QED
  BY <1>2 DEF FirstFree

(***************************************************************************)
(* RAM fits the address space, so the pointer of a page does not wrap and  *)
(* free_page's division gives the page back.                               *)
(***************************************************************************)
LEMMA AddressRoundTrip ==
    ASSUME NEW i \in Page
    PROVE  /\ AddressOf(i) = i * PAGE_SIZE
           /\ AddressOf(i) \in Nat
           /\ PageOf(AddressOf(i)) = i
           /\ AddressOf(i) = nullptr <=> i = 0
<1>1. /\ i \in Nat /\ i < TotalPages
      /\ PAGE_SIZE \in Nat \ {0} /\ TotalPages \in Nat /\ AddrMod \in Nat \ {0}
      /\ TotalPages * PAGE_SIZE <= AddrMod
  BY PageAssumption DEF Page
<1>2. i * PAGE_SIZE < TotalPages * PAGE_SIZE
  BY <1>1
<1>3. i * PAGE_SIZE \in Nat /\ TotalPages * PAGE_SIZE \in Nat
  BY <1>1
<1>4. i * PAGE_SIZE < AddrMod
  BY <1>1, <1>2, <1>3
<1>5. AddressOf(i) = i * PAGE_SIZE
  BY <1>1, <1>3, <1>4 DEF AddressOf
<1>6. (i * PAGE_SIZE) \div PAGE_SIZE = i
  BY <1>1
<1>7. i * PAGE_SIZE = 0 <=> i = 0
  BY <1>1
<1> QED
  BY <1>3, <1>5, <1>6, <1>7 DEF PageOf, nullptr

(***************************************************************************)
(* Two pages have the same pointer only if they are the same page.         *)
(***************************************************************************)
LEMMA AddressInjective ==
    ASSUME NEW i \in Page, NEW j \in Page, AddressOf(i) = AddressOf(j)
    PROVE  i = j
BY AddressRoundTrip

(***************************************************************************)
(* What allocate_page does when a page is free.                            *)
(***************************************************************************)
LEMMA AllocateTakesAFreePage ==
    ASSUME NEW bitmap, FreePages(bitmap) # {}
    PROVE  \E i \in Page \ bitmap :
              /\ i = FirstFree(bitmap)
              /\ allocate_page(bitmap).ptr = AddressOf(i)
              /\ allocate_page(bitmap).bitmap = bitmap \cup {i}
<1>1. FirstFree(bitmap) \in Page \ bitmap
  BY FirstFreeIsFree DEF FreePages
<1> QED
  BY <1>1 DEF allocate_page

(***************************************************************************)
(* What allocate_page does when no page is free.                           *)
(***************************************************************************)
LEMMA AllocateFails ==
    ASSUME NEW bitmap, FreePages(bitmap) = {}
    PROVE  /\ allocate_page(bitmap).ptr = nullptr
           /\ allocate_page(bitmap).bitmap = bitmap
BY DEF allocate_page
=============================================================================
