------------------------- MODULE PageAllocatorProofs -------------------------
(***************************************************************************)
(* The invariants of PageAllocator, for every set of callers, every amount *)
(* of RAM and every number of kernel pages.                                *)
(*                                                                         *)
(* None of NoSharedPage, NoLeak and NullMeansOutOfMemory is inductive by   *)
(* itself: that nullptr means "out of memory" needs page 0 to stay taken,  *)
(* which needs that nobody holds a kernel page; that free_page never       *)
(* clears somebody else's bit needs that no page has two holders.  Their   *)
(* conjunction with KernelKept is.                                         *)
(***************************************************************************)
EXTENDS PageAllocator, PageBitmapProofs, FiniteSetTheorems

\* The pages that boot took stay taken.
KernelKept == 0 .. KernelPages - 1 \subseteq memory_bitmap

IndInv ==
    /\ TypeOK
    /\ KernelKept
    /\ NoSharedPage
    /\ NoLeak
    /\ NullMeansOutOfMemory

(***************************************************************************)
(* Memory::init leaves the allocator in a state of the invariant.          *)
(***************************************************************************)
LEMMA InitIndInv == Init => IndInv
<1> SUFFICES ASSUME Init PROVE IndInv
  OBVIOUS
<1> USE DEF Init
<1>1. TypeOK
  BY PageAssumption, KernelAssumption DEF TypeOK, Page, nullptr
<1>2. KernelKept
  BY DEF KernelKept
<1>3. NoSharedPage
  BY DEF NoSharedPage
<1>4. NoLeak
  BY KernelAssumption DEF NoLeak
<1>5. NullMeansOutOfMemory
  BY DEF NullMeansOutOfMemory
<1> QED
  BY <1>1, <1>2, <1>3, <1>4, <1>5 DEF IndInv

(***************************************************************************)
(* A held pointer is the address of its page.                              *)
(***************************************************************************)
LEMMA HeldPage ==
    ASSUME TypeOK, NEW c \in Clients, NEW p \in held[c]
    PROVE  PageOf(p) \in Page /\ p = AddressOf(PageOf(p))
<1>1. PICK i \in Page : p = AddressOf(i)
  BY DEF TypeOK, Addr
<1>2. PageOf(p) = i
  BY <1>1, AddressRoundTrip
<1> QED
  BY <1>1, <1>2

(***************************************************************************)
(* allocate_page keeps the invariant: it marks one page nobody has, or     *)
(* answers nullptr and changes nothing.                                    *)
(***************************************************************************)
LEMMA AllocatePageStep ==
    ASSUME IndInv, NEW c \in Clients, AllocatePage(c)
    PROVE  IndInv'
<1> USE DEF IndInv
<1>1. CASE FreePages(memory_bitmap) = {}
  <2>1. /\ memory_bitmap' = memory_bitmap
        /\ held' = [held EXCEPT ![c] = held[c]]
        /\ result' = [ptr |-> nullptr, hadFree |-> FALSE]
    BY <1>1, AllocateFails DEF AllocatePage
  <2>2. held' = held
    BY <2>1 DEF TypeOK
  <2>3. TypeOK'
    BY <2>1, <2>2 DEF TypeOK
  <2> QED
    BY <2>1, <2>2, <2>3
    DEF KernelKept, NoSharedPage, NoLeak, NullMeansOutOfMemory
<1>2. CASE FreePages(memory_bitmap) # {}
  <2>1. PICK i \in Page \ memory_bitmap :
           /\ allocate_page(memory_bitmap).ptr = AddressOf(i)
           /\ allocate_page(memory_bitmap).bitmap = memory_bitmap \cup {i}
    BY <1>2, AllocateTakesAFreePage
  <2>2. i >= KernelPages
    BY KernelAssumption, PageAssumption DEF KernelKept, Page
  <2>3. AddressOf(i) # nullptr
    BY <2>2, KernelAssumption, PageAssumption, AddressRoundTrip DEF Page
  <2>4. /\ memory_bitmap' = memory_bitmap \cup {i}
        /\ held' = [held EXCEPT ![c] = held[c] \cup {AddressOf(i)}]
        /\ result' = [ptr |-> AddressOf(i), hadFree |-> TRUE]
    BY <1>2, <2>1, <2>3 DEF AllocatePage
  <2>5. \A d \in Clients : held'[d] = IF d = c THEN held[d] \cup {AddressOf(i)}
                                               ELSE held[d]
    BY <2>4 DEF TypeOK
  <2>6. \A d \in Clients : AddressOf(i) \notin held[d]
    BY AddressRoundTrip DEF NoSharedPage
  <2>7. TypeOK'
    <3>1. AddressOf(i) \in Addr
      BY DEF Addr
    <3> QED
      BY <2>4, <3>1 DEF TypeOK
  <2>8. KernelKept'
    BY <2>4 DEF KernelKept
  <2>9. NoSharedPage'
    <3> SUFFICES ASSUME NEW d \in Clients, NEW p \in held'[d]
                 PROVE  /\ PageOf(p) \in memory_bitmap'
                        /\ PageOf(p) >= KernelPages
                        /\ \A e \in Clients \ {d} : p \notin held'[e]
      BY DEF NoSharedPage
    <3>1. CASE p = AddressOf(i)
      <4>1. d = c
        BY <2>5, <2>6, <3>1
      <4>2. PageOf(p) = i
        BY <3>1, AddressRoundTrip
      <4> QED
        BY <2>2, <2>4, <2>5, <2>6, <3>1, <4>1, <4>2
    <3>2. CASE p # AddressOf(i)
      <4>1. p \in held[d]
        BY <2>5, <3>2
      <4>2. /\ PageOf(p) \in memory_bitmap
            /\ PageOf(p) >= KernelPages
            /\ \A e \in Clients \ {d} : p \notin held[e]
        BY <4>1 DEF NoSharedPage
      <4> QED
        BY <2>4, <2>5, <3>2, <4>2
    <3> QED
      BY <3>1, <3>2
  <2>10. NoLeak'
    <3> SUFFICES ASSUME NEW j \in memory_bitmap'
                 PROVE  j < KernelPages \/ \E d \in Clients : AddressOf(j) \in held'[d]
      BY DEF NoLeak
    <3> QED
      BY <2>4, <2>5 DEF NoLeak
  <2>11. NullMeansOutOfMemory'
    BY <2>3, <2>4 DEF NullMeansOutOfMemory
  <2> QED
    BY <2>7, <2>8, <2>9, <2>10, <2>11
<1> QED
  BY <1>1, <1>2

(***************************************************************************)
(* free_page keeps the invariant: the one bit it clears is the bit of the  *)
(* page its caller gives back, and no other caller's pointer lies in it.   *)
(***************************************************************************)
LEMMA FreePageStep ==
    ASSUME IndInv, NEW c \in Clients, NEW p \in held[c], FreePage(c, p)
    PROVE  IndInv'
<1> USE DEF IndInv
<1>1. /\ memory_bitmap' = memory_bitmap \ {PageOf(p)}
      /\ held' = [held EXCEPT ![c] = held[c] \ {p}]
      /\ result' = result
  BY DEF FreePage, free_page
<1>2. \A d \in Clients : held'[d] = IF d = c THEN held[d] \ {p} ELSE held[d]
  BY <1>1 DEF TypeOK
<1>3. PageOf(p) \in Page /\ p = AddressOf(PageOf(p))
  BY HeldPage
<1>4. PageOf(p) >= KernelPages
  BY DEF NoSharedPage
<1>5. TypeOK'
  BY <1>1 DEF TypeOK
<1>6. KernelKept'
  BY <1>1, <1>3, <1>4, KernelAssumption DEF KernelKept, Page
<1>7. NoSharedPage'
  <2> SUFFICES ASSUME NEW d \in Clients, NEW q \in held'[d]
               PROVE  /\ PageOf(q) \in memory_bitmap'
                      /\ PageOf(q) >= KernelPages
                      /\ \A e \in Clients \ {d} : q \notin held'[e]
    BY DEF NoSharedPage
  <2>1. q \in held[d]
    BY <1>2
  <2>2. q # p
    <3>1. CASE d = c
      BY <1>2, <3>1
    <3>2. CASE d # c
      <4>1. p \notin held[d]
        BY <3>2 DEF NoSharedPage
      <4> QED
        BY <2>1, <4>1
    <3> QED
      BY <3>1, <3>2
  <2>3. PageOf(q) # PageOf(p)
    BY <1>3, <2>1, <2>2, HeldPage
  <2>4. /\ PageOf(q) \in memory_bitmap
        /\ PageOf(q) >= KernelPages
        /\ \A e \in Clients \ {d} : q \notin held[e]
    BY <2>1 DEF NoSharedPage
  <2> QED
    BY <1>1, <1>2, <2>3, <2>4
<1>8. NoLeak'
  <2> SUFFICES ASSUME NEW j \in memory_bitmap', ~(j < KernelPages)
               PROVE  \E d \in Clients : AddressOf(j) \in held'[d]
    BY DEF NoLeak
  <2>1. j \in memory_bitmap /\ j \in Page /\ j # PageOf(p)
    BY <1>1 DEF TypeOK
  <2>2. PICK d \in Clients : AddressOf(j) \in held[d]
    BY <2>1 DEF NoLeak
  <2>3. AddressOf(j) # p
    BY <1>3, <2>1, AddressInjective
  <2> QED
    BY <1>2, <2>2, <2>3
<1>9. NullMeansOutOfMemory'
  BY <1>1 DEF NullMeansOutOfMemory
<1> QED
  BY <1>5, <1>6, <1>7, <1>8, <1>9

(***************************************************************************)
(* IndInv holds in every state of the allocator.                           *)
(***************************************************************************)
THEOREM Invariance == Spec => []IndInv
<1>1. IndInv /\ [Next]_vars => IndInv'
  <2> SUFFICES ASSUME IndInv, [Next]_vars PROVE IndInv'
    OBVIOUS
  <2>1. ASSUME NEW c \in Clients, AllocatePage(c) PROVE IndInv'
    BY <2>1, AllocatePageStep
  <2>2. ASSUME NEW c \in Clients, NEW p \in held[c], FreePage(c, p) PROVE IndInv'
    BY <2>2, FreePageStep
  <2>3. CASE UNCHANGED vars
    BY <2>3 DEF vars, IndInv, TypeOK, KernelKept, NoSharedPage, NoLeak,
                NullMeansOutOfMemory
  <2> QED
    BY <2>1, <2>2, <2>3 DEF Next
<1> QED
  BY InitIndInv, <1>1, PTL DEF Spec

(***************************************************************************)
(* The variables of the allocator keep their types: in particular          *)
(* allocate_page never returns a pointer outside RAM.                      *)
(***************************************************************************)
THEOREM TypeCorrect == Spec => []TypeOK
<1>1. IndInv => TypeOK
  BY DEF IndInv
<1> QED
  BY <1>1, Invariance, PTL

(***************************************************************************)
(* allocate_page and free_page never hand one page to two callers, nor a   *)
(* page of the kernel to anybody.                                          *)
(***************************************************************************)
THEOREM NeverShared == Spec => []NoSharedPage
<1>1. IndInv => NoSharedPage
  BY DEF IndInv
<1> QED
  BY <1>1, Invariance, PTL

(***************************************************************************)
(* Every page whose bit is set is the kernel's or somebody's.              *)
(***************************************************************************)
THEOREM NeverLeaked == Spec => []NoLeak
<1>1. IndInv => NoLeak
  BY DEF IndInv
<1> QED
  BY <1>1, Invariance, PTL

(***************************************************************************)
(* nullptr from allocate_page means that no page was free, although page 0 *)
(* has the same address.                                                   *)
(***************************************************************************)
THEOREM NullIsOutOfMemory == Spec => []NullMeansOutOfMemory
<1>1. IndInv => NullMeansOutOfMemory
  BY DEF IndInv
<1> QED
  BY <1>1, Invariance, PTL

-----------------------------------------------------------------------------
(***************************************************************************)
(* Boot's first state maps to Ownership's: every page it left is free.     *)
(***************************************************************************)
LEMMA InitRefines == Init => Owning!Init
<1> SUFFICES ASSUME Init PROVE Owning!Init
  OBVIOUS
<1>1. FreePages(memory_bitmap) = KernelPages .. TotalPages - 1
  BY KernelAssumption, PageAssumption DEF Init, FreePages, Page
<1>2. [c \in Clients |-> {PageOf(p) : p \in held[c]}] = [c \in Clients |-> {}]
  BY DEF Init
<1> QED
  BY <1>1, <1>2 DEF Owning!Init

\* The pages of caller c, as the refinement mapping names them.
Mapped == [c \in Clients |-> {PageOf(p) : p \in held[c]}]

(***************************************************************************)
(* allocate_page takes one free page for its caller, or does nothing.      *)
(***************************************************************************)
LEMMA AllocateRefines ==
    ASSUME IndInv, NEW c \in Clients, AllocatePage(c)
    PROVE  Owning!Take(c) \/ UNCHANGED Owning!vars
<1> USE DEF IndInv
<1>1. CASE FreePages(memory_bitmap) = {}
  <2>1. memory_bitmap' = memory_bitmap /\ held' = [held EXCEPT ![c] = held[c]]
    BY <1>1, AllocateFails DEF AllocatePage
  <2>2. held' = held
    BY <2>1 DEF TypeOK
  <2> QED
    BY <2>1, <2>2 DEF Owning!vars
<1>2. CASE FreePages(memory_bitmap) # {}
  <2>1. PICK i \in Page \ memory_bitmap :
           /\ allocate_page(memory_bitmap).ptr = AddressOf(i)
           /\ allocate_page(memory_bitmap).bitmap = memory_bitmap \cup {i}
    BY <1>2, AllocateTakesAFreePage
  <2>2. AddressOf(i) # nullptr
    BY KernelAssumption, PageAssumption, AddressRoundTrip DEF KernelKept, Page
  <2>3. /\ memory_bitmap' = memory_bitmap \cup {i}
        /\ held' = [held EXCEPT ![c] = held[c] \cup {AddressOf(i)}]
    BY <1>2, <2>1, <2>2 DEF AllocatePage
  <2>4. \A d \in Clients : held'[d] = IF d = c THEN held[d] \cup {AddressOf(i)}
                                               ELSE held[d]
    BY <2>3 DEF TypeOK
  <2>5. Mapped' = [Mapped EXCEPT ![c] = (Mapped[c] \ {}) \cup {i}]
    <3>1. ASSUME NEW d \in Clients
          PROVE  Mapped'[d] = IF d = c THEN Mapped[c] \cup {i} ELSE Mapped[d]
      <4>1. PageOf(AddressOf(i)) = i
        BY AddressRoundTrip
      <4>2. {PageOf(p) : p \in held[c] \cup {AddressOf(i)}}
              = {PageOf(p) : p \in held[c]} \cup {i}
        BY <4>1
      <4> QED
        BY <2>4, <4>2 DEF Mapped
    <3> QED
      BY <3>1 DEF Mapped
  <2>6. /\ i \in FreePages(memory_bitmap)
        /\ FreePages(memory_bitmap)' = (FreePages(memory_bitmap) \ {i}) \cup {}
        /\ {} \in SUBSET Mapped[c]
    BY <2>3 DEF FreePages
  <2> QED
    BY <2>5, <2>6 DEF Owning!Take, Mapped
<1> QED
  BY <1>1, <1>2

(***************************************************************************)
(* free_page gives back exactly the page of the pointer it is handed.      *)
(***************************************************************************)
LEMMA FreeRefines ==
    ASSUME IndInv, NEW c \in Clients, NEW p \in held[c], FreePage(c, p)
    PROVE  Owning!Drop(c)
<1> USE DEF IndInv
<1> DEFINE i == PageOf(p)
<1>1. /\ memory_bitmap' = memory_bitmap \ {i}
      /\ held' = [held EXCEPT ![c] = held[c] \ {p}]
  BY DEF FreePage, free_page
<1>2. \A d \in Clients : held'[d] = IF d = c THEN held[d] \ {p} ELSE held[d]
  BY <1>1 DEF TypeOK
<1>3. i \in Page /\ p = AddressOf(i) /\ i \in memory_bitmap
  BY HeldPage DEF NoSharedPage
<1>4. \A q \in held[c] : q # p => PageOf(q) # i
  BY <1>3, HeldPage
<1>5. Mapped' = [Mapped EXCEPT ![c] = Mapped[c] \ {i}]
  <2>1. ASSUME NEW d \in Clients
        PROVE  Mapped'[d] = IF d = c THEN Mapped[c] \ {i} ELSE Mapped[d]
    BY <1>2, <1>4 DEF Mapped
  <2> QED
    BY <2>1 DEF Mapped
<1>6. FreePages(memory_bitmap)' = FreePages(memory_bitmap) \cup {i}
  BY <1>1, <1>3 DEF FreePages, TypeOK
<1>7. {i} \in SUBSET Mapped[c]
  BY DEF Mapped
<1> QED
  BY <1>5, <1>6, <1>7 DEF Owning!Drop, Mapped

(***************************************************************************)
(* The page allocator implements Ownership, for every set of callers and   *)
(* every amount of RAM: each call of allocate_page and free_page is a Take *)
(* or a Drop by its caller, or changes nothing.                            *)
(***************************************************************************)
THEOREM AllocatorImplements == Spec => AllocatorOwns
<1>1. IndInv /\ [Next]_vars => [Owning!Next]_(Owning!vars)
  <2> SUFFICES ASSUME IndInv, [Next]_vars PROVE Owning!Next \/ UNCHANGED Owning!vars
    OBVIOUS
  <2>1. ASSUME NEW c \in Clients, AllocatePage(c)
        PROVE  Owning!Next \/ UNCHANGED Owning!vars
    BY <2>1, AllocateRefines DEF Owning!Next
  <2>2. ASSUME NEW c \in Clients, NEW p \in held[c], FreePage(c, p)
        PROVE  Owning!Next
    BY <2>2, FreeRefines DEF Owning!Next
  <2>3. CASE UNCHANGED vars
    BY <2>3 DEF vars, Owning!vars
  <2> QED
    BY <2>1, <2>2, <2>3 DEF Next
<1> QED
  BY InitRefines, Invariance, <1>1, PTL DEF Spec, AllocatorOwns, Owning!Spec
-----------------------------------------------------------------------------
(***************************************************************************)
(* As many pointers are held as pages are marked used beyond the kernel's: *)
(* AddressOf is a bijection between the two.                               *)
(***************************************************************************)
LEMMA HeldIsUsed ==
    ASSUME IndInv
    PROVE  LET U == UNION {held[c] : c \in Clients}
               W == memory_bitmap \ (0 .. KernelPages - 1)
           IN  IsFiniteSet(W) => Cardinality(U) = Cardinality(W)
<1> USE DEF IndInv
<1> DEFINE U == UNION {held[c] : c \in Clients}
           W == memory_bitmap \ (0 .. KernelPages - 1)
           f == [i \in W |-> AddressOf(i)]
<1>1. ASSUME NEW i \in W PROVE i \in Page /\ AddressOf(i) \in U
  <2>1. i \in Page /\ ~(i < KernelPages)
    BY KernelAssumption DEF TypeOK, Page
  <2> QED
    BY <2>1 DEF NoLeak
<1>2. ASSUME NEW p \in U PROVE \E i \in W : AddressOf(i) = p
  <2>1. PICK c \in Clients : p \in held[c]
    OBVIOUS
  <2>2. PageOf(p) \in Page /\ p = AddressOf(PageOf(p))
    BY <2>1, HeldPage
  <2>3. PageOf(p) \in memory_bitmap /\ PageOf(p) >= KernelPages
    BY <2>1 DEF NoSharedPage
  <2>4. PageOf(p) \in W
    BY <2>2, <2>3, KernelAssumption DEF Page
  <2> QED
    BY <2>2, <2>4
<1>3. \A i, j \in W : AddressOf(i) = AddressOf(j) => i = j
  BY <1>1, AddressInjective
<1> HIDE DEF U, W
<1>4. f \in Injection(W, U)
  BY <1>1, <1>3 DEF Injection, IsInjective
<1>5. f \in Surjection(W, U)
  BY <1>1, <1>2 DEF Surjection
<1>6. ExistsBijection(W, U)
  BY <1>4, <1>5 DEF ExistsBijection, Bijection
<1> QED
  BY <1>6, FS_Bijection DEF U, W

(***************************************************************************)
(* The free pages, the kernel's and the held ones are all the pages.       *)
(***************************************************************************)
LEMMA PagesAddUp ==
    ASSUME IndInv
    PROVE  /\ Cardinality(FreePages(memory_bitmap)) \in Nat
           /\ Cardinality(UNION {held[c] : c \in Clients}) \in Nat
           /\ Cardinality(FreePages(memory_bitmap)) + KernelPages
                + Cardinality(UNION {held[c] : c \in Clients}) = TotalPages
<1> USE DEF IndInv
<1> DEFINE K == 0 .. KernelPages - 1
           W == memory_bitmap \ K
           F == FreePages(memory_bitmap)
           U == UNION {held[c] : c \in Clients}
<1>1. IsFiniteSet(Page) /\ Cardinality(Page) = TotalPages
  <2>1. 0 \in Int /\ TotalPages - 1 \in Int
    BY PageAssumption
  <2>2. /\ IsFiniteSet(0 .. TotalPages - 1)
        /\ Cardinality(0 .. TotalPages - 1)
             = IF 0 > TotalPages - 1 THEN 0 ELSE (TotalPages - 1) - 0 + 1
    BY <2>1, FS_Interval
  <2> QED
    BY <2>2, PageAssumption DEF Page
<1>2. IsFiniteSet(K) /\ Cardinality(K) = KernelPages
  <2>1. 0 \in Int /\ KernelPages - 1 \in Int
    BY KernelAssumption
  <2>2. /\ IsFiniteSet(0 .. KernelPages - 1)
        /\ Cardinality(0 .. KernelPages - 1)
             = IF 0 > KernelPages - 1 THEN 0 ELSE (KernelPages - 1) - 0 + 1
    BY <2>1, FS_Interval
  <2> QED
    BY <2>2, KernelAssumption
<1>3. memory_bitmap \subseteq Page /\ K \subseteq memory_bitmap
  BY DEF TypeOK, KernelKept
<1> HIDE DEF K
<1>4. IsFiniteSet(memory_bitmap)
  BY <1>1, <1>3, FS_Subset
<1>5. /\ IsFiniteSet(F)
      /\ Cardinality(F) = TotalPages - Cardinality(memory_bitmap)
  <2>1. Page \cap memory_bitmap = memory_bitmap
    BY <1>3
  <2> QED
    BY <1>1, <2>1, FS_Difference DEF FreePages
<1>6. /\ IsFiniteSet(W)
      /\ Cardinality(W) = Cardinality(memory_bitmap) - KernelPages
  <2>1. memory_bitmap \cap K = K
    BY <1>3
  <2> QED
    BY <1>2, <1>4, <2>1, FS_Difference
<1>7. Cardinality(U) = Cardinality(W)
  BY <1>6, HeldIsUsed DEF K
<1>8. /\ Cardinality(F) \in Nat /\ Cardinality(W) \in Nat
      /\ Cardinality(memory_bitmap) \in Nat
  BY <1>4, <1>5, <1>6, FS_CardinalityType
<1> HIDE DEF W, F, U
<1>9. Cardinality(F) + KernelPages + Cardinality(U) = TotalPages
  BY <1>5, <1>6, <1>7, <1>8, PageAssumption, KernelAssumption
<1> QED
  BY <1>7, <1>8, <1>9 DEF F, U

(***************************************************************************)
(* What get_free_memory reports, the kernel's pages and what the callers   *)
(* hold add up to get_total_memory, in size_t arithmetic that may wrap.    *)
(* The wrap happens in one case only: RAM fills the whole address space    *)
(* and every page of it is free.                                           *)
(***************************************************************************)
THEOREM FreeMemoryAddsUp == Spec => []FreeMemoryAccounting
<1>1. ASSUME IndInv PROVE FreeMemoryAccounting
  <2> DEFINE F == Cardinality(FreePages(memory_bitmap))
             R == KernelPages + Cardinality(UNION {held[c] : c \in Clients})
  <2>1. F \in Nat /\ R \in Nat /\ F + R = TotalPages
    BY <1>1, PagesAddUp, KernelAssumption
  <2>2. (((F * PAGE_SIZE) % AddrMod) + R * PAGE_SIZE) % AddrMod
          = (TotalPages * PAGE_SIZE) % AddrMod
    <3> HIDE DEF F, R
    <3>1. F * PAGE_SIZE + R * PAGE_SIZE = TotalPages * PAGE_SIZE
      BY <2>1, PageAssumption
    <3>2. F * PAGE_SIZE \in Nat /\ R * PAGE_SIZE \in Nat
      BY <2>1, PageAssumption
    <3>3. CASE F * PAGE_SIZE < AddrMod
      <4>1. (F * PAGE_SIZE) % AddrMod = F * PAGE_SIZE
        BY <3>2, <3>3, PageAssumption
      <4> QED
        BY <3>1, <4>1
    <3>4. CASE F * PAGE_SIZE = AddrMod
      <4>1. R * PAGE_SIZE = 0
        BY <3>1, <3>2, <3>4, PageAssumption
      <4>2. AddrMod % AddrMod = 0 /\ 0 % AddrMod = 0 /\ AddrMod + 0 = AddrMod
        BY PageAssumption
      <4> QED
        BY <3>1, <3>4, <4>1, <4>2
    <3> QED
      BY <3>1, <3>2, <3>3, <3>4, PageAssumption
  <2> QED
    BY <2>2 DEF FreeMemoryAccounting, get_free_memory, get_total_memory
<1> QED
  BY <1>1, Invariance, PTL

-----------------------------------------------------------------------------
(***************************************************************************)
(* What every manager that implements Ownership inherits, the allocator    *)
(* and the three kinds of handles alike, for every set of resources and of *)
(* holders.                                                                *)
(***************************************************************************)
CONSTANTS Resources, Holders

VARIABLES unheld, holdings

Manager == INSTANCE Ownership WITH free <- unheld, held <- holdings

ManagerInv == Manager!TypeOK /\ Manager!Partition

(***************************************************************************)
(* A step of a holder keeps every resource with one holder or free: Take   *)
(* moves a free one, Drop frees what is held, Hand frees what it covers.   *)
(***************************************************************************)
LEMMA StepPartition == ManagerInv /\ [Manager!Next]_Manager!vars => ManagerInv'
<1> SUFFICES ASSUME ManagerInv, [Manager!Next]_Manager!vars PROVE ManagerInv'
  OBVIOUS
<1> USE DEF ManagerInv, Manager!TypeOK
<1>1. ASSUME NEW h \in Holders, Manager!Take(h) PROVE ManagerInv'
  <2>1. PICK r \in unheld, dropped \in SUBSET holdings[h] :
           /\ holdings' = [holdings EXCEPT ![h] = (holdings[h] \ dropped) \cup {r}]
           /\ unheld' = (unheld \ {r}) \cup dropped
    BY <1>1 DEF Manager!Take
  <2>2. \A g \in Holders : holdings'[g] = IF g = h THEN (holdings[h] \ dropped) \cup {r}
                                                  ELSE holdings[g]
    BY <2>1
  <2>3. Manager!TypeOK'
    BY <2>1
  <2>4. Manager!Partition'
    BY <2>1, <2>2 DEF Manager!Partition
  <2> QED
    BY <2>3, <2>4
<1>2. ASSUME NEW h \in Holders, Manager!Drop(h) PROVE ManagerInv'
  <2>1. PICK dropped \in SUBSET holdings[h] :
           /\ holdings' = [holdings EXCEPT ![h] = holdings[h] \ dropped]
           /\ unheld' = unheld \cup dropped
    BY <1>2 DEF Manager!Drop
  <2>2. \A g \in Holders : holdings'[g] = IF g = h THEN holdings[h] \ dropped ELSE holdings[g]
    BY <2>1
  <2>3. Manager!TypeOK'
    BY <2>1
  <2>4. Manager!Partition'
    BY <2>1, <2>2 DEF Manager!Partition
  <2> QED
    BY <2>3, <2>4
<1>3. ASSUME NEW h \in Holders, NEW g \in Holders, Manager!Hand(g, h) PROVE ManagerInv'
  <2>1. /\ g # h
        /\ holdings' = [holdings EXCEPT ![h] = holdings[g], ![g] = {}]
        /\ unheld' = unheld \cup holdings[h]
    BY <1>3 DEF Manager!Hand
  <2>2. \A k \in Holders : holdings'[k] = IF k = g THEN {} ELSE
                                           IF k = h THEN holdings[g] ELSE holdings[k]
    BY <2>1
  <2>3. Manager!TypeOK'
    BY <2>1
  <2>4. Manager!Partition'
    BY <2>1, <2>2 DEF Manager!Partition
  <2> QED
    BY <2>3, <2>4
<1>4. CASE UNCHANGED Manager!vars
  BY <1>4 DEF Manager!vars, Manager!Partition
<1> QED
  BY <1>1, <1>2, <1>3, <1>4 DEF Manager!Next

(***************************************************************************)
(* No resource is ever shared and none is ever lost: pages, descriptors,   *)
(* coroutine frames and processes, as far as their managers implement      *)
(* Ownership.                                                              *)
(***************************************************************************)
THEOREM NeverSharedNorLost == Manager!Spec => []Manager!Partition
<1>1. Manager!Init => ManagerInv
  BY DEF Manager!Init, ManagerInv, Manager!TypeOK, Manager!Partition
<1>2. ManagerInv => Manager!Partition
  BY DEF ManagerInv
<1> QED
  BY <1>1, <1>2, StepPartition, PTL DEF Manager!Spec
=============================================================================
