---------------------------- MODULE PageAllocator ----------------------------
(***************************************************************************)
(* The physical page allocator of kernel/memory.cpp with its callers.      *)
(*                                                                         *)
(* Boot takes the first KernelPages pages for good before anyone else can  *)
(* call: Memory::init takes the page directory and its tables, and         *)
(* FileSystem::init the inode table and the block bitmap (module Paging    *)
(* shows what Memory::init really takes).  Afterwards callers allocate,    *)
(* treat a null pointer as "out of memory", and hand back the pointers     *)
(* they were given.                                                        *)
(***************************************************************************)
EXTENDS PageBitmap

CONSTANTS Clients,      \* the code that calls allocate_page and free_page
          KernelPages   \* pages that boot allocates and never frees

ASSUME KernelAssumption ==
    /\ KernelPages \in Nat /\ KernelPages <= TotalPages
    /\ TotalPages > 0 => KernelPages > 0   \* Memory::init takes page 0

VARIABLES memory_bitmap,  \* the pages whose bit is set
          held,           \* the pointers each caller was given and has not freed
          result          \* what the last allocate_page returned, and whether
                          \* a page was free when it was called

vars == <<memory_bitmap, held, result>>

\* Mutant: boot leaves page 0 free.
InitPageZeroFree ==
    /\ memory_bitmap = 1 .. KernelPages - 1
    /\ held = [c \in Clients |-> {}]
    /\ result = [ptr |-> nullptr, hadFree |-> FALSE]

Init ==
    /\ memory_bitmap = 0 .. KernelPages - 1
    /\ held = [c \in Clients |-> {}]
    /\ result = [ptr |-> nullptr, hadFree |-> FALSE]

AllocatePage(c) ==
    LET r == allocate_page(memory_bitmap) IN
    /\ memory_bitmap' = r.bitmap
    /\ held' = [held EXCEPT ![c] = IF r.ptr = nullptr THEN @ ELSE @ \cup {r.ptr}]
    /\ result' = [ptr |-> r.ptr, hadFree |-> FreePages(memory_bitmap) # {}]

\* The discipline of the callers: a pointer is freed once, by its holder.
FreePage(c, p) ==
    /\ p \in held[c]
    /\ memory_bitmap' = free_page(memory_bitmap, p)
    /\ held' = [held EXCEPT ![c] = @ \ {p}]
    /\ UNCHANGED result

Next ==
    \/ \E c \in Clients : AllocatePage(c)
    \/ \E c \in Clients : \E p \in held[c] : FreePage(c, p)

Spec == Init /\ [][Next]_vars

-----------------------------------------------------------------------------
Addr == {AddressOf(i) : i \in Page}

TypeOK ==
    /\ memory_bitmap \in SUBSET Page
    /\ held \in [Clients -> SUBSET Addr]
    /\ result \in [ptr : Addr \cup {nullptr}, hadFree : BOOLEAN]

(***************************************************************************)
(* A page handed out by allocate_page is marked used for as long as its    *)
(* holder keeps it, is not one of the pages the kernel took at boot, and   *)
(* is held by no one else: first-fit and free_page never hand one page to  *)
(* two callers.                                                            *)
(***************************************************************************)
NoSharedPage ==
    \A c \in Clients : \A p \in held[c] :
        /\ PageOf(p) \in memory_bitmap
        /\ PageOf(p) >= KernelPages
        /\ \A d \in Clients \ {c} : p \notin held[d]

(***************************************************************************)
(* No page leaks: the pages marked used are exactly the kernel's and the   *)
(* ones somebody holds, so a page that is freed can always be found again. *)
(***************************************************************************)
NoLeak ==
    \A i \in memory_bitmap :
        i < KernelPages \/ \E c \in Clients : AddressOf(i) \in held[c]

(***************************************************************************)
(* allocate_page answers nullptr, which its caller reads as "out of        *)
(* memory", only when no page was free.  Page 0 has address nullptr, so    *)
(* this rests on boot having taken page 0 before the first caller, and on  *)
(* nobody ever freeing it.                                                 *)
(***************************************************************************)
NullMeansOutOfMemory ==
    result.hadFree => result.ptr # nullptr

(***************************************************************************)
(* get_free_memory, the kernel's pages and the pages held add up to        *)
(* get_total_memory (all in size_t arithmetic): what monitoring reports is *)
(* what the callers have.                                                  *)
(***************************************************************************)
FreeMemoryAccounting ==
    (get_free_memory(memory_bitmap)
      + (KernelPages + Cardinality(UNION {held[c] : c \in Clients})) * PAGE_SIZE)
        % AddrMod = get_total_memory
-----------------------------------------------------------------------------
\* The allocator as a manager of the pages boot has left.
Owning == INSTANCE Ownership WITH
    Resources <- KernelPages .. TotalPages - 1,
    Holders   <- Clients,
    free      <- FreePages(memory_bitmap),
    held      <- [c \in Clients |-> {PageOf(p) : p \in held[c]}]

(***************************************************************************)
(* allocate_page and free_page implement Ownership: with its caller's      *)
(* bookkeeping every call takes one free page, drops one page of the       *)
(* caller, or changes nothing (no page left), and touches nobody else's.   *)
(***************************************************************************)
AllocatorOwns == Owning!Spec
=============================================================================
