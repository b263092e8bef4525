------------------------------- MODULE Paging -------------------------------
(***************************************************************************)
(* The page directory and page tables of kernel/memory.cpp: init,          *)
(* map_page and switch_page_directory, with the processor's page walk and  *)
(* its TLB (external hardware, modelled as the code relies on it).         *)
(*                                                                         *)
(* A table has NEntries entries (1024 in the build), so 4 MB is NEntries   *)
(* pages and the address space NEntries^2.  RAM holds tables: a page is    *)
(* the function of its entries.  Once paging is on, the pointers map_page  *)
(* follows are virtual, so its own loads and stores are translated.        *)
(***************************************************************************)
EXTENDS PageBitmap

CONSTANTS NEntries,     \* entries of a table: 1024
          RamPages,     \* physical pages that exist
          TouchPages    \* virtual pages that running code touches

PagingAssumption ==
    /\ NEntries \in Nat /\ NEntries > 1
    /\ RamPages \in Nat \ {0}
    /\ TotalPages <= RamPages /\ RamPages <= NEntries * NEntries
    /\ TouchPages \subseteq 0 .. NEntries * NEntries - 1

VPages  == NEntries * NEntries
VPage   == 0 .. VPages - 1
Index   == 0 .. NEntries - 1
RamPage == 0 .. RamPages - 1
NoFrame == VPages                \* a page fault

Entry == [present : BOOLEAN, frame : VPage]

VARIABLES ram,            \* the entries stored in every physical page
          memory_bitmap,
          current_directory,  \* page of the directory, also in cr3; NoFrame
                              \* until paging is on
          tlb,            \* translations the processor may still hold
          last,           \* ghost: the last map_page, its page and address, and
                          \* whether any has mapped an address below 4 MB
          halted          \* page fault: handle_page_fault never returns

vars == <<ram, memory_bitmap, current_directory, tlb, last, halted>>

Present(f) == [present |-> TRUE, frame |-> f]

Init ==
    /\ ram = [p \in RamPage |-> [j \in Index |-> [present |-> FALSE, frame |-> 0]]]
    /\ memory_bitmap = {}
    /\ current_directory = NoFrame
    /\ tlb = {}
    /\ last = [page |-> 0, at |-> NoFrame, low |-> FALSE]
    /\ halted = FALSE

-----------------------------------------------------------------------------
\* A store outside RAM is lost.
Store(r, p, j, e) == IF p \in RamPage THEN [r EXCEPT ![p][j] = e] ELSE r

(***************************************************************************)
(* One turn of init's loop: take a page for table i (its pointer is not    *)
(* checked, so without memory it is page 0), fill it, enter it.            *)
(***************************************************************************)
InitTable(st, dir, i) ==
    LET a == allocate_page(st.bitmap)
        t == PageOf(a.ptr)
        filled == [st.ram EXCEPT ![t] = [j \in Index |-> Present(i * NEntries + j)]]
    IN  [ram |-> Store(filled, dir, i, Present(t)), bitmap |-> a.bitmap]

\* The entries of the directory are cleared first: they keep their frame.
Cleared(st, dir) ==
    LET row == [j \in Index |-> [present |-> FALSE, frame |-> st.ram[dir][j].frame]]
    IN  [ram |-> [st.ram EXCEPT ![dir] = row], bitmap |-> st.bitmap]

\* RAM and bitmap after each number of turns.
Turns(st, dir) ==
    LET after[i \in 0 .. NEntries] ==
          IF i = 0 THEN Cleared(st, dir) ELSE InitTable(after[i - 1], dir, i - 1)
    IN  after

InitTables(st, dir) == Turns(st, dir)[NEntries]

\* init, and switch_page_directory at its end: cr3 is loaded, the TLB is empty.
MemoryInit ==
    /\ current_directory = NoFrame
    /\ LET a   == allocate_page(memory_bitmap)
           dir == PageOf(a.ptr)
           st  == InitTables([ram |-> ram, bitmap |-> a.bitmap], dir)
       IN  /\ ram' = st.ram
           /\ memory_bitmap' = st.bitmap
           /\ current_directory' = dir
    /\ tlb' = {}
    /\ UNCHANGED <<last, halted>>

-----------------------------------------------------------------------------
\* The page walk of the processor on the tables as they are in RAM.
Walk(r, dir, v) ==
    LET d == r[dir][v \div NEntries]
        e == r[d.frame][v % NEntries]
    IN  IF d.present /\ d.frame \in RamPage /\ e.present THEN e.frame ELSE NoFrame

\* An access may use the walk or any translation the TLB still holds.
Translations(v) ==
    {Walk(ram, current_directory, v)} \cup {f \in VPage : <<v, f>> \in tlb}

\* Running code touches v: the processor may keep the translation.
Touch(v) ==
    /\ current_directory # NoFrame /\ ~halted
    /\ LET f == Walk(ram, current_directory, v)
       IN  IF f = NoFrame THEN halted' = TRUE /\ tlb' = tlb
                          ELSE halted' = FALSE /\ tlb' = tlb \cup {<<v, f>>}
    /\ UNCHANGED <<ram, memory_bitmap, current_directory, last>>

Mapped(page, v) == [page |-> page, at |-> v, low |-> last.low \/ v < NEntries]

\* Mutant: table index and offset swapped.
MapPageSwapped(page, v, bitmap) ==
    LET de == ram[current_directory][v % NEntries] IN
    /\ memory_bitmap' = bitmap
    /\ ram' = Store(ram, de.frame, v \div NEntries, Present(page))
    /\ last' = Mapped(page, v)
    /\ UNCHANGED <<current_directory, tlb, halted>>

\* Mutant: the entry goes into the directory instead of the table.
MapPageInDirectory(page, v, bitmap) ==
    /\ memory_bitmap' = bitmap
    /\ ram' = Store(ram, current_directory, v \div NEntries, Present(page))
    /\ last' = Mapped(page, v)
    /\ UNCHANGED <<current_directory, tlb, halted>>

(***************************************************************************)
(* map_page(page, v): the directory is read at its virtual address, then   *)
(* the table is written at its virtual address (the frame number the       *)
(* directory holds).  No TLB entry is invalidated.  An absent table is     *)
(* created from an allocated page that is not cleared.                     *)
(***************************************************************************)
MapPage(page, v, bitmap) ==
    \E d \in Translations(current_directory) :
      LET de  == ram[d][v \div NEntries]
          a   == allocate_page(bitmap)
          tbl == IF de.present THEN de.frame ELSE PageOf(a.ptr)
          r   == IF de.present THEN ram
                 ELSE Store(ram, d, v \div NEntries, Present(tbl))
      IN  /\ d \in RamPage
          /\ memory_bitmap' = IF de.present THEN bitmap ELSE a.bitmap
          /\ \E t \in Translations(tbl) :
                /\ halted' = (t = NoFrame)
                /\ ram' = Store(r, t, v % NEntries, Present(page))
          /\ tlb' = tlb \cup {<<w, Walk(ram, current_directory, w)>> :
                               w \in {x \in {current_directory, tbl} :
                                        Walk(ram, current_directory, x) # NoFrame}}
          /\ last' = Mapped(page, v)
          /\ UNCHANGED current_directory

(***************************************************************************)
(* A caller maps a fresh page, as allocate_process_memory does, at any     *)
(* address: a process's memory_size starts at 4 MB and, grown for long     *)
(* enough, wraps to 0.                                                     *)
(***************************************************************************)
MapNewPage(v) ==
    LET a == allocate_page(memory_bitmap) IN
    /\ current_directory # NoFrame /\ ~halted
    /\ a.ptr # nullptr
    /\ MapPage(PageOf(a.ptr), v, a.bitmap)

Next ==
    \/ MemoryInit
    \/ \E v \in TouchPages : Touch(v)
    \/ \E v \in VPage : MapNewPage(v)

Spec == Init /\ [][Next]_vars

-----------------------------------------------------------------------------
Initialised == current_directory # NoFrame

TypeOK ==
    /\ ram \in [RamPage -> [Index -> Entry]]
    /\ memory_bitmap \in SUBSET Page
    /\ current_directory \in RamPage \cup {NoFrame}
    /\ tlb \in SUBSET (VPage \X VPage)
    /\ last \in [page : VPage, at : VPage \cup {NoFrame}, low : BOOLEAN]
    /\ halted \in BOOLEAN

(***************************************************************************)
(* "Set up identity mapping for first 4MB": after init every page of the   *)
(* first 4 MB translates to itself, in the tables and in the TLB, and no   *)
(* map_page disturbs it until one is asked for an address in that range.   *)
(***************************************************************************)
IdentityFirst4MB ==
    Initialised /\ ~last.low => \A v \in Index : Translations(v) = {v}

(***************************************************************************)
(* map_page takes effect in the tables for every address below the last    *)
(* table's range: its store reaches the table the processor walks, as long *)
(* as nothing was mapped over the first 4 MB, where the tables lie.        *)
(***************************************************************************)
MapReachesTable ==
    Initialised /\ ~last.low /\ last.at < VPages - NEntries
        => Walk(ram, current_directory, last.at) = last.page

Cached(v) == \E f \in VPage : <<v, f>> \in tlb
Stale(v)  == \E f \in VPage : <<v, f>> \in tlb /\ f # Walk(ram, current_directory, v)

(***************************************************************************)
(* map_page invalidates nothing, so a cached translation can go stale: the *)
(* only one that ever does is that of the very page being mapped, and only *)
(* if it was cached before.  A caller that maps pages nobody has touched,  *)
(* as process memory is, sees its mapping at once and breaks no other, as  *)
(* long as nothing is mapped over the first 4 MB.                          *)
(***************************************************************************)
StaleOnlyIfCached ==
    [][Initialised /\ ~last'.low => \A v \in VPage :
          (Stale(v))' /\ ~Stale(v) => last'.at = v /\ Cached(v)]_vars

(***************************************************************************)
(* "Map a physical address to a virtual address", for every address.       *)
(* Violated: table 1023 lies at physical 4 MB, which is the first virtual  *)
(* address a process's page is mapped at, and from then on map_page's      *)
(* stores to that table go to the process's page.                          *)
(***************************************************************************)
MapReachesAnyTable ==
    Initialised /\ ~last.low /\ last.at # NoFrame
        => Walk(ram, current_directory, last.at) = last.page

(***************************************************************************)
(* The processor uses the new mapping as soon as map_page returns.         *)
(* Violated: no TLB entry is invalidated.                                  *)
(***************************************************************************)
MapVisible ==
    Initialised /\ ~last.low /\ last.at \in NEntries .. VPages - NEntries - 1
        => Translations(last.at) = {last.page}
=============================================================================
