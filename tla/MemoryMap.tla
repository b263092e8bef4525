----------------------------- MODULE MemoryMap -----------------------------
(***************************************************************************)
(* KernelMemory::initialize_from_uefi of kernel/kernel_main64.cpp and      *)
(* MemoryMapEntry of include/memory.h: the kernel walks the memory map     *)
(* the firmware left behind and turns its descriptors into its own         *)
(* entries, which is_available and contains are asked about later.         *)
(*                                                                         *)
(* The map is kept as the firmware lays it out, in 8-byte words: one       *)
(* descriptor every DescriptorWords words, of which the kernel's struct    *)
(* knows the first StructWords (40 bytes; firmware commonly uses 48).      *)
(***************************************************************************)
EXTENDS Naturals, Sequences

CONSTANTS
    StructWords,      \* words of UEFIMemoryDescriptor: 5
    DescriptorWords,  \* words of config->descriptor_size
    MaxDescriptors,   \* bound on the descriptors of the map
    MaxPage,          \* bound on the page numbers the map describes
    EfiPageSize,      \* 4096 in the build
    AddrMod,          \* 2^64 in the build: addresses and lengths wrap here
    EfiTypes          \* memory types the firmware uses

Conventional     == 7
BootServicesCode == 3
BootServicesData == 4
Reserved         == 0

MapAssumption ==
    /\ StructWords \in Nat /\ StructWords >= 5
    /\ DescriptorWords \in Nat /\ DescriptorWords >= StructWords
    /\ MaxDescriptors \in Nat /\ MaxPage \in Nat
    /\ EfiPageSize \in Nat \ {0}
    /\ AddrMod \in Nat /\ (MaxPage + 1) * EfiPageSize < AddrMod
    /\ EfiTypes \in SUBSET (0 .. 15)

\* What the firmware says: pages first .. first + pages - 1 are of this type.
Descriptor == [type : EfiTypes, first : 0 .. MaxPage, pages : 1 .. MaxPage + 1]

WellFormed(m) ==
    /\ \A i \in 1 .. Len(m) : m[i].first + m[i].pages <= MaxPage + 1
    /\ \A i \in 2 .. Len(m) : m[i - 1].first + m[i - 1].pages <= m[i].first

VARIABLES
    firmware,        \* the descriptors
    memory_entries,
    i,               \* the loop's index
    done             \* Memory::init has been given the entries

vars == <<firmware, memory_entries, i, done>>

\* The firmware's array in memory: word w of it, and junk between and behind
\* the descriptors.
Junk == 7
Word(w) ==
    LET d == w \div DescriptorWords
        o == w % DescriptorWords
    IN  IF d >= Len(firmware) THEN Junk
        ELSE CASE o = 0 -> firmware[d + 1].type
               [] o = 1 -> firmware[d + 1].first * EfiPageSize
               [] o = 2 -> 0
               [] o = 3 -> firmware[d + 1].pages
               [] OTHER -> Junk

memory_map_size == Len(firmware) * DescriptorWords

entry_count == memory_map_size \div DescriptorWords

Init ==
    /\ firmware \in UNION {[1 .. n -> Descriptor] : n \in 0 .. MaxDescriptors}
    /\ WellFormed(firmware)
    /\ memory_entries = <<>>
    /\ i = 0
    /\ done = FALSE

-----------------------------------------------------------------------------
\* The switch over desc->type.
KernelType(type) ==
    IF type \in {Conventional, BootServicesCode, BootServicesData} THEN type ELSE Reserved

\* Mutant: the array is walked with the size of the kernel's own struct.
DescStruct(n) == n * StructWords

\* uefi_map + i * descriptor_size
Desc(n) == n * DescriptorWords

Converted(n) ==
    [base_addr |-> Word(Desc(n) + 1),
     length    |-> (Word(Desc(n) + 3) * EfiPageSize) % AddrMod,
     type      |-> KernelType(Word(Desc(n)))]

Convert ==
    /\ i < entry_count
    /\ memory_entries' = Append(memory_entries, Converted(i))
    /\ i' = i + 1
    /\ UNCHANGED <<firmware, done>>

MemoryInit ==
    /\ i = entry_count /\ ~done
    /\ done' = TRUE
    /\ UNCHANGED <<firmware, memory_entries, i>>

Next == Convert \/ MemoryInit
Spec == Init /\ [][Next]_vars

-----------------------------------------------------------------------------
end_addr(e)       == (e.base_addr + e.length) % AddrMod
is_available(e)   == e.type = Conventional

contains(e, addr) == addr >= e.base_addr /\ addr < end_addr(e)

-----------------------------------------------------------------------------
TypeOK ==
    /\ firmware \in Seq(Descriptor)
    /\ memory_entries \in Seq([base_addr : 0 .. AddrMod - 1, length : 0 .. AddrMod - 1,
                               type : EfiTypes \cup {Reserved}])
    /\ Len(memory_entries) = i
    /\ i \in 0 .. Len(firmware)
    /\ done \in BOOLEAN

\* Address addr is in the range of descriptor d.
Covers(d, addr) == addr \div EfiPageSize \in d.first .. d.first + d.pages - 1

(***************************************************************************)
(* What the kernel takes for available is exactly what the firmware        *)
(* described as conventional memory, address by address: nothing the       *)
(* firmware or the loader still owns is handed out, nothing usable is      *)
(* lost.  It holds of the part of the map walked so far, too.              *)
(***************************************************************************)
AvailableIsConventional ==
    \A addr \in 0 .. AddrMod - 1 :
        (\E n \in 1 .. Len(memory_entries) :
            is_available(memory_entries[n]) /\ contains(memory_entries[n], addr))
        <=> (\E n \in 1 .. i : firmware[n].type = Conventional /\ Covers(firmware[n], addr))
=============================================================================
