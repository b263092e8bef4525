----------------------------- MODULE Addresses -----------------------------
(***************************************************************************)
(* The address arithmetic of the headers: page alignment and the higher    *)
(* half of include/memory.h, the split of a handler's address over an      *)
(* IDTEntry of include/interrupt.h, MemoryLayout of include/process.h.     *)
(*                                                                         *)
(* Addresses are uint64_t: Space is 2^64 in the build.  PAGE_SIZE is a     *)
(* size_t, so the mask ~(PAGE_SIZE - 1) is only as wide as a size_t: 2^64  *)
(* values on x86_64, 2^32 with the i686 compiler of the Makefile.          *)
(***************************************************************************)
EXTENDS Naturals, FiniteSets, FiniteSetsExt

CONSTANTS Space,                \* number of addresses
          SizeSpaces,           \* numbers of size_t values
          PAGE_SIZE,
          KERNEL_VIRTUAL_BASE,
          HalfSize,             \* 0x0000800000000000: size of a canonical half
          LowMod, MidMod,       \* 2^16: values of offset_low, offset_mid
          Segments,             \* the five address ranges of a process
          LayoutTop             \* bound on the addresses of a layout

\* No odd number but 1 divides it.
PowerOfTwo(m) == m \in Nat \ {0} /\ \A d \in 2 .. m : m % d = 0 => d % 2 = 0

AddressAssumption ==
    /\ {Space, HalfSize} \subseteq Nat \ {0} /\ HalfSize <= Space
    /\ \A m \in {PAGE_SIZE, LowMod, MidMod} \cup SizeSpaces : PowerOfTwo(m)
    /\ \A n \in SizeSpaces : Space % n = 0 /\ n % PAGE_SIZE = 0
    /\ Space % (LowMod * MidMod) = 0
    /\ KERNEL_VIRTUAL_BASE \in Space - HalfSize .. Space - 1
    /\ IsFiniteSet(Segments) /\ LayoutTop \in Nat /\ LayoutTop < Space

VARIABLES addr,        \* the address the helpers are applied to
          size_space,  \* how many values the build's size_t has
          layout       \* a MemoryLayout: start and end of every range

vars == <<addr, size_space, layout>>

NoLayout == [s \in Segments |-> <<0, 0>>]

Init ==
    /\ addr \in 0 .. Space - 1
    /\ size_space \in SizeSpaces
    /\ layout = NoLayout

\* The fields of a MemoryLayout are filled in.
SetLayout ==
    /\ addr = 0 /\ layout = NoLayout
    /\ layout' \in [Segments -> (0 .. LayoutTop) \X (0 .. LayoutTop)]
    /\ UNCHANGED <<addr, size_space>>

Next == SetLayout

-----------------------------------------------------------------------------
\* The bitwise operators of C on unsigned numbers.
bitand[a \in Nat] ==
    [b \in Nat |-> IF a = 0 THEN 0
                   ELSE (a % 2) * (b % 2) + 2 * bitand[a \div 2][b \div 2]]

a & b == bitand[a][b]
a | b == a + b - bitand[a][b]

is_page_aligned(a) == (a & (PAGE_SIZE - 1)) = 0

\* ~(PAGE_SIZE - 1) as a size_t, widened to an address.
PageMask == size_space - PAGE_SIZE

page_align_down(a) == a & PageMask

\* Mutant: an address that is aligned already moves to the next page.
page_align_up_always(a) == ((a + PAGE_SIZE) % Space) & PageMask

page_align_up(a) == ((a + PAGE_SIZE - 1) % Space) & PageMask

is_canonical(a) == a <= HalfSize - 1 \/ a >= Space - HalfSize

physical_to_virtual(a)        == (a + KERNEL_VIRTUAL_BASE) % Space
virtual_to_physical_direct(a) == (a + Space - KERNEL_VIRTUAL_BASE) % Space

\* IDTEntry::set_gate and get_handler_address.
set_gate(a, type, dpl, present) ==
    [offset_low  |-> a & (LowMod - 1),
     offset_mid  |-> (a \div LowMod) & (MidMod - 1),
     offset_high |-> a \div (LowMod * MidMod),
     type_attr   |-> (type | (dpl * 32)) | (IF present THEN 128 ELSE 0)]

get_handler_address(gate) ==
    (gate.offset_low | (gate.offset_mid * LowMod)) | (gate.offset_high * LowMod * MidMod)

GateTypes == {5, 14, 15}    \* TaskGate, InterruptGate, TrapGate

\* MemoryLayout::is_valid_address and total_size, which is a size_t.
is_valid_address(a) == \E s \in Segments : layout[s][1] <= a /\ a < layout[s][2]

total_size ==
    MapThenSumSet(LAMBDA s : (layout[s][2] + Space - layout[s][1]) % Space, Segments) % size_space

-----------------------------------------------------------------------------
PageStart(n) == n * PAGE_SIZE

(***************************************************************************)
(* With a size_t as wide as an address, page_align_down is the page an     *)
(* address lies in, and page_align_up the next page boundary, which past   *)
(* the start of the last page is 0.  With a narrower size_t that is so as  *)
(* long as the boundary is below 2^32.                                     *)
(***************************************************************************)
AlignExact ==
    LET page == addr \div PAGE_SIZE
        next == PageStart(IF addr = PageStart(page) THEN page ELSE page + 1)
    IN  /\ is_page_aligned(addr) <=> \E n \in 0 .. addr : addr = PageStart(n)
        /\ addr < size_space => page_align_down(addr) = PageStart(page)
        /\ next < size_space => page_align_up(addr) = next
        /\ next = Space => page_align_up(addr) = 0

(***************************************************************************)
(* The two conversions are inverse to each other for every address;        *)
(* physical_to_virtual stays in the kernel's half, in order, for exactly   *)
(* the physical memory that fits above KERNEL_VIRTUAL_BASE, and is         *)
(* canonical there: beyond it (2 GB) the sum wraps into the user's half.   *)
(***************************************************************************)
HigherHalfExact ==
    /\ virtual_to_physical_direct(physical_to_virtual(addr)) = addr
    /\ physical_to_virtual(virtual_to_physical_direct(addr)) = addr
    /\ (physical_to_virtual(addr) >= KERNEL_VIRTUAL_BASE)
         <=> addr < Space - KERNEL_VIRTUAL_BASE
    /\ addr >= KERNEL_VIRTUAL_BASE => is_canonical(addr)

(***************************************************************************)
(* A gate gives back the handler's address, whatever it is, and its        *)
(* attribute byte the type, the privilege level and the present bit.       *)
(***************************************************************************)
GateExact ==
    \A type \in GateTypes, dpl \in 0 .. 3, present \in BOOLEAN :
        LET gate == set_gate(addr, type, dpl, present) IN
        /\ get_handler_address(gate) = addr
        /\ gate.type_attr % 16 = type
        /\ (gate.type_attr \div 32) % 4 = dpl
        /\ (gate.type_attr >= 128) = present

(***************************************************************************)
(* total_size is the number of addresses that is_valid_address accepts if  *)
(* no range overlaps another or ends before it starts, and it fits a       *)
(* size_t.                                                                 *)
(***************************************************************************)
LayoutExact ==
    LET Span(s) == layout[s][1] .. layout[s][2] - 1 IN
    (/\ \A s \in Segments : layout[s][1] <= layout[s][2]
     /\ \A s, t \in Segments : s # t => Span(s) \cap Span(t) = {})
        => total_size = Cardinality({a \in 0 .. Space - 1 : is_valid_address(a)}) % size_space

(***************************************************************************)
(* The helpers of the headers compute what they name for every address, at *)
(* the ends of the address space and with both widths of size_t.           *)
(***************************************************************************)
AddressesExact == AlignExact /\ HigherHalfExact /\ GateExact /\ LayoutExact
=============================================================================
