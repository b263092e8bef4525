------------------------------ MODULE MCParts ------------------------------
(***************************************************************************)
(* TLC instance of the parts of the system that share no state with each   *)
(* other.  A behaviour picks one of them and explores it from all its      *)
(* initial states; the others rest in one of theirs.                       *)
(***************************************************************************)
EXTENDS Naturals, Sequences

CONSTANTS
    StubVectors,                                                 \* Entry64
    VGA_WIDTH, VGA_HEIGHT, Tab, Chars, MaxX,                     \* Console
    MaxValue, Nibbles,                                           \* NumberFormat
    TotalInodes, NMounts, FileTypes, Prefixes, Rests, NoRest,    \* FileSystem
    Handles, Fds, INVALID_FD, MaxPos,                            \* FileHandle
    Tasks, Frames, Coroutines, NoHandle, Vacant,                 \* ProcessTask
    StructWords, DescriptorWords, MaxDescriptors, MaxPage,
    EfiPageSize, AddrMod, EfiTypes,                              \* MemoryMap
    NEntries, RamPages, TotalPages, PagingAddrMod, TouchPages,   \* Paging
    PAGE_SIZE,                                                   \* Paging, Addresses
    Irqs, Exceptions, EoiHandlers, HaltHandlers, FaultVector,
    NoHandler,                                                   \* InterruptTable
    Places, Pids, INVALID_PID,                                   \* ProcessHandle
    Space, SizeSpaces, KERNEL_VIRTUAL_BASE, HalfSize, LowMod,
    MidMod, Segments, LayoutTop,                                 \* Addresses
    Activations, MaxCount,                                       \* ExceptionHandler
    MaxLookups                                                   \* CacheStatistics

VARIABLES
    part,
    routine, ip, regs, stack, entered, struck,
    screen, g_cursor_x, g_cursor_y, returned, last,
    value, printed, base,
    types, mount_points, garbage, created, asked, net,
    alive, fd_, position_, is_open_, opened, transferred,
    living, handle, frame, made_for, started, ended, undefined,
    firmware, memory_entries, i, done,
    ram, memory_bitmap, current_directory, tlb, mapped, halted,
    idt, handlers, interrupts_enabled, iflag, registering, cpu, in_service,
    target, damaged,
    exists, pid_, owns_process_, claims,
    addr, size_space, layout,
    enabled_, count_, at, calls, late,
    cache_hits, cache_misses, loads, total, ratio, missed

Entry     == INSTANCE Entry64
Text      == INSTANCE Console
Format    == INSTANCE NumberFormat
Files     == INSTANCE FileSystem
File      == INSTANCE FileHandle
Task      == INSTANCE ProcessTask
Map       == INSTANCE MemoryMap
Paged     == INSTANCE Paging WITH AddrMod <- PagingAddrMod, last <- mapped
Table     == INSTANCE InterruptTable
Process   == INSTANCE ProcessHandle
Address   == INSTANCE Addresses
Exception == INSTANCE ExceptionHandler
Cache     == INSTANCE CacheStatistics

ASSUME PartsAssumption ==
    /\ Entry!EntryAssumption /\ Text!ConsoleAssumption /\ Format!FormatAssumption
    /\ Files!FileSystemAssumption /\ File!HandleAssumption /\ Task!TaskAssumption
    /\ Map!MapAssumption /\ Paged!PageAssumption /\ Paged!PagingAssumption
    /\ Table!TableAssumption /\ Process!ProcessHandleAssumption
    /\ Address!AddressAssumption /\ Exception!ExceptionHandlerAssumption
    /\ Cache!CacheAssumption

\* Parts with several initial states have them only when it is their turn.
Init ==
    /\ part \in {"entry", "text", "format", "files", "file", "task", "map", "paging",
                "table", "process", "address", "exception", "cache"}
    /\ Text!Init /\ File!Init /\ Task!Init /\ Paged!Init /\ Table!Init
    /\ Process!Init /\ Exception!Init /\ Cache!Init
    /\ Entry!Init /\ (part # "entry" => routine = "_start")
    /\ Files!Init /\ (part # "files" => garbage = 0)
    /\ IF part = "format" THEN Format!Init
       ELSE value = 0 /\ printed = <<>> /\ base = 10
    /\ IF part = "map" THEN Map!Init
       ELSE firmware = <<>> /\ memory_entries = <<>> /\ i = 0 /\ done = FALSE
    /\ IF part = "address" THEN Address!Init
       ELSE addr = 0 /\ size_space = Space /\ layout = Address!NoLayout

entryVars     == <<routine, ip, regs, stack, entered, struck>>
textVars      == <<screen, g_cursor_x, g_cursor_y, returned, last>>
formatVars    == <<value, printed, base>>
filesVars     == <<types, mount_points, garbage, created, asked, net>>
fileVars      == <<alive, fd_, position_, is_open_, opened, transferred>>
taskVars      == <<living, handle, frame, made_for, started, ended, undefined>>
mapVars       == <<firmware, memory_entries, i, done>>
pagingVars    == <<ram, memory_bitmap, current_directory, tlb, mapped, halted>>
tableVars     == <<idt, handlers, interrupts_enabled, iflag, registering, cpu, in_service,
                   target, damaged>>
processVars   == <<exists, pid_, owns_process_, claims>>
addressVars   == <<addr, size_space, layout>>
exceptionVars == <<enabled_, count_, at, calls, late>>
cacheVars     == <<cache_hits, cache_misses, loads, total, ratio, missed>>

vars == <<part, entryVars, textVars, formatVars, filesVars, fileVars,
          taskVars, mapVars, pagingVars, tableVars, processVars,
          addressVars, exceptionVars, cacheVars>>

EntryNext ==
    /\ part = "entry" /\ Entry!Next
    /\ UNCHANGED <<part, textVars, formatVars, filesVars, fileVars, taskVars,
                   mapVars, pagingVars, tableVars,
                   processVars, addressVars, exceptionVars,
                   cacheVars>>

TextNext ==
    /\ part = "text" /\ Text!Next
    /\ UNCHANGED <<part, entryVars, formatVars, filesVars, fileVars, taskVars,
                   mapVars, pagingVars, tableVars,
                   processVars, addressVars, exceptionVars,
                   cacheVars>>

FormatNext ==
    /\ part = "format" /\ Format!Next
    /\ UNCHANGED <<part, entryVars, textVars, filesVars, fileVars, taskVars,
                   mapVars, pagingVars, tableVars,
                   processVars, addressVars, exceptionVars,
                   cacheVars>>

FilesNext ==
    /\ part = "files" /\ Files!Next
    /\ UNCHANGED <<part, entryVars, textVars, formatVars, fileVars, taskVars,
                   mapVars, pagingVars, tableVars,
                   processVars, addressVars, exceptionVars,
                   cacheVars>>

FileNext ==
    /\ part = "file" /\ File!Next
    /\ UNCHANGED <<part, entryVars, textVars, formatVars, filesVars, taskVars,
                   mapVars, pagingVars, tableVars,
                   processVars, addressVars, exceptionVars,
                   cacheVars>>

TaskNext ==
    /\ part = "task" /\ Task!Next
    /\ UNCHANGED <<part, entryVars, textVars, formatVars, filesVars, fileVars,
                   mapVars, pagingVars, tableVars,
                   processVars, addressVars, exceptionVars,
                   cacheVars>>

MapNext ==
    /\ part = "map" /\ Map!Next
    /\ UNCHANGED <<part, entryVars, textVars, formatVars, filesVars, fileVars,
                   taskVars, pagingVars, tableVars,
                   processVars, addressVars, exceptionVars,
                   cacheVars>>

PagedNext ==
    /\ part = "paging" /\ Paged!Next
    /\ UNCHANGED <<part, entryVars, textVars, formatVars, filesVars, fileVars,
                   taskVars, mapVars, tableVars, processVars,
                   addressVars, exceptionVars, cacheVars>>

TableNext ==
    /\ part = "table" /\ Table!Next
    /\ UNCHANGED <<part, entryVars, textVars, formatVars, filesVars, fileVars,
                   taskVars, mapVars, pagingVars, processVars,
                   addressVars, exceptionVars, cacheVars>>

ProcessNext ==
    /\ part = "process" /\ Process!Next
    /\ UNCHANGED <<part, entryVars, textVars, formatVars, filesVars, fileVars,
                   taskVars, mapVars, pagingVars, tableVars,
                   addressVars, exceptionVars, cacheVars>>

AddressNext ==
    /\ part = "address" /\ Address!Next
    /\ UNCHANGED <<part, entryVars, textVars, formatVars, filesVars, fileVars,
                   taskVars, mapVars, pagingVars, tableVars,
                   processVars, exceptionVars, cacheVars>>

ExceptionNext ==
    /\ part = "exception" /\ Exception!Next
    /\ UNCHANGED <<part, entryVars, textVars, formatVars, filesVars, fileVars,
                   taskVars, mapVars, pagingVars, tableVars,
                   processVars, addressVars, cacheVars>>

CacheNext ==
    /\ part = "cache" /\ Cache!Next
    /\ UNCHANGED <<part, entryVars, textVars, formatVars, filesVars, fileVars,
                   taskVars, mapVars, pagingVars, tableVars,
                   processVars, addressVars, exceptionVars>>

Next ==
    \/ EntryNext \/ TextNext \/ FormatNext \/ FilesNext \/ FileNext \/ TaskNext
    \/ MapNext \/ PagedNext \/ TableNext \/ ProcessNext \/ AddressNext
    \/ ExceptionNext \/ CacheNext

Spec == Init /\ [][Next]_vars

-----------------------------------------------------------------------------
(* Each property is that of the part's module; a part at rest is in an       *)
(* initial state that its own exploration has too.                           *)

(* A system call returns with the user's registers (syscall_entry).          *)
SyscallPreservesUser == part = "entry" => Entry!SyscallPreservesUser

(* Registers and stack are back when an exception is left, wherever it       *)
(* struck (common_exception_handler).                                        *)
ExceptionRestores == part = "entry" => Entry!ExceptionRestores

(* Output never runs over text (putchar and scroll_up).                      *)
BlankAhead == part = "text" => Text!BlankAhead

(* What print_dec and print_number print reads as the number.                *)
ReadsBack == part = "format" => Format!ReadsBack

(* Every file has an inode of its own (create_file, find_free_inode).        *)
InodePerFile == part = "files" => Files!InodePerFile

(* Mounts and unmounts add up (mount, unmount).                              *)
MountAccounting == part = "files" => Files!MountAccounting

(* FileHandle implements Ownership of the open descriptors, and the owner    *)
(* knows its position (FileHandle's moves, close and destructor).            *)
FilesOwned == File!FilesOwned

(* Every suspended coroutine has one ProcessTask, and handles dangle only    *)
(* once a coroutine has ended (its moves, its destructor, final_suspend).    *)
TasksOwned == part = "task" => Task!TasksOwned

(* ProcessHandle conserves the ownership of processes (its moves, release    *)
(* and reset).                                                               *)
ProcessesOwned == part = "process" => Process!ProcessesOwned

(* What the kernel takes for available is the firmware's conventional memory *)
(* (initialize_from_uefi, MemoryMapEntry::contains).                         *)
AvailableIsConventional == part = "map" => Map!AvailableIsConventional

(* The first 4 MB stay identity mapped until a page below them is mapped     *)
(* (init, map_page).                                                         *)
IdentityFirst4MB == part = "paging" => Paged!IdentityFirst4MB

(* map_page's store reaches the table the processor walks.                   *)
MapReachesTable == part = "paging" => Paged!MapReachesTable

(* map_page invalidates nothing: only a page that was cached when it was     *)
(* mapped again has a stale translation.                                     *)
StaleOnlyIfCached == Paged!StaleOnlyIfCached

(* register_handler and the handlers, whatever interrupts come between two   *)
(* stores: a gate no one is writing leads to its handler unless a handler    *)
(* returned into its registration, a mixed address is jumped to only while   *)
(* one is written or is damaged so, every interrupt is acknowledged.         *)
GatesSound ==
    part = "table" => /\ Table!GateMatchesHandlers
                      /\ Table!WildOnlyWhileRegistering
                      /\ Table!Acknowledged

(* page_align_down and page_align_up, the higher-half conversions, the split *)
(* of a handler's address over a gate and total_size compute what they name, *)
(* for every address and both widths of size_t.                              *)
AddressesExact == part = "address" => Address!AddressesExact

(* ExceptionHandler::handle counts every call and cache_hit_ratio is a ratio *)
(* of what it loaded, although other threads change the atomics between any  *)
(* two of their accesses.                                                    *)
AtomicsConsistent ==
    /\ part = "exception" => Exception!CountExact
    /\ part = "cache" => Cache!RatioSound

-----------------------------------------------------------------------------
(* kernel_main64 gets the boot configuration that the loader passed to       *)
(* _start in rdi.  Violated: it is pushed on one stack and popped off        *)
(* another.                                                                  *)
BootConfigPassed == Entry!BootConfigPassed
=============================================================================
