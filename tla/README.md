# A TLA+ model of operating_system_x86

The repository is a small x86 operating system with two lives: a 32-bit kernel
(`kernel.cpp` with `memory.cpp`, `process.cpp`, `interrupt.cpp`,
`filesystem.cpp`) and a 64-bit one that is booted by UEFI
(`uefi_bootloader.c`, `entry64.asm`, `kernel_main64.cpp`, and the C++20 classes
of `include/`). The modules here model both, check them with TLC on small
instances and prove with TLAPS, for every value of the constants, all the safety
properties that the runs check; the liveness properties are only model-checked.
Everything is translated from the code; where a comment, a header or
a test says something else, the difference is listed below.

## Parts of the system

| Part | State | Operations | Talks to |
|---|---|---|---|
| page allocator, `memory.cpp` 38-138 | `memory_bitmap`, `total_pages` | `allocate_page`, `free_page`, the two counts | called by paging, processes, file system |
| paging, `memory.cpp` 50-148 | directory and tables in physical memory, cr3, TLB | `init`, `map_page`, `switch_page_directory` | allocator; its own stores go through its own tables |
| memory map, `kernel_main64.cpp` 166-222, `memory.h` 75-96 | firmware descriptors, `memory_entries` | `initialize_from_uefi`, `contains`, `is_available` | what the boot loader left |
| process table, `process.cpp` | `processes`, `process_count`, `next_pid`, `current_process` | create, terminate, schedule, switch, `sys_exit`, `sys_fork` | allocator, `map_page` |
| class Process, `process.h` 361-507 | `state_`, `exit_code_`, `children_`, mutex, condition variable | `set_state`, `wait_for_state_change`, `add_child`, exit code | several threads |
| process handles, `process.h` 310-358 | `pid_`, `owns_process_` | construct, move, `release`, `reset`, destroy | a process manager that is only declared |
| coroutine tasks, `process.h` 751-852 | `handle`, coroutine frames | start, move, resume, destroy | the language run-time frees frames |
| interrupt table, `interrupt.cpp` | `idt`, `handlers`, `interrupts_enabled`, IF | `init`, `register_handler`, `enable`, `disable`, handlers | processor and interrupt controller |
| guards, `interrupt.h` 228-270 | saved flags on the stack, a mutex | construct and destroy `InterruptGuard`, `CriticalSection` | `enable`, `disable`, handlers on top |
| boot loader, `uefi_bootloader.c` | boot configuration, firmware resources | `efi_main` and its helpers | every call goes to the firmware and may fail |
| entry code, `entry64.asm` | registers, stack | `_start`, `syscall_entry`, exception stubs | `kernel_main64`, `handle_syscall`, `handle_exception` |
| main functions, `kernel_main64.cpp` 324-451, `kernel.cpp` 70-114 | `g_initialized`, `loop_count`, IF | four inits, tests, idle and scheduler loops, panic | all subsystems, the timer |
| consoles, `kernel_main64.cpp` 56-160, `kernel.cpp` 41-58 | screen, cursor | `putchar`, `scroll_up`, `clear_screen`, number printers | everybody prints |
| file system, `filesystem.cpp` | `inodes`, `mount_points` | create, mount, unmount | allocator |
| file handles, `filesystem.h` 333-376 | `fd_`, `position_`, `is_open_` | construct, move, close, destroy | open descriptors |
| address arithmetic, `memory.h` 109-122 and 247-266, `interrupt.h` 273-304, `process.h` 191-219 | none | alignment, higher half, gates, memory layout | whoever maps memory |
| exception objects, `interrupt.h` 312-340 | atomics `enabled_`, `count_` | `handle`, `enable`, `disable`, `count` | processors, faults in handlers |
| file system statistics, `filesystem.h` 278-311 | atomics | `cache_hit_ratio` | a cache that is only declared |

What is hard here: interrupts between any two instructions, in a kernel that
keeps its own copy of the interrupt flag; firmware calls that fail one by one
with resources held; first-fit searches at the limit of their tables; ownership
that is moved between objects; atomics that are read one by one; arithmetic at the edge of a screen, a buffer or
an address space. `PROJECT.json` lists each of these hazards at its line with
the properties that watch it.

## Modules

* `PageBitmap` has the pure operators of the allocator. The bitmap is the set of
  marked pages, so `FirstFree` is the least page outside it. `AddressOf` and
  `PageOf` are the conversions of lines 87 and 95, modulo `AddrMod`.
  `PageAllocator` puts clients on top; `Paging` uses the same operators for
  `init` and `map_page`; `ProcessTable` for `allocate_process_memory`.
* `Paging` keeps the entries of every physical page. Once paging is on, the
  pointers that `map_page` follows are virtual and are translated by the tables
  they are about to change. `Walk` and `tlb` are the processor's. The loop of
  `init` over the tables is the function `Turns`, one index per turn. `map_page`
  gets any address, as `process.cpp` 139 would pass it after `memory_size` has
  wrapped; `last.low` remembers that one below 4 MB was mapped.
* `ProcessTable` has one action per function; the page table is reduced to what
  `allocate_process_memory` maps. `wrapped` remembers whether `next_pid` has
  wrapped, `underflowed` whether `process_count` was counted down from 0, `owned`
  which pages were taken for which slot. The stack of the
  running process is a depth, enough to see whether a context was saved.
* `InterruptTable` has one action per store of `register_handler`, and delivers
  interrupts between them. A gate's address is two halves, each some handler's.
  The handlers are plain functions in the IDT and leave with RET: IF stays clear,
  an interrupted `register_handler` goes on with any vector and handler in its
  registers, or the interrupted code is astray, because CS and EFLAGS are still on
  its stack. `damaged` are the vectors that this may have spoilt.
* `InterruptGuards` runs guards in a stack of activations: the kernel, and
  handlers on top of it. `disable` and `enable` are two steps each, the
  instruction and the assignment to the flag. Here too handlers leave with RET: IF
  stays clear, and a constructor that is interrupted before it has stored
  `was_enabled` goes on with any value of it. Code that goes astray is not followed.
* `UefiBoot` is the control flow of `efi_main` with every firmware call as a
  choice. `held` is what must be given back; `key_current` whether the memory
  map has changed since it was read. `ExitBootServices` fails with an old key and
  may fail with a current one. `PrintBootInfo` has no effect. The kernel does not
  come back: `_start` ends in a loop around `hlt` (`entry64.asm` 53-56), so the
  lines after the call of the kernel are never reached.
* `Entry64` executes the three routines instruction by instruction over symbolic
  registers; an exception may strike at any instruction of `syscall_entry`, one at a
  time. `handle_exception` halts in this kernel; `common_exception_handler` goes on
  after the call all the same, so the model also lets it return, to say what the
  pops and IRETQ do.
* `KernelBoot` is both main functions with subsystems as calls that succeed or
  fail, a timer whose gate is absent or leads to `handle_timer`, and exceptions.
  `handle_timer` leaves with RET, and the code it returns to may be `lost`.
* `Console` is the screen of the 64-bit kernel; `NumberFormat` has the number
  printers of both kernels and reads the characters back to the number.
* `FileSystem`: inodes by their type, the mount table, paths as a kept prefix
  and a cut-off rest.
* `FileHandle`, `ProcessHandle`, `ProcessTask`, `ProcessObject`, `MemoryMap`: the
  classes of the headers that have a body, and the walk over the firmware's map.
  `ProcessHandle` checks no pid, as the code: the constructor and `reset` make an
  owner of whatever they are told, and `claims` counts what they were told. In
  `ProcessTask` a frame is memory, which is used again for the next coroutine when
  one has ended or was destroyed, also while a task still has its address.
  `add_child` shares `ProcessObject`'s mutex with `set_state`; its `push_back` is
  two steps, so that a missing lock would show.
* `Addresses` has the arithmetic of the headers as operators over a small address
  space. A `size_t` has as many values as an address (x86_64) or fewer (the i686
  compiler of the Makefile), because the alignment mask is a `size_t`.
  Alignment and the fields of a gate are masks, so the assumption says that page
  size, field sizes and the ranges of a `size_t` are powers of two.
* `ExceptionHandler` and `CacheStatistics` have one action per load, store and
  `fetch_add` of their atomics.

`Ownership` is the abstract specification of a manager: a resource is free or has
one holder; it is taken, dropped or handed over. Two modules implement it, each
with its refinement mapping:

| Module | resources | holders | free |
|---|---|---|---|
| `PageAllocator` (`AllocatorOwns`) | pages after the kernel's | clients | clear bits of the bitmap |
| `FileHandle` (`FilesOwned`) | descriptors | live, open handles | descriptors the kernel has closed |

Process handles and tasks do not: nothing keeps two handles from owning one
process, and a task may hold the address of a frame that is gone. What they do
promise are the invariants `ProcessesOwned` and `TasksOwned`.

Modules named `MC...` are the instances that TLC runs. `MCParts` holds the
thirteen parts that share no state with the others or with each other (`Entry64`,
`Console`, `NumberFormat`, `FileSystem`, `FileHandle`, `ProcessTask`, `MemoryMap`,
`Paging`, `InterruptTable`, `ProcessHandle`, `Addresses`, `ExceptionHandler`,
`CacheStatistics`): a behaviour of it picks one part, explores that part from each
of its initial states and leaves the others at rest, so the states add up instead
of multiplying. Its assumption is the conjunction of the assumptions of the parts.
Definitions whose comment begins with "Mutant" are slightly wrong versions of the
definition after them. They are not used; replacing the definition by its mutant
must break the property that watches it. A `TypeOK` that no run names documents
the types of its module's variables.

### Parameters and what the build has

Three parameters have a value in the source under which little works, and the
models keep them apart from it. `TotalPages` is `total_pages`, which is 0 and
never assigned; the runs give it memory that has been found. `ZeroState` is the state of a slot after `memset(0)`: `Created`
by `process.h`, and then no process can ever be created; the runs use
`Terminated`, with which the table works. The number of inodes is
0 in the source in the same way. `KernelPages` are the first pages, taken
before the allocator is used; page 0 must be among them because its address is
the null pointer.

## Runs

Passing runs and what their properties say:

* `page_allocator` (6 pages, 2 of them the kernel's, 2 clients, address space
  exactly as large as memory, so that the total in bytes wraps to 0): no page has
  two holders, none is lost, null means full, the counts agree, and the allocator
  implements `Ownership`.
* `process_table` (2 slots, 3 pages, pids and counts modulo 4 so that both
  wrap): `RunningIsCurrent`, `UniquePids`, `OwnPages`, `NoDanglingMapping`,
  `CountErrsLow`. About a million states.
* `interrupt_guards` (two nested handlers, two nested guards each):
  `GuardExcludesInterrupts`, `DisabledIsTrue`, `MutexHeldByCritical`.
* `uefi_boot` (three graphics modes, every combination of failures): `NoLeak`,
  `KernelEntry`, `BestModeChosen`, and `BootEnds`.
* `kernel_boot` (a dot every second round, a counter that wraps at 4):
  `SubsystemsUp`, `BootSettles`, and `TimerServed`.
* `process_object` (2 waiters, 2 setters, 1 spurious wake-up): `ExitCodeSeen`,
  `MonitorExcludes`, `ChildrenKept`, `NoLostWakeUp`.
* `parts`, which is `MCParts` (about 300000 states): the entry code with exceptions
  at every instruction, with and without an error code (`SyscallPreservesUser`,
  `ExceptionRestores`); the console (4 columns, 3 rows, tab of 2; `BlankAhead`);
  the number printers (0 to 1200; `ReadsBack`); the file system (3 inodes, 3 mounts,
  two prefixes; `InodePerFile`, `MountAccounting`); the memory map (all maps of at
  most 3 descriptors over 4 pages; `AvailableIsConventional`); paging (tables of 3
  entries, 7 pages of RAM, a TLB; `IdentityFirst4MB`, `MapReachesTable`,
  `StaleOnlyIfCached`); the interrupt table (one interrupt, one exception, two
  handlers; `GatesSound`); file handles, process handles and tasks (3 objects, 2
  resources each, 3 calls of coroutines; `FilesOwned`, `ProcessesOwned`,
  `TasksOwned`); addresses (64 of them, pages of 4, a `size_t` of 16 or 64 values;
  `AddressesExact`); three activations of an exception handler and a cache of four
  lookups (`AtomicsConsistent`).

Five runs end in a counterexample: they state what a line of the repository
says, and show that the code does otherwise. `PROJECT.json` quotes the lines.

* `uefi_stale_key`: the memory-map key is taken before the wait for a key press,
  whose calls may change the map; `ExitBootServices` refuses the key and the
  loader gives up, although no call failed before that.
* `process_round_robin`: `schedule` searches from slot 0 each time, and a ready
  process behind two others never runs.
* `process_context`: `switch_context` stores the registers of the process that
  leaves into the one that is entered.
* `guard_restores`: a guard inside a handler saves a flag that is not the
  processor's and leaves interrupts on where they were off.
* `start_boot_config`: `_start` pushes RDI on the loader's stack and pops it off
  its own; `kernel_main64` does not get the boot configuration.

### Divergences without a run

These were met while modelling. Each module keeps the formula, and adding it to
the cfg of the module's run (with the constants given, if any) makes TLC show the
counterexample.

| Formula | Module | What the code does |
|---|---|---|
| `IdentityFirst4MB`, `TotalPages = 0` | `Paging` | every allocation of `init` returns null; directory and tables lie on top of each other (`memory.cpp` 44) |
| `MapReachesAnyTable` | `Paging` | the last table lies at 4 MB, where the first page of a process is mapped; later stores to the table go to that page (114) |
| `MapVisible` | `Paging` | `map_page` invalidates no cached translation (121) |
| `CreateSucceeds`, `ZeroState = "Created"` | `ProcessTable` | zeroed slots are Created, the search wants Terminated (`process.cpp` 33) |
| `CountIsProcesses` | `ProcessTable` | an uncounted process after a failed allocation, two decrements for one process (50, 71) |
| `TerminatedForGood` | `ProcessTable` | `schedule` puts a terminated current process back to Ready (96) |
| `MemoryIsolation` | `ProcessTable` | all processes are mapped at the same addresses of one directory (139) |
| `JumpsToHandler` | `InterruptTable` | an interrupt between the stores of a gate goes to a mixed address (`interrupt.cpp` 58) |
| `EveryInterruptHandled` | `InterruptTable` | `init` enables interrupts over an empty table (49) |
| `AreEnabledIsTrue` | `InterruptTable` | after the first interrupt the handler's RET leaves IF clear and the flag set (78) |
| `NoSelfDeadlock`, `HandlersLock = TRUE` | `InterruptGuards` | the mutex is taken before interrupts are disabled (`interrupt.h` 261) |
| `GraphicsInfoSet` | `UefiBoot` | no graphics handle, status success, `graphics_info` null (`uefi_bootloader.c` 202) |
| `InterruptsOffDuringInit` | `KernelBoot` | interrupts are on from the second of four initialisations (`interrupt.cpp` 49) |
| `HaltUntilInterrupt` | `KernelBoot` | `handle_timer` leaves with RET and IF clear, the next `hlt` never ends (`interrupt.cpp` 106) |
| `SyscallArguments` | `Entry64` | `handle_syscall` is called with the user's registers in place (`entry64.asm` 241) |
| `IretFindsFrame` | `Entry64` | `add rsp, 8` removes the vector, nothing removes the error code, which IRETQ takes for RIP (206) |
| `FrameAsDeclared` | `Entry64` | `handle_exception` gets a pointer to r15 and the other registers; `InterruptFrame` (`interrupt.h` 146-168) begins with the hardware's frame (184) |
| `CharVisible` | `Console` | a character that wraps on the last line is stored below the screen and lost (`kernel_main64.cpp` 113) |
| `MountedCanBeUnmounted` | `FileSystem` | the stored path is truncated, the compared one is not (`filesystem.cpp` 150) |
| `InodePerFile`, `FileTypes = {0, 1}` | `FileSystem` | type 0 means free and is also the type of a regular file (48) |
| `SingleOwner` | `ProcessHandle` | a second owning handle for a pid can be constructed, and `reset` owns any pid (`process.h` 317, 354) |
| `NoUseAfterFree` | `ProcessTask` | a coroutine that ends frees its frame; the task still reads, resumes and destroys it, or the coroutine that was given its memory (`process.h` 760) |

Once `memory_size` has wrapped and a page below 4 MB is mapped, the tables may be
hidden behind that page, and the formulas about paging promise nothing.
Formulas of the thirteen parts need a definition in `MCParts` first, like that of
`BootConfigPassed`. `print_hex` stores the lowest digit first; `ReadsBack`
says so.

Read in the code and not stated as formulas: `has_capability` (`process.h` 469)
uses a capability, which is a mask, as the index of a bit; `children` (482)
returns the vector without the lock that `add_child` takes; after a failed
`create_process`, `sys_fork` asks `get_process(0)`, which finds a zeroed slot, and
returns 0 where `process.h` 633 promises a failure; `cache_hit_ratio` can exceed 1
while the cache counts, by as much as `RatioSound` says.

### Why the bounds are enough

Searches (pages, slots, inodes, mounts) have at least one element on each side
of the one in use, and every table is driven to full and to empty. Counters are
modulo a small number so that they wrap within the run. Three handles or tasks
make a chain of moves that returns to its beginning. Three coroutines in two
frames are enough for a frame to be used again under a task that still has its
address, with another task for the newcomer. One interrupt vector and one
exception vector make the two ways into a handler, and a registration that is
disturbed can go on in the other vector's gate. Three ready processes are
the fewest of which one can starve under a first-fit scheduler. Two nested
handlers show a handler that interrupts a handler; one more repeats it. The
console has a row that is neither first nor last and a width that a tab does not
divide into one step. The addresses include both canonical halves, the hole
between them and the last page, and a `size_t` that is as wide as an address and
one that is not. Three activations are enough for two to be inside `handle` when
a third begins.

### Fairness

* `UefiBoot`: weak fairness of the next step. A firmware call returns, and the
  wait has a three-second timer among its events.
* `ProcessTable`'s `FairSpec`: weak fairness of `schedule` alone, which the loop
  of `kernel_main` calls for ever. This is generous, since `switch_context` does
  not return to that loop, and the ready process starves even so.
* `KernelBoot`: the kernel's steps, the handler's return and the timer are fair:
  the processor executes instructions and the timer is periodic. Exceptions and
  init failures are not. `TimerServed` rests on the timer being taken whenever IF
  stays set long enough, which is what a periodic timer does.
* `ProcessObject`: a thread inside a function is scheduled, and a mutex that
  stays free is obtained. Nobody is forced to call `set_state`.

Deadlock is checked where the system cannot stop (`page_allocator`,
`interrupt_guards`); the others may end in a halt, a full table, a printed number
or a return to the firmware.

## Proofs

* `PageBitmapProofs`: facts about the operators for every memory size. The least
  element of a set of naturals exists (from well-foundedness), so `FirstFree` is
  free; `PageOf` inverts `AddressOf`, given that the address space holds all
  pages; `allocate_page` marks exactly the page it returns.
* `PageAllocatorProofs`: `TypeCorrect`, `NeverShared`, `NeverLeaked`,
  `NullIsOutOfMemory`, for any set of clients and any number of pages. The
  inductive invariant adds `KernelKept` (the kernel's pages stay marked):
  without it `allocate_page` could return page 0, whose address is null.
  `AllocatorImplements` is the refinement, `Spec => AllocatorOwns`: under the same
  invariant an allocation maps to `Take` (or a stutter, when memory is full) and a
  free to `Drop`; that addresses are injective makes the dropped page the one the
  pointer names.
  `FreeMemoryAddsUp` counts: the held pages are as many as the marked ones less
  the kernel's, since no page has two holders, and the sum is taken modulo the
  address space. `NeverSharedNorLost` is what every implementation of `Ownership`
  inherits, for any resources and holders; `Partition` is inductive with the
  types.
* `ProcessTableProofs`: `TypeCorrect`, `OnlyCurrentRuns`, `PidsUnique`,
  `PagesOwned`, `MappingsHold` and `CountNeverHigh`, for
  any table size, any pages and any callers. Besides the properties the
  inductive invariant has `PidsBehind` (every pid in the table is less than
  `next_pid` while it has not wrapped), without which a new pid could equal an
  old one, and `KernelKept`. The proof separates the table's half from the page
  half: lemmas say what taking a page does to the second, and each action is
  then the combination of the two. `CountNeverHigh` is
  inductive on top of that: the count is compared with the number of slots whose
  process is not terminated, and `CountStep` lists what a step does to both. A failed create takes a slot and
  counts nothing, `schedule` brings a terminated process back uncounted, and a
  second termination counts down again, so only "not more" holds.

* `InterruptGuardsProofs`: `GuardsExclude`, `DisabledTrue`, `MutexHeld`, for any
  nesting of handlers and guards and whether or not handlers take the mutex. A
  guard puts back what `was_enabled` recorded, so the invariant must know what
  that can be: it says what each program counter means for the guards of its
  activation, that an interrupted activation was interrupted where IF is set, and
  what IF and `interrupts_enabled` are for the running one. A handler that returns
  leaves IF clear, so only one direction of "the flag is IF" is true: when
  `are_enabled` says no, it is so (`DisabledTrue`).
* `ProcessObjectProofs`: `Exclusion`, `ExitCodeReachesWaiters`, `NoChildLost`,
  for any threads. `CodeFirst` follows the exit code from its store through
  the state to the waiter; `SizeFresh` says that the size a `push_back` has read
  is still the size of the vector.
* `UefiBootProofs`: `FilesHandlesEventGivenBack`, `KernelEntered`, `BestModeSet`, for
  any number of modes. The first is about the kernel's file, its volume and
  information buffer, the handle buffer and the timer's event, and that a memory map
  is held only with a kernel. It says nothing of `QueryMode`'s buffers, which are
  never freed, nor of kernel and map on `error_exit`, which stay held. `NoLeak`
  speaks of what is not held outside of a function; inside them `HeldAt` says for every resource at which calls it is held, and the error
  paths follow from that. `BestOfCorrect` is the loop over the modes: an
  induction over the index shows that it finds the first of the best.
* `KernelBootProofs`: `AllUpBeforeLoop`, for both main functions. `InitOrder` says
  at every call of an init which subsystems are up.
* `PartsProofs` has a section for each part of `MCParts`. `PartSteps` takes a step
  of the composition to a step or a stutter of each part, so that a section
  argues about its own part only.
  * `GatesStaySound`: `TableInv` says how far the gate under construction has got
    at each of the stores of a call that no handler has returned into, and that any
    other call writes to damaged vectors only.
  * `FileHandlesImplementOwnership`: the refinement; a descriptor has one owner.
  * `ProcessOwnershipConserved`: the owners of a process are as many as the claims
    made to it, a cardinality that each step changes by as much as `claims`.
  * `TasksOwnCoroutines`: no two tasks with a handle were made by the same call,
    and a task with a handle was made by one that has begun, so a new call cannot
    be taken for an old one when it gets its memory.
  * `AtomicsStayConsistent`: per activation, what it has loaded and added so far.
  * `OutputNeverOverwrites`: `BlankAhead` is inductive with the types; the work is
    in the division of the tab and in what `scroll_up` moves.
  * `FilesHaveInodes`, `MountsAddUp`: cardinalities of the used inodes and of the
    entries that hold a path, one more or one less with each step.
  * `ConventionalMemoryFound`: the walk over the descriptors is a loop whose
    invariant is that the entries so far cover the conventional memory so far.
  * `FirstPagesStayIdentity`, `StoresReachTables`, `OnlyCachedGoesStale`: an
    induction over the turns of `init` gives the tables it leaves. After that
    `PagedOn` says that the directory and all tables but the last are seen at
    their own addresses, in the tables and in the TLB, that their pages are never
    handed out again, and that what is seen at the address of the last table,
    which `map_page` may map elsewhere, is no other table. All of this ends with
    the first page that is mapped below 4 MB.
  * `SyscallReturnsToUser`, `ExceptionsRestored`: what the stack holds at
    every instruction, by the routine's program; during an exception, on top of
    what it held where the exception struck.
  * `AddressHelpersExact`: `a & (m - 1)` is `a % m` for a power of two, by induction
    on the halves of `m`; alignment, gates and attribute bytes follow from that.
    `total_size` is a sum over a set and becomes a count by adding ranges one by
    one.
  * `PrintedReadsBack`: by induction on the tenths of the number the buffer reads
    as what has been divided away; `print_hex` by induction on the number of
    digits.

Recursive functions (`BestOf`, `Turns`, `bitand`, the buffers of the number
printers) and the folds of the community modules are first shown to exist as
functions that satisfy their equation, then to compute what they should.
Induction over an operator is not available to the provers; the lemmas
`CountingUp`, `HalvingDown`, `TenthsDown` and `Doubling` state it with a set, and
follow from the well-foundedness of `<`.

Assumptions are the named ones of the modules: `PageAssumption` (page size and
address space), `KernelAssumption` (at least page 0 is the kernel's),
`ProcessAssumption` (sizes are positive and counters wrap somewhere),
`GuardsAssumption`, `ThreadAssumption` (kinds of threads are disjoint),
`BootAssumption`, `LoopAssumption`, and `PartsAssumption`, the conjunction of those
of the parts. Some theorems name a further hypothesis, without which they are
false: `FilesHaveInodes` that no file has type 0, which also means free, and those
about paging that there is a page for the directory and for each table
(`NEntries < TotalPages`), since `init` looks at no result (both are in the table of
divergences above); `OnlyCachedGoesStale` in addition that a table has more than two
entries (1024 in the build), because with two `map_page` caches the address of the
very table whose entry for that address it replaces.

Only model-checked: `BootEnds`, `BootSettles`, `TimerServed` and `NoLostWakeUp`. They
hold under fairness, and liveness and ENABLED are outside of what the prover handles.

## Not modelled

`boot.asm` (straight-line code without state), the constant tables of
`entry64.asm`, `FilePermissions` and other plain accessors and predicates of one
line, the screen of the 32-bit kernel (stores at a cursor that
never scrolls, and so leaves the screen after 25 lines), the allocator concepts and pools of `memory.h`, the VFS
interface and whatever else the headers only declare, colours and texts of the
consoles, build files. A `Read` that returns less than the file is not told
apart from a full one. `handle_syscall` is a single step.

## Plan

1. Done: allocator, paging, process table, interrupts, boot, entry code, main
   functions, the 64-bit console, number printers, file system, classes of the
   headers, address arithmetic; `Ownership` and its two implementations.
2. Done: every invariant and every action property of the passing runs proved,
   with the two refinements.
3. Left: type correctness of the parts as theorems of their own where a section
   has it only inside its invariant; weaker hypotheses for the theorems about
   paging, where `init` runs out of memory late enough; shorter proofs of the
   sections about paging and addresses.
