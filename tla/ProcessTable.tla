---------------------------- MODULE ProcessTable ----------------------------
(***************************************************************************)
(* kernel/process.cpp: the process table, the scheduler, the context       *)
(* switch and the process system calls, on top of the page allocator.      *)
(*                                                                         *)
(* Addresses that process.cpp computes are multiples of 4 MB, so a size or *)
(* a virtual address is counted in 4 MB units (MemUnits = 1024 of them in  *)
(* the build, where they wrap).  The stack pointer and the frame pointer   *)
(* are always saved and loaded together and are one value here: the unit   *)
(* of the stack top and the number of pushes below it.                     *)
(*                                                                         *)
(* ZeroState is the state a slot has after init's memset to 0.  With the   *)
(* enum of include/process.h it is Created; create_process only works when *)
(* it is Terminated.  What ProcessTableProofs proves holds for every       *)
(* ZeroState except Running.                                               *)
(***************************************************************************)
EXTENDS PageBitmap

CONSTANTS MAX_PROCESSES,   \* 256 in the build
          CountMod,        \* size_t process_count wraps here
          PidMod,          \* uint32_t next_pid wraps here
          MemUnits,        \* 4 MB units of the address space
          MaxDepth,        \* bound on the pushes of a process
          Entries,         \* entry points of processes
          NoEntry,         \* the null entry point of sys_fork
          CallerPids,      \* pids that callers pass (a stale one included)
          Sizes,           \* sizes that callers ask allocate_process_memory for
          KernelPages,     \* pages that boot took before Process::init
          ZeroState

States == {"Created", "Ready", "Running", "Blocked", "Suspended", "Zombie", "Terminated"}

ASSUME ProcessAssumption ==
    /\ MAX_PROCESSES \in Nat \ {0}
    /\ CountMod \in Nat /\ CountMod > MAX_PROCESSES
    /\ PidMod \in Nat /\ PidMod > 1
    /\ MemUnits \in Nat /\ MemUnits > 2
    /\ MaxDepth \in Nat
    /\ NoEntry \notin Entries
    /\ CallerPids \subseteq 0 .. PidMod - 1
    /\ Sizes \subseteq Nat
    /\ KernelPages \in Nat /\ KernelPages <= TotalPages
    /\ TotalPages > 0 => KernelPages > 0   \* Memory::init takes page 0
    /\ ZeroState \in States \ {"Running"}

Slot   == 0 .. MAX_PROCESSES - 1
NoSlot == MAX_PROCESSES          \* current_process == nullptr
NoCall == PidMod                 \* create_process has not been called yet
Unit   == 0 .. MemUnits - 1
Stack  == Unit \X (0 .. MaxDepth)

VARIABLES
    processes,        \* the table
    process_count,
    next_pid,
    current_process,
    memory_bitmap,    \* Memory's bitmap
    directory,        \* the one page directory: the page each 4 MB boundary
                      \* was last mapped to by map_page
    cpu,              \* esp and eip of the processor
    owned,            \* ghost: the pages allocated for the process in a slot
    ret,              \* what the last create_process returned
    wrapped,          \* ghost: next_pid has wrapped past 2^32
    underflowed       \* ghost: process_count was counted down from 0

vars == <<processes, process_count, next_pid, current_process, memory_bitmap,
          directory, cpu, owned, ret, wrapped, underflowed>>

Identity == TotalPages    \* not a page: the boundary still maps to itself

\* The loops scan the table upwards and stop at the first match.
FirstSlot(S) == IF S = {} THEN NoSlot ELSE CHOOSE s \in S : \A t \in S : s <= t

\* get_process compares pids only: a zeroed slot answers to pid 0.
get_process(table, pid) == FirstSlot({s \in Slot : table[s].pid = pid})

\* init: memset leaves every field zero.
ZeroSlot == [pid |-> 0, state |-> ZeroState, eip |-> NoEntry,
             esp |-> <<0, 0>>, memory_size |-> 0]

Init ==
    /\ processes = [s \in Slot |-> ZeroSlot]
    /\ process_count = 0
    /\ next_pid = 1
    /\ current_process = NoSlot
    /\ memory_bitmap = 0 .. KernelPages - 1
    /\ directory = [u \in Unit |-> Identity]
    /\ cpu = [esp |-> <<0, 0>>, eip |-> NoEntry]
    /\ owned = [s \in Slot |-> {}]
    /\ ret = NoCall
    /\ wrapped = FALSE
    /\ underflowed = FALSE

-----------------------------------------------------------------------------
(***************************************************************************)
(* allocate_process_memory on a table: it takes ONE page whatever size is, *)
(* maps it at the address memory_size of the process, in the directory     *)
(* that all processes share, and grows memory_size.                        *)
(***************************************************************************)
CanAllocate(table, pid) ==
    /\ get_process(table, pid) # NoSlot
    /\ allocate_page(memory_bitmap).ptr # nullptr

GrownTable(table, pid, size) ==
    [table EXCEPT ![get_process(table, pid)].memory_size = (@ + size) % MemUnits]

\* Mutant: the page is mapped but its bit is not set.
TakePageUnmarked(table, pid) ==
    LET s == get_process(table, pid)
        a == allocate_page(memory_bitmap)
    IN  /\ memory_bitmap' = memory_bitmap
        /\ directory' = [directory EXCEPT ![table[s].memory_size] = PageOf(a.ptr)]

TakePage(table, pid) ==
    LET s == get_process(table, pid)
        a == allocate_page(memory_bitmap)
    IN  /\ memory_bitmap' = a.bitmap
        /\ directory' = [directory EXCEPT ![table[s].memory_size] = PageOf(a.ptr)]

AllocateProcessMemory(pid, size) ==
    /\ CanAllocate(processes, pid)
    /\ TakePage(processes, pid)
    /\ processes' = GrownTable(processes, pid, size)
    /\ owned' = [owned EXCEPT ![get_process(processes, pid)] =
                    @ \cup {FirstFree(memory_bitmap)}]
    /\ UNCHANGED <<process_count, next_pid, current_process, cpu, ret, wrapped, underflowed>>

-----------------------------------------------------------------------------
(***************************************************************************)
(* create_process: refused, failed for lack of memory (the slot stays      *)
(* Ready under its new pid and is not counted), or done.                   *)
(***************************************************************************)
\* Mutant: any slot that is not running counts as free.
FreeSlotIdle == FirstSlot({s \in Slot : processes[s].state # "Running"})

FreeSlot == FirstSlot({s \in Slot : processes[s].state = "Terminated"})

CreateRefused ==
    /\ process_count >= MAX_PROCESSES \/ FreeSlot = NoSlot
    /\ ret' = 0
    /\ UNCHANGED <<processes, process_count, next_pid, current_process,
                   memory_bitmap, directory, cpu, owned, wrapped, underflowed>>

\* The slot as lines 44-49 leave it: esp and ebp keep their old values.
Claimed(s, entry) ==
    [processes EXCEPT ![s] = [@ EXCEPT !.pid = next_pid, !.state = "Ready",
                                       !.eip = entry, !.memory_size = 1]]

\* Mutant: next_pid is read but not incremented.
TakePidAgain ==
    /\ next_pid' = next_pid
    /\ wrapped' = wrapped

TakePid ==
    /\ next_pid' = (next_pid + 1) % PidMod
    /\ wrapped' = (wrapped \/ next_pid + 1 = PidMod)

CreateNoMemory(entry) ==
    LET s == FreeSlot IN
    /\ process_count < MAX_PROCESSES /\ s # NoSlot
    /\ ~CanAllocate(Claimed(s, entry), next_pid)
    /\ processes' = Claimed(s, entry)
    /\ TakePid
    /\ owned' = [owned EXCEPT ![s] = {}]
    /\ ret' = 0
    /\ UNCHANGED <<process_count, current_process, memory_bitmap, directory, cpu, underflowed>>

\* Line 55: stack_top = memory_size - 16, after memory_size grew to 8 MB.
WithStack(table, s) == [table EXCEPT ![s].esp = <<table[s].memory_size, 0>>]

CreateDone(entry) ==
    LET s == FreeSlot
        claimed == Claimed(s, entry)
    IN  /\ process_count < MAX_PROCESSES /\ s # NoSlot
        /\ CanAllocate(claimed, next_pid)
        /\ TakePage(claimed, next_pid)
        /\ processes' = WithStack(GrownTable(claimed, next_pid, 1), s)
        /\ TakePid
        /\ owned' = [owned EXCEPT ![s] = {FirstFree(memory_bitmap)}]
        /\ process_count' = (process_count + 1) % CountMod
        /\ ret' = next_pid
        /\ UNCHANGED <<current_process, cpu, underflowed>>

CreateProcess(entry) ==
    CreateRefused \/ CreateNoMemory(entry) \/ CreateDone(entry)

\* process_count--, of an unsigned count.
CountDown ==
    /\ process_count' = (process_count + CountMod - 1) % CountMod
    /\ underflowed' = (underflowed \/ process_count = 0)

\* Mutant: the cleanup the code leaves as a TODO, without unmapping the pages.
TerminateProcessFrees(pid) ==
    LET s == get_process(processes, pid) IN
    /\ s # NoSlot
    /\ processes' = [processes EXCEPT ![s].state = "Terminated"]
    /\ CountDown
    /\ memory_bitmap' = memory_bitmap \ owned[s]
    /\ owned' = [owned EXCEPT ![s] = {}]
    /\ UNCHANGED <<next_pid, current_process, directory, cpu, ret, wrapped>>

\* terminate_process: neither the state nor the count is looked at first.
TerminateProcess(pid) ==
    LET s == get_process(processes, pid) IN
    /\ s # NoSlot
    /\ processes' = [processes EXCEPT ![s].state = "Terminated"]
    /\ CountDown
    /\ UNCHANGED <<next_pid, current_process, memory_bitmap, directory, cpu,
                   owned, ret, wrapped>>

(***************************************************************************)
(* schedule and switch_context.  current_process is already the next       *)
(* process when switch_context "saves the current context", so the old     *)
(* stack pointer lands in the next process and is loaded back from it.     *)
(***************************************************************************)
NextReady == FirstSlot({s \in Slot : processes[s].state = "Ready"})

\* Mutant: the outgoing process keeps its state.
PreemptNobody(table) == table

\* Line 96: whatever state the outgoing process has, it becomes Ready.
Preempt(table) ==
    IF current_process = NoSlot THEN table
    ELSE [table EXCEPT ![current_process].state = "Ready"]

Dispatch(table, s) ==
    [table EXCEPT ![s] = [@ EXCEPT !.state = "Running", !.esp = cpu.esp]]

Schedule ==
    /\ process_count # 0
    /\ NextReady # NoSlot
    /\ processes' = Dispatch(Preempt(processes), NextReady)
    /\ current_process' = NextReady
    /\ cpu' = [cpu EXCEPT !.eip = processes[NextReady].eip]
    /\ UNCHANGED <<process_count, next_pid, memory_bitmap, directory, owned,
                   ret, wrapped, underflowed>>

-----------------------------------------------------------------------------
SysExit ==
    /\ current_process # NoSlot
    /\ TerminateProcess(processes[current_process].pid)

SysFork ==
    /\ current_process # NoSlot
    /\ CreateProcess(NoEntry)

\* The running code pushes and pops: the stack pointer moves.
Push ==
    /\ \E d \in 0 .. MaxDepth : cpu' = [cpu EXCEPT !.esp = <<cpu.esp[1], d>>]
    /\ UNCHANGED <<processes, process_count, next_pid, current_process,
                   memory_bitmap, directory, owned, ret, wrapped, underflowed>>

Next ==
    \/ \E e \in Entries : CreateProcess(e)
    \/ \E p \in CallerPids : TerminateProcess(p)
    \/ \E p \in CallerPids : \E n \in Sizes : AllocateProcessMemory(p, n)
    \/ Schedule
    \/ SysExit
    \/ SysFork
    \/ Push

Spec == Init /\ [][Next]_vars

\* The most the loop of kernel_main can give: schedule is called again and again.
FairSpec == Spec /\ WF_vars(Schedule)

-----------------------------------------------------------------------------
ProcessRecord == [pid : 0 .. PidMod - 1, state : States,
                  eip : Entries \cup {NoEntry}, esp : Stack, memory_size : Unit]

TypeOK ==
    /\ processes \in [Slot -> ProcessRecord]
    /\ process_count \in 0 .. CountMod - 1
    /\ next_pid \in 0 .. PidMod - 1
    /\ current_process \in Slot \cup {NoSlot}
    /\ memory_bitmap \in SUBSET Page
    /\ directory \in [Unit -> Page \cup {Identity}]
    /\ cpu \in [esp : Stack, eip : Entries \cup {NoEntry}]
    /\ owned \in [Slot -> SUBSET Page]
    /\ ret \in 0 .. PidMod
    /\ wrapped \in BOOLEAN
    /\ underflowed \in BOOLEAN

(***************************************************************************)
(* Only the process current_process points to is Running, whatever order   *)
(* of schedule, terminate_process, sys_exit and create_process (which may  *)
(* reuse the very slot of the process that is executing) led here.         *)
(***************************************************************************)
RunningIsCurrent ==
    \A s \in Slot : processes[s].state = "Running" => s = current_process

(***************************************************************************)
(* get_process finds at most one process for a pid: until next_pid wraps,  *)
(* no two slots, dead ones included, answer to the same non-zero pid.      *)
(***************************************************************************)
UniquePids ==
    ~wrapped => \A s, t \in Slot :
        processes[s].pid = processes[t].pid /\ processes[s].pid # 0 => s = t

(***************************************************************************)
(* The pages allocate_process_memory took for a process are marked used,   *)
(* are none of the kernel's, and are no other process's.                   *)
(***************************************************************************)
OwnPages ==
    \A s \in Slot :
        /\ owned[s] \subseteq memory_bitmap
        /\ \A i \in owned[s] : i >= KernelPages
        /\ \A t \in Slot \ {s} : owned[s] \cap owned[t] = {}

(***************************************************************************)
(* map_page's directory never leads to a page the allocator could hand out *)
(* again, nor to one of the kernel's own pages: terminate_process frees    *)
(* nothing, so the mappings it leaves behind stay harmless.                *)
(***************************************************************************)
NoDanglingMapping ==
    \A u \in Unit : directory[u] # Identity =>
        directory[u] \in memory_bitmap /\ directory[u] >= KernelPages

\* The slots that create_process may not take.
Occupied == {s \in Slot : processes[s].state # "Terminated"}

(***************************************************************************)
(* process_count never counts more processes than the table holds, through *)
(* creates that fail half way, processes terminated twice, and terminated  *)
(* processes that schedule brings back, until it is counted down from 0.   *)
(* So create_process's "process_count >= MAX_PROCESSES" never turns a      *)
(* caller away while a slot is free.                                       *)
(***************************************************************************)
CountErrsLow == ~underflowed => process_count <= Cardinality(Occupied)

-----------------------------------------------------------------------------
(***************************************************************************)
(* create_process's own logic: the count says there is room and a page is  *)
(* free, so "Find free process slot" finds one and a pid is returned.      *)
(* Violated with the ZeroState of include/process.h.                       *)
(***************************************************************************)
CreateSucceeds ==
    [][\A e \in Entries :
         (/\ CreateProcess(e)
          /\ process_count < MAX_PROCESSES
          /\ FreePages(memory_bitmap) # {}) => ret' # 0]_vars

Live == {s \in Slot : processes[s].state \notin {"Terminated", ZeroState}}

(***************************************************************************)
(* get_process_count is the "total number of processes" (process.h).       *)
(* Violated: a create_process that runs out of memory leaves a live slot   *)
(* that is not counted, and terminate_process of a dead pid counts down.   *)
(***************************************************************************)
CountIsProcesses == process_count = Cardinality(Live)

(***************************************************************************)
(* A process that is "Completely terminated" (process.h) does not come     *)
(* back: its slot leaves Terminated only under a new pid.  Violated:       *)
(* schedule makes the outgoing process Ready, terminated or not.           *)
(***************************************************************************)
TerminatedForGood ==
    [][\A s \in Slot :
         (/\ processes[s].state = "Terminated" /\ processes'[s].state # "Terminated")
            => processes'[s].pid # processes[s].pid]_vars

(***************************************************************************)
(* "Save current context": a process that is switched out finds its stack  *)
(* pointer in its own table entry.  Violated: it is stored in the entry of *)
(* the process that is switched in.                                        *)
(***************************************************************************)
ContextSaved ==
    [][current_process' # current_process /\ current_process # NoSlot
         => processes'[current_process].esp = cpu.esp]_vars

(***************************************************************************)
(* "Map memory into process address space": the page at the first address  *)
(* of the running process's memory (4 MB) is one of its own.  Violated by  *)
(* the second process: there is one directory and one address.             *)
(***************************************************************************)
MemoryIsolation ==
    \A s \in Slot :
        processes[s].state = "Running" /\ owned[s] # {} => directory[1] \in owned[s]

(***************************************************************************)
(* "Simple round-robin scheduling": as long as schedule keeps being called *)
(* a Ready process is eventually taken off the Ready state.  Violated with *)
(* three processes: the two lowest slots alternate for ever.               *)
(***************************************************************************)
RoundRobin ==
    \A s \in Slot :
        (processes[s].state = "Ready" /\ process_count # 0)
            ~> (processes[s].state # "Ready" \/ process_count = 0)
=============================================================================
