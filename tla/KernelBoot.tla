----------------------------- MODULE KernelBoot -----------------------------
(***************************************************************************)
(* The two main functions of the kernel, kernel_main64 of                  *)
(* kernel/kernel_main64.cpp and kernel_main of kernel/kernel.cpp: the      *)
(* order in which they initialise the subsystems, their idle and scheduler *)
(* loops and the panic path, interrupted by the timer wherever the         *)
(* processor's IF allows it and by exceptions anywhere.                    *)
(*                                                                         *)
(* Memory::init, FileSystem::init and Process::init are taken as single    *)
(* calls that succeed or report an error (modules Paging, FileSystem and   *)
(* ProcessTable say what they do).  Interrupt::init enables interrupts.    *)
(* gate is what the timer's IDT entry leads to: nothing in the kernel as   *)
(* it stands, or handle_timer of kernel/interrupt.cpp, which leaves with   *)
(* RET and so without restoring IF (module InterruptTable).                *)
(***************************************************************************)
EXTENDS Naturals

CONSTANTS DotEvery,   \* 1000000 in the build
          LoopMod     \* 2^64 in the build: loop_count wraps here

ASSUME LoopAssumption == DotEvery \in Nat \ {0} /\ LoopMod \in Nat \ {0}

Kernels    == {"kernel_main", "kernel_main64"}
Subsystems == <<"memory", "interrupt", "filesystem", "process">>
Names      == {Subsystems[i] : i \in 1 .. 4}
Gates      == {"absent", "handle_timer"}

VARIABLES
    kernel,         \* which of the two kernels was booted
    gate,
    pc,             \* what the kernel executes next
    up,             \* subsystems whose init returned success
    g_initialized,
    iflag,          \* the processor's IF
    in_handler,     \* the timer handler runs on top of the kernel
    page,           \* the page of test_memory_allocation: "none", "held", "freed"
    loop_count

vars == <<kernel, gate, pc, up, g_initialized, iflag, in_handler, page, loop_count>>

\* entry64.asm and boot.asm come here with interrupts disabled.
Init ==
    /\ kernel \in Kernels
    /\ gate \in Gates
    /\ pc = "memory"
    /\ up = {}
    /\ g_initialized = FALSE
    /\ iflag = FALSE
    /\ in_handler = FALSE
    /\ page = "none"
    /\ loop_count = 0

-----------------------------------------------------------------------------
\* The kernel executes the step at, unless a handler has interrupted it.
At(at) == pc = at /\ ~in_handler

AfterInit(s) == CASE s = "memory"     -> "interrupt"
                  [] s = "interrupt"  -> "filesystem"
                  [] s = "filesystem" -> "process"
                  [] s = "process"    -> "initialized"

\* Mutant: the result of an init is not looked at.
InitFailsUnchecked(s) ==
    /\ kernel = "kernel_main64"
    /\ pc' = AfterInit(s)
    /\ UNCHANGED <<up, iflag>>

\* has_value() is false: goto kernel_panic.  kernel_main's inits return void.
InitFails(s) ==
    /\ kernel = "kernel_main64"
    /\ pc' = "kernel_panic"
    /\ UNCHANGED <<up, iflag>>

InitSucceeds(s) ==
    /\ up' = up \cup {s}
    /\ pc' = AfterInit(s)
    /\ iflag' = (iflag \/ s = "interrupt")     \* Interrupt::init ends in enable()

InitSubsystem(s) ==
    /\ At(s)
    /\ InitSucceeds(s) \/ InitFails(s)
    /\ UNCHANGED <<kernel, gate, g_initialized, in_handler, page, loop_count>>

Initialized ==
    /\ At("initialized")
    /\ IF kernel = "kernel_main64"
         THEN g_initialized' = TRUE /\ pc' = "allocate"
         ELSE g_initialized' = FALSE /\ pc' = "create"
    /\ UNCHANGED <<kernel, gate, up, iflag, in_handler, page, loop_count>>

\* test_memory_allocation: a page that cannot be freed stays allocated.
TestAllocate ==
    /\ At("allocate")
    /\ \/ page' = "held" /\ pc' = "free"
       \/ page' = "none" /\ pc' = "create"
    /\ UNCHANGED <<kernel, gate, up, g_initialized, iflag, in_handler, loop_count>>

TestFree ==
    /\ At("free")
    /\ page' \in {"freed", "held"}
    /\ pc' = "create"
    /\ UNCHANGED <<kernel, gate, up, g_initialized, iflag, in_handler, loop_count>>

\* test_process_creation and kernel_main's example process: the result is
\* printed and not looked at.
Create ==
    /\ At("create")
    /\ pc' = IF kernel = "kernel_main64" THEN "sti" ELSE "loop"
    /\ UNCHANGED <<kernel, gate, up, g_initialized, iflag, in_handler, page, loop_count>>

Sti ==
    /\ At("sti")
    /\ iflag' = TRUE
    /\ pc' = "loop"
    /\ UNCHANGED <<kernel, gate, up, g_initialized, in_handler, page, loop_count>>

-----------------------------------------------------------------------------
\* The idle loop of kernel_main64: a dot now and then, yield, hlt.
LoopTop ==
    /\ kernel = "kernel_main64" /\ At("loop")
    /\ pc' = IF loop_count % DotEvery = 0 THEN "dot" ELSE "yield"
    /\ UNCHANGED <<kernel, gate, up, g_initialized, iflag, in_handler, page, loop_count>>

Dot ==
    /\ At("dot")
    /\ pc' = "yield"
    /\ UNCHANGED <<kernel, gate, up, g_initialized, iflag, in_handler, page, loop_count>>

\* Process::yield returns: the other processes have run.
Yield ==
    /\ At("yield")
    /\ pc' = "hlt"
    /\ UNCHANGED <<kernel, gate, up, g_initialized, iflag, in_handler, page, loop_count>>

\* Mutant: cli; hlt, as on the panic path.
HltDisabled ==
    /\ At("hlt")
    /\ pc' = "halted"
    /\ iflag' = FALSE
    /\ UNCHANGED <<kernel, gate, up, g_initialized, in_handler, page, loop_count>>

Hlt ==
    /\ At("hlt")
    /\ pc' = "halted"
    /\ UNCHANGED <<kernel, gate, up, g_initialized, iflag, in_handler, page, loop_count>>

\* An interrupt has ended the hlt.
Wake ==
    /\ At("woken")
    /\ loop_count' = (loop_count + 1) % LoopMod
    /\ pc' = "loop"
    /\ UNCHANGED <<kernel, gate, up, g_initialized, iflag, in_handler, page>>

\* The loop of kernel_main: schedule returns, or jumps to a process for good.
Schedule ==
    /\ kernel = "kernel_main" /\ At("loop")
    /\ pc' \in {"loop", "in_process"}
    /\ UNCHANGED <<kernel, gate, up, g_initialized, iflag, in_handler, page, loop_count>>

\* Mutant: the failed initialisation is tried again.
PanicRetries ==
    /\ At("kernel_panic")
    /\ pc' = "memory"
    /\ UNCHANGED <<kernel, gate, up, g_initialized, iflag, in_handler, page, loop_count>>

\* kernel_panic prints first, with interrupts as they are, then cli and hlt.
Panic ==
    /\ At("kernel_panic")
    /\ iflag' = FALSE
    /\ pc' = "dead"
    /\ UNCHANGED <<kernel, gate, up, g_initialized, in_handler, page, loop_count>>

-----------------------------------------------------------------------------
Running == pc \notin {"dead", "reset"}

\* The timer.  Without a gate the processor resets.
Tick ==
    /\ pc # "reset" /\ iflag
    /\ iflag' = FALSE
    /\ IF gate = "absent"
         THEN pc' = "reset" /\ in_handler' = FALSE
         ELSE /\ pc' = IF pc = "halted" THEN "woken" ELSE pc
              /\ in_handler' = TRUE
    /\ UNCHANGED <<kernel, gate, up, g_initialized, page, loop_count>>

(***************************************************************************)
(* handle_timer acknowledges and leaves with RET: IF stays as it is, and   *)
(* CS and EFLAGS stay on the stack.  The kernel goes on where it was, or,  *)
(* when it returns or looks something up through the moved stack pointer,  *)
(* is lost.                                                                *)
(***************************************************************************)
HandlerReturns ==
    /\ in_handler
    /\ in_handler' = FALSE
    /\ pc' \in {pc, "lost"}
    /\ UNCHANGED <<kernel, gate, up, g_initialized, iflag, page, loop_count>>

\* handle_exception of the 64-bit kernel, handle_page_fault of the 32-bit one:
\* they never return.  An exception that has no gate either resets the processor.
Exception ==
    /\ Running
    /\ pc' \in {"dead", "reset"}
    /\ iflag' = FALSE
    /\ in_handler' = FALSE
    /\ UNCHANGED <<kernel, gate, up, g_initialized, page, loop_count>>

KernelStep ==
    \/ \E s \in Names : InitSubsystem(s)
    \/ Initialized \/ TestAllocate \/ TestFree \/ Create \/ Sti
    \/ LoopTop \/ Dot \/ Yield \/ Hlt \/ Wake \/ Schedule \/ Panic

Next == KernelStep \/ Tick \/ HandlerReturns \/ Exception

\* The processor executes the kernel and its handlers, and the timer ticks.
Spec == /\ Init /\ [][Next]_vars
        /\ WF_vars(KernelStep) /\ WF_vars(HandlerReturns) /\ WF_vars(Tick)

-----------------------------------------------------------------------------
TypeOK ==
    /\ kernel \in Kernels /\ gate \in Gates
    /\ pc \in Names \cup {"initialized", "allocate", "free", "create", "sti", "loop",
                          "dot", "yield", "hlt", "halted", "woken", "in_process",
                          "kernel_panic", "dead", "reset", "lost"}
    /\ up \in SUBSET Names
    /\ g_initialized \in BOOLEAN /\ iflag \in BOOLEAN /\ in_handler \in BOOLEAN
    /\ page \in {"none", "held", "freed"}
    /\ loop_count \in 0 .. LoopMod - 1

(***************************************************************************)
(* A subsystem is initialised only after the ones before it in the order   *)
(* memory, interrupts, file system, processes; a kernel that says it is    *)
(* initialised, or that has reached its loop, has all four, whatever       *)
(* failed and whatever interrupted it on the way.                          *)
(***************************************************************************)
SubsystemsUp ==
    /\ \A i \in 1 .. 4 : Subsystems[i] \in up => \A j \in 1 .. i : Subsystems[j] \in up
    /\ g_initialized => up = Names
    /\ pc \in {"loop", "dot", "yield", "hlt", "halted", "woken", "in_process"} => up = Names

(***************************************************************************)
(* Initialisation ends: the kernel gets to its loop, panics, is reset, or  *)
(* is lost on the return of a handler, however interrupts fall.            *)
(***************************************************************************)
BootSettles == <>(pc \in {"loop", "dead", "reset", "lost"})

(***************************************************************************)
(* A pass of the idle or the scheduler loop that begins with IF set is     *)
(* followed by a timer interrupt that is handled, or by the end of the     *)
(* kernel, wherever the tick falls: before hlt, in it, or in a process.    *)
(* (The pass after it may begin with IF clear: handle_timer leaves it so.) *)
(***************************************************************************)
TimerServed == (pc = "loop" /\ iflag) ~> (in_handler \/ pc \in {"dead", "reset"})

-----------------------------------------------------------------------------
(***************************************************************************)
(* "Disable interrupts during initialization" (entry64.asm): IF is clear   *)
(* until the kernel has marked itself initialised.  Violated: the second   *)
(* of the four inits, Interrupt::init, enables interrupts.                 *)
(***************************************************************************)
InterruptsOffDuringInit ==
    kernel = "kernel_main64" /\ Running /\ ~g_initialized => ~iflag

(***************************************************************************)
(* "Halt until next interrupt": the idle loop's hlt ends.  Violated: once  *)
(* the timer's handler has returned with RET, IF is clear and the next hlt *)
(* is never interrupted.                                                   *)
(***************************************************************************)
HaltUntilInterrupt == (pc = "halted") ~> (pc # "halted")
=============================================================================
