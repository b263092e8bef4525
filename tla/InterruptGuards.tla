--------------------------- MODULE InterruptGuards ---------------------------
(***************************************************************************)
(* InterruptGuard and CriticalSection of include/interrupt.h on top of     *)
(* enable and disable of kernel/interrupt.cpp, used by the kernel and by   *)
(* the interrupt handlers that preempt it.                                 *)
(*                                                                         *)
(* The processor executes the topmost of a stack of activations: the       *)
(* kernel at the bottom, above it the handlers that interrupted one        *)
(* another.  An interrupt may arrive between any two instructions while    *)
(* IF is set, and clears IF.  The handlers are plain functions installed   *)
(* in the IDT (interrupt.cpp), so they leave with RET: IF stays as the     *)
(* handler left it, and the registers are not restored.  MaxNest bounds    *)
(* the handlers on the stack, MaxGuards the guards that one activation     *)
(* nests.                                                                  *)
(***************************************************************************)
EXTENDS Naturals, Sequences

CONSTANTS MaxNest, MaxGuards,
          HandlersLock   \* whether handlers use CriticalSection too

ASSUME GuardsAssumption ==
    /\ MaxNest \in Nat
    /\ MaxGuards \in Nat \ {0}
    /\ HandlersLock \in BOOLEAN

VARIABLES
    iflag,               \* the processor's IF
    interrupts_enabled,  \* what are_enabled returns
    stack,               \* the activations, the running one last
    mutex                \* depth of the activation that holds it; 0 when free

vars == <<iflag, interrupts_enabled, stack, mutex>>

Depth == Len(stack)
Top   == stack[Depth]
Start == [pc |-> "run", guards |-> <<>>, leaving |-> FALSE]

Init ==
    /\ iflag = TRUE
    /\ interrupts_enabled = TRUE
    /\ stack = <<Start>>
    /\ mutex = 0

\* The running activation becomes a, or only moves on to pc.
Become(a) == stack' = [stack EXCEPT ![Depth] = a]
Goto(pc)  == Become([Top EXCEPT !.pc = pc])

\* The guard being built or destroyed: the innermost one of the activation;
\* Outer are the guards around it.
Guard == Top.guards[Len(Top.guards)]
Outer == SubSeq(Top.guards, 1, Len(Top.guards) - 1)

-----------------------------------------------------------------------------
(***************************************************************************)
(* Constructors.  CriticalSection initialises lock_ first, then            *)
(* interrupt_guard_; InterruptGuard reads are_enabled, then disables.      *)
(* entry is a ghost: IF when the constructor began.                        *)
(***************************************************************************)
CanBuild == Top.pc = "run" /\ Len(Top.guards) < MaxGuards

NewGuard(locks) == [was_enabled |-> interrupts_enabled, locks |-> locks, entry |-> iflag]

EnterGuard ==
    /\ CanBuild
    /\ Become([Top EXCEPT !.pc = "cli", !.guards = Append(Top.guards, NewGuard(FALSE))])
    /\ UNCHANGED <<iflag, interrupts_enabled, mutex>>

EnterCritical ==
    /\ CanBuild
    /\ Depth > 1 => HandlersLock
    /\ mutex # Depth
    /\ Goto("lock")
    /\ UNCHANGED <<iflag, interrupts_enabled, mutex>>

Lock ==
    /\ Top.pc = "lock" /\ mutex = 0
    /\ mutex' = Depth
    /\ Goto("locked")
    /\ UNCHANGED <<iflag, interrupts_enabled>>

Locked ==
    /\ Top.pc = "locked"
    /\ Become([Top EXCEPT !.pc = "cli", !.guards = Append(Top.guards, NewGuard(TRUE))])
    /\ UNCHANGED <<iflag, interrupts_enabled, mutex>>

\* disable(): cli, then the flag.
Cli ==
    /\ Top.pc = "cli"
    /\ iflag' = FALSE
    /\ Goto("clear")
    /\ UNCHANGED <<interrupts_enabled, mutex>>

Clear ==
    /\ Top.pc = "clear"
    /\ interrupts_enabled' = FALSE
    /\ Goto("run")
    /\ UNCHANGED <<iflag, mutex>>

-----------------------------------------------------------------------------
\* Mutant: the destructor always enables.
LeaveGuardEnabling ==
    /\ Top.pc = "run" /\ Top.guards # <<>>
    /\ Become([Top EXCEPT !.pc = "sti", !.leaving = TRUE])
    /\ UNCHANGED <<iflag, interrupts_enabled, mutex>>

(***************************************************************************)
(* Destructors.  The members are destroyed in reverse order: the guard     *)
(* enables interrupts (if they were), then the lock is released.           *)
(***************************************************************************)
LeaveGuard ==
    /\ Top.pc = "run" /\ Top.guards # <<>>
    /\ Become([Top EXCEPT !.pc = IF Guard.was_enabled THEN "sti" ELSE "unlock",
                          !.leaving = TRUE])
    /\ UNCHANGED <<iflag, interrupts_enabled, mutex>>

\* enable(): sti, then the flag.
Sti ==
    /\ Top.pc = "sti"
    /\ iflag' = TRUE
    /\ Goto("set")
    /\ UNCHANGED <<interrupts_enabled, mutex>>

\* Mutant: enable() forgets the flag.
SetNothing ==
    /\ Top.pc = "set"
    /\ Goto(IF Top.leaving THEN "unlock" ELSE "run")
    /\ UNCHANGED <<iflag, interrupts_enabled, mutex>>

Set ==
    /\ Top.pc = "set"
    /\ interrupts_enabled' = TRUE
    /\ Goto(IF Top.leaving THEN "unlock" ELSE "run")
    /\ UNCHANGED <<iflag, mutex>>

\* Mutant: the lock is not released.
UnlockNothing ==
    /\ Top.pc = "unlock"
    /\ Become([pc |-> "run", guards |-> Outer, leaving |-> FALSE])
    /\ UNCHANGED <<iflag, interrupts_enabled, mutex>>

Unlock ==
    /\ Top.pc = "unlock"
    /\ mutex' = IF Guard.locks THEN 0 ELSE mutex
    /\ Become([pc |-> "run", guards |-> Outer, leaving |-> FALSE])
    /\ UNCHANGED <<iflag, interrupts_enabled>>

-----------------------------------------------------------------------------
\* The kernel proper also calls enable() and disable() outside its guards.
PlainEnable ==
    /\ Depth = 1 /\ Top.pc = "run" /\ Top.guards = <<>>
    /\ Goto("sti")
    /\ UNCHANGED <<iflag, interrupts_enabled, mutex>>

PlainDisable ==
    /\ Depth = 1 /\ Top.pc = "run" /\ Top.guards = <<>>
    /\ Goto("cli")
    /\ UNCHANGED <<iflag, interrupts_enabled, mutex>>

\* The processor takes an interrupt.
Interrupt ==
    /\ iflag /\ Depth <= MaxNest
    /\ iflag' = FALSE
    /\ stack' = Append(stack, Start)
    /\ UNCHANGED <<interrupts_enabled, mutex>>

(***************************************************************************)
(* The handler returns with RET.  EFLAGS are not popped, so IF stays; the  *)
(* caller-saved registers are the handler's, so a constructor that had     *)
(* read are_enabled into one and not stored it yet goes on with any        *)
(* was_enabled.  CS and EFLAGS stay on the stack: interrupted code that    *)
(* finds its data through the stack pointer goes astray, and the behaviour *)
(* ends here; this module follows the one that does not.                   *)
(***************************************************************************)
Resumed(a, w) ==
    IF a.pc = "cli" /\ a.guards # <<>>
    THEN [a EXCEPT !.guards[Len(a.guards)].was_enabled = w]
    ELSE a

Ret ==
    /\ Depth > 1 /\ Top.pc = "run" /\ Top.guards = <<>>
    /\ \E w \in BOOLEAN :
         stack' = [SubSeq(stack, 1, Depth - 1) EXCEPT ![Depth - 1] = Resumed(@, w)]
    /\ UNCHANGED <<iflag, interrupts_enabled, mutex>>

Construct == EnterGuard \/ EnterCritical \/ Lock \/ Locked \/ Cli \/ Clear
Destroy   == LeaveGuard \/ Sti \/ Set \/ Unlock
Next == Construct \/ Destroy \/ PlainEnable \/ PlainDisable \/ Interrupt \/ Ret

Spec == Init /\ [][Next]_vars

-----------------------------------------------------------------------------
GuardRecord == [was_enabled : BOOLEAN, locks : BOOLEAN, entry : BOOLEAN]

TypeOK ==
    /\ iflag \in BOOLEAN
    /\ interrupts_enabled \in BOOLEAN
    /\ Depth \in 1 .. MaxNest + 1
    /\ \A d \in 1 .. Depth :
         /\ stack[d].pc \in {"run", "lock", "locked", "cli", "clear", "sti", "set", "unlock"}
         /\ stack[d].guards \in Seq(GuardRecord) /\ Len(stack[d].guards) <= MaxGuards
         /\ stack[d].leaving \in BOOLEAN
    /\ mutex \in 0 .. MaxNest + 1

\* An activation whose innermost guard is complete and not yet being left.
Guarded(d) ==
    /\ stack[d].guards # <<>>
    /\ stack[d].pc \in {"clear", "run", "lock", "locked"}

(***************************************************************************)
(* No handler runs on top of an activation that is inside an               *)
(* InterruptGuard or a CriticalSection, nested ones and those of handlers  *)
(* included: code under a guard is never preempted.                        *)
(***************************************************************************)
GuardExcludesInterrupts ==
    \A d \in 1 .. Depth : Guarded(d) => d = Depth /\ ~iflag

(***************************************************************************)
(* are_enabled errs in one direction only: between enable() and disable()  *)
(* calls, in the kernel and in handlers alike, a flag that says disabled   *)
(* is true of IF, whatever handlers ran inside of them, read the flag and  *)
(* wrote it.  (The converse fails: a handler's RET leaves IF clear under a *)
(* flag that says enabled.)                                                *)
(***************************************************************************)
DisabledIsTrue ==
    Top.pc = "run" /\ ~interrupts_enabled => ~iflag

(***************************************************************************)
(* The mutex is held exactly by an activation that has a CriticalSection,  *)
(* or is about to have one: it is not lost when guards are left in order.  *)
(***************************************************************************)
MutexHeldByCritical ==
    \A d \in 1 .. Depth :
        (mutex = d) <=> \/ stack[d].pc = "locked"
                        \/ \E i \in 1 .. Len(stack[d].guards) : stack[d].guards[i].locks

-----------------------------------------------------------------------------
(***************************************************************************)
(* "RAII interrupt state guard": leaving a guard leaves IF as the guard    *)
(* found it.  Violated in a handler: IF is clear on entry, are_enabled     *)
(* still answers true, and the destructor sets IF inside the handler.      *)
(***************************************************************************)
GuardRestoresState ==
    [][(Unlock /\ ~Guard.entry) => ~iflag]_vars

(***************************************************************************)
(* "RAII critical section guard": no activation waits for a mutex that an  *)
(* activation below it holds, for that one cannot run until the waiting    *)
(* one returns.  Violated when handlers use CriticalSection: the mutex is  *)
(* taken before interrupts are disabled and released after they are        *)
(* enabled.                                                                *)
(***************************************************************************)
NoSelfDeadlock == ~(Top.pc = "lock" /\ mutex \in 1 .. Depth - 1)
=============================================================================
