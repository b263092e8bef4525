------------------------------- MODULE Entry64 -------------------------------
(***************************************************************************)
(* kernel/entry64.asm: _start, syscall_entry and common_exception_handler  *)
(* as the instruction sequences they are, executed on registers and a      *)
(* stack.  A value is named by where it came from: the value that register *)
(* r had when the routine was entered is r itself; "junk" is anything else.*)
(*                                                                         *)
(* C++ functions are called by the System V convention: they preserve rbx, *)
(* rbp and r12 to r15, may change any other register, and take their       *)
(* arguments in rdi, rsi, rdx, rcx, r8, r9.                                *)
(*                                                                         *)
(* An exception may strike at any instruction of syscall_entry, one at a   *)
(* time.  The kernel's handle_exception halts, so a behaviour may end in   *)
(* it; entry64.asm goes on after the call all the same, and so does the    *)
(* model, with a handle_exception that returns.                            *)
(***************************************************************************)
EXTENDS Naturals, Sequences, FiniteSets, SequencesExt

CONSTANTS StubVectors   \* exception numbers, as the stubs push them

EntryAssumption == StubVectors \subseteq Nat

Regs        == {"rax", "rbx", "rcx", "rdx", "rsi", "rdi", "rbp", "r8", "r9",
                "r10", "r11", "r12", "r13", "r14", "r15"}
CalleeSaved == {"rbx", "rbp", "r12", "r13", "r14", "r15"}
CallerSaved == (Regs \ CalleeSaved) \ {"rax"}

Push(r)   == [op |-> "push", reg |-> r]
Pop(r)    == [op |-> "pop", reg |-> r]
Do(op)    == [op |-> op, reg |-> "rax"]
Pushes(s) == [i \in 1 .. Len(s) |-> Push(s[i])]
Pops(s)   == [i \in 1 .. Len(s) |-> Pop(s[i])]

\* Lines 219-264.
SavedBySyscall == <<"rcx", "r11", "rax", "rbx", "rdx", "rsi", "rdi", "rbp", "r8",
                    "r9", "r10", "r12", "r13", "r14", "r15">>

\* Mutant: two registers restored in the wrong order.
syscall_entry_swapped ==
    Pushes(SavedBySyscall) \o <<Do("call")>>
      \o Pops(<<"r15", "r14", "r13", "r12", "r10", "r8", "r9", "rbp", "rdi", "rsi",
                "rdx", "rbx">>)
      \o <<Do("skip")>> \o Pops(<<"r11", "rcx">>) \o <<Do("sysret")>>

syscall_entry ==
    Pushes(SavedBySyscall) \o <<Do("call")>>
      \o Pops(<<"r15", "r14", "r13", "r12", "r10", "r9", "r8", "rbp", "rdi", "rsi",
                "rdx", "rbx">>)
      \o <<Do("skip")>> \o Pops(<<"r11", "rcx">>) \o <<Do("sysret")>>

\* Lines 26-50: push, switch stacks, clear BSS (which uses rdi), pop, calls.
_start ==
    <<Push("rdi"), Do("newstack"), Do("clearbss"), Pop("rdi"),
      Do("setup_cpu_features"), Do("kernel_main64")>>

\* Lines 166-181, after the stub has pushed the vector.
SavedByException == <<"rax", "rbx", "rcx", "rdx", "rsi", "rdi", "rbp", "r8", "r9",
                      "r10", "r11", "r12", "r13", "r14", "r15">>

\* Mutant: r11 is not restored.
RestoredByExceptionShort == <<"r15", "r14", "r13", "r12", "r10", "r9", "r8", "rbp",
                              "rdi", "rsi", "rdx", "rcx", "rbx", "rax">>

\* Lines 188-203.
RestoredByException == <<"r15", "r14", "r13", "r12", "r11", "r10", "r9", "r8", "rbp",
                         "rdi", "rsi", "rdx", "rcx", "rbx", "rax">>

common_exception_handler ==
    Pushes(SavedByException) \o <<Do("handle_exception")>>
      \o Pops(RestoredByException) \o <<Do("skip")>> \o <<Do("iretq")>>

\* Wherever the processor is once it has returned to no address of the code.
nowhere == <<Do("lost")>>

Code == [syscall_entry |-> syscall_entry, _start |-> _start,
         common_exception_handler |-> common_exception_handler, nowhere |-> nowhere]

VARIABLES routine,   \* the routine being executed
          ip,        \* its next instruction
          regs,
          stack,     \* the stack from its base; the top is last
          entered,   \* ghost: depth of the stack when the routine was entered
          struck     \* what an exception interrupted: ip, which the processor's
                     \* frame holds, and as ghosts registers, stack and vector

vars == <<routine, ip, regs, stack, entered, struck>>

NoException == [ip |-> 1, regs |-> [r \in Regs |-> r], stack |-> <<>>, vector |-> 0]

\* The processor arrives from the boot loader or from a SYSCALL instruction.
Init ==
    /\ routine \in {"syscall_entry", "_start"}
    /\ ip = 1
    /\ regs = [r \in Regs |-> r]
    /\ stack = <<"caller">>
    /\ entered = 1
    /\ struck = NoException

Instr == Code[routine][ip]
Advance == ip' = ip + 1

DoPush ==
    /\ Instr.op = "push"
    /\ stack' = Append(stack, regs[Instr.reg])
    /\ Advance
    /\ UNCHANGED <<routine, regs, entered, struck>>

\* Popping past the base of a stack reads whatever lies above it.
DoPop ==
    /\ Instr.op = "pop"
    /\ regs' = [regs EXCEPT ![Instr.reg] = IF stack = <<>> THEN "junk" ELSE Last(stack)]
    /\ stack' = IF stack = <<>> THEN <<>> ELSE Front(stack)
    /\ Advance
    /\ UNCHANGED <<routine, entered, struck>>

\* call handle_syscall: rax is the result, caller-saved registers may change.
DoCall ==
    /\ Instr.op = "call"
    /\ \E c \in SUBSET CallerSaved :
         regs' = [r \in Regs |-> IF r \in c THEN "junk"
                                 ELSE IF r = "rax" THEN "result" ELSE regs[r]]
    /\ Advance
    /\ UNCHANGED <<routine, stack, entered, struck>>

\* add rsp, 8: the saved rax, or the exception's number, is dropped.
DoSkip ==
    /\ Instr.op = "skip"
    /\ stack' = Front(stack)
    /\ Advance
    /\ UNCHANGED <<routine, regs, entered, struck>>

\* mov rsp, __stack_top: an empty stack.
DoNewStack ==
    /\ Instr.op = "newstack"
    /\ stack' = <<>>
    /\ regs' = [regs EXCEPT !["rbp"] = "junk"]
    /\ Advance
    /\ UNCHANGED <<routine, entered, struck>>

\* rep stosq: rdi, rcx and rax are used up.
DoClearBss ==
    /\ Instr.op = "clearbss"
    /\ regs' = [r \in Regs |-> IF r \in {"rdi", "rcx", "rax"} THEN "junk" ELSE regs[r]]
    /\ Advance
    /\ UNCHANGED <<routine, stack, entered, struck>>

\* CPUID and XGETBV overwrite four registers; rbp is saved and restored.
DoSetupCpuFeatures ==
    /\ Instr.op = "setup_cpu_features"
    /\ regs' = [r \in Regs |-> IF r \in {"rax", "rbx", "rcx", "rdx"} THEN "junk" ELSE regs[r]]
    /\ Advance
    /\ UNCHANGED <<routine, stack, entered, struck>>

\* InterruptFrame::has_error_code: the vectors of EXCEPTION_HANDLER_WITH_ERROR.
has_error_code(v) == v \in {8, 10, 11, 12, 13, 14, 17}

\* What the processor pushes: its frame (RIP, CS, RFLAGS, RSP, SS) and, for
\* some vectors, an error code.
Pushed(v) == IF has_error_code(v) THEN <<"frame", "error">> ELSE <<"frame">>

\* Both stub macros push the vector and no code in place of an absent one.
Exception(v) ==
    /\ routine = "syscall_entry"
    /\ routine' = "common_exception_handler"
    /\ ip' = 1
    /\ stack' = Append(stack \o Pushed(v), v)
    /\ struck' = [ip |-> ip, regs |-> regs, stack |-> stack, vector |-> v]
    /\ UNCHANGED <<regs, entered>>

\* mov rdi, rsp and the call, if it returns: nothing is known of the registers
\* a C++ function need not preserve.
DoHandleException ==
    /\ Instr.op = "handle_exception"
    /\ regs' = [r \in Regs |-> IF r \in CalleeSaved THEN regs[r] ELSE "junk"]
    /\ Advance
    /\ UNCHANGED <<routine, stack, entered, struck>>

\* IRETQ takes the word on top for RIP: that of the frame, or an error code.
DoIret ==
    /\ Instr.op = "iretq"
    /\ IF Last(stack) = "frame"
         THEN routine' = "syscall_entry" /\ ip' = struck.ip /\ stack' = Front(stack)
         ELSE routine' = "nowhere" /\ ip' = 1 /\ UNCHANGED stack
    /\ struck' = NoException
    /\ UNCHANGED <<regs, entered>>

Next == \/ DoPush \/ DoPop \/ DoCall \/ DoSkip \/ DoNewStack \/ DoClearBss
        \/ DoSetupCpuFeatures \/ DoHandleException \/ DoIret
        \/ \E v \in StubVectors : Exception(v)

Spec == Init /\ [][Next]_vars

-----------------------------------------------------------------------------
Values == Regs \cup {"junk", "result"}

TypeOK ==
    /\ routine \in DOMAIN Code
    /\ ip \in 1 .. Len(Code[routine])
    /\ regs \in [Regs -> Values]
    /\ Len(stack) <= entered + 2 * Cardinality(Regs) + 3
    /\ entered = 1
    /\ struck.ip \in 1 .. Len(syscall_entry) /\ struck.regs \in [Regs -> Values]

(***************************************************************************)
(* A system call returns to where it came from: at SYSRETQ the stack is as *)
(* deep as it was at SYSCALL, rcx and r11 hold the user's RIP and RFLAGS   *)
(* whatever handle_syscall did to them, every other register is the        *)
(* user's, and rax is the result, also when exceptions came and went on    *)
(* the way.                                                                *)
(***************************************************************************)
SyscallPreservesUser ==
    routine = "syscall_entry" /\ Instr.op = "sysret" =>
        /\ Len(stack) = entered
        /\ regs = [r \in Regs |-> IF r = "rax" THEN "result" ELSE r]

(***************************************************************************)
(* An exception at any instruction of syscall_entry, before or after       *)
(* handle_syscall, is gone without a trace when common_exception_handler   *)
(* gets to IRETQ: every register is as it was, whatever handle_exception   *)
(* did to it, and so is the stack, up to what the processor pushed.        *)
(***************************************************************************)
ExceptionRestores ==
    routine = "common_exception_handler" /\ Instr.op = "iretq" =>
        /\ regs = struck.regs
        /\ stack = struck.stack \o Pushed(struck.vector)

-----------------------------------------------------------------------------
(***************************************************************************)
(* "RAX = system call number; RDI, RSI, RDX, R10, R8, R9 = arguments":     *)
(* handle_syscall(syscall_num, arg1, ...) gets the number and the          *)
(* arguments in that order.  Violated: nothing moves them from the SYSCALL *)
(* registers to the ones the C++ function reads.                           *)
(***************************************************************************)
SyscallArguments ==
    Instr.op = "call" =>
        <<regs["rdi"], regs["rsi"], regs["rdx"], regs["rcx"], regs["r8"], regs["r9"]>>
            = <<"rax", "rdi", "rsi", "rdx", "r10", "r8">>

(***************************************************************************)
(* "Return from interrupt": IRETQ finds the frame of the processor on top. *)
(* Violated: nothing removes the error code of a vector that has one.      *)
(***************************************************************************)
IretFindsFrame == Instr.op = "iretq" => Last(stack) = "frame"

(***************************************************************************)
(* "Pass stack pointer as interrupt frame": what rsp points to is the      *)
(* InterruptFrame of interrupt.h, which begins with what the hardware      *)
(* saved and ends with the vector.  Violated: it begins with r15, the last *)
(* register pushed.                                                        *)
(***************************************************************************)
FrameAsDeclared == Instr.op = "handle_exception" => Last(stack) = "frame"

(***************************************************************************)
(* "Restore boot configuration pointer": kernel_main64 is called with the  *)
(* pointer that the boot loader passed in rdi.  Violated: it was pushed on *)
(* the old stack and is popped from the new one.                           *)
(***************************************************************************)
BootConfigPassed == Instr.op = "kernel_main64" => regs["rdi"] = "rdi"
=============================================================================
