--------------------------- MODULE InterruptTable ---------------------------
(***************************************************************************)
(* kernel/interrupt.cpp: init, register_handler, enable, disable and the   *)
(* four handlers, with the processor and the interrupt controller          *)
(* delivering interrupts between any two stores.                           *)
(*                                                                         *)
(* register_handler fills a gate with separate 16-bit and 8-bit stores in  *)
(* the order base_low, selector, zero, flags, base_high; only the ones an  *)
(* interrupt can tell apart are steps of their own.  A half of a handler's *)
(* address is modelled by the handler itself, and the zero that init wrote *)
(* by NoHandler (linker.ld places the kernel above 64 KB, so no handler    *)
(* has a zero upper half); so is any other value that is no handler's.     *)
(*                                                                         *)
(* The handlers are plain functions: they leave with RET, which pops the   *)
(* instruction pointer but neither CS nor the saved flags, and they do not *)
(* save the registers they use.                                            *)
(***************************************************************************)
EXTENDS Naturals, FiniteSets

CONSTANTS Irqs,          \* vectors of hardware interrupts
          Exceptions,    \* vectors of processor exceptions
          EoiHandlers,   \* handle_timer, handle_keyboard
          HaltHandlers,  \* handle_division_by_zero, handle_page_fault
          FaultVector,   \* where the processor reports an absent gate
          NoHandler

Vectors  == Irqs \cup Exceptions
Handlers == EoiHandlers \cup HaltHandlers

TableAssumption ==
    /\ Irqs \cap Exceptions = {}
    /\ FaultVector \in Exceptions
    /\ EoiHandlers \cap HaltHandlers = {}
    /\ NoHandler \notin Handlers

VARIABLES
    idt,                 \* base_low, base_high and the present flag of a gate
    handlers,            \* the handlers array
    interrupts_enabled,  \* the software flag
    iflag,               \* the processor's interrupt flag
    registering,         \* register_handler in progress: vector, handler, store
    cpu,                 \* what the processor executes
    in_service,          \* interrupts the controller waits to be acknowledged
    target,              \* the two halves of the last address jumped to
    damaged              \* ghost: vectors a disturbed register_handler may have
                         \* written, or left unwritten, since the last whole one

vars == <<idt, handlers, interrupts_enabled, iflag, registering, cpu, in_service, target,
          damaged>>

EmptyGate == [low |-> NoHandler, high |-> NoHandler, present |-> FALSE]
Idle      == [vector |-> CHOOSE v \in Vectors : TRUE, handler |-> NoHandler, at |-> "idle",
              intact |-> TRUE]

Init ==
    /\ idt = [v \in Vectors |-> EmptyGate]
    /\ handlers = [v \in Vectors |-> NoHandler]
    /\ interrupts_enabled = FALSE
    /\ iflag = FALSE
    /\ registering = Idle
    /\ cpu = "boot"
    /\ in_service = {}
    /\ target = <<NoHandler, NoHandler>>
    /\ damaged = {}

\* init clears the table, loads it and enables interrupts.
InterruptInit ==
    /\ cpu = "boot"
    /\ idt' = [v \in Vectors |-> EmptyGate]
    /\ handlers' = [v \in Vectors |-> NoHandler]
    /\ iflag' = TRUE
    /\ interrupts_enabled' = TRUE
    /\ cpu' = "run"
    /\ UNCHANGED <<registering, in_service, target, damaged>>

-----------------------------------------------------------------------------
\* register_handler, store by store.  Lines 54-57: the handlers array.  intact
\* is a ghost: no handler has returned into this call.
RegisterHandler(v, h) ==
    /\ cpu = "run" /\ registering.at = "idle"
    /\ handlers' = [handlers EXCEPT ![v] = h]
    /\ registering' = [vector |-> v, handler |-> h, at |-> "low", intact |-> TRUE]
    /\ UNCHANGED <<idt, interrupts_enabled, iflag, cpu, in_service, target, damaged>>

\* Mutant: the store of base_high is missing.
AfterStoreNoHigh(at) == CASE at = "low" -> "flags" [] at = "flags" -> "idle" [] at = "high" -> "idle"

\* Lines 58-62, in the order of the code: base_low, flags, base_high.
AfterStore(at) == CASE at = "low" -> "flags" [] at = "flags" -> "high" [] at = "high" -> "idle"

StoredGate(gate, h, at) ==
    CASE at = "low"   -> [gate EXCEPT !.low = h]
      [] at = "flags" -> [gate EXCEPT !.present = TRUE]
      [] at = "high"  -> [gate EXCEPT !.high = h]

StoreGate ==
    /\ cpu = "run" /\ registering.at # "idle"
    /\ idt' = [idt EXCEPT ![registering.vector] =
                  StoredGate(@, registering.handler, registering.at)]
    /\ registering' = [registering EXCEPT !.at = AfterStore(@)]
    /\ damaged' = IF registering'.at = "idle" /\ registering.intact
                  THEN damaged \ {registering.vector} ELSE damaged
    /\ UNCHANGED <<handlers, interrupts_enabled, iflag, cpu, in_service, target>>

Enable ==
    /\ cpu = "run" /\ registering.at = "idle"
    /\ iflag' = TRUE
    /\ interrupts_enabled' = TRUE
    /\ UNCHANGED <<idt, handlers, registering, cpu, in_service, target, damaged>>

Disable ==
    /\ cpu = "run" /\ registering.at = "idle"
    /\ iflag' = FALSE
    /\ interrupts_enabled' = FALSE
    /\ UNCHANGED <<idt, handlers, registering, cpu, in_service, target, damaged>>

-----------------------------------------------------------------------------
(***************************************************************************)
(* The processor takes vector v through its gate and clears IF.  A gate    *)
(* that is not present raises a fault through FaultVector's gate; when     *)
(* that one is absent too the processor resets.                            *)
(***************************************************************************)
NoHandlers(gate) == gate.low # gate.high \/ gate.low \notin Handlers

Through(v) == IF idt[v].present THEN v ELSE FaultVector

Take(v) ==
    LET gate == idt[Through(v)] IN
    /\ iflag' = FALSE
    /\ target' = IF gate.present THEN <<gate.low, gate.high>> ELSE target
    /\ cpu' = CASE ~gate.present                      -> "reset"
                [] gate.present /\ NoHandlers(gate)  -> "wild"
                [] gate.present /\ ~NoHandlers(gate)
                     -> IF gate.low \in HaltHandlers THEN "halted" ELSE "handler"
    /\ UNCHANGED <<idt, handlers, interrupts_enabled, registering, damaged>>

\* The controller holds an interrupt back until the last one is acknowledged.
DeliverIrq(v) ==
    /\ cpu = "run" /\ iflag /\ in_service = {}
    /\ in_service' = {v}
    /\ Take(v)

RaiseException(v) ==
    /\ cpu = "run"
    /\ UNCHANGED in_service
    /\ Take(v)

(***************************************************************************)
(* handle_timer and handle_keyboard: outb(0x20, 0x20), then RET.  IF stays *)
(* clear, the caller-saved registers are the handler's, and CS and EFLAGS  *)
(* stay on the stack.  The interrupted code goes on, a register_handler    *)
(* perhaps with another vector or address in its registers; or it goes     *)
(* astray, for what it looks up through the stack pointer is elsewhere.    *)
(***************************************************************************)
HandlerReturns ==
    /\ cpu = "handler"
    /\ in_service' = {}
    /\ cpu' = "run"
    /\ IF registering.at = "idle"
       THEN UNCHANGED <<registering, damaged>>
       ELSE \E v \in Vectors, h \in Handlers \cup {NoHandler} :
              /\ registering' = [registering EXCEPT !.vector = v, !.handler = h,
                                                    !.intact = FALSE]
              /\ damaged' = damaged \cup {registering.vector, v}
    /\ UNCHANGED <<idt, handlers, interrupts_enabled, iflag, target>>

GoesAstray ==
    /\ cpu = "handler"
    /\ in_service' = {}
    /\ cpu' = "astray"
    /\ UNCHANGED <<idt, handlers, interrupts_enabled, iflag, registering, target, damaged>>

Next ==
    \/ InterruptInit
    \/ \E v \in Vectors, h \in Handlers : RegisterHandler(v, h)
    \/ StoreGate
    \/ Enable
    \/ Disable
    \/ \E v \in Irqs : DeliverIrq(v)
    \/ \E v \in Exceptions : RaiseException(v)
    \/ HandlerReturns
    \/ GoesAstray

Spec == Init /\ [][Next]_vars

-----------------------------------------------------------------------------
Gate == [low : Handlers \cup {NoHandler}, high : Handlers \cup {NoHandler}, present : BOOLEAN]

TypeOK ==
    /\ idt \in [Vectors -> Gate]
    /\ handlers \in [Vectors -> Handlers \cup {NoHandler}]
    /\ interrupts_enabled \in BOOLEAN
    /\ iflag \in BOOLEAN
    /\ registering \in [vector : Vectors, handler : Handlers \cup {NoHandler},
                        at : {"idle", "low", "flags", "high"}, intact : BOOLEAN]
    /\ cpu \in {"boot", "run", "handler", "halted", "wild", "reset", "astray"}
    /\ in_service \in SUBSET Irqs
    /\ target \in (Handlers \cup {NoHandler}) \X (Handlers \cup {NoHandler})
    /\ damaged \in SUBSET Vectors

Registering(v) == registering.at # "idle" /\ registering.vector = v
Whole(v) == /\ idt[v].present
            /\ idt[v].low = handlers[v] /\ idt[v].high = handlers[v]

(***************************************************************************)
(* The gate of a vector no register_handler is working on is either the    *)
(* empty one or leads to the handler the handlers array names, however     *)
(* exceptions and interrupts fell between the stores; except for vectors   *)
(* that a handler's RET into register_handler has damaged, and those are   *)
(* whole again after one registration that no handler returned into.       *)
(***************************************************************************)
GateMatchesHandlers ==
    \A v \in Vectors \ damaged : ~Registering(v) =>
        IF handlers[v] = NoHandler THEN idt[v] = EmptyGate ELSE Whole(v)

(***************************************************************************)
(* Unless a vector is damaged, the processor jumps to an address made of   *)
(* two different handlers' halves only while register_handler is between   *)
(* its stores, and then the lower half is the new handler's: registering   *)
(* with interrupts disabled, and without raising an exception, is safe.    *)
(***************************************************************************)
WildOnlyWhileRegistering ==
    cpu = "wild" /\ damaged = {} => /\ registering.at \in {"flags", "high"}
                                   /\ target[1] = registering.handler

(***************************************************************************)
(* An acknowledged controller: whenever ordinary code runs, no interrupt   *)
(* waits for its EOI, so the controller never stops delivering.            *)
(***************************************************************************)
Acknowledged == cpu = "run" => in_service = {}

-----------------------------------------------------------------------------
(***************************************************************************)
(* "Register an interrupt handler": an interrupt taken through a gate      *)
(* jumps to a handler.  Violated: the gate is marked present, or is still  *)
(* present from the last registration, before base_high is stored.         *)
(***************************************************************************)
JumpsToHandler == cpu # "wild"

(***************************************************************************)
(* "Test that we can handle all possible interrupts": a hardware interrupt *)
(* never finds an absent gate.  Violated: init enables interrupts with an  *)
(* empty table.                                                            *)
(***************************************************************************)
EveryInterruptHandled == ~(cpu = "reset" /\ in_service # {})

(***************************************************************************)
(* are_enabled, "Check if interrupts are enabled", agrees with the         *)
(* processor while ordinary code runs.  Violated after the first           *)
(* interrupt: the handler's RET leaves IF clear and the flag set.          *)
(***************************************************************************)
AreEnabledIsTrue == cpu = "run" => interrupts_enabled = iflag
=============================================================================
