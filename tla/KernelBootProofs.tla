-------------------------- MODULE KernelBootProofs --------------------------
(***************************************************************************)
(* The order of initialisation in both main functions, for every period of *)
(* the dots and every width of the loop counter.                           *)
(*                                                                         *)
(* SubsystemsUp speaks of what is up and of the loop.  What is inductive   *)
(* is the same at every point on the way there (InitOrder): the call that  *)
(* comes next finds the subsystems before it initialised, and after the    *)
(* fourth all are.  Interrupts and exceptions move pc only to places that  *)
(* promise nothing, or out of hlt and back into the loop.                  *)
(***************************************************************************)
EXTENDS KernelBoot, TLAPS

Looping == {"loop", "dot", "yield", "hlt", "halted", "woken", "in_process"}
Testing == {"initialized", "allocate", "free", "create", "sti"}

InitOrder ==
    /\ pc = "interrupt"  => "memory" \in up
    /\ pc = "filesystem" => {"memory", "interrupt"} \subseteq up
    /\ pc = "process"    => {"memory", "interrupt", "filesystem"} \subseteq up
    /\ pc \in Testing    => up = Names

IndInv == TypeOK /\ InitOrder /\ SubsystemsUp

\* The subsystems of both kernels by name.
LEMMA FourNames == Names = {"memory", "interrupt", "filesystem", "process"}
  BY DEF Names, Subsystems

\* SubsystemsUp without indices: each subsystem stands on the ones before it.
LEMMA UpInOrder ==
    SubsystemsUp <=>
      /\ "interrupt"  \in up => "memory" \in up
      /\ "filesystem" \in up => {"memory", "interrupt"} \subseteq up
      /\ "process"    \in up => {"memory", "interrupt", "filesystem"} \subseteq up
      /\ g_initialized => up = Names
      /\ pc \in Looping => up = Names
<1>1. Subsystems[1] = "memory" /\ Subsystems[2] = "interrupt"
      /\ Subsystems[3] = "filesystem" /\ Subsystems[4] = "process"
  BY DEF Subsystems
<1>2. (\A i \in 1 .. 4 : Subsystems[i] \in up => \A j \in 1 .. i : Subsystems[j] \in up)
        <=> /\ "interrupt"  \in up => "memory" \in up
            /\ "filesystem" \in up => {"memory", "interrupt"} \subseteq up
            /\ "process"    \in up => {"memory", "interrupt", "filesystem"} \subseteq up
  <2> DEFINE Down(n) == Subsystems[n] \in up => \A j \in 1 .. n : Subsystems[j] \in up
  <2>1. (\A i \in 1 .. 4 : Down(i)) <=> Down(1) /\ Down(2) /\ Down(3) /\ Down(4)
    <3> HIDE DEF Down
    <3> QED  OBVIOUS
  <2>2. Down(1)
    BY <1>1
  <2>3. Down(2) <=> ("interrupt" \in up => "memory" \in up)
    BY <1>1
  <2>4. Down(3) <=> ("filesystem" \in up => {"memory", "interrupt"} \subseteq up)
    BY <1>1
  <2>5. Down(4) <=> ("process" \in up => {"memory", "interrupt", "filesystem"} \subseteq up)
    BY <1>1
  <2> QED
    BY <2>1, <2>2, <2>3, <2>4, <2>5
<1> QED
  BY <1>2 DEF SubsystemsUp, Looping

\* The kernel starts with nothing up.
LEMMA InitHolds == Init => IndInv
<1> SUFFICES ASSUME Init PROVE IndInv
  OBVIOUS
<1>1. TypeOK
  <2>1. up \in SUBSET Names /\ pc \in Names
    BY FourNames DEF Init
  <2>2. loop_count \in 0 .. LoopMod - 1
    BY LoopAssumption DEF Init
  <2> QED
    BY <2>1, <2>2 DEF Init, TypeOK
<1>2. InitOrder
  BY DEF Init, InitOrder, Testing
<1>3. SubsystemsUp
  BY UpInOrder DEF Init, Looping
<1> QED
  BY <1>1, <1>2, <1>3 DEF IndInv

\* SubsystemsUp after a step, in the words of UpInOrder.
LEMMA UpInOrderNext ==
    SubsystemsUp' <=>
      /\ "interrupt"  \in up' => "memory" \in up'
      /\ "filesystem" \in up' => {"memory", "interrupt"} \subseteq up'
      /\ "process"    \in up' => {"memory", "interrupt", "filesystem"} \subseteq up'
      /\ g_initialized' => up' = Names
      /\ pc' \in Looping => up' = Names
<1>1. (SubsystemsUp <=>
        /\ "interrupt"  \in up => "memory" \in up
        /\ "filesystem" \in up => {"memory", "interrupt"} \subseteq up
        /\ "process"    \in up => {"memory", "interrupt", "filesystem"} \subseteq up
        /\ g_initialized => up = Names
        /\ pc \in Looping => up = Names)'
  BY UpInOrder, PTL
<1> QED
  BY <1>1 DEF Names, Looping

\* A call of an init: it finds the ones before it up, or panics.
LEMMA InitStep ==
    ASSUME IndInv, NEW s \in Names, InitSubsystem(s)
    PROVE  IndInv'
<1> USE FourNames DEF IndInv, TypeOK, InitSubsystem, At
<1>1. CASE InitFails(s)
  <2>1. pc' = "kernel_panic" /\ up' = up /\ g_initialized' = g_initialized
    BY <1>1 DEF InitFails
  <2>2. TypeOK'
    BY <1>1 DEF InitFails
  <2>3. InitOrder'
    BY <2>1 DEF InitOrder, Testing
  <2>4. SubsystemsUp'
    BY <2>1, UpInOrder, UpInOrderNext DEF Looping
  <2> QED
    BY <2>2, <2>3, <2>4
<1>2. CASE InitSucceeds(s)
  <2>1. /\ up' = up \cup {s} /\ pc' = AfterInit(s) /\ pc = s
        /\ g_initialized' = g_initialized
    BY <1>2 DEF InitSucceeds
  <2>2. AfterInit(s) = IF s = "memory" THEN "interrupt"
                       ELSE IF s = "interrupt" THEN "filesystem"
                       ELSE IF s = "filesystem" THEN "process" ELSE "initialized"
    BY DEF AfterInit
  <2>3. TypeOK'
    BY <1>2, <2>1, <2>2 DEF InitSucceeds
  <2>4. InitOrder'
    BY <2>1, <2>2 DEF InitOrder, Testing
  <2>5. SubsystemsUp'
    BY <2>1, <2>2, UpInOrder, UpInOrderNext DEF Looping, InitOrder
  <2> QED
    BY <2>3, <2>4, <2>5
<1> QED
  BY <1>1, <1>2

(***************************************************************************)
(* Every other step leaves up alone.  It keeps the invariant if it keeps   *)
(* the types, marks the kernel initialised only when all four are up, and  *)
(* moves pc, if at all, from a place where all four are up or to one that  *)
(* promises nothing.                                                       *)
(***************************************************************************)
LEMMA UpUnchanged ==
    ASSUME IndInv, TypeOK', up' = up,
           g_initialized' => g_initialized \/ up = Names,
           pc' = pc \/ up = Names \/ pc' \in {"kernel_panic", "dead", "reset", "lost"}
    PROVE  IndInv'
<1>1. InitOrder'
  BY FourNames DEF IndInv, InitOrder, Testing
<1>2. SubsystemsUp'
  BY FourNames, UpInOrder, UpInOrderNext DEF IndInv, Looping
<1> QED
  BY <1>1, <1>2 DEF IndInv

\* The kernel's steps after the four inits.
LEMMA KernelStepHolds == ASSUME IndInv, KernelStep PROVE IndInv'
<1> USE DEF IndInv
<1> DEFINE All == pc \in Testing \cup Looping => up = Names
<1>0. All
  BY UpInOrder DEF InitOrder
<1>1. ASSUME NEW s \in Names, InitSubsystem(s) PROVE IndInv'
  BY <1>1, InitStep
<1>2. CASE Initialized
  BY <1>0, <1>2, UpUnchanged, FourNames DEF Initialized, At, TypeOK, Testing
<1>3. CASE TestAllocate
  BY <1>0, <1>3, UpUnchanged, FourNames DEF TestAllocate, At, TypeOK, Testing
<1>4. CASE TestFree
  BY <1>0, <1>4, UpUnchanged, FourNames DEF TestFree, At, TypeOK, Testing
<1>5. CASE Create
  BY <1>0, <1>5, UpUnchanged, FourNames DEF Create, At, TypeOK, Testing
<1>6. CASE Sti
  BY <1>0, <1>6, UpUnchanged, FourNames DEF Sti, At, TypeOK, Testing
<1>7. CASE LoopTop
  BY <1>0, <1>7, UpUnchanged, FourNames DEF LoopTop, At, TypeOK, Looping
<1>8. CASE Dot \/ Yield \/ Hlt
  BY <1>0, <1>8, UpUnchanged, FourNames DEF Dot, Yield, Hlt, At, TypeOK, Looping
<1>9. CASE Wake
  <2>1. loop_count' \in 0 .. LoopMod - 1
    BY <1>9, LoopAssumption DEF Wake, TypeOK
  <2> QED
    BY <1>0, <1>9, <2>1, UpUnchanged, FourNames DEF Wake, At, TypeOK, Looping
<1>10. CASE Schedule
  BY <1>0, <1>10, UpUnchanged, FourNames DEF Schedule, At, TypeOK, Looping
<1>11. CASE Panic
  BY <1>11, UpUnchanged, FourNames DEF Panic, At, TypeOK
<1> QED
  BY <1>1, <1>2, <1>3, <1>4, <1>5, <1>6, <1>7, <1>8, <1>9, <1>10, <1>11 DEF KernelStep

\* Every step of the kernel, the timer, its handler and the exceptions.
LEMMA StepHolds == IndInv /\ [Next]_vars => IndInv'
<1> SUFFICES ASSUME IndInv, [Next]_vars PROVE IndInv'
  OBVIOUS
<1> USE DEF IndInv
<1>1. CASE KernelStep
  BY <1>1, KernelStepHolds
<1>2. CASE Tick
  <2>1. pc = "halted" => up = Names
    BY UpInOrder DEF Looping
  <2> QED
    BY <1>2, <2>1, UpUnchanged, FourNames DEF Tick, TypeOK
<1>3. CASE HandlerReturns
  BY <1>3, UpUnchanged, FourNames DEF HandlerReturns, TypeOK
<1>4. CASE Exception
  BY <1>4, UpUnchanged, FourNames DEF Exception, TypeOK
<1>5. CASE UNCHANGED vars
  BY <1>5, UpUnchanged, FourNames DEF vars, TypeOK
<1> QED
  BY <1>1, <1>2, <1>3, <1>4, <1>5 DEF Next

(***************************************************************************)
(* The variables of both main functions keep their types, loop_count by    *)
(* wrapping.                                                               *)
(***************************************************************************)
THEOREM TypeCorrect == Spec => []TypeOK
<1>1. IndInv => TypeOK
  BY DEF IndInv
<1> QED
  BY <1>1, InitHolds, StepHolds, PTL DEF Spec

(***************************************************************************)
(* A subsystem is initialised only on top of the ones before it, and a     *)
(* kernel that marks itself initialised or loops has all four, whatever    *)
(* init failed and wherever interrupts and exceptions struck.              *)
(***************************************************************************)
THEOREM AllUpBeforeLoop == Spec => []SubsystemsUp
<1>1. IndInv => SubsystemsUp
  BY DEF IndInv
<1> QED
  BY <1>1, InitHolds, StepHolds, PTL DEF Spec
=============================================================================
