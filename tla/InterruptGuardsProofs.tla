------------------------ MODULE InterruptGuardsProofs ------------------------
(***************************************************************************)
(* Proofs about InterruptGuards, for any nesting of handlers and of        *)
(* guards, and whether or not handlers use CriticalSection.                *)
(*                                                                         *)
(* None of the properties is inductive: whether leaving a guard sets IF    *)
(* depends on what was_enabled recorded, and that on what the handlers     *)
(* that ran in between did to the flag.  IndInv says, for every            *)
(* activation, what its program counter means for its guards; for the      *)
(* interrupted ones, that they were interrupted where IF is set; and for   *)
(* the running one, what IF and interrupts_enabled can be.                 *)
(***************************************************************************)
EXTENDS InterruptGuards, TLAPS

PCs == {"run", "lock", "locked", "cli", "clear", "sti", "set", "unlock"}
Activation == [pc : PCs, guards : Seq(GuardRecord), leaving : BOOLEAN]

\* Some guard of activation a holds the mutex.
Locks(a) == \E i \in 1 .. Len(a.guards) : a.guards[i].locks

\* What the program counter of any activation says of its guards: only the
\* outermost guard can have found interrupts enabled, and one at most locks.
Shape(a) ==
    /\ Len(a.guards) <= MaxGuards
    /\ \A i \in 2 .. Len(a.guards) : ~a.guards[i].was_enabled
    /\ \A i, j \in 1 .. Len(a.guards) : a.guards[i].locks /\ a.guards[j].locks => i = j
    /\ a.leaving <=> a.pc \in {"sti", "set", "unlock"} /\ Len(a.guards) > 0
    /\ a.pc = "unlock" => Len(a.guards) > 0
    /\ a.pc \in {"sti", "set"} =>
         Len(a.guards) <= 1 /\ (Len(a.guards) = 1 => a.guards[1].was_enabled)
    /\ a.pc \in {"lock", "locked"} => Len(a.guards) < MaxGuards /\ ~Locks(a)

\* Where activation a can be that another one, at depth d + 1, has interrupted.
Interruptible(a, d) ==
    /\ a.pc # "clear"
    /\ a.pc \in {"run", "lock", "locked", "sti"} => Len(a.guards) = 0
    /\ Len(a.guards) <= 1
    /\ Len(a.guards) = 1 /\ a.pc # "cli" => a.guards[1].was_enabled
    /\ Len(a.guards) = 0 /\ a.pc \in {"cli", "sti", "set"} => d = 1

\* Outside of its guards: nothing has been disabled yet, or all is restored.
Outside(a) ==
    \/ Len(a.guards) = 0 /\ a.pc \in {"run", "lock", "locked", "cli", "sti"}
    \/ Len(a.guards) = 1 /\ a.pc = "cli"
    \/ Len(a.guards) = 1 /\ a.pc = "unlock" /\ a.guards[1].was_enabled

\* Inside: between the constructor's disable and the destructor's enable.
Inside(a) ==
    \/ Len(a.guards) > 0 /\ a.pc \in {"run", "lock", "locked", "sti"}
    \/ Len(a.guards) > 1 /\ a.pc \in {"cli", "unlock"}
    \/ Len(a.guards) = 1 /\ a.pc = "unlock" /\ ~a.guards[1].was_enabled

\* The running activation a, with IF, the flag, and whether a is the kernel.
Running(a, ifl, flag, bottom) ==
    /\ Outside(a) => (ifl => flag)
    /\ Inside(a) => ~ifl /\ ~flag
    /\ a.pc = "clear" => ~ifl
    /\ Len(a.guards) = 0 /\ a.pc \in {"cli", "clear", "sti", "set"} => bottom

\* The mutex is held by activation d exactly if a, which is at d, has it.
Holds(m, d, a) == (m = d) <=> (a.pc = "locked" \/ Locks(a))

Typed ==
    /\ iflag \in BOOLEAN
    /\ interrupts_enabled \in BOOLEAN
    /\ stack \in Seq(Activation)
    /\ Depth \in 1 .. MaxNest + 1
    /\ mutex \in 0 .. Depth

IndInv ==
    /\ Typed
    /\ \A d \in 1 .. Depth : Shape(stack[d])
    /\ \A d \in 1 .. Depth - 1 : Interruptible(stack[d], d)
    /\ Running(Top, iflag, interrupts_enabled, Depth = 1)
    /\ \A d \in 1 .. Depth : Holds(mutex, d, stack[d])

-----------------------------------------------------------------------------
\* A step that changes the running activation only leaves the others alone.
LEMMA TopOnly ==
    ASSUME Typed, NEW b \in Activation, stack' = [stack EXCEPT ![Depth] = b]
    PROVE  /\ stack' \in Seq(Activation)
           /\ Depth' = Depth /\ Top' = b
           /\ \A d \in 1 .. Depth - 1 : stack'[d] = stack[d]
  BY GuardsAssumption DEF Typed, Depth, Top

\* Such a step preserves the invariant if the changed activation meets it.
LEMMA TopStep ==
    ASSUME IndInv, NEW b \in Activation, stack' = [stack EXCEPT ![Depth] = b],
           iflag' \in BOOLEAN, interrupts_enabled' \in BOOLEAN,
           Shape(b), Running(b, iflag', interrupts_enabled', Depth = 1),
           mutex' \in 0 .. Depth, Holds(mutex', Depth, b),
           \A d \in 1 .. Depth - 1 : (mutex' = d) <=> (mutex = d)
    PROVE  IndInv'
<1>1. Typed
  BY DEF IndInv
<1>2. /\ stack' \in Seq(Activation)
      /\ Depth' = Depth /\ Top' = b
      /\ \A d \in 1 .. Depth - 1 : stack'[d] = stack[d]
  BY <1>1, TopOnly
<1>3. Depth \in Nat \ {0} /\ stack'[Depth] = b
  BY <1>1, <1>2, GuardsAssumption DEF Typed, Top
<1>4. Typed'
  BY <1>1, <1>2 DEF Typed
<1>5. \A d \in 1 .. Depth' : Shape(stack'[d])
  BY <1>2, <1>3 DEF IndInv
<1>6. \A d \in 1 .. Depth' - 1 : Interruptible(stack'[d], d)
  BY <1>2, <1>3 DEF IndInv
<1>7. Running(Top', iflag', interrupts_enabled', Depth' = 1)
  BY <1>2
<1>8. \A d \in 1 .. Depth' : Holds(mutex', d, stack'[d])
  BY <1>2, <1>3 DEF IndInv, Holds
<1>9. QED
  BY <1>4, <1>5, <1>6, <1>7, <1>8 DEF IndInv

TopHas ==
    /\ Depth \in Nat \ {0}
    /\ Top \in Activation /\ Top.guards \in Seq(GuardRecord)
    /\ Shape(Top) /\ Holds(mutex, Depth, Top)
    /\ Running(Top, iflag, interrupts_enabled, Depth = 1)
    /\ iflag \in BOOLEAN /\ interrupts_enabled \in BOOLEAN
    /\ mutex \in 0 .. Depth

\* What the invariant says of the running activation.
LEMMA TopFacts ==
    ASSUME IndInv
    PROVE  TopHas
<1>1. Depth \in Nat \ {0} /\ Depth \in 1 .. Len(stack)
  BY GuardsAssumption DEF IndInv, Typed, Depth
<1>2. Top \in Activation
  BY <1>1 DEF IndInv, Typed, Top
<1>3. QED
  BY <1>1, <1>2 DEF TopHas, IndInv, Typed, Top, Activation, Depth

\* A step that only moves the program counter of the running activation.
LEMMA GotoStep ==
    ASSUME IndInv, NEW pc \in PCs, Goto(pc)
    PROVE  /\ [Top EXCEPT !.pc = pc] \in Activation
           /\ stack' = [stack EXCEPT ![Depth] = [Top EXCEPT !.pc = pc]]
  BY TopFacts DEF TopHas, Goto, Become, Activation

\* Moving the program counter leaves the guards and leaving as they are.
LEMMA PcFields ==
    ASSUME NEW a \in Activation, NEW pc \in PCs
    PROVE  LET b == [a EXCEPT !.pc = pc]
           IN  b.pc = pc /\ b.guards = a.guards /\ b.leaving = a.leaving
  BY DEF Activation

-----------------------------------------------------------------------------
\* A guard is built: EnterGuard, and Locked with lk = TRUE.
LEMMA BuildPreserves ==
    ASSUME IndInv, NEW lk \in BOOLEAN,
           Top.pc = (IF lk THEN "locked" ELSE "run"), Len(Top.guards) < MaxGuards,
           Become([Top EXCEPT !.pc = "cli", !.guards = Append(Top.guards, NewGuard(lk))]),
           UNCHANGED <<iflag, interrupts_enabled, mutex>>
    PROVE  IndInv'
<1> DEFINE g == NewGuard(lk)
           b == [Top EXCEPT !.pc = "cli", !.guards = Append(Top.guards, g)]
           n == Len(Top.guards)
<1>1. TopHas
  BY TopFacts
<1>2. g \in GuardRecord
  BY <1>1 DEF TopHas, GuardRecord, NewGuard
<1>3. /\ Append(Top.guards, g) \in Seq(GuardRecord)
      /\ n \in Nat /\ Len(Append(Top.guards, g)) = n + 1
      /\ Append(Top.guards, g)[n + 1] = g
      /\ \A i \in 1 .. n : Append(Top.guards, g)[i] = Top.guards[i]
  BY <1>1, <1>2 DEF TopHas
<1>4. b \in Activation /\ stack' = [stack EXCEPT ![Depth] = b]
  BY <1>1, <1>3 DEF TopHas, Activation, PCs, Become
<1>5. /\ b.pc = "cli" /\ b.leaving = Top.leaving
      /\ b.guards \in Seq(GuardRecord) /\ Len(b.guards) = n + 1
      /\ b.guards[n + 1] = g /\ \A i \in 1 .. n : b.guards[i] = Top.guards[i]
  BY <1>1, <1>3 DEF TopHas, Activation
<1>6. g.was_enabled = interrupts_enabled /\ (g.locks <=> lk)
  BY DEF NewGuard
<1> HIDE DEF b, g
<1>7. n > 0 => ~interrupts_enabled /\ ~iflag
  BY <1>1, <1>3 DEF TopHas, Running, Inside
<1>8. ~(n > 0) => (iflag => interrupts_enabled)
  BY <1>1, <1>3 DEF TopHas, Running, Outside
<1>9. lk => ~Locks(Top)
  BY <1>1 DEF TopHas, Shape
<1>10. Shape(b)
  <2>1. \A i \in 2 .. Len(b.guards) : ~b.guards[i].was_enabled
    <3> SUFFICES ASSUME NEW i \in 2 .. n + 1
                 PROVE  ~b.guards[i].was_enabled
      BY <1>5
    <3>1. CASE i = n + 1
      BY <3>1, <1>3, <1>5, <1>6, <1>7
    <3>2. CASE i \in 2 .. n
      BY <3>2, <1>1, <1>5 DEF TopHas, Shape
    <3>3. QED
      BY <3>1, <3>2, <1>3
  <2>2. \A i, j \in 1 .. Len(b.guards) : b.guards[i].locks /\ b.guards[j].locks => i = j
    <3> SUFFICES ASSUME NEW i \in 1 .. n + 1, NEW j \in 1 .. n + 1,
                        b.guards[i].locks, b.guards[j].locks
                 PROVE  i = j
      BY <1>5
    <3>1. lk => ~\E k \in 1 .. n : b.guards[k].locks
      BY <1>5, <1>9 DEF Locks
    <3>2. CASE i \in 1 .. n /\ j \in 1 .. n
      BY <3>2, <1>1, <1>5 DEF TopHas, Shape
    <3>3. CASE i = n + 1 \/ j = n + 1
      BY <3>1, <3>3, <1>3, <1>5, <1>6
    <3>4. QED
      BY <3>2, <3>3, <1>3
  <2>3. ~b.leaving
    BY <1>1, <1>5 DEF TopHas, Shape
  <2>4. QED
    BY <1>3, <1>5, <2>1, <2>2, <2>3, GuardsAssumption DEF Shape
<1>11. Running(b, iflag', interrupts_enabled', Depth = 1)
  <2>1. Outside(b) => n = 0
    BY <1>3, <1>5 DEF Outside
  <2>2. QED
    BY <1>3, <1>5, <1>7, <1>8, <2>1 DEF Running, Inside
<1>12. Holds(mutex', Depth, b)
  <2>1. Locks(b) <=> lk \/ Locks(Top)
    <3>1. Locks(b) <=> \E i \in 1 .. n + 1 : b.guards[i].locks
      BY <1>5 DEF Locks
    <3>2. Locks(Top) <=> \E i \in 1 .. n : b.guards[i].locks
      BY <1>5 DEF Locks
    <3>3. QED
      BY <3>1, <3>2, <1>3, <1>5, <1>6
  <2>2. QED
    BY <1>1, <1>5, <2>1 DEF TopHas, Holds
<1>13. QED
  BY <1>1, <1>4, <1>10, <1>11, <1>12, TopStep DEF TopHas

\* The steps that move the program counter of the running activation and may
\* write IF, the flag or the mutex: what moving from Top.pc to pc requires.
LEMMA MovePreserves ==
    ASSUME IndInv, NEW pc \in PCs, Goto(pc),
           iflag' \in BOOLEAN, interrupts_enabled' \in BOOLEAN, mutex' \in 0 .. Depth,
           \A d \in 1 .. Depth - 1 : (mutex' = d) <=> (mutex = d),
           \A b \in Activation :
              b.pc = pc /\ b.guards = Top.guards /\ b.leaving = Top.leaving
              => /\ Shape(b) /\ Holds(mutex', Depth, b)
                 /\ Running(b, iflag', interrupts_enabled', Depth = 1)
    PROVE  IndInv'
<1> DEFINE b == [Top EXCEPT !.pc = pc]
<1>1. TopHas
  BY TopFacts
<1>2. b \in Activation /\ stack' = [stack EXCEPT ![Depth] = b]
  BY GotoStep
<1>3. b.pc = pc /\ b.guards = Top.guards /\ b.leaving = Top.leaving
  BY <1>1 DEF TopHas, Activation
<1> HIDE DEF b
<1>4. QED
  BY <1>2, <1>3, TopStep

\* The actions that are such moves.
LEMMA GotoPreserves ==
    ASSUME IndInv,
           \/ EnterCritical \/ Lock \/ Cli \/ Clear
           \/ Sti \/ Set \/ PlainEnable \/ PlainDisable
    PROVE  IndInv'
<1>1. TopHas
  BY TopFacts
<1>2. /\ Len(Top.guards) \in Nat /\ (Top.guards = <<>> => Len(Top.guards) = 0)
  BY <1>1 DEF TopHas
<1>3. CASE EnterCritical
  <2>1. Top.pc = "run" /\ Len(Top.guards) < MaxGuards /\ mutex # Depth /\ UNCHANGED <<iflag, interrupts_enabled, mutex>>
    BY <1>3 DEF EnterCritical, CanBuild
  <2>0. ~Locks(Top)
    BY <1>1, <2>1 DEF TopHas, Holds
  <2>2. ASSUME NEW b \in Activation, b.pc = "lock", b.guards = Top.guards,
               b.leaving = Top.leaving
        PROVE  /\ Shape(b) /\ Holds(mutex', Depth, b)
               /\ Running(b, iflag', interrupts_enabled', Depth = 1)
    <3>1. Locks(b) <=> Locks(Top)
      BY <2>2 DEF Locks
    <3>2. Shape(b)
      BY <1>1, <1>2, <2>1, <2>2, <3>1, <2>0 DEF TopHas, Shape
    <3>3. Holds(mutex', Depth, b)
      BY <1>1, <2>1, <2>2, <3>1, <2>0 DEF TopHas, Holds
    <3>4. Running(b, iflag', interrupts_enabled', Depth = 1)
      BY <1>1, <1>2, <2>1, <2>2 DEF TopHas, Running, Outside, Inside, Shape
    <3>5. QED
      BY <3>2, <3>3, <3>4
  <2>3. Goto("lock") /\ "lock" \in PCs
    BY <1>3 DEF EnterCritical, PCs
  <2>4. QED
    BY <1>1, <2>1, <2>2, <2>3, MovePreserves DEF TopHas
<1>4. CASE Lock
  <2>1. Top.pc = "lock" /\ mutex = 0 /\ mutex' = Depth /\ UNCHANGED <<iflag, interrupts_enabled>>
    BY <1>4 DEF Lock
  <2>2. ASSUME NEW b \in Activation, b.pc = "locked", b.guards = Top.guards,
               b.leaving = Top.leaving
        PROVE  /\ Shape(b) /\ Holds(mutex', Depth, b)
               /\ Running(b, iflag', interrupts_enabled', Depth = 1)
    <3>1. Locks(b) <=> Locks(Top)
      BY <2>2 DEF Locks
    <3>2. Shape(b)
      BY <1>1, <1>2, <2>1, <2>2, <3>1 DEF TopHas, Shape
    <3>3. Holds(mutex', Depth, b)
      BY <1>1, <2>1, <2>2, <3>1 DEF TopHas, Holds
    <3>4. Running(b, iflag', interrupts_enabled', Depth = 1)
      BY <1>1, <1>2, <2>1, <2>2 DEF TopHas, Running, Outside, Inside, Shape
    <3>5. QED
      BY <3>2, <3>3, <3>4
  <2>3. Goto("locked") /\ "locked" \in PCs
    BY <1>4 DEF Lock, PCs
  <2>4. QED
    BY <1>1, <2>1, <2>2, <2>3, MovePreserves DEF TopHas
<1>5. CASE Cli
  <2>1. Top.pc = "cli" /\ iflag' = FALSE /\ UNCHANGED <<interrupts_enabled, mutex>>
    BY <1>5 DEF Cli
  <2>2. ASSUME NEW b \in Activation, b.pc = "clear", b.guards = Top.guards,
               b.leaving = Top.leaving
        PROVE  /\ Shape(b) /\ Holds(mutex', Depth, b)
               /\ Running(b, iflag', interrupts_enabled', Depth = 1)
    <3>1. Locks(b) <=> Locks(Top)
      BY <2>2 DEF Locks
    <3>2. Shape(b)
      BY <1>1, <1>2, <2>1, <2>2, <3>1 DEF TopHas, Shape
    <3>3. Holds(mutex', Depth, b)
      BY <1>1, <2>1, <2>2, <3>1 DEF TopHas, Holds
    <3>4. Running(b, iflag', interrupts_enabled', Depth = 1)
      BY <1>1, <1>2, <2>1, <2>2 DEF TopHas, Running, Outside, Inside, Shape
    <3>5. QED
      BY <3>2, <3>3, <3>4
  <2>3. Goto("clear") /\ "clear" \in PCs
    BY <1>5 DEF Cli, PCs
  <2>4. QED
    BY <1>1, <2>1, <2>2, <2>3, MovePreserves DEF TopHas
<1>6. CASE Clear
  <2>1. Top.pc = "clear" /\ interrupts_enabled' = FALSE /\ UNCHANGED <<iflag, mutex>>
    BY <1>6 DEF Clear
  <2>2. ASSUME NEW b \in Activation, b.pc = "run", b.guards = Top.guards,
               b.leaving = Top.leaving
        PROVE  /\ Shape(b) /\ Holds(mutex', Depth, b)
               /\ Running(b, iflag', interrupts_enabled', Depth = 1)
    <3>1. Locks(b) <=> Locks(Top)
      BY <2>2 DEF Locks
    <3>2. Shape(b)
      BY <1>1, <1>2, <2>1, <2>2, <3>1 DEF TopHas, Shape
    <3>3. Holds(mutex', Depth, b)
      BY <1>1, <2>1, <2>2, <3>1 DEF TopHas, Holds
    <3>4. Running(b, iflag', interrupts_enabled', Depth = 1)
      BY <1>1, <1>2, <2>1, <2>2 DEF TopHas, Running, Outside, Inside, Shape
    <3>5. QED
      BY <3>2, <3>3, <3>4
  <2>3. Goto("run") /\ "run" \in PCs
    BY <1>6 DEF Clear, PCs
  <2>4. QED
    BY <1>1, <2>1, <2>2, <2>3, MovePreserves DEF TopHas
<1>7. CASE Sti
  <2>1. Top.pc = "sti" /\ iflag' = TRUE /\ UNCHANGED <<interrupts_enabled, mutex>>
    BY <1>7 DEF Sti
  <2>2. ASSUME NEW b \in Activation, b.pc = "set", b.guards = Top.guards,
               b.leaving = Top.leaving
        PROVE  /\ Shape(b) /\ Holds(mutex', Depth, b)
               /\ Running(b, iflag', interrupts_enabled', Depth = 1)
    <3>1. Locks(b) <=> Locks(Top)
      BY <2>2 DEF Locks
    <3>2. Shape(b)
      BY <1>1, <1>2, <2>1, <2>2, <3>1 DEF TopHas, Shape
    <3>3. Holds(mutex', Depth, b)
      BY <1>1, <2>1, <2>2, <3>1 DEF TopHas, Holds
    <3>4. Running(b, iflag', interrupts_enabled', Depth = 1)
      BY <1>1, <1>2, <2>1, <2>2 DEF TopHas, Running, Outside, Inside, Shape
    <3>5. QED
      BY <3>2, <3>3, <3>4
  <2>3. Goto("set") /\ "set" \in PCs
    BY <1>7 DEF Sti, PCs
  <2>4. QED
    BY <1>1, <2>1, <2>2, <2>3, MovePreserves DEF TopHas
<1>8. CASE Set
  <2>1. Top.pc = "set" /\ interrupts_enabled' = TRUE /\ UNCHANGED <<iflag, mutex>>
    BY <1>8 DEF Set
  <2>2. ASSUME NEW b \in Activation, b.pc = (IF Top.leaving THEN "unlock" ELSE "run"), b.guards = Top.guards,
               b.leaving = Top.leaving
        PROVE  /\ Shape(b) /\ Holds(mutex', Depth, b)
               /\ Running(b, iflag', interrupts_enabled', Depth = 1)
    <3>1. Locks(b) <=> Locks(Top)
      BY <2>2 DEF Locks
    <3>2. Shape(b)
      BY <1>1, <1>2, <2>1, <2>2, <3>1 DEF TopHas, Shape
    <3>3. Holds(mutex', Depth, b)
      BY <1>1, <2>1, <2>2, <3>1 DEF TopHas, Holds
    <3>4. Running(b, iflag', interrupts_enabled', Depth = 1)
      BY <1>1, <1>2, <2>1, <2>2 DEF TopHas, Running, Outside, Inside, Shape
    <3>5. QED
      BY <3>2, <3>3, <3>4
  <2>3. Goto((IF Top.leaving THEN "unlock" ELSE "run")) /\ (IF Top.leaving THEN "unlock" ELSE "run") \in PCs
    BY <1>8 DEF Set, PCs
  <2>4. QED
    BY <1>1, <2>1, <2>2, <2>3, MovePreserves DEF TopHas
<1>9. CASE PlainEnable
  <2>1. Depth = 1 /\ Top.pc = "run" /\ Top.guards = <<>> /\ UNCHANGED <<iflag, interrupts_enabled, mutex>>
    BY <1>9 DEF PlainEnable
  <2>2. ASSUME NEW b \in Activation, b.pc = "sti", b.guards = Top.guards,
               b.leaving = Top.leaving
        PROVE  /\ Shape(b) /\ Holds(mutex', Depth, b)
               /\ Running(b, iflag', interrupts_enabled', Depth = 1)
    <3>1. Locks(b) <=> Locks(Top)
      BY <2>2 DEF Locks
    <3>2. Shape(b)
      BY <1>1, <1>2, <2>1, <2>2, <3>1 DEF TopHas, Shape
    <3>3. Holds(mutex', Depth, b)
      BY <1>1, <2>1, <2>2, <3>1 DEF TopHas, Holds
    <3>4. Running(b, iflag', interrupts_enabled', Depth = 1)
      BY <1>1, <1>2, <2>1, <2>2 DEF TopHas, Running, Outside, Inside, Shape
    <3>5. QED
      BY <3>2, <3>3, <3>4
  <2>3. Goto("sti") /\ "sti" \in PCs
    BY <1>9 DEF PlainEnable, PCs
  <2>4. QED
    BY <1>1, <2>1, <2>2, <2>3, MovePreserves DEF TopHas
<1>10. CASE PlainDisable
  <2>1. Depth = 1 /\ Top.pc = "run" /\ Top.guards = <<>> /\ UNCHANGED <<iflag, interrupts_enabled, mutex>>
    BY <1>10 DEF PlainDisable
  <2>2. ASSUME NEW b \in Activation, b.pc = "cli", b.guards = Top.guards,
               b.leaving = Top.leaving
        PROVE  /\ Shape(b) /\ Holds(mutex', Depth, b)
               /\ Running(b, iflag', interrupts_enabled', Depth = 1)
    <3>1. Locks(b) <=> Locks(Top)
      BY <2>2 DEF Locks
    <3>2. Shape(b)
      BY <1>1, <1>2, <2>1, <2>2, <3>1 DEF TopHas, Shape
    <3>3. Holds(mutex', Depth, b)
      BY <1>1, <2>1, <2>2, <3>1 DEF TopHas, Holds
    <3>4. Running(b, iflag', interrupts_enabled', Depth = 1)
      BY <1>1, <1>2, <2>1, <2>2 DEF TopHas, Running, Outside, Inside, Shape
    <3>5. QED
      BY <3>2, <3>3, <3>4
  <2>3. Goto("cli") /\ "cli" \in PCs
    BY <1>10 DEF PlainDisable, PCs
  <2>4. QED
    BY <1>1, <2>1, <2>2, <2>3, MovePreserves DEF TopHas
<1>11. QED
  BY <1>3, <1>4, <1>5, <1>6, <1>7, <1>8, <1>9, <1>10

\* A destructor begins: only an outermost guard can enable interrupts.
LEMMA LeaveGuardPreserves ==
    ASSUME IndInv, LeaveGuard
    PROVE  IndInv'
<1> DEFINE n == Len(Top.guards)
           pc == IF Guard.was_enabled THEN "sti" ELSE "unlock"
           b == [Top EXCEPT !.pc = pc, !.leaving = TRUE]
<1>1. TopHas
  BY TopFacts
<1>2. Top.pc = "run" /\ n \in Nat /\ n > 0 /\ Guard = Top.guards[n]
  BY <1>1 DEF TopHas, LeaveGuard, Guard
<1>3. /\ b \in Activation /\ stack' = [stack EXCEPT ![Depth] = b]
      /\ UNCHANGED <<iflag, interrupts_enabled, mutex>>
  BY <1>1 DEF TopHas, Activation, PCs, LeaveGuard, Become
<1>4. b.pc = pc /\ b.leaving = TRUE /\ b.guards = Top.guards
  BY <1>1 DEF TopHas, Activation
<1>5. (pc = "sti" /\ Guard.was_enabled) \/ (pc = "unlock" /\ ~Guard.was_enabled)
  OBVIOUS
<1> HIDE DEF b, pc
<1>6. Locks(b) <=> Locks(Top)
  BY <1>4 DEF Locks
<1>7. Guard.was_enabled => n = 1
  <2>1. \A i \in 2 .. n : ~Top.guards[i].was_enabled
    BY <1>1 DEF TopHas, Shape
  <2>2. n = 1 \/ n \in 2 .. n
    <3> HIDE DEF n
    <3> QED
      BY <1>2
  <2>3. QED
    BY <1>2, <2>1, <2>2
<1>8. Shape(b)
  BY <1>1, <1>2, <1>4, <1>5, <1>6, <1>7 DEF TopHas, Shape
<1>9. Running(b, iflag', interrupts_enabled', Depth = 1)
  BY <1>1, <1>2, <1>3, <1>4, <1>5, <1>7 DEF TopHas, Running, Inside, Outside
<1>10. Holds(mutex', Depth, b)
  BY <1>1, <1>2, <1>3, <1>4, <1>5, <1>6 DEF TopHas, Holds
<1>11. QED
  BY <1>1, <1>3, <1>8, <1>9, <1>10, TopStep DEF TopHas

\* A destructor ends: the activation is back at the guards around it.
LEMMA UnlockPreserves ==
    ASSUME IndInv, Unlock
    PROVE  IndInv'
<1> DEFINE n == Len(Top.guards)
           b == [pc |-> "run", guards |-> Outer, leaving |-> FALSE]
<1>1. TopHas
  BY TopFacts
<1>2. Top.pc = "unlock" /\ n \in Nat /\ n > 0 /\ Guard = Top.guards[n]
  BY <1>1 DEF TopHas, Unlock, Guard, Shape
<1>3. /\ Outer \in Seq(GuardRecord) /\ Len(Outer) = n - 1
      /\ \A i \in 1 .. n - 1 : Outer[i] = Top.guards[i]
  BY <1>1, <1>2 DEF TopHas, Outer
<1>4. /\ b \in Activation /\ stack' = [stack EXCEPT ![Depth] = b]
      /\ mutex' = (IF Guard.locks THEN 0 ELSE mutex)
      /\ UNCHANGED <<iflag, interrupts_enabled>>
  BY <1>3 DEF Activation, PCs, Unlock, Become
<1>5. b.pc = "run" /\ b.leaving = FALSE /\ b.guards = Outer
  OBVIOUS
<1> HIDE DEF b
<1>6. Locks(b) <=> \E i \in 1 .. n - 1 : Top.guards[i].locks
  BY <1>3, <1>5 DEF Locks
<1>7. Locks(Top) <=> Locks(b) \/ Guard.locks
  <2>1. Locks(Top) <=> \E i \in 1 .. n : Top.guards[i].locks
    BY DEF Locks
  <2>2. QED
    BY <1>2, <1>6, <2>1
<1>8. Guard.locks => ~Locks(b) /\ mutex = Depth
  <2>1. \A i, j \in 1 .. n : Top.guards[i].locks /\ Top.guards[j].locks => i = j
    BY <1>1 DEF TopHas, Shape
  <2>2. QED
    BY <1>1, <1>2, <1>6, <1>7, <2>1 DEF TopHas, Holds
<1>9. Shape(b)
  <2>1. \A i \in 2 .. Len(Outer) : ~Outer[i].was_enabled
    BY <1>1, <1>2, <1>3 DEF TopHas, Shape
  <2>2. \A i, j \in 1 .. Len(Outer) : Outer[i].locks /\ Outer[j].locks => i = j
    <3>1. \A i, j \in 1 .. n : Top.guards[i].locks /\ Top.guards[j].locks => i = j
      BY <1>1 DEF TopHas, Shape
    <3>2. \A i \in 1 .. n - 1 : i \in 1 .. n
      BY <1>2
    <3>3. QED
      BY <1>3, <3>1, <3>2
  <2>3. n - 1 <= MaxGuards
    BY <1>1, <1>2, GuardsAssumption DEF TopHas, Shape
  <2>4. QED
    BY <1>3, <1>5, <2>1, <2>2, <2>3 DEF Shape
<1>10. Running(b, iflag', interrupts_enabled', Depth = 1)
  <2>1. CASE n = 1
    <3>2. iflag => interrupts_enabled
      <4>1. CASE Top.guards[1].was_enabled
        BY <1>1, <1>2, <2>1, <4>1 DEF TopHas, Running, Outside
      <4>2. CASE ~Top.guards[1].was_enabled
        BY <1>1, <1>2, <2>1, <4>2 DEF TopHas, Running, Inside
      <4>3. QED
        BY <4>1, <4>2
    <3>3. QED
      BY <1>1, <1>3, <1>4, <1>5, <2>1, <3>2 DEF TopHas, Running, Inside, Outside
  <2>2. CASE n > 1
    <3>1. ~iflag /\ ~interrupts_enabled
      BY <1>1, <1>2, <1>3, <2>2 DEF TopHas, Running, Inside
    <3>2. Len(Outer) \in Nat /\ Len(Outer) > 0
      BY <1>2, <1>3, <2>2
    <3>3. QED
      BY <1>4, <1>5, <3>1, <3>2 DEF Running, Inside, Outside
  <2>3. n = 1 \/ n > 1
    <3> HIDE DEF n
    <3> QED
      BY <1>2
  <2>4. QED
    BY <2>1, <2>2, <2>3
<1>11. Holds(mutex', Depth, b)
  BY <1>1, <1>2, <1>4, <1>5, <1>7, <1>8 DEF TopHas, Holds
<1>12. mutex' \in 0 .. Depth /\ \A d \in 1 .. Depth - 1 : (mutex' = d) <=> (mutex = d)
  BY <1>1, <1>4, <1>8 DEF TopHas
<1>13. QED
  BY <1>1, <1>4, <1>9, <1>10, <1>11, <1>12, TopStep DEF TopHas

\* An interrupt starts an activation above one that Running says can be
\* interrupted where it is.
LEMMA InterruptPreserves ==
    ASSUME IndInv, Interrupt
    PROVE  IndInv'
<1> DEFINE n == Len(Top.guards)
<1>1. TopHas /\ Typed
  BY TopFacts DEF IndInv
<1>2. Start \in Activation /\ Start.pc = "run" /\ Len(Start.guards) = 0 /\ ~Start.leaving
  BY DEF Start, Activation, PCs
<1>3. /\ iflag /\ ~iflag' /\ UNCHANGED <<interrupts_enabled, mutex>>
      /\ Depth <= MaxNest /\ stack' = Append(stack, Start)
  BY DEF Interrupt
<1>4. /\ stack' \in Seq(Activation) /\ Depth' = Depth + 1 /\ Top' = Start
      /\ \A d \in 1 .. Depth : stack'[d] = stack[d]
      /\ stack'[Depth + 1] = Start
  BY <1>1, <1>2, <1>3 DEF Typed, Depth, Top
<1>5. Typed'
  <2>1. iflag' \in BOOLEAN
    BY DEF Interrupt
  <2>2. Depth' \in 1 .. MaxNest + 1 /\ mutex' \in 0 .. Depth'
    BY <1>1, <1>3, <1>4, GuardsAssumption DEF TopHas
  <2>3. QED
    BY <1>1, <1>3, <1>4, <2>1, <2>2 DEF Typed
<1>6. Interruptible(Top, Depth)
  <2>1. n \in Nat /\ ~Inside(Top) /\ Top.pc # "clear" /\ Top.pc \in PCs
    BY <1>1, <1>3 DEF TopHas, Running, Activation
  <2>2. Top.pc \in {"run", "lock", "locked", "sti"} => n = 0
    BY <2>1 DEF Inside
  <2>3. Top.pc \in {"cli", "unlock"} => n <= 1
    BY <2>1 DEF Inside
  <2>4. n = 1 /\ Top.pc # "cli" => Top.guards[1].was_enabled
    <3>2. Top.pc \in {"unlock", "set"} /\ n = 1 => Top.guards[1].was_enabled
      BY <1>1, <2>1 DEF TopHas, Shape, Inside
    <3>3. QED
      BY <2>1, <2>2, <3>2 DEF PCs
  <2>5. Top.pc = "set" => n <= 1
    BY <1>1 DEF TopHas, Shape
  <2>6. QED
    BY <1>1, <2>1, <2>2, <2>3, <2>4, <2>5 DEF TopHas, Running, Interruptible, PCs
<1>7. Shape(Start)
  BY <1>2, GuardsAssumption DEF Shape, Locks
<1>8. \A d \in 1 .. Depth' : Shape(stack'[d])
  BY <1>1, <1>4, <1>7 DEF TopHas, IndInv
<1>9. \A d \in 1 .. Depth' - 1 : Interruptible(stack'[d], d)
  BY <1>1, <1>4, <1>6 DEF TopHas, IndInv, Top
<1>10. Running(Top', iflag', interrupts_enabled', Depth' = 1)
  BY <1>1, <1>2, <1>3, <1>4 DEF TopHas, Running, Inside
<1>11. \A d \in 1 .. Depth' : Holds(mutex', d, stack'[d])
  <2>1. Holds(mutex, Depth + 1, Start)
    BY <1>1, <1>2 DEF TopHas, Holds, Locks
  <2>2. QED
    <3>1. \A d \in 1 .. Depth : Holds(mutex, d, stack[d])
      BY DEF IndInv
    <3>2. \A d \in 1 .. Depth + 1 : d \in 1 .. Depth \/ d = Depth + 1
      BY <1>1 DEF TopHas
    <3>3. QED
      BY <1>3, <1>4, <2>1, <3>1, <3>2
<1>12. QED
  BY <1>5, <1>8, <1>9, <1>10, <1>11 DEF IndInv

\* What the clobbered registers can do to an interrupted activation.
LEMMA ResumedFacts ==
    ASSUME NEW a \in Activation, NEW w \in BOOLEAN, NEW d, NEW m,
           Shape(a), Interruptible(a, d), Holds(m, d, a)
    PROVE  LET b == Resumed(a, w)
           IN  /\ b \in Activation /\ b.pc = a.pc /\ Len(b.guards) = Len(a.guards)
               /\ a.pc # "cli" => b = a
               /\ Shape(b) /\ Holds(m, d, b)
<1> DEFINE b == Resumed(a, w)
           n == Len(a.guards)
<1>1. a.guards \in Seq(GuardRecord) /\ n \in Nat /\ a.pc \in PCs
  BY DEF Activation
<1>2. CASE a.pc = "cli" /\ a.guards # <<>>
  <2>1. n = 1
    <3>1. n <= 1 /\ n # 0
      BY <1>1, <1>2 DEF Interruptible
    <3> HIDE DEF n
    <3>2. QED
      BY <1>1, <3>1
  <2>2. a.guards[1] \in GuardRecord
    BY <1>1, <2>1
  <2>3. b = [a EXCEPT !.guards = [a.guards EXCEPT ![1] = [a.guards[1] EXCEPT !.was_enabled = w]]]
    BY <1>2, <2>1 DEF Resumed
  <2>4. /\ [a.guards[1] EXCEPT !.was_enabled = w] \in GuardRecord
        /\ [a.guards[1] EXCEPT !.was_enabled = w].locks = a.guards[1].locks
    BY <2>2 DEF GuardRecord
  <2>5. /\ b \in Activation /\ b.pc = "cli" /\ b.leaving = a.leaving
        /\ b.guards \in Seq(GuardRecord) /\ Len(b.guards) = 1
        /\ b.guards[1].locks = a.guards[1].locks
    BY <1>1, <1>2, <2>1, <2>3, <2>4 DEF Activation
  <2> HIDE DEF b
  <2>6. Locks(b) <=> Locks(a)
    BY <2>1, <2>5 DEF Locks
  <2>7. Shape(b)
    BY <1>2, <2>1, <2>5 DEF Shape
  <2>8. Holds(m, d, b)
    BY <1>2, <2>5, <2>6 DEF Holds
  <2>9. QED
    BY <1>2, <2>1, <2>5, <2>7, <2>8 DEF b
<1>3. CASE ~(a.pc = "cli" /\ a.guards # <<>>)
  BY <1>3 DEF Resumed
<1>4. QED
  BY <1>2, <1>3

\* A handler returns, outside of its guards, to the activation it interrupted.
LEMMA RetPreserves ==
    ASSUME IndInv, Ret
    PROVE  IndInv'
<1>1. TopHas /\ Typed
  BY TopFacts DEF IndInv
<1>2. /\ Depth > 1 /\ Top.pc = "run" /\ Len(Top.guards) = 0
      /\ UNCHANGED <<iflag, interrupts_enabled, mutex>>
  BY DEF Ret
<1>3. PICK w \in BOOLEAN :
         stack' = [SubSeq(stack, 1, Depth - 1) EXCEPT ![Depth - 1] = Resumed(@, w)]
  BY DEF Ret
<1> DEFINE a == stack[Depth - 1]
           b == Resumed(a, w)
           under == SubSeq(stack, 1, Depth - 1)
<1>4. Depth - 1 \in 1 .. Depth - 1 /\ Depth - 1 \in 1 .. Depth /\ Depth \in Nat
  BY <1>1, <1>2 DEF TopHas
<1>5. /\ under \in Seq(Activation) /\ Len(under) = Depth - 1
      /\ \A d \in 1 .. Depth - 1 : under[d] = stack[d]
  BY <1>1, <1>4 DEF Typed, Depth
<1>6. /\ a \in Activation /\ Shape(a) /\ Interruptible(a, Depth - 1)
      /\ Holds(mutex, Depth - 1, a)
  BY <1>1, <1>4 DEF Typed, Depth, IndInv
<1>7. /\ b \in Activation /\ b.pc = a.pc /\ Len(b.guards) = Len(a.guards)
      /\ a.pc # "cli" => b = a
      /\ Shape(b) /\ Holds(mutex, Depth - 1, b)
  BY <1>6, ResumedFacts
<1>8. stack' = [under EXCEPT ![Depth - 1] = b]
  BY <1>3, <1>4, <1>5
<1> HIDE DEF a, b, under
<1>9. /\ stack' \in Seq(Activation) /\ Depth' = Depth - 1 /\ Top' = b
      /\ stack'[Depth - 1] = b
      /\ \A d \in 1 .. Depth - 2 : stack'[d] = stack[d]
  BY <1>4, <1>5, <1>7, <1>8 DEF Depth, Top
<1>10. mutex # Depth
  BY <1>1, <1>2 DEF TopHas, Holds, Locks
<1>11. Typed'
  <2>1. Depth' \in 1 .. MaxNest + 1 /\ mutex' \in 0 .. Depth'
    BY <1>1, <1>2, <1>9, <1>10, GuardsAssumption DEF TopHas, Typed
  <2>2. QED
    BY <1>1, <1>2, <1>9, <2>1 DEF Typed
<1>12. \A d \in 1 .. Depth' : d = Depth - 1 \/ d \in 1 .. Depth - 2
  BY <1>4, <1>9
<1>13. \A d \in 1 .. Depth - 2 : d \in 1 .. Depth /\ d \in 1 .. Depth - 1
  BY <1>4
<1>14. /\ \A d \in 1 .. Depth' : Shape(stack'[d])
       /\ \A d \in 1 .. Depth' : Holds(mutex', d, stack'[d])
  BY <1>2, <1>7, <1>9, <1>12, <1>13 DEF IndInv
<1>15. \A d \in 1 .. Depth' - 1 : Interruptible(stack'[d], d)
  BY <1>4, <1>9, <1>13 DEF IndInv
<1>16. Running(Top', iflag', interrupts_enabled', Depth' = 1)
  <2>1. iflag => interrupts_enabled
    BY <1>1, <1>2 DEF TopHas, Running, Outside
  <2>2. Len(a.guards) \in Nat /\ a.pc \in PCs
    BY <1>6 DEF Activation
  <2>3. ~Inside(b) /\ b.pc # "clear"
    <3>1. a.pc # "clear" /\ Len(a.guards) <= 1
      BY <1>6 DEF Interruptible
    <3>2. a.pc \in {"run", "lock", "locked", "sti"} => Len(a.guards) = 0
      BY <1>6 DEF Interruptible
    <3>3. Len(a.guards) = 1 /\ a.pc = "unlock" => b.guards[1].was_enabled
      BY <1>6, <1>7 DEF Interruptible
    <3>4. QED
      BY <1>7, <2>2, <3>1, <3>2, <3>3 DEF Inside
  <2>4. Len(b.guards) = 0 /\ b.pc \in {"cli", "clear", "sti", "set"} => Depth' = 1
    BY <1>6, <1>7, <1>9, <2>3 DEF Interruptible
  <2>5. Running(b, iflag, interrupts_enabled, Depth' = 1)
    BY <2>1, <2>3, <2>4 DEF Running
  <2>6. QED
    BY <1>2, <1>9, <2>5
<1>17. QED
  BY <1>11, <1>14, <1>15, <1>16 DEF IndInv

-----------------------------------------------------------------------------
\* The invariant holds at the start.
LEMMA IndInvInit ==
    Init => IndInv
<1> SUFFICES ASSUME Init PROVE IndInv
  OBVIOUS
<1>1. Start \in Activation /\ Start.pc = "run" /\ Len(Start.guards) = 0 /\ ~Start.leaving
  BY DEF Start, Activation, PCs
<1>2. /\ stack \in Seq(Activation) /\ Depth = 1 /\ Top = Start /\ stack[1] = Start
      /\ iflag = TRUE /\ interrupts_enabled = TRUE /\ mutex = 0
  BY <1>1 DEF Init, Depth, Top
<1>3. Typed
  BY <1>2, GuardsAssumption DEF Typed
<1>4. Shape(Start) /\ Holds(0, 1, Start)
  BY <1>1, GuardsAssumption DEF Shape, Locks, Holds
<1>5. Running(Start, TRUE, TRUE, TRUE)
  BY <1>1 DEF Running, Inside
<1>6. Running(Top, iflag, interrupts_enabled, Depth = 1)
  BY <1>2, <1>5 DEF Running
<1>7. QED
  <2>1. \A d \in 1 .. Depth : d = 1
    BY <1>2
  <2>2. \A d \in 1 .. Depth - 1 : FALSE
    BY <1>2
  <2>3. QED
    BY <1>2, <1>3, <1>4, <1>6, <2>1, <2>2 DEF IndInv

\* Every step keeps the invariant: one case per action.
LEMMA IndInvStep ==
    IndInv /\ [Next]_vars => IndInv'
<1> SUFFICES ASSUME IndInv, [Next]_vars PROVE IndInv'
  OBVIOUS
<1>1. CASE UNCHANGED vars
  BY <1>1 DEF vars, IndInv, Typed, Depth, Top
<1>2. CASE EnterGuard
  BY <1>2, BuildPreserves DEF EnterGuard, CanBuild
<1>3. CASE Locked
  <2>1. Len(Top.guards) < MaxGuards
    BY <1>3, TopFacts DEF TopHas, Shape, Locked
  <2>2. QED
    BY <1>3, <2>1, BuildPreserves DEF Locked
<1>4. CASE \/ EnterCritical \/ Lock \/ Cli \/ Clear
           \/ Sti \/ Set \/ PlainEnable \/ PlainDisable
  BY <1>4, GotoPreserves
<1>5. CASE LeaveGuard
  BY <1>5, LeaveGuardPreserves
<1>6. CASE Unlock
  BY <1>6, UnlockPreserves
<1>7. CASE Interrupt
  BY <1>7, InterruptPreserves
<1>8. CASE Ret
  BY <1>8, RetPreserves
<1>9. QED
  BY <1>1, <1>2, <1>3, <1>4, <1>5, <1>6, <1>7, <1>8 DEF Next, Construct, Destroy

\* The invariant holds throughout.
LEMMA IndInvHolds ==
    Spec => []IndInv
  BY IndInvInit, IndInvStep, PTL DEF Spec

(***************************************************************************)
(* The state of the guards always has its type: no more handlers and       *)
(* guards nest than the bounds allow.                                      *)
(***************************************************************************)
THEOREM TypeCorrect ==
    Spec => []TypeOK
<1>1. IndInv => TypeOK
  <2> SUFFICES ASSUME IndInv PROVE TypeOK
    OBVIOUS
  <2>1. /\ iflag \in BOOLEAN /\ interrupts_enabled \in BOOLEAN
        /\ Depth \in 1 .. MaxNest + 1 /\ mutex \in 0 .. MaxNest + 1
    BY GuardsAssumption DEF IndInv, Typed
  <2>2. ASSUME NEW d \in 1 .. Depth
        PROVE  /\ stack[d].pc \in PCs
               /\ stack[d].guards \in Seq(GuardRecord) /\ Len(stack[d].guards) <= MaxGuards
               /\ stack[d].leaving \in BOOLEAN
    <3>1. stack[d] \in Activation
      BY DEF IndInv, Typed, Depth
    <3>2. Shape(stack[d])
      BY DEF IndInv
    <3>3. QED
      BY <3>1, <3>2 DEF Shape, Activation
  <2>3. QED
    BY <2>1, <2>2 DEF TypeOK, PCs
<1>2. QED
  BY <1>1, IndInvHolds, PTL

(***************************************************************************)
(* Code under an InterruptGuard or a CriticalSection is never preempted,   *)
(* however handlers and guards nest.                                       *)
(***************************************************************************)
THEOREM GuardsExclude ==
    Spec => []GuardExcludesInterrupts
<1>1. IndInv => GuardExcludesInterrupts
  <2> SUFFICES ASSUME IndInv, NEW d \in 1 .. Depth, Guarded(d)
               PROVE  d = Depth /\ ~iflag
    BY DEF GuardExcludesInterrupts
  <2>1. TopHas
    BY TopFacts
  <2>2. stack[d] \in Activation /\ Len(stack[d].guards) \in Nat
    <3>1. stack[d] \in Activation
      BY DEF IndInv, Typed, Depth
    <3>2. QED
      BY <3>1 DEF Activation
  <2>3. Len(stack[d].guards) > 0 /\ stack[d].pc \in {"clear", "run", "lock", "locked"}
    BY <2>2 DEF Guarded, Activation
  <2>4. d = Depth
    <3>1. d \in 1 .. Depth - 1 => Interruptible(stack[d], d)
      BY DEF IndInv
    <3>2. QED
      BY <2>1, <2>3, <3>1 DEF Interruptible, TopHas
  <2>5. QED
    BY <2>1, <2>3, <2>4 DEF TopHas, Running, Inside, Top
<1>2. QED
  BY <1>1, IndInvHolds, PTL

(***************************************************************************)
(* Between enable() and disable() calls, a flag that says disabled is true *)
(* of IF: handlers that return with IF clear, or that read and write the   *)
(* flag inside of either function, cannot leave IF set under it.           *)
(***************************************************************************)
THEOREM DisabledTrue ==
    Spec => []DisabledIsTrue
<1>1. IndInv => DisabledIsTrue
  <2> SUFFICES ASSUME IndInv, Top.pc = "run", ~interrupts_enabled
               PROVE  ~iflag
    BY DEF DisabledIsTrue
  <2>1. TopHas /\ Len(Top.guards) \in Nat
    BY TopFacts DEF TopHas
  <2>2. QED
    BY <2>1 DEF TopHas, Running, Outside, Inside
<1>2. QED
  BY <1>1, IndInvHolds, PTL

(***************************************************************************)
(* The mutex of CriticalSection is held exactly by the activation that has *)
(* a critical section or is about to have one.                             *)
(***************************************************************************)
THEOREM MutexHeld ==
    Spec => []MutexHeldByCritical
<1>1. IndInv => MutexHeldByCritical
  BY DEF IndInv, Holds, Locks, MutexHeldByCritical
<1>2. QED
  BY <1>1, IndInvHolds, PTL
=============================================================================
