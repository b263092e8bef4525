------------------------- MODULE ProcessObjectProofs -------------------------
(***************************************************************************)
(* Proofs about the monitor of class Process, for any sets of waiting and  *)
(* of state-setting threads and any bounds.                                *)
(*                                                                         *)
(* Mutual exclusion is inductive once it is known which steps each kind of *)
(* thread can be at.  That a waiter finds the exit code needs the chain    *)
(* from set_exit_code through the state to the waiter's return, and that   *)
(* no child is lost needs that the size a push_back has read is still the  *)
(* size of the vector: IndInv says both.                                   *)
(***************************************************************************)
EXTENDS ProcessObject, TLAPS

\* Where each kind of thread can be, and what it can hand to set_state.
WaiterSteps == {"idle", "check", "recheck", "asleep", "returned", "done"}
SetterSteps == {"idle", "lock", "store", "push", "notify", "unlock"}
EndingSteps == {"idle", "lock", "store", "notify", "unlock", "done"}

AnyStep == {"idle", "lock", "store", "notify", "unlock", "check",
            "recheck", "asleep", "returned", "done", "push"}

Steps ==
    /\ \A w \in Waiters : pc[w] \in WaiterSteps
    /\ \A t \in Setters : pc[t] \in SetterSteps /\ arg[t] # "Zombie"
    /\ pc[Terminator] \in EndingSteps
    /\ pc[Terminator] # "idle" => arg[Terminator] = "Zombie"

\* The exit code is there before the state says that the process has ended.
CodeFirst ==
    /\ pc[Terminator] # "idle" => exit_code_
    /\ state_ = "Zombie" => exit_code_
    /\ \A w \in Waiters : pc[w] = "returned" => exit_code_
    /\ ExitCodeSeen

\* The size that a push_back under way has read is not stale.
SizeFresh == \A t \in Setters : pc[t] = "push" => slot[t] = children_

IndInv == TypeOK /\ Steps /\ MonitorExcludes /\ CodeFirst /\ SizeFresh /\ ChildrenKept

-----------------------------------------------------------------------------
\* A step moves the program counter of one thread.
LEMMA GoMoves ==
    ASSUME TypeOK, NEW t \in Threads, NEW next, Go(t, next)
    PROVE  /\ \A u \in Threads : pc'[u] = IF u = t THEN next ELSE pc[u]
           /\ pc'[t] = next
           /\ next \in AnyStep => pc' \in [Threads -> AnyStep]
  BY DEF TypeOK, Go, AnyStep

\* The three kinds of threads are all there are, and differ.
LEMMA Kinds ==
    /\ Threads = Waiters \cup Setters \cup {Terminator}
    /\ Waiters \cap Setters = {}
    /\ Terminator \notin Waiters /\ Terminator \notin Setters
    /\ Nobody \notin Threads
  BY ThreadAssumption DEF Threads

\* A caller of set_state hands it a living state.
LEMMA CallSetStatePreserves ==
    ASSUME IndInv, NEW t \in Setters, NEW s \in Living, CallSetState(t, s)
    PROVE  IndInv'
<1>1. TypeOK /\ Steps /\ MonitorExcludes /\ CodeFirst /\ SizeFresh /\ ChildrenKept
  BY DEF IndInv
<1>2. /\ t \in Threads /\ Terminator \in Threads
      /\ Waiters \subseteq Threads /\ Setters \subseteq Threads
  BY Kinds
<1>3. Go(t, "lock")
  BY DEF CallSetState
<1>4. \A u \in Threads : pc'[u] = IF u = t THEN "lock" ELSE pc[u]
  BY <1>1, <1>2, <1>3, GoMoves
<1>5. TypeOK'
  <2>1. pc' \in [Threads -> AnyStep]
    BY <1>1, <1>2, <1>3, GoMoves DEF AnyStep
  <2>2. QED
    BY <1>1, <1>2, <2>1, ThreadAssumption DEF TypeOK, CallSetState, AnyStep, Living, childVars
<1>6. Steps'
  BY <1>1, <1>2, <1>4, Kinds
    DEF CallSetState, Steps, TypeOK, WaiterSteps, SetterSteps, EndingSteps, Living
<1>7. MonitorExcludes'
  BY <1>1, <1>2, <1>4, Kinds DEF CallSetState, MonitorExcludes
<1>8. CodeFirst'
  BY <1>1, <1>2, <1>4, Kinds
    DEF CallSetState, CodeFirst, ExitCodeSeen, Steps, TypeOK, is_terminated, Living,
        WaiterSteps, SetterSteps
<1>9. SizeFresh'
  BY <1>1, <1>2, <1>4, Kinds DEF CallSetState, SizeFresh, TypeOK, childVars, MonitorExcludes
<1>10. ChildrenKept'
  BY <1>1 DEF CallSetState, ChildrenKept, childVars
<1>11. QED
  BY <1>5, <1>6, <1>7, <1>8, <1>9, <1>10 DEF IndInv

\* A caller of add_child only gets to the lock.
LEMMA CallAddChildPreserves ==
    ASSUME IndInv, NEW t \in Setters, CallAddChild(t)
    PROVE  IndInv'
<1>1. TypeOK /\ Steps /\ MonitorExcludes /\ CodeFirst /\ SizeFresh /\ ChildrenKept
  BY DEF IndInv
<1>2. /\ t \in Threads /\ Terminator \in Threads
      /\ Waiters \subseteq Threads /\ Setters \subseteq Threads
  BY Kinds
<1>3. Go(t, "lock")
  BY DEF CallAddChild
<1>4. \A u \in Threads : pc'[u] = IF u = t THEN "lock" ELSE pc[u]
  BY <1>1, <1>2, <1>3, GoMoves
<1>5. TypeOK'
  <2>1. pc' \in [Threads -> AnyStep]
    BY <1>1, <1>2, <1>3, GoMoves DEF AnyStep
  <2>2. QED
    BY <1>1, <1>2, <2>1, ThreadAssumption DEF TypeOK, CallAddChild, AnyStep, Living, childVars
<1>6. Steps'
  BY <1>1, <1>2, <1>4, Kinds
    DEF CallAddChild, Steps, TypeOK, WaiterSteps, SetterSteps, EndingSteps, Living
<1>7. MonitorExcludes'
  BY <1>1, <1>2, <1>4, Kinds DEF CallAddChild, MonitorExcludes
<1>8. CodeFirst'
  BY <1>1, <1>2, <1>4, Kinds
    DEF CallAddChild, CodeFirst, ExitCodeSeen, Steps, TypeOK, is_terminated, Living,
        WaiterSteps, SetterSteps
<1>9. SizeFresh'
  BY <1>1, <1>2, <1>4, Kinds DEF CallAddChild, SizeFresh, TypeOK, childVars, MonitorExcludes
<1>10. ChildrenKept'
  BY <1>1 DEF CallAddChild, ChildrenKept, childVars
<1>11. QED
  BY <1>5, <1>6, <1>7, <1>8, <1>9, <1>10 DEF IndInv

\* set_exit_code comes before the terminating set_state.
LEMMA SetExitCodePreserves ==
    ASSUME IndInv, SetExitCode
    PROVE  IndInv'
<1>1. TypeOK /\ Steps /\ MonitorExcludes /\ CodeFirst /\ SizeFresh /\ ChildrenKept
  BY DEF IndInv
<1>2. /\ Terminator \in Threads /\ Terminator \in Threads
      /\ Waiters \subseteq Threads /\ Setters \subseteq Threads
  BY Kinds
<1>3. Go(Terminator, "lock")
  BY DEF SetExitCode
<1>4. \A u \in Threads : pc'[u] = IF u = Terminator THEN "lock" ELSE pc[u]
  BY <1>1, <1>2, <1>3, GoMoves
<1>5. TypeOK'
  <2>1. pc' \in [Threads -> AnyStep]
    BY <1>1, <1>2, <1>3, GoMoves DEF AnyStep
  <2>2. QED
    BY <1>1, <1>2, <2>1 DEF TypeOK, SetExitCode, AnyStep, Living, childVars
<1>6. Steps'
  BY <1>1, <1>2, <1>4, Kinds
    DEF SetExitCode, Steps, TypeOK, WaiterSteps, SetterSteps, EndingSteps, Living
<1>7. MonitorExcludes'
  BY <1>1, <1>2, <1>4, Kinds DEF SetExitCode, MonitorExcludes
<1>8. CodeFirst'
  BY <1>1, <1>2, <1>4, Kinds
    DEF SetExitCode, CodeFirst, ExitCodeSeen, Steps, TypeOK, is_terminated, Living,
        WaiterSteps, SetterSteps
<1>9. SizeFresh'
  BY <1>1, <1>2, <1>4, Kinds DEF SetExitCode, SizeFresh, TypeOK, childVars, MonitorExcludes
<1>10. ChildrenKept'
  BY <1>1 DEF SetExitCode, ChildrenKept, childVars
<1>11. QED
  BY <1>5, <1>6, <1>7, <1>8, <1>9, <1>10 DEF IndInv

\* The lock_guard takes the free mutex.
LEMMA LockPreserves ==
    ASSUME IndInv, NEW t \in Setters \cup {Terminator}, Lock(t)
    PROVE  IndInv'
<1>1. TypeOK /\ Steps /\ MonitorExcludes /\ CodeFirst /\ SizeFresh /\ ChildrenKept
  BY DEF IndInv
<1>2. /\ t \in Threads /\ Terminator \in Threads
      /\ Waiters \subseteq Threads /\ Setters \subseteq Threads
  BY Kinds
<1>3. Go(t, "store")
  BY DEF Lock
<1>4. \A u \in Threads : pc'[u] = IF u = t THEN "store" ELSE pc[u]
  BY <1>1, <1>2, <1>3, GoMoves
<1>5. TypeOK'
  <2>1. pc' \in [Threads -> AnyStep]
    BY <1>1, <1>2, <1>3, GoMoves DEF AnyStep
  <2>2. QED
    BY <1>1, <1>2, <2>1 DEF TypeOK, Lock, AnyStep, Living, childVars
<1>6. Steps'
  BY <1>1, <1>2, <1>4, Kinds
    DEF Lock, Steps, TypeOK, WaiterSteps, SetterSteps, EndingSteps, Living
<1>7. MonitorExcludes'
  BY <1>1, <1>2, <1>4, Kinds DEF Lock, MonitorExcludes
<1>8. CodeFirst'
  BY <1>1, <1>2, <1>4, Kinds
    DEF Lock, CodeFirst, ExitCodeSeen, Steps, TypeOK, is_terminated, Living,
        WaiterSteps, SetterSteps
<1>9. SizeFresh'
  BY <1>1, <1>2, <1>4, Kinds DEF Lock, SizeFresh, TypeOK, childVars, MonitorExcludes
<1>10. ChildrenKept'
  BY <1>1 DEF Lock, ChildrenKept, childVars
<1>11. QED
  BY <1>5, <1>6, <1>7, <1>8, <1>9, <1>10 DEF IndInv

\* Only the terminator stores Zombie, and the exit code is there by then.
LEMMA StorePreserves ==
    ASSUME IndInv, NEW t \in Setters \cup {Terminator}, Store(t)
    PROVE  IndInv'
<1>1. TypeOK /\ Steps /\ MonitorExcludes /\ CodeFirst /\ SizeFresh /\ ChildrenKept
  BY DEF IndInv
<1>2. /\ t \in Threads /\ Terminator \in Threads
      /\ Waiters \subseteq Threads /\ Setters \subseteq Threads
  BY Kinds
<1>3. Go(t, "notify")
  BY DEF Store
<1>4. \A u \in Threads : pc'[u] = IF u = t THEN "notify" ELSE pc[u]
  BY <1>1, <1>2, <1>3, GoMoves
<1>5. TypeOK'
  <2>1. pc' \in [Threads -> AnyStep]
    BY <1>1, <1>2, <1>3, GoMoves DEF AnyStep
  <2>2. QED
    BY <1>1, <1>2, <2>1 DEF TypeOK, Store, AnyStep, Living, childVars
<1>6. Steps'
  BY <1>1, <1>2, <1>4, Kinds
    DEF Store, Steps, TypeOK, WaiterSteps, SetterSteps, EndingSteps, Living
<1>7. MonitorExcludes'
  BY <1>1, <1>2, <1>4, Kinds DEF Store, MonitorExcludes
<1>8. CodeFirst'
  BY <1>1, <1>2, <1>4, Kinds
    DEF Store, CodeFirst, ExitCodeSeen, Steps, TypeOK, is_terminated, Living,
        WaiterSteps, SetterSteps
<1>9. SizeFresh'
  BY <1>1, <1>2, <1>4, Kinds DEF Store, SizeFresh, TypeOK, childVars, MonitorExcludes
<1>10. ChildrenKept'
  BY <1>1 DEF Store, ChildrenKept, childVars
<1>11. QED
  BY <1>5, <1>6, <1>7, <1>8, <1>9, <1>10 DEF IndInv

\* notify_all wakes the waiters; the mutex stays held.
LEMMA NotifyAllPreserves ==
    ASSUME IndInv, NEW t \in Setters \cup {Terminator}, NotifyAll(t)
    PROVE  IndInv'
<1>1. TypeOK /\ Steps /\ MonitorExcludes /\ CodeFirst /\ SizeFresh /\ ChildrenKept
  BY DEF IndInv
<1>2. /\ t \in Threads /\ Terminator \in Threads
      /\ Waiters \subseteq Threads /\ Setters \subseteq Threads
  BY Kinds
<1>3. Go(t, "unlock")
  BY DEF NotifyAll
<1>4. \A u \in Threads : pc'[u] = IF u = t THEN "unlock" ELSE pc[u]
  BY <1>1, <1>2, <1>3, GoMoves
<1>5. TypeOK'
  <2>1. pc' \in [Threads -> AnyStep]
    BY <1>1, <1>2, <1>3, GoMoves DEF AnyStep
  <2>2. QED
    BY <1>1, <1>2, <2>1 DEF TypeOK, NotifyAll, AnyStep, Living, childVars
<1>6. Steps'
  BY <1>1, <1>2, <1>4, Kinds
    DEF NotifyAll, Steps, TypeOK, WaiterSteps, SetterSteps, EndingSteps, Living
<1>7. MonitorExcludes'
  BY <1>1, <1>2, <1>4, Kinds DEF NotifyAll, MonitorExcludes
<1>8. CodeFirst'
  BY <1>1, <1>2, <1>4, Kinds
    DEF NotifyAll, CodeFirst, ExitCodeSeen, Steps, TypeOK, is_terminated, Living,
        WaiterSteps, SetterSteps
<1>9. SizeFresh'
  BY <1>1, <1>2, <1>4, Kinds DEF NotifyAll, SizeFresh, TypeOK, childVars, MonitorExcludes
<1>10. ChildrenKept'
  BY <1>1 DEF NotifyAll, ChildrenKept, childVars
<1>11. QED
  BY <1>5, <1>6, <1>7, <1>8, <1>9, <1>10 DEF IndInv

\* The end of the scope gives the mutex back.
LEMMA UnlockPreserves ==
    ASSUME IndInv, NEW t \in Setters \cup {Terminator}, Unlock(t)
    PROVE  IndInv'
<1>1. TypeOK /\ Steps /\ MonitorExcludes /\ CodeFirst /\ SizeFresh /\ ChildrenKept
  BY DEF IndInv
<1>2. /\ t \in Threads /\ Terminator \in Threads
      /\ Waiters \subseteq Threads /\ Setters \subseteq Threads
  BY Kinds
<1>3. Go(t, (IF t = Terminator THEN "done" ELSE "idle"))
  BY DEF Unlock
<1>4. \A u \in Threads :
        pc'[u] = IF u = t THEN (IF t = Terminator THEN "done" ELSE "idle") ELSE pc[u]
  BY <1>1, <1>2, <1>3, GoMoves
<1>5. TypeOK'
  <2>1. pc' \in [Threads -> AnyStep]
    BY <1>1, <1>2, <1>3, GoMoves DEF AnyStep
  <2>2. QED
    BY <1>1, <1>2, <2>1 DEF TypeOK, Unlock, AnyStep, Living, childVars
<1>6. Steps'
  BY <1>1, <1>2, <1>4, Kinds
    DEF Unlock, Steps, TypeOK, WaiterSteps, SetterSteps, EndingSteps, Living
<1>7. MonitorExcludes'
  BY <1>1, <1>2, <1>4, Kinds DEF Unlock, MonitorExcludes
<1>8. CodeFirst'
  BY <1>1, <1>2, <1>4, Kinds
    DEF Unlock, CodeFirst, ExitCodeSeen, Steps, TypeOK, is_terminated, Living,
        WaiterSteps, SetterSteps
<1>9. SizeFresh'
  BY <1>1, <1>2, <1>4, Kinds DEF Unlock, SizeFresh, TypeOK, childVars, MonitorExcludes
<1>10. ChildrenKept'
  BY <1>1 DEF Unlock, ChildrenKept, childVars
<1>11. QED
  BY <1>5, <1>6, <1>7, <1>8, <1>9, <1>10 DEF IndInv

\* push_back reads the size while it holds the mutex.
LEMMA ReadSizePreserves ==
    ASSUME IndInv, NEW t \in Setters \cup {Terminator}, ReadSize(t)
    PROVE  IndInv'
<1>1. TypeOK /\ Steps /\ MonitorExcludes /\ CodeFirst /\ SizeFresh /\ ChildrenKept
  BY DEF IndInv
<1>2. /\ t \in Threads /\ Terminator \in Threads
      /\ Waiters \subseteq Threads /\ Setters \subseteq Threads
  BY Kinds
<1>3. Go(t, "push")
  BY DEF ReadSize
<1>4. \A u \in Threads : pc'[u] = IF u = t THEN "push" ELSE pc[u]
  BY <1>1, <1>2, <1>3, GoMoves
<1>5. TypeOK'
  <2>1. pc' \in [Threads -> AnyStep]
    BY <1>1, <1>2, <1>3, GoMoves DEF AnyStep
  <2>2. QED
    BY <1>1, <1>2, <2>1 DEF TypeOK, ReadSize, AnyStep, Living, childVars
<1>6. Steps'
  BY <1>1, <1>2, <1>4, Kinds
    DEF ReadSize, Steps, TypeOK, WaiterSteps, SetterSteps, EndingSteps, Living
<1>7. MonitorExcludes'
  BY <1>1, <1>2, <1>4, Kinds DEF ReadSize, MonitorExcludes
<1>8. CodeFirst'
  BY <1>1, <1>2, <1>4, Kinds
    DEF ReadSize, CodeFirst, ExitCodeSeen, Steps, TypeOK, is_terminated, Living,
        WaiterSteps, SetterSteps
<1>9. SizeFresh'
  BY <1>1, <1>2, <1>4, Kinds DEF ReadSize, SizeFresh, TypeOK, childVars, MonitorExcludes
<1>10. ChildrenKept'
  BY <1>1 DEF ReadSize, ChildrenKept, childVars
<1>11. QED
  BY <1>5, <1>6, <1>7, <1>8, <1>9, <1>10 DEF IndInv

\* The size read is still the size, so one element is added.
LEMMA PushBackPreserves ==
    ASSUME IndInv, NEW t \in Setters \cup {Terminator}, PushBack(t)
    PROVE  IndInv'
<1>1. TypeOK /\ Steps /\ MonitorExcludes /\ CodeFirst /\ SizeFresh /\ ChildrenKept
  BY DEF IndInv
<1>2. /\ t \in Threads /\ Terminator \in Threads
      /\ Waiters \subseteq Threads /\ Setters \subseteq Threads
  BY Kinds
<1>3. Go(t, "unlock")
  BY DEF PushBack
<1>4. \A u \in Threads : pc'[u] = IF u = t THEN "unlock" ELSE pc[u]
  BY <1>1, <1>2, <1>3, GoMoves
<1>5. TypeOK'
  <2>1. pc' \in [Threads -> AnyStep]
    BY <1>1, <1>2, <1>3, GoMoves DEF AnyStep
  <2>2. QED
    <3>1. t \in Setters
      BY <1>1 DEF PushBack, Steps, EndingSteps
    <3>2. QED
      BY <1>1, <1>2, <2>1, <3>1 DEF TypeOK, PushBack, AnyStep, Living, childVars
<1>6. Steps'
  BY <1>1, <1>2, <1>4, Kinds
    DEF PushBack, Steps, TypeOK, WaiterSteps, SetterSteps, EndingSteps, Living
<1>7. MonitorExcludes'
  BY <1>1, <1>2, <1>4, Kinds DEF PushBack, MonitorExcludes
<1>8. CodeFirst'
  BY <1>1, <1>2, <1>4, Kinds
    DEF PushBack, CodeFirst, ExitCodeSeen, Steps, TypeOK, is_terminated, Living,
        WaiterSteps, SetterSteps
<1>9. SizeFresh'
  BY <1>1, <1>2, <1>4, Kinds DEF PushBack, SizeFresh, TypeOK, childVars, MonitorExcludes
<1>10. ChildrenKept'
  BY <1>1, <1>2 DEF PushBack, ChildrenKept, SizeFresh, childVars, TypeOK, Steps, EndingSteps
<1>11. QED
  BY <1>5, <1>6, <1>7, <1>8, <1>9, <1>10 DEF IndInv

\* wait_for_state_change takes the free mutex.
LEMMA EnterWaitPreserves ==
    ASSUME IndInv, NEW w \in Waiters, EnterWait(w)
    PROVE  IndInv'
<1>1. TypeOK /\ Steps /\ MonitorExcludes /\ CodeFirst /\ SizeFresh /\ ChildrenKept
  BY DEF IndInv
<1>2. /\ w \in Threads /\ Terminator \in Threads
      /\ Waiters \subseteq Threads /\ Setters \subseteq Threads
  BY Kinds
<1>3. Go(w, "check")
  BY DEF EnterWait
<1>4. \A u \in Threads : pc'[u] = IF u = w THEN "check" ELSE pc[u]
  BY <1>1, <1>2, <1>3, GoMoves
<1>5. TypeOK'
  <2>1. pc' \in [Threads -> AnyStep]
    BY <1>1, <1>2, <1>3, GoMoves DEF AnyStep
  <2>2. QED
    BY <1>1, <1>2, <2>1 DEF TypeOK, EnterWait, AnyStep, Living, childVars
<1>6. Steps'
  BY <1>1, <1>2, <1>4, Kinds
    DEF EnterWait, Steps, TypeOK, WaiterSteps, SetterSteps, EndingSteps, Living
<1>7. MonitorExcludes'
  BY <1>1, <1>2, <1>4, Kinds DEF EnterWait, MonitorExcludes
<1>8. CodeFirst'
  BY <1>1, <1>2, <1>4, Kinds
    DEF EnterWait, CodeFirst, ExitCodeSeen, Steps, TypeOK, is_terminated, Living,
        WaiterSteps, SetterSteps
<1>9. SizeFresh'
  BY <1>1, <1>2, <1>4, Kinds DEF EnterWait, SizeFresh, TypeOK, childVars, MonitorExcludes
<1>10. ChildrenKept'
  BY <1>1 DEF EnterWait, ChildrenKept, childVars
<1>11. QED
  BY <1>5, <1>6, <1>7, <1>8, <1>9, <1>10 DEF IndInv

\* A waiter returns only when the state says that the process has ended.
LEMMA CheckPreserves ==
    ASSUME IndInv, NEW w \in Waiters, Check(w)
    PROVE  IndInv'
<1>1. TypeOK /\ Steps /\ MonitorExcludes /\ CodeFirst /\ SizeFresh /\ ChildrenKept
  BY DEF IndInv
<1>2. /\ w \in Threads /\ Terminator \in Threads
      /\ Waiters \subseteq Threads /\ Setters \subseteq Threads
  BY Kinds
<1>3. Go(w, (IF is_terminated THEN "returned" ELSE "asleep"))
  BY DEF Check
<1>4. \A u \in Threads :
        pc'[u] = IF u = w THEN (IF is_terminated THEN "returned" ELSE "asleep") ELSE pc[u]
  BY <1>1, <1>2, <1>3, GoMoves
<1>5. TypeOK'
  <2>1. pc' \in [Threads -> AnyStep]
    BY <1>1, <1>2, <1>3, GoMoves DEF AnyStep
  <2>2. QED
    BY <1>1, <1>2, <2>1 DEF TypeOK, Check, AnyStep, Living, childVars
<1>6. Steps'
  BY <1>1, <1>2, <1>4, Kinds
    DEF Check, Steps, TypeOK, WaiterSteps, SetterSteps, EndingSteps, Living
<1>7. MonitorExcludes'
  BY <1>1, <1>2, <1>4, Kinds DEF Check, MonitorExcludes
<1>8. CodeFirst'
  BY <1>1, <1>2, <1>4, Kinds
    DEF Check, CodeFirst, ExitCodeSeen, Steps, TypeOK, is_terminated, Living,
        WaiterSteps, SetterSteps
<1>9. SizeFresh'
  BY <1>1, <1>2, <1>4, Kinds DEF Check, SizeFresh, TypeOK, childVars, MonitorExcludes
<1>10. ChildrenKept'
  BY <1>1 DEF Check, ChildrenKept, childVars
<1>11. QED
  BY <1>5, <1>6, <1>7, <1>8, <1>9, <1>10 DEF IndInv

\* A woken waiter takes the free mutex again.
LEMMA RelockPreserves ==
    ASSUME IndInv, NEW w \in Waiters, Relock(w)
    PROVE  IndInv'
<1>1. TypeOK /\ Steps /\ MonitorExcludes /\ CodeFirst /\ SizeFresh /\ ChildrenKept
  BY DEF IndInv
<1>2. /\ w \in Threads /\ Terminator \in Threads
      /\ Waiters \subseteq Threads /\ Setters \subseteq Threads
  BY Kinds
<1>3. Go(w, "recheck")
  BY DEF Relock
<1>4. \A u \in Threads : pc'[u] = IF u = w THEN "recheck" ELSE pc[u]
  BY <1>1, <1>2, <1>3, GoMoves
<1>5. TypeOK'
  <2>1. pc' \in [Threads -> AnyStep]
    BY <1>1, <1>2, <1>3, GoMoves DEF AnyStep
  <2>2. QED
    BY <1>1, <1>2, <2>1 DEF TypeOK, Relock, AnyStep, Living, childVars
<1>6. Steps'
  BY <1>1, <1>2, <1>4, Kinds
    DEF Relock, Steps, TypeOK, WaiterSteps, SetterSteps, EndingSteps, Living
<1>7. MonitorExcludes'
  BY <1>1, <1>2, <1>4, Kinds DEF Relock, MonitorExcludes
<1>8. CodeFirst'
  BY <1>1, <1>2, <1>4, Kinds
    DEF Relock, CodeFirst, ExitCodeSeen, Steps, TypeOK, is_terminated, Living,
        WaiterSteps, SetterSteps
<1>9. SizeFresh'
  BY <1>1, <1>2, <1>4, Kinds DEF Relock, SizeFresh, TypeOK, childVars, MonitorExcludes
<1>10. ChildrenKept'
  BY <1>1 DEF Relock, ChildrenKept, childVars
<1>11. QED
  BY <1>5, <1>6, <1>7, <1>8, <1>9, <1>10 DEF IndInv

\* A waiter that has returned finds the exit code.
LEMMA ReadExitCodePreserves ==
    ASSUME IndInv, NEW w \in Waiters, ReadExitCode(w)
    PROVE  IndInv'
<1>1. TypeOK /\ Steps /\ MonitorExcludes /\ CodeFirst /\ SizeFresh /\ ChildrenKept
  BY DEF IndInv
<1>2. /\ w \in Threads /\ Terminator \in Threads
      /\ Waiters \subseteq Threads /\ Setters \subseteq Threads
  BY Kinds
<1>3. Go(w, "done")
  BY DEF ReadExitCode
<1>4. \A u \in Threads : pc'[u] = IF u = w THEN "done" ELSE pc[u]
  BY <1>1, <1>2, <1>3, GoMoves
<1>5. TypeOK'
  <2>1. pc' \in [Threads -> AnyStep]
    BY <1>1, <1>2, <1>3, GoMoves DEF AnyStep
  <2>2. QED
    BY <1>1, <1>2, <2>1 DEF TypeOK, ReadExitCode, AnyStep, Living, childVars
<1>6. Steps'
  BY <1>1, <1>2, <1>4, Kinds
    DEF ReadExitCode, Steps, TypeOK, WaiterSteps, SetterSteps, EndingSteps, Living
<1>7. MonitorExcludes'
  BY <1>1, <1>2, <1>4, Kinds DEF ReadExitCode, MonitorExcludes
<1>8. CodeFirst'
  BY <1>1, <1>2, <1>4, Kinds
    DEF ReadExitCode, CodeFirst, ExitCodeSeen, Steps, TypeOK, is_terminated, Living,
        WaiterSteps, SetterSteps
<1>9. SizeFresh'
  BY <1>1, <1>2, <1>4, Kinds DEF ReadExitCode, SizeFresh, TypeOK, childVars, MonitorExcludes
<1>10. ChildrenKept'
  BY <1>1 DEF ReadExitCode, ChildrenKept, childVars
<1>11. QED
  BY <1>5, <1>6, <1>7, <1>8, <1>9, <1>10 DEF IndInv

\* A spurious wake-up moves no program counter.
LEMMA SpuriousWakeUpPreserves ==
    ASSUME IndInv, NEW w \in Waiters, SpuriousWakeUp(w)
    PROVE  IndInv'
<1>1. TypeOK'
  BY ThreadAssumption DEF IndInv, TypeOK, SpuriousWakeUp, childVars
<1>2. QED
  BY <1>1 DEF IndInv, Steps, MonitorExcludes, CodeFirst, ExitCodeSeen, SizeFresh,
              ChildrenKept, SpuriousWakeUp, childVars

-----------------------------------------------------------------------------
\* The invariant holds at the start.
LEMMA IndInvInit ==
    Init => IndInv
<1> SUFFICES ASSUME Init PROVE IndInv
  OBVIOUS
<1>1. TypeOK
  <2>1. /\ pc \in [Threads -> AnyStep]
        /\ arg \in [Threads -> Living \cup {"Created", "Zombie", "child"}]
    BY DEF Init, AnyStep
  <2>2. seen \in [Waiters -> BOOLEAN] /\ slot \in [Setters -> Nat] /\ mutex_ = Nobody
    BY DEF Init
  <2>3. sets \in 0 .. MaxSets /\ spurious \in 0 .. MaxSpurious
    BY ThreadAssumption DEF Init
  <2>4. QED
    BY <2>1, <2>2, <2>3 DEF Init, TypeOK, AnyStep
<1>2. QED
  BY <1>1, Kinds DEF Init, IndInv, Steps, WaiterSteps, SetterSteps, EndingSteps,
       MonitorExcludes, CodeFirst, ExitCodeSeen, SizeFresh, ChildrenKept

\* Every step keeps the invariant: one case per action.
LEMMA IndInvStep ==
    IndInv /\ [Next]_vars => IndInv'
<1> SUFFICES ASSUME IndInv, [Next]_vars PROVE IndInv'
  OBVIOUS
<1>1. CASE UNCHANGED vars
  BY <1>1 DEF vars, childVars, IndInv, TypeOK, Steps, MonitorExcludes, CodeFirst,
              ExitCodeSeen, SizeFresh, ChildrenKept
<1>2. ASSUME NEW t \in Setters, NEW s \in Living, CallSetState(t, s) PROVE IndInv'
  BY <1>2, CallSetStatePreserves
<1>3. ASSUME NEW t \in Setters, CallAddChild(t) PROVE IndInv'
  BY <1>3, CallAddChildPreserves
<1>4. CASE SetExitCode
  BY <1>4, SetExitCodePreserves
<1>5. ASSUME NEW t \in Setters \cup {Terminator}, SetStep(t) PROVE IndInv'
  BY <1>5, LockPreserves, StorePreserves, NotifyAllPreserves, ReadSizePreserves,
     PushBackPreserves, UnlockPreserves DEF SetStep
<1>6. ASSUME NEW w \in Waiters, WaitStep(w) \/ SpuriousWakeUp(w) PROVE IndInv'
  BY <1>6, EnterWaitPreserves, CheckPreserves, RelockPreserves, ReadExitCodePreserves,
     SpuriousWakeUpPreserves DEF WaitStep
<1>7. QED
  BY <1>1, <1>2, <1>3, <1>4, <1>5, <1>6 DEF Next

\* The invariant holds throughout.
LEMMA IndInvHolds ==
    Spec => []IndInv
  BY IndInvInit, IndInvStep, PTL DEF Spec

(***************************************************************************)
(* The state of the monitor always has its type.                           *)
(***************************************************************************)
THEOREM TypeCorrect ==
    Spec => []TypeOK
<1>1. IndInv => TypeOK
  BY DEF IndInv
<1>2. QED
  BY <1>1, IndInvHolds, PTL

(***************************************************************************)
(* mutex_ excludes: at most one thread is inside set_state, add_child or   *)
(* wait_for_state_change, the sleeping waiters aside.                      *)
(***************************************************************************)
THEOREM Exclusion ==
    Spec => []MonitorExcludes
<1>1. IndInv => MonitorExcludes
  BY DEF IndInv
<1>2. QED
  BY <1>1, IndInvHolds, PTL

(***************************************************************************)
(* A waiter that has seen the process terminated reads an exit code,       *)
(* although set_exit_code and exit_code take no lock.                      *)
(***************************************************************************)
THEOREM ExitCodeReachesWaiters ==
    Spec => []ExitCodeSeen
<1>1. IndInv => ExitCodeSeen
  BY DEF IndInv, CodeFirst
<1>2. QED
  BY <1>1, IndInvHolds, PTL

(***************************************************************************)
(* children_ has one element for every add_child that stored one.          *)
(***************************************************************************)
THEOREM NoChildLost ==
    Spec => []ChildrenKept
<1>1. IndInv => ChildrenKept
  BY DEF IndInv
<1>2. QED
  BY <1>1, IndInvHolds, PTL
=============================================================================
