------------------------- MODULE ProcessTableProofs -------------------------
(***************************************************************************)
(* The invariants of ProcessTable for every table size, every width of the *)
(* counters and every amount of memory, and for every state a zeroed slot  *)
(* may have except Running.                                                *)
(*                                                                         *)
(* UniquePids needs PidsBehind (pids are handed out upwards until they     *)
(* wrap); OwnPages and NoDanglingMapping need KernelKept, without which    *)
(* allocate_page could answer with a page of the kernel.                   *)
(***************************************************************************)
EXTENDS ProcessTable, PageBitmapProofs, FiniteSetTheorems

\* The pages that boot took stay taken.
KernelKept == 0 .. KernelPages - 1 \subseteq memory_bitmap

\* Until next_pid wraps, every pid in the table was handed out before it.
PidsBehind ==
    ~wrapped => /\ next_pid >= 1
                /\ \A s \in Slot : processes[s].pid < next_pid

IndInv ==
    /\ TypeOK
    /\ RunningIsCurrent
    /\ UniquePids
    /\ PidsBehind
    /\ KernelKept
    /\ OwnPages
    /\ NoDanglingMapping

-----------------------------------------------------------------------------
(***************************************************************************)
(* The scans of get_process, create_process and schedule: a slot that      *)
(* matches, or NoSlot.                                                     *)
(***************************************************************************)
LEMMA FirstSlotMatches ==
    ASSUME NEW S, S \subseteq Slot
    PROVE  /\ FirstSlot(S) # NoSlot => FirstSlot(S) \in S
           /\ FirstSlot(S) \in Slot \cup {NoSlot}
<1>1. CASE S = {}
  BY <1>1 DEF FirstSlot
<1>2. CASE S # {}
  <2>1. S \subseteq Nat
    BY DEF Slot
  <2>2. \E s \in S : \A t \in S : s <= t
    BY <1>2, <2>1, LeastNatural
  <2>3. FirstSlot(S) \in S
    BY <1>2, <2>2 DEF FirstSlot
  <2> QED
    BY <2>3
<1> QED
  BY <1>1, <1>2

\* NoSlot is no slot.
LEMMA NoSlotIsNoSlot == NoSlot \notin Slot
BY ProcessAssumption DEF NoSlot, Slot

(***************************************************************************)
(* get_process returns a slot of the table.                                *)
(***************************************************************************)
LEMMA GetProcessFinds ==
    ASSUME NEW table, NEW pid, get_process(table, pid) # NoSlot
    PROVE  get_process(table, pid) \in Slot
BY FirstSlotMatches DEF get_process

(***************************************************************************)
(* The free slot create_process finds is Terminated.                       *)
(***************************************************************************)
LEMMA FreeSlotIsTerminated ==
    ASSUME FreeSlot # NoSlot
    PROVE  FreeSlot \in Slot /\ processes[FreeSlot].state = "Terminated"
BY FirstSlotMatches DEF FreeSlot

(***************************************************************************)
(* The slot schedule picks is Ready.                                       *)
(***************************************************************************)
LEMMA NextReadyIsReady ==
    ASSUME NextReady # NoSlot
    PROVE  NextReady \in Slot /\ processes[NextReady].state = "Ready"
BY FirstSlotMatches DEF NextReady

(***************************************************************************)
(* The page that allocate_process_memory gets is a free one and none of    *)
(* the kernel's.                                                           *)
(***************************************************************************)
LEMMA TakenPage ==
    ASSUME KernelKept, NEW table, NEW pid, CanAllocate(table, pid)
    PROVE  /\ FirstFree(memory_bitmap) \in Page \ memory_bitmap
           /\ FirstFree(memory_bitmap) >= KernelPages
           /\ PageOf(allocate_page(memory_bitmap).ptr) = FirstFree(memory_bitmap)
           /\ allocate_page(memory_bitmap).bitmap =
                 memory_bitmap \cup {FirstFree(memory_bitmap)}
<1>1. FreePages(memory_bitmap) # {}
  BY AllocateFails DEF CanAllocate
<1>2. PICK i \in Page \ memory_bitmap :
         /\ i = FirstFree(memory_bitmap)
         /\ allocate_page(memory_bitmap).ptr = AddressOf(i)
         /\ allocate_page(memory_bitmap).bitmap = memory_bitmap \cup {i}
  BY <1>1, AllocateTakesAFreePage
<1>3. i >= KernelPages
  BY ProcessAssumption, PageAssumption DEF KernelKept, Page
<1>4. PageOf(AddressOf(i)) = i
  BY AddressRoundTrip
<1> QED
  BY <1>2, <1>3, <1>4

-----------------------------------------------------------------------------
(***************************************************************************)
(* init puts the table in a state of the invariant.                        *)
(***************************************************************************)
LEMMA InitIndInv == Init => IndInv
<1> SUFFICES ASSUME Init PROVE IndInv
  OBVIOUS
<1> USE DEF Init
<1>1. TypeOK
  <2>1. ZeroSlot \in ProcessRecord
    BY ProcessAssumption DEF ZeroSlot, ProcessRecord, Stack, Unit, States
  <2>2. /\ process_count \in 0 .. CountMod - 1
        /\ next_pid \in 0 .. PidMod - 1
        /\ ret \in 0 .. PidMod
    BY ProcessAssumption DEF NoCall
  <2>3. memory_bitmap \in SUBSET Page
    BY ProcessAssumption, PageAssumption DEF Page
  <2>4. cpu \in [esp : Stack, eip : Entries \cup {NoEntry}]
    BY ProcessAssumption DEF Stack, Unit
  <2> QED
    BY <2>1, <2>2, <2>3, <2>4 DEF TypeOK
<1>2. RunningIsCurrent
  BY ProcessAssumption DEF RunningIsCurrent, ZeroSlot
<1>3. UniquePids /\ PidsBehind
  BY DEF UniquePids, PidsBehind, ZeroSlot
<1>4. KernelKept
  BY DEF KernelKept
<1>5. OwnPages /\ NoDanglingMapping
  BY DEF OwnPages, NoDanglingMapping
<1> QED
  BY <1>1, <1>2, <1>3, <1>4, <1>5 DEF IndInv

-----------------------------------------------------------------------------
\* The conjuncts of the invariant about pages.
PageInv ==
    /\ memory_bitmap \in SUBSET Page
    /\ directory \in [Unit -> Page \cup {Identity}]
    /\ owned \in [Slot -> SUBSET Page]
    /\ KernelKept
    /\ OwnPages
    /\ NoDanglingMapping

(***************************************************************************)
(* allocate_process_memory keeps the pages of the processes apart: the     *)
(* page goes to slot s, which keeps the pages old.                         *)
(***************************************************************************)
LEMMA TakePageStep ==
    ASSUME PageInv, NEW table \in [Slot -> ProcessRecord], NEW pid,
           CanAllocate(table, pid), TakePage(table, pid),
           NEW s \in Slot, NEW old \in SUBSET owned[s],
           owned' = [owned EXCEPT ![s] = old \cup {FirstFree(memory_bitmap)}]
    PROVE  PageInv'
<1> USE DEF PageInv
<1> DEFINE i == FirstFree(memory_bitmap)
           g == get_process(table, pid)
           u == table[g].memory_size
<1>1. /\ i \in Page /\ i \notin memory_bitmap
      /\ i >= KernelPages
      /\ PageOf(allocate_page(memory_bitmap).ptr) = i
      /\ allocate_page(memory_bitmap).bitmap = memory_bitmap \cup {i}
  BY TakenPage
<1>2. u \in Unit
  <2>1. g \in Slot
    BY GetProcessFinds DEF CanAllocate
  <2> QED
    BY <2>1 DEF ProcessRecord
<1>3. /\ memory_bitmap' = memory_bitmap \cup {i}
      /\ directory' = [directory EXCEPT ![u] = i]
  BY <1>1 DEF TakePage
<1>4. owned' = [owned EXCEPT ![s] = old \cup {i}]
  OBVIOUS
<1> HIDE DEF i, g, u
<1>5. \A t \in Slot : owned'[t] = IF t = s THEN old \cup {i} ELSE owned[t]
  BY <1>4
<1>6. \A t \in Slot : owned[t] \subseteq memory_bitmap /\ i \notin owned[t]
  BY <1>1 DEF OwnPages
<1>7. /\ memory_bitmap' \in SUBSET Page
      /\ directory' \in [Unit -> Page \cup {Identity}]
  BY <1>1, <1>2, <1>3
<1>8. owned' \in [Slot -> SUBSET Page]
  BY <1>1, <1>4
<1>9. KernelKept'
  BY <1>3 DEF KernelKept
<1>10. OwnPages'
  <2> SUFFICES ASSUME NEW t \in Slot
               PROVE  /\ owned'[t] \subseteq memory_bitmap'
                      /\ \A j \in owned'[t] : j >= KernelPages
                      /\ \A r \in Slot \ {t} : owned'[t] \cap owned'[r] = {}
    BY DEF OwnPages
  <2>1. owned'[t] \subseteq memory_bitmap'
    BY <1>3, <1>5, <1>6
  <2>2. \A j \in owned'[t] : j >= KernelPages
    BY <1>1, <1>5 DEF OwnPages
  <2>3. ASSUME NEW r \in Slot \ {t} PROVE owned'[t] \cap owned'[r] = {}
    <3>1. owned[t] \cap owned[r] = {}
      BY DEF OwnPages
    <3> QED
      BY <1>5, <1>6, <3>1
  <2> QED
    BY <2>1, <2>2, <2>3
<1>11. NoDanglingMapping'
  <2> SUFFICES ASSUME NEW v \in Unit, directory'[v] # Identity
               PROVE  directory'[v] \in memory_bitmap' /\ directory'[v] >= KernelPages
    BY DEF NoDanglingMapping
  <2>1. directory'[v] = IF v = u THEN i ELSE directory[v]
    BY <1>2, <1>3
  <2> QED
    BY <1>1, <1>3, <2>1 DEF NoDanglingMapping
<1> QED
  BY <1>7, <1>8, <1>9, <1>10, <1>11

(***************************************************************************)
(* An action that takes no page keeps PageInv; a slot may lose its pages.  *)
(***************************************************************************)
LEMMA NoPageStep ==
    ASSUME PageInv, memory_bitmap' = memory_bitmap, directory' = directory,
           \/ owned' = owned
           \/ \E s \in Slot : owned' = [owned EXCEPT ![s] = {}]
    PROVE  PageInv'
<1> USE DEF PageInv
<1>1. owned' \in [Slot -> SUBSET Page]
  OBVIOUS
<1>2. \A t \in Slot : owned'[t] \subseteq owned[t]
  OBVIOUS
<1>3. KernelKept' /\ NoDanglingMapping'
  BY DEF KernelKept, NoDanglingMapping
<1>4. OwnPages'
  <2> SUFFICES ASSUME NEW t \in Slot
               PROVE  /\ owned'[t] \subseteq memory_bitmap'
                      /\ \A j \in owned'[t] : j >= KernelPages
                      /\ \A r \in Slot \ {t} : owned'[t] \cap owned'[r] = {}
    BY DEF OwnPages
  <2>1. /\ owned[t] \subseteq memory_bitmap
        /\ \A j \in owned[t] : j >= KernelPages
        /\ \A r \in Slot \ {t} : owned[t] \cap owned[r] = {}
    BY DEF OwnPages
  <2> QED
    BY <1>2, <2>1
<1> QED
  BY <1>1, <1>3, <1>4

-----------------------------------------------------------------------------
\* The conjuncts of the invariant about the table and the counters.
TableInv ==
    /\ processes \in [Slot -> ProcessRecord]
    /\ process_count \in 0 .. CountMod - 1
    /\ next_pid \in 0 .. PidMod - 1
    /\ current_process \in Slot \cup {NoSlot}
    /\ cpu \in [esp : Stack, eip : Entries \cup {NoEntry}]
    /\ ret \in 0 .. PidMod
    /\ wrapped \in BOOLEAN
    /\ underflowed \in BOOLEAN
    /\ RunningIsCurrent
    /\ UniquePids
    /\ PidsBehind

\* The two halves make up the invariant, before and after a step.
LEMMA IndInvHalves == (IndInv <=> TableInv /\ PageInv) /\ (IndInv <=> TableInv /\ PageInv)'
BY DEF IndInv, TableInv, PageInv, TypeOK

(***************************************************************************)
(* A new process, placed in a free slot under the next pid, keeps the      *)
(* table's invariants, whether its memory could be allocated or not.       *)
(***************************************************************************)
LEMMA NewProcessStep ==
    ASSUME TableInv, FreeSlot # NoSlot, TakePid,
           processes' \in [Slot -> ProcessRecord],
           \A t \in Slot :
              /\ processes'[t].pid = IF t = FreeSlot THEN next_pid ELSE processes[t].pid
              /\ processes'[t].state = IF t = FreeSlot THEN "Ready" ELSE processes[t].state,
           process_count' \in 0 .. CountMod - 1,
           ret' \in 0 .. PidMod,
           UNCHANGED <<current_process, cpu, underflowed>>
    PROVE  TableInv'
<1> USE DEF TableInv
<1>1. FreeSlot \in Slot
  BY FreeSlotIsTerminated
<1>2. next_pid' \in 0 .. PidMod - 1 /\ wrapped' \in BOOLEAN
  <2>1. next_pid \in Nat /\ PidMod \in Nat /\ PidMod > 1
    BY ProcessAssumption
  <2>2. next_pid' \in 0 .. PidMod - 1
    BY <2>1 DEF TakePid
  <2>3. wrapped' \in BOOLEAN
    BY DEF TakePid
  <2> QED
    BY <2>2, <2>3
<1>3. RunningIsCurrent'
  BY DEF RunningIsCurrent
<1>4. ASSUME ~wrapped'
      PROVE  ~wrapped /\ next_pid' = next_pid + 1
  <2>1. ~wrapped /\ next_pid + 1 # PidMod
    BY <1>4 DEF TakePid
  <2>2. (next_pid + 1) % PidMod = next_pid + 1
    BY <2>1, ProcessAssumption
  <2> QED
    BY <2>1, <2>2 DEF TakePid
<1>5. \A t \in Slot : processes[t].pid \in Nat
  BY DEF ProcessRecord
<1>6. PidsBehind'
  BY <1>4, <1>5 DEF PidsBehind
<1>7. UniquePids'
  <2> SUFFICES ASSUME ~wrapped', NEW s \in Slot, NEW t \in Slot,
                      processes'[s].pid = processes'[t].pid, processes'[s].pid # 0
               PROVE  s = t
    BY DEF UniquePids
  <2>1. ~wrapped
    BY <1>4
  <2>2. \A r \in Slot : processes[r].pid < next_pid
    BY <2>1 DEF PidsBehind
  <2>3. \A r, q \in Slot : processes[r].pid = processes[q].pid
                             /\ processes[r].pid # 0 => r = q
    BY <2>1 DEF UniquePids
  <2> QED
    BY <1>5, <2>2, <2>3
<1> QED
  BY <1>2, <1>3, <1>6, <1>7

(***************************************************************************)
(* An action that moves no pid, and makes nobody Running but the process   *)
(* it makes current, keeps the table's invariants.                         *)
(***************************************************************************)
LEMMA SamePidsStep ==
    ASSUME TableInv,
           processes' \in [Slot -> ProcessRecord],
           \A t \in Slot : processes'[t].pid = processes[t].pid,
           \A t \in Slot : processes'[t].state = "Running" => t = current_process',
           process_count' \in 0 .. CountMod - 1,
           current_process' \in Slot \cup {NoSlot},
           cpu' \in [esp : Stack, eip : Entries \cup {NoEntry}],
           underflowed' \in BOOLEAN,
           UNCHANGED <<next_pid, ret, wrapped>>
    PROVE  TableInv'
<1> USE DEF TableInv
<1>1. RunningIsCurrent'
  BY DEF RunningIsCurrent
<1>2. UniquePids'
  BY DEF UniquePids
<1>3. PidsBehind'
  BY DEF PidsBehind
<1> QED
  BY <1>1, <1>2, <1>3

-----------------------------------------------------------------------------
(***************************************************************************)
(* The tables that create_process and allocate_process_memory build.       *)
(***************************************************************************)
LEMMA ClaimedTable ==
    ASSUME TableInv, NEW s \in Slot, NEW entry \in Entries \cup {NoEntry}
    PROVE  /\ Claimed(s, entry) \in [Slot -> ProcessRecord]
           /\ \A t \in Slot :
                /\ Claimed(s, entry)[t].pid = IF t = s THEN next_pid ELSE processes[t].pid
                /\ Claimed(s, entry)[t].state = IF t = s THEN "Ready" ELSE processes[t].state
<1> USE DEF TableInv
<1> DEFINE claimed == [processes[s] EXCEPT !.pid = next_pid, !.state = "Ready",
                                            !.eip = entry, !.memory_size = 1]
<1>1. Claimed(s, entry) = [processes EXCEPT ![s] = claimed]
  BY DEF Claimed
<1>2. processes[s] \in ProcessRecord
  OBVIOUS
<1>3. /\ claimed \in ProcessRecord
      /\ claimed.pid = next_pid /\ claimed.state = "Ready"
  <2>1. 1 \in Unit
    BY ProcessAssumption DEF Unit
  <2> QED
    BY <1>2, <2>1 DEF ProcessRecord, States
<1> HIDE DEF claimed
<1> QED
  BY <1>1, <1>3

\* Growing a process's memory changes nothing but its memory_size.
LEMMA GrownTableOK ==
    ASSUME NEW table \in [Slot -> ProcessRecord], NEW pid, NEW size \in Nat,
           get_process(table, pid) # NoSlot
    PROVE  /\ GrownTable(table, pid, size) \in [Slot -> ProcessRecord]
           /\ \A t \in Slot :
                /\ GrownTable(table, pid, size)[t].pid = table[t].pid
                /\ GrownTable(table, pid, size)[t].state = table[t].state
<1> DEFINE g == get_process(table, pid)
           m == (table[g].memory_size + size) % MemUnits
<1>1. g \in Slot
  BY GetProcessFinds
<1>2. m \in Unit
  <2>1. table[g].memory_size \in Nat
    BY <1>1, ProcessAssumption DEF ProcessRecord, Unit
  <2>2. MemUnits \in Nat \ {0}
    BY ProcessAssumption
  <2> QED
    BY <2>1, <2>2 DEF Unit
<1>3. GrownTable(table, pid, size) = [table EXCEPT ![g].memory_size = m]
  BY DEF GrownTable
<1> HIDE DEF g, m
<1> QED
  BY <1>1, <1>2, <1>3 DEF ProcessRecord

\* Setting the initial stack changes nothing but the stack pointer.
LEMMA WithStackOK ==
    ASSUME NEW table \in [Slot -> ProcessRecord], NEW s \in Slot
    PROVE  /\ WithStack(table, s) \in [Slot -> ProcessRecord]
           /\ \A t \in Slot :
                /\ WithStack(table, s)[t].pid = table[t].pid
                /\ WithStack(table, s)[t].state = table[t].state
<1>1. <<table[s].memory_size, 0>> \in Stack
  BY ProcessAssumption DEF Stack, ProcessRecord
<1> QED
  BY <1>1 DEF WithStack, ProcessRecord

(***************************************************************************)
(* create_process keeps the invariant on all of its three ways out.        *)
(***************************************************************************)
LEMMA CreateProcessStep ==
    ASSUME IndInv, NEW entry \in Entries \cup {NoEntry}, CreateProcess(entry)
    PROVE  IndInv'
<1>1. TableInv /\ PageInv
  BY IndInvHalves
<1>2. CASE CreateRefused
  <2>1. PageInv'
    BY <1>1, <1>2, NoPageStep DEF CreateRefused
  <2>2. TableInv'
    BY <1>1, <1>2, ProcessAssumption
    DEF CreateRefused, TableInv, RunningIsCurrent, UniquePids, PidsBehind
  <2> QED
    BY <2>1, <2>2, IndInvHalves
<1>3. CASE CreateNoMemory(entry)
  <2>1. FreeSlot # NoSlot /\ FreeSlot \in Slot
    BY <1>3, FreeSlotIsTerminated DEF CreateNoMemory
  <2>2. TableInv'
    <3>1. /\ processes' = Claimed(FreeSlot, entry) /\ TakePid
          /\ process_count' = process_count /\ ret' = 0
          /\ UNCHANGED <<current_process, cpu, underflowed>>
      BY <1>3 DEF CreateNoMemory
    <3>2. process_count' \in 0 .. CountMod - 1 /\ ret' \in 0 .. PidMod
      BY <1>1, <3>1, ProcessAssumption DEF TableInv
    <3> QED
      BY <1>1, <2>1, <3>1, <3>2, ClaimedTable, NewProcessStep
  <2>3. PageInv'
    BY <1>1, <1>3, <2>1, NoPageStep DEF CreateNoMemory
  <2> QED
    BY <2>2, <2>3, IndInvHalves
<1>4. CASE CreateDone(entry)
  <2> DEFINE claimed == Claimed(FreeSlot, entry)
             grown   == GrownTable(claimed, next_pid, 1)
  <2>1. FreeSlot # NoSlot /\ FreeSlot \in Slot
    BY <1>4, FreeSlotIsTerminated DEF CreateDone
  <2>2. /\ CanAllocate(claimed, next_pid)
        /\ TakePage(claimed, next_pid)
        /\ processes' = WithStack(grown, FreeSlot)
        /\ TakePid
        /\ owned' = [owned EXCEPT ![FreeSlot] = {FirstFree(memory_bitmap)}]
        /\ process_count' = (process_count + 1) % CountMod
        /\ ret' = next_pid
        /\ UNCHANGED <<current_process, cpu, underflowed>>
    BY <1>4 DEF CreateDone
  <2>3. claimed \in [Slot -> ProcessRecord]
    BY <1>1, <2>1, ClaimedTable
  <2>4. /\ grown \in [Slot -> ProcessRecord]
        /\ \A t \in Slot : grown[t].pid = claimed[t].pid
                            /\ grown[t].state = claimed[t].state
    BY <2>2, <2>3, GrownTableOK DEF CanAllocate
  <2>5. TableInv'
    <3>1. process_count' \in 0 .. CountMod - 1
      BY <1>1, <2>2, ProcessAssumption DEF TableInv
    <3>2. ret' \in 0 .. PidMod
      BY <1>1, <2>2, ProcessAssumption DEF TableInv
    <3>3. \A t \in Slot :
            /\ claimed[t].pid = IF t = FreeSlot THEN next_pid ELSE processes[t].pid
            /\ claimed[t].state = IF t = FreeSlot THEN "Ready" ELSE processes[t].state
      BY <1>1, <2>1, ClaimedTable
    <3> HIDE DEF claimed, grown
    <3>4. /\ processes' \in [Slot -> ProcessRecord]
          /\ \A t \in Slot : processes'[t].pid = grown[t].pid
                              /\ processes'[t].state = grown[t].state
      BY <2>1, <2>2, <2>4, WithStackOK
    <3>5. \A t \in Slot :
            /\ processes'[t].pid = IF t = FreeSlot THEN next_pid ELSE processes[t].pid
            /\ processes'[t].state = IF t = FreeSlot THEN "Ready" ELSE processes[t].state
      BY <2>4, <3>3, <3>4
    <3> QED
      BY <1>1, <2>1, <2>2, <3>1, <3>2, <3>4, <3>5, NewProcessStep
  <2>6. PageInv'
    <3>1. {} \in SUBSET owned[FreeSlot]
      OBVIOUS
    <3>2. owned' = [owned EXCEPT ![FreeSlot] = {} \cup {FirstFree(memory_bitmap)}]
      BY <2>2
    <3> HIDE DEF claimed
    <3> QED
      BY <1>1, <2>1, <2>2, <2>3, <3>1, <3>2, TakePageStep
  <2> QED
    BY <2>5, <2>6, IndInvHalves
<1> QED
  BY <1>2, <1>3, <1>4 DEF CreateProcess

(***************************************************************************)
(* terminate_process keeps the invariant, whatever the process's state.    *)
(***************************************************************************)
LEMMA TerminateProcessStep ==
    ASSUME IndInv, NEW pid, TerminateProcess(pid)
    PROVE  IndInv'
<1> DEFINE g == get_process(processes, pid)
<1>1. TableInv /\ PageInv
  BY IndInvHalves
<1>2. g \in Slot
  BY GetProcessFinds DEF TerminateProcess
<1>3. /\ processes' = [processes EXCEPT ![g].state = "Terminated"]
      /\ process_count' = (process_count + CountMod - 1) % CountMod
      /\ underflowed' \in BOOLEAN
      /\ UNCHANGED <<next_pid, current_process, memory_bitmap, directory, cpu,
                     owned, ret, wrapped>>
  BY DEF TerminateProcess, CountDown
<1> HIDE DEF g
<1>4. processes' \in [Slot -> ProcessRecord]
  BY <1>1, <1>2, <1>3 DEF TableInv, ProcessRecord, States
<1>5. \A t \in Slot : /\ processes'[t].pid = processes[t].pid
                      /\ processes'[t].state = "Running" => processes[t].state = "Running"
  BY <1>1, <1>2, <1>3 DEF TableInv, ProcessRecord
<1>6. process_count' \in 0 .. CountMod - 1
  BY <1>1, <1>3, ProcessAssumption DEF TableInv
<1>7. TableInv'
  <2>1. /\ \A t \in Slot : processes'[t].state = "Running" => t = current_process'
        /\ current_process' \in Slot \cup {NoSlot}
        /\ cpu' \in [esp : Stack, eip : Entries \cup {NoEntry}]
    BY <1>1, <1>3, <1>5 DEF TableInv, RunningIsCurrent
  <2> QED
    BY <1>1, <1>3, <1>4, <1>5, <1>6, <2>1, SamePidsStep
<1>8. PageInv'
  BY <1>1, <1>3, NoPageStep
<1> QED
  BY <1>7, <1>8, IndInvHalves

(***************************************************************************)
(* allocate_process_memory keeps the invariant.                            *)
(***************************************************************************)
LEMMA AllocateProcessMemoryStep ==
    ASSUME IndInv, NEW pid, NEW size \in Nat, AllocateProcessMemory(pid, size)
    PROVE  IndInv'
<1> DEFINE g == get_process(processes, pid)
<1>1. TableInv /\ PageInv
  BY IndInvHalves
<1>2. /\ CanAllocate(processes, pid) /\ TakePage(processes, pid)
      /\ processes' = GrownTable(processes, pid, size)
      /\ owned' = [owned EXCEPT ![g] = owned[g] \cup {FirstFree(memory_bitmap)}]
      /\ UNCHANGED <<process_count, next_pid, current_process, cpu, ret, wrapped, underflowed>>
  BY DEF AllocateProcessMemory
<1>3. g \in Slot /\ g # NoSlot
  BY <1>2, GetProcessFinds DEF CanAllocate
<1>4. /\ processes' \in [Slot -> ProcessRecord]
      /\ \A t \in Slot : processes'[t].pid = processes[t].pid
                          /\ processes'[t].state = processes[t].state
  BY <1>1, <1>2, <1>3, GrownTableOK DEF TableInv
<1> HIDE DEF g
<1>5. TableInv'
  <2>1. /\ \A t \in Slot : processes'[t].state = "Running" => t = current_process'
        /\ process_count' \in 0 .. CountMod - 1
        /\ current_process' \in Slot \cup {NoSlot}
        /\ cpu' \in [esp : Stack, eip : Entries \cup {NoEntry}]
        /\ underflowed' \in BOOLEAN
    BY <1>1, <1>2, <1>4 DEF TableInv, RunningIsCurrent
  <2> QED
    BY <1>1, <1>2, <1>4, <2>1, SamePidsStep
<1>6. PageInv'
  <2>1. owned[g] \in SUBSET owned[g]
    OBVIOUS
  <2>2. processes \in [Slot -> ProcessRecord]
    BY <1>1 DEF TableInv
  <2> QED
    BY <1>1, <1>2, <1>3, <2>1, <2>2, TakePageStep
<1> QED
  BY <1>5, <1>6, IndInvHalves

(***************************************************************************)
(* schedule and switch_context keep the invariant: the outgoing process    *)
(* loses Running in the step in which the incoming one gets it.            *)
(***************************************************************************)
LEMMA ScheduleStep ==
    ASSUME IndInv, Schedule
    PROVE  IndInv'
<1>1. TableInv /\ PageInv
  BY IndInvHalves
<1>2. NextReady \in Slot
  BY NextReadyIsReady DEF Schedule
<1>3. /\ processes' = Dispatch(Preempt(processes), NextReady)
      /\ current_process' = NextReady
      /\ cpu' = [cpu EXCEPT !.eip = processes[NextReady].eip]
      /\ UNCHANGED <<process_count, next_pid, memory_bitmap, directory, owned,
                     ret, wrapped, underflowed>>
  BY DEF Schedule
<1> DEFINE idle == Preempt(processes)
<1>4. /\ idle \in [Slot -> ProcessRecord]
      /\ \A t \in Slot : idle[t].pid = processes[t].pid /\ idle[t].state # "Running"
  <2>1. CASE current_process = NoSlot
    BY <1>1, <2>1, NoSlotIsNoSlot DEF Preempt, TableInv, RunningIsCurrent
  <2>2. CASE current_process # NoSlot
    <3>1. idle = [processes EXCEPT ![current_process].state = "Ready"]
      BY <2>2 DEF Preempt
    <3>2. current_process \in Slot
      BY <1>1, <2>2 DEF TableInv
    <3> HIDE DEF idle
    <3> QED
      BY <1>1, <3>1, <3>2 DEF TableInv, RunningIsCurrent, ProcessRecord, States
  <2> QED
    BY <2>1, <2>2
<1> HIDE DEF idle
<1>5. processes' = [idle EXCEPT ![NextReady] =
                       [idle[NextReady] EXCEPT !.state = "Running", !.esp = cpu.esp]]
  BY <1>3 DEF Dispatch, idle
<1>6. cpu.esp \in Stack /\ cpu' \in [esp : Stack, eip : Entries \cup {NoEntry}]
  BY <1>1, <1>2, <1>3 DEF TableInv, ProcessRecord
<1>7. /\ processes' \in [Slot -> ProcessRecord]
      /\ \A t \in Slot : processes'[t].pid = processes[t].pid
      /\ \A t \in Slot : processes'[t].state = "Running" => t = NextReady
  BY <1>2, <1>4, <1>5, <1>6 DEF ProcessRecord, States
<1>8. TableInv'
  <2>1. /\ process_count' \in 0 .. CountMod - 1
        /\ current_process' \in Slot \cup {NoSlot}
        /\ underflowed' \in BOOLEAN
    BY <1>1, <1>2, <1>3 DEF TableInv
  <2> QED
    BY <1>1, <1>3, <1>6, <1>7, <2>1, SamePidsStep
<1>9. PageInv'
  BY <1>1, <1>3, NoPageStep
<1> QED
  BY <1>8, <1>9, IndInvHalves

\* Moving the stack pointer of the processor keeps the invariant.
LEMMA PushStep ==
    ASSUME IndInv, Push
    PROVE  IndInv'
<1>1. TableInv /\ PageInv
  BY IndInvHalves
<1>2. PICK d \in 0 .. MaxDepth : cpu' = [cpu EXCEPT !.esp = <<cpu.esp[1], d>>]
  BY DEF Push
<1>3. cpu' \in [esp : Stack, eip : Entries \cup {NoEntry}]
  BY <1>1, <1>2 DEF TableInv, Stack
<1>4. TableInv'
  BY <1>1, <1>3, SamePidsStep DEF Push, TableInv, RunningIsCurrent
<1>5. PageInv'
  BY <1>1, NoPageStep DEF Push
<1> QED
  BY <1>4, <1>5, IndInvHalves

-----------------------------------------------------------------------------
(***************************************************************************)
(* Every step of the kernel on the process table keeps the invariant.      *)
(***************************************************************************)
LEMMA NextIndInv ==
    ASSUME IndInv, [Next]_vars
    PROVE  IndInv'
<1>1. ASSUME NEW e \in Entries, CreateProcess(e) PROVE IndInv'
  BY <1>1, CreateProcessStep
<1>2. ASSUME NEW p \in CallerPids, TerminateProcess(p) PROVE IndInv'
  BY <1>2, TerminateProcessStep
<1>3. ASSUME NEW p \in CallerPids, NEW n \in Sizes, AllocateProcessMemory(p, n)
      PROVE  IndInv'
  BY <1>3, ProcessAssumption, AllocateProcessMemoryStep
<1>4. CASE Schedule
  BY <1>4, ScheduleStep
<1>5. CASE SysExit
  BY <1>5, TerminateProcessStep DEF SysExit
<1>6. CASE SysFork
  BY <1>6, CreateProcessStep DEF SysFork
<1>7. CASE Push
  BY <1>7, PushStep
<1>8. CASE UNCHANGED vars
  BY <1>8 DEF vars, IndInv, TypeOK, RunningIsCurrent, UniquePids, PidsBehind,
              KernelKept, OwnPages, NoDanglingMapping
<1> QED
  BY <1>1, <1>2, <1>3, <1>4, <1>5, <1>6, <1>7, <1>8 DEF Next

(***************************************************************************)
(* IndInv holds in every state of the process table.                       *)
(***************************************************************************)
THEOREM Invariance == Spec => []IndInv
BY InitIndInv, NextIndInv, PTL DEF Spec

(***************************************************************************)
(* The variables of process.cpp keep their types: no slot, counter or      *)
(* mapping leaves its range, whatever pid and size the callers pass.       *)
(***************************************************************************)
THEOREM TypeCorrect == Spec => []TypeOK
<1>1. IndInv => TypeOK
  BY DEF IndInv
<1> QED
  BY <1>1, Invariance, PTL

(***************************************************************************)
(* schedule, terminate_process, sys_exit and create_process never leave a  *)
(* process Running that current_process does not point to.                 *)
(***************************************************************************)
THEOREM OnlyCurrentRuns == Spec => []RunningIsCurrent
<1>1. IndInv => RunningIsCurrent
  BY DEF IndInv
<1> QED
  BY <1>1, Invariance, PTL

(***************************************************************************)
(* Until next_pid wraps, get_process finds at most one slot for a non-zero *)
(* pid, terminated processes included.                                     *)
(***************************************************************************)
THEOREM PidsUnique == Spec => []UniquePids
<1>1. IndInv => UniquePids
  BY DEF IndInv
<1> QED
  BY <1>1, Invariance, PTL

(***************************************************************************)
(* allocate_process_memory never gives one page to two processes, nor a    *)
(* page of the kernel to any.                                              *)
(***************************************************************************)
THEOREM PagesOwned == Spec => []OwnPages
<1>1. IndInv => OwnPages
  BY DEF IndInv
<1> QED
  BY <1>1, Invariance, PTL

(***************************************************************************)
(* map_page's mappings lead to pages that stay allocated and are none of   *)
(* the kernel's.                                                           *)
(***************************************************************************)
THEOREM MappingsHold == Spec => []NoDanglingMapping
<1>1. IndInv => NoDanglingMapping
  BY DEF IndInv
<1> QED
  BY <1>1, Invariance, PTL

-----------------------------------------------------------------------------
\* There are finitely many slots.
LEMMA SlotsFinite == IsFiniteSet(Slot)
<1>1. 0 \in Int /\ MAX_PROCESSES - 1 \in Int
  BY ProcessAssumption
<1> QED
  BY <1>1, FS_Interval DEF Slot

\* So there are finitely many occupied ones, before and after a step.
LEMMA OccupiedFinite ==
    /\ IsFiniteSet(Occupied) /\ Cardinality(Occupied) \in Nat
    /\ IsFiniteSet(Occupied') /\ Cardinality(Occupied') \in Nat
<1>1. Occupied \in SUBSET Slot /\ Occupied' \in SUBSET Slot
  BY DEF Occupied
<1> QED
  BY <1>1, SlotsFinite, FS_Subset, FS_CardinalityType

(***************************************************************************)
(* What the steps do to the count and to the occupied slots: nothing but   *)
(* perhaps occupy more; count one up and occupy the slot that was free; or *)
(* count one down and give up at most one slot.                            *)
(***************************************************************************)
LEMMA CountStep ==
    ASSUME IndInv, IndInv', CountErrsLow,
           \/ /\ Occupied \subseteq Occupied'
              /\ UNCHANGED <<process_count, underflowed>>
           \/ /\ \E s \in Slot \ Occupied : Occupied' = Occupied \cup {s}
              /\ process_count < MAX_PROCESSES
              /\ process_count' = (process_count + 1) % CountMod
              /\ underflowed' = underflowed
           \/ /\ \E s \in Slot : Occupied \ {s} \subseteq Occupied'
              /\ CountDown
    PROVE  CountErrsLow'
<1>1. /\ IsFiniteSet(Occupied) /\ Cardinality(Occupied) \in Nat
      /\ IsFiniteSet(Occupied') /\ Cardinality(Occupied') \in Nat
  BY OccupiedFinite
<1>2. /\ process_count \in Nat /\ process_count < CountMod
      /\ CountMod \in Nat /\ MAX_PROCESSES \in Nat /\ MAX_PROCESSES < CountMod
  BY ProcessAssumption DEF IndInv, TypeOK
<1>3. CASE Occupied \subseteq Occupied' /\ UNCHANGED <<process_count, underflowed>>
  <2>1. Cardinality(Occupied) <= Cardinality(Occupied')
    BY <1>1, <1>3, FS_Subset
  <2> QED
    BY <1>1, <1>2, <1>3, <2>1 DEF CountErrsLow
<1>4. CASE /\ \E s \in Slot \ Occupied : Occupied' = Occupied \cup {s}
           /\ process_count < MAX_PROCESSES
           /\ process_count' = (process_count + 1) % CountMod
           /\ underflowed' = underflowed
  <2>1. Cardinality(Occupied') = Cardinality(Occupied) + 1
    BY <1>1, <1>4, FS_AddElement
  <2>2. process_count' = process_count + 1
    BY <1>2, <1>4
  <2> QED
    BY <1>1, <1>2, <1>4, <2>1, <2>2 DEF CountErrsLow
<1>5. CASE /\ \E s \in Slot : Occupied \ {s} \subseteq Occupied'
           /\ CountDown
  <2> SUFFICES ASSUME ~underflowed'
               PROVE  process_count' <= Cardinality(Occupied')
    BY DEF CountErrsLow
  <2>1. ~underflowed /\ process_count # 0
    BY <1>5 DEF CountDown
  <2>2. process_count' = process_count - 1
    <3>1. process_count + CountMod - 1 = CountMod + (process_count - 1)
      BY <1>2
    <3>2. process_count - 1 \in 0 .. CountMod - 1
      BY <1>2, <2>1
    <3> QED
      BY <1>2, <1>5, <3>1, <3>2 DEF CountDown
  <2>3. PICK s \in Slot : Occupied \ {s} \subseteq Occupied'
    BY <1>5
  <2>4. /\ IsFiniteSet(Occupied \ {s})
        /\ Cardinality(Occupied \ {s}) >= Cardinality(Occupied) - 1
    BY <1>1, FS_RemoveElement
  <2>5. Cardinality(Occupied \ {s}) <= Cardinality(Occupied')
        /\ Cardinality(Occupied \ {s}) \in Nat
    BY <1>1, <2>3, <2>4, FS_Subset, FS_CardinalityType
  <2>6. process_count <= Cardinality(Occupied)
    BY <2>1 DEF CountErrsLow
  <2> QED
    BY <1>1, <1>2, <2>2, <2>4, <2>5, <2>6
<1> QED
  BY <1>3, <1>4, <1>5

\* create_process occupies the slot it found, or changes nothing.
LEMMA CreateCount ==
    ASSUME IndInv, IndInv', CountErrsLow,
           NEW e \in Entries \cup {NoEntry}, CreateProcess(e)
    PROVE  CountErrsLow'
<1>1. TableInv
  BY IndInvHalves
<1>2. CASE CreateRefused
  <2>1. Occupied \subseteq Occupied' /\ UNCHANGED <<process_count, underflowed>>
    BY <1>2 DEF CreateRefused, Occupied
  <2> QED
    BY <2>1, CountStep
<1>3. CASE CreateNoMemory(e)
  <2>1. FreeSlot \in Slot
    BY <1>3, FreeSlotIsTerminated DEF CreateNoMemory
  <2>2. processes' = Claimed(FreeSlot, e) /\ UNCHANGED <<process_count, underflowed>>
    BY <1>3 DEF CreateNoMemory
  <2>3. Occupied \subseteq Occupied'
    BY <1>1, <2>1, <2>2, ClaimedTable DEF Occupied
  <2> QED
    BY <2>2, <2>3, CountStep
<1>4. CASE CreateDone(e)
  <2>1. FreeSlot \in Slot /\ processes[FreeSlot].state = "Terminated"
    BY <1>4, FreeSlotIsTerminated DEF CreateDone
  <2> DEFINE claimed == Claimed(FreeSlot, e)
             grown   == GrownTable(claimed, next_pid, 1)
  <2>2. /\ CanAllocate(claimed, next_pid)
        /\ processes' = WithStack(grown, FreeSlot)
        /\ process_count < MAX_PROCESSES
        /\ process_count' = (process_count + 1) % CountMod
        /\ underflowed' = underflowed
    BY <1>4 DEF CreateDone
  <2>3. /\ claimed \in [Slot -> ProcessRecord]
        /\ \A t \in Slot :
             claimed[t].state = IF t = FreeSlot THEN "Ready" ELSE processes[t].state
    BY <1>1, <2>1, ClaimedTable
  <2>4. /\ grown \in [Slot -> ProcessRecord]
        /\ \A t \in Slot : grown[t].state = claimed[t].state
    BY <2>2, <2>3, GrownTableOK DEF CanAllocate
  <2> HIDE DEF claimed, grown
  <2>5. \A t \in Slot : processes'[t].state = grown[t].state
    BY <2>1, <2>2, <2>4, WithStackOK
  <2>6. FreeSlot \in Slot \ Occupied /\ Occupied' = Occupied \cup {FreeSlot}
    BY <2>1, <2>3, <2>4, <2>5 DEF Occupied
  <2> QED
    BY <2>2, <2>6, CountStep
<1> QED
  BY <1>2, <1>3, <1>4 DEF CreateProcess

\* terminate_process counts down and gives up one slot at most.
LEMMA TerminateCount ==
    ASSUME IndInv, IndInv', CountErrsLow, NEW pid, TerminateProcess(pid)
    PROVE  CountErrsLow'
<1> DEFINE g == get_process(processes, pid)
<1>1. /\ g \in Slot /\ processes' = [processes EXCEPT ![g].state = "Terminated"]
      /\ CountDown
  BY GetProcessFinds DEF TerminateProcess
<1> HIDE DEF g
<1>2. Occupied \ {g} \subseteq Occupied'
  BY <1>1 DEF IndInv, TypeOK, Occupied
<1> QED
  BY <1>1, <1>2, CountStep

\* schedule terminates nobody.
LEMMA ScheduleCount ==
    ASSUME IndInv, IndInv', CountErrsLow, Schedule
    PROVE  CountErrsLow'
<1>1. /\ processes' = Dispatch(Preempt(processes), NextReady) /\ NextReady \in Slot
      /\ UNCHANGED <<process_count, underflowed>>
  BY NextReadyIsReady DEF Schedule
<1>2. processes \in [Slot -> ProcessRecord]
  BY DEF IndInv, TypeOK
<1>3. /\ Preempt(processes) \in [Slot -> ProcessRecord]
      /\ \A t \in Slot : processes[t].state # "Terminated" =>
                         Preempt(processes)[t].state # "Terminated"
  BY <1>2 DEF Preempt, ProcessRecord, States
<1>4. Occupied \subseteq Occupied'
  BY <1>1, <1>3 DEF Dispatch, ProcessRecord, Occupied
<1> QED
  BY <1>1, <1>4, CountStep

(***************************************************************************)
(* Until it is counted down from 0, process_count never exceeds the number *)
(* of slots create_process may not take, whatever is created, terminated   *)
(* twice, left half made or brought back by schedule.                      *)
(***************************************************************************)
THEOREM CountNeverHigh == Spec => []CountErrsLow
<1>1. Init => CountErrsLow
  BY OccupiedFinite DEF Init, CountErrsLow
<1>2. ASSUME IndInv, IndInv', CountErrsLow, [Next]_vars PROVE CountErrsLow'
  <2>1. ASSUME NEW p, NEW n \in Nat, AllocateProcessMemory(p, n) PROVE CountErrsLow'
    <3>1. processes \in [Slot -> ProcessRecord]
      BY <1>2 DEF IndInv, TypeOK
    <3>2. /\ get_process(processes, p) # NoSlot /\ processes' = GrownTable(processes, p, n)
          /\ UNCHANGED <<process_count, underflowed>>
      BY <2>1 DEF AllocateProcessMemory, CanAllocate
    <3>3. Occupied \subseteq Occupied'
      BY <3>1, <3>2, GrownTableOK DEF Occupied
    <3> QED
      BY <1>2, <3>2, <3>3, CountStep
  <2>2. CASE Push \/ UNCHANGED vars
    <3>1. Occupied \subseteq Occupied' /\ UNCHANGED <<process_count, underflowed>>
      BY <2>2 DEF Push, vars, Occupied
    <3> QED
      BY <1>2, <3>1, CountStep
  <2>3. CASE Schedule
    BY <1>2, <2>3, ScheduleCount
  <2>4. ASSUME NEW e \in Entries \cup {NoEntry}, CreateProcess(e) PROVE CountErrsLow'
    BY <1>2, <2>4, CreateCount
  <2>5. ASSUME NEW p, TerminateProcess(p) PROVE CountErrsLow'
    BY <1>2, <2>5, TerminateCount
  <2> QED
    BY <1>2, <2>1, <2>2, <2>3, <2>4, <2>5, ProcessAssumption DEF Next, SysExit, SysFork
<1> QED
  BY <1>1, <1>2, Invariance, PTL DEF Spec
=============================================================================
