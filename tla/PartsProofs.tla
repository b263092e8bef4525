----------------------------- MODULE PartsProofs -----------------------------
(***************************************************************************)
(* Proofs about the parts that MCParts puts side by side, for every value  *)
(* of their constants.  Each part has a section: its inductive invariant,  *)
(* that its own initial states and steps keep it, and the theorem about    *)
(* the property that the runs check.                                       *)
(***************************************************************************)
EXTENDS MCParts, FiniteSetTheorems, SequenceTheorems, WellFoundedInduction, TLAPS

\* A step of the composition is a step of each part or leaves it alone.
LEMMA PartSteps ==
    ASSUME [Next]_vars
    PROVE  /\ [File!Next]_(File!vars) /\ [Process!Next]_(Process!vars)
           /\ [Task!Next]_(Task!vars) /\ [Table!Next]_(Table!vars)
           /\ [Exception!Next]_(Exception!vars) /\ [Cache!Next]_(Cache!vars)
           /\ [Text!Next]_(Text!vars) /\ [Files!Next]_(Files!vars)
           /\ [Map!Next]_(Map!vars) /\ [Entry!Next]_(Entry!vars)
           /\ [Paged!Next]_(Paged!vars) /\ [Address!Next]_(Address!vars)
           /\ [Format!Next]_(Format!vars)
           /\ part' = part
  BY DEF Next, vars, EntryNext, TextNext, FormatNext, FilesNext, FileNext, TaskNext,
     MapNext, PagedNext, TableNext, ProcessNext, AddressNext, ExceptionNext, CacheNext,
     entryVars, textVars, filesVars, fileVars, taskVars, mapVars, tableVars, processVars,
     exceptionVars, cacheVars, File!vars, Process!vars, Task!vars, Table!vars,
     Exception!vars, Cache!vars, Text!vars, Files!vars, Map!vars, Entry!vars,
     Paged!vars, pagingVars, Address!vars, addressVars, Format!vars, formatVars

-----------------------------------------------------------------------------
(***************************************************************************)
(* Interrupt table.  The two tables agree only while no register_handler   *)
(* is under way; TableInv says how far the gate has got at each store of a *)
(* call that no handler has returned into, and that any other call only    *)
(* writes to vectors already known as damaged.                             *)
(***************************************************************************)
TableInv ==
    /\ Table!TypeOK
    /\ Table!GateMatchesHandlers /\ Table!WildOnlyWhileRegistering /\ Table!Acknowledged
    /\ cpu = "boot" => in_service = {} /\ registering.at = "idle"
    /\ registering.at # "idle" =>
         IF registering.intact
         THEN /\ registering.handler \in Table!Handlers
              /\ handlers[registering.vector] = registering.handler
         ELSE registering.vector \in damaged
    /\ registering.at = "low" /\ registering.vector \notin damaged =>
         (idt[registering.vector].present => ~Table!NoHandlers(idt[registering.vector]))
    /\ registering.at \in {"flags", "high"} /\ registering.intact =>
         idt[registering.vector].low = registering.handler
    /\ registering.at = "high" /\ registering.intact => idt[registering.vector].present

\* The table starts empty.
LEMMA TableInit ==
    ASSUME Table!Init
    PROVE  TableInv
<1>1. (CHOOSE v \in Table!Vectors : TRUE) \in Table!Vectors
  BY PartsAssumption DEF Table!TableAssumption, Table!Vectors
<1>2. Table!TypeOK
  BY <1>1 DEF Table!Init, Table!TypeOK, Table!Gate, Table!EmptyGate, Table!Idle
<1>3. QED
  BY <1>2 DEF TableInv, Table!Init, Table!Idle, Table!GateMatchesHandlers,
     Table!WildOnlyWhileRegistering, Table!Acknowledged

\* Taking an interrupt: a gate that leads to no one handler is being written,
\* or was damaged.
LEMMA TakeKeeps ==
    ASSUME TableInv, cpu = "run", NEW v \in Table!Vectors, Table!Take(v),
           in_service' \in SUBSET Irqs
    PROVE  TableInv'
<1> DEFINE t == Table!Through(v)
<1>1. t \in Table!Vectors
  BY PartsAssumption DEF Table!Through, Table!TableAssumption, Table!Vectors
<1>2. /\ iflag' = FALSE
      /\ UNCHANGED <<idt, handlers, interrupts_enabled, registering, damaged>>
      /\ target' = IF idt[t].present THEN <<idt[t].low, idt[t].high>> ELSE target
      /\ cpu' \in {"reset", "wild", "halted", "handler"}
      /\ cpu' = "wild" => idt[t].present /\ Table!NoHandlers(idt[t])
  BY DEF Table!Take
<1> HIDE DEF t
<1>3. idt[t] \in Table!Gate
  BY <1>1 DEF TableInv, Table!TypeOK
<1>4. Table!TypeOK'
  BY <1>2, <1>3 DEF TableInv, Table!TypeOK, Table!Gate
<1>5. Table!WildOnlyWhileRegistering'
  <2> SUFFICES ASSUME cpu' = "wild", damaged = {}
               PROVE  registering.at \in {"flags", "high"} /\ target'[1] = registering.handler
    BY <1>2 DEF Table!WildOnlyWhileRegistering
  <2>1. Table!Registering(t)
    <3>1. SUFFICES ASSUME ~Table!Registering(t) PROVE FALSE
      OBVIOUS
    <3>2. handlers[t] \in Table!Handlers \cup {NoHandler}
      BY <1>1 DEF TableInv, Table!TypeOK
    <3>3. IF handlers[t] = NoHandler THEN idt[t] = Table!EmptyGate ELSE Table!Whole(t)
      BY <1>1, <3>1 DEF TableInv, Table!GateMatchesHandlers
    <3>4. QED
      BY <1>2, <3>2, <3>3 DEF Table!Whole, Table!EmptyGate, Table!NoHandlers
  <2>2. registering.intact /\ registering.at # "low"
    BY <1>2, <2>1 DEF TableInv, Table!Registering
  <2>3. QED
    BY <1>2, <2>1, <2>2 DEF TableInv, Table!Registering, Table!TypeOK
<1>6. QED
  BY <1>2, <1>4, <1>5 DEF TableInv, Table!GateMatchesHandlers, Table!Acknowledged,
     Table!Whole, Table!Registering

\* A store of register_handler brings the gate one step further.
LEMMA StoreGateKeeps ==
    ASSUME TableInv, Table!StoreGate
    PROVE  TableInv'
<1> DEFINE v == registering.vector
           h == registering.handler
           g == Table!StoredGate(idt[v], h, registering.at)
<1>1. /\ registering.at \in {"low", "flags", "high"} /\ v \in Table!Vectors
      /\ h \in Table!Handlers \cup {NoHandler} /\ idt[v] \in Table!Gate /\ cpu = "run"
      /\ registering.intact => h # NoHandler /\ handlers[v] = h
      /\ ~registering.intact => v \in damaged
  BY PartsAssumption DEF TableInv, Table!TypeOK, Table!StoreGate, Table!TableAssumption
<1>2. /\ g \in Table!Gate
      /\ registering.at = "low" => g.low = h /\ g.present = idt[v].present
      /\ registering.at = "flags" => g.low = idt[v].low /\ g.present
      /\ registering.at = "high" => g.low = idt[v].low /\ g.present = idt[v].present /\ g.high = h
  BY <1>1 DEF Table!StoredGate, Table!Gate
<1>3. /\ idt' = [idt EXCEPT ![v] = g]
      /\ registering' = [registering EXCEPT !.at = Table!AfterStore(registering.at)]
      /\ damaged' = IF registering'.at = "idle" /\ registering.intact
                    THEN damaged \ {v} ELSE damaged
      /\ UNCHANGED <<handlers, interrupts_enabled, iflag, cpu, in_service, target>>
  BY DEF Table!StoreGate
<1>4. \A u \in Table!Vectors : idt'[u] = IF u = v THEN g ELSE idt[u]
  BY <1>1, <1>3 DEF TableInv, Table!TypeOK
<1>5. /\ registering'.vector = v /\ registering'.handler = h
      /\ registering'.intact = registering.intact
      /\ registering.at = "low" => registering'.at = "flags"
      /\ registering.at = "flags" => registering'.at = "high"
      /\ registering.at = "high" => registering'.at = "idle"
      /\ registering' \in [vector : Table!Vectors, handler : Table!Handlers \cup {NoHandler},
                           at : {"idle", "low", "flags", "high"}, intact : BOOLEAN]
  BY <1>1, <1>3 DEF TableInv, Table!TypeOK, Table!AfterStore
<1> HIDE DEF g
<1>6. Table!TypeOK'
  BY <1>1, <1>2, <1>3, <1>5 DEF TableInv, Table!TypeOK
<1>7. Table!GateMatchesHandlers'
  <2> SUFFICES ASSUME NEW u \in Table!Vectors, u \notin damaged', ~Table!Registering(u)'
               PROVE  IF handlers[u] = NoHandler THEN idt'[u] = Table!EmptyGate
                      ELSE Table!Whole(u)'
    BY <1>3 DEF Table!GateMatchesHandlers
  <2>1. CASE u = v
    <3>1. registering.at = "high"
      BY <1>1, <1>5, <2>1 DEF Table!Registering
    <3>2. registering.intact
      BY <1>1, <1>3, <2>1
    <3>3. QED
      BY <1>1, <1>2, <1>3, <1>4, <2>1, <3>1, <3>2 DEF TableInv, Table!Whole
  <2>2. CASE u # v
    <3>1. u \notin damaged /\ ~Table!Registering(u)
      BY <1>3, <1>5, <2>2 DEF Table!Registering
    <3>2. QED
      BY <1>3, <1>4, <2>2, <3>1 DEF TableInv, Table!GateMatchesHandlers, Table!Whole
  <2>3. QED
    BY <2>1, <2>2
<1>8. QED
  BY <1>1, <1>2, <1>3, <1>4, <1>5, <1>6, <1>7
     DEF TableInv, Table!WildOnlyWhileRegistering, Table!Acknowledged

\* Every step of the interrupt table keeps its invariant.
LEMMA TableStep ==
    ASSUME TableInv, [Table!Next]_(Table!vars)
    PROVE  TableInv'
<1>1. CASE Table!InterruptInit
  <2>1. Table!TypeOK'
    BY <1>1 DEF TableInv, Table!TypeOK, Table!InterruptInit, Table!Gate, Table!EmptyGate
  <2>2. QED
    BY <1>1, <2>1 DEF TableInv, Table!InterruptInit, Table!GateMatchesHandlers,
       Table!WildOnlyWhileRegistering, Table!Acknowledged
<1>2. ASSUME NEW v \in Table!Vectors, NEW h \in Table!Handlers, Table!RegisterHandler(v, h)
      PROVE  TableInv'
  <2>1. /\ Table!TypeOK'
        /\ \A u \in Table!Vectors : handlers'[u] = IF u = v THEN h ELSE handlers[u]
        /\ registering'.at = "low" /\ registering'.vector = v /\ registering'.handler = h
        /\ registering'.intact = TRUE
    BY <1>2 DEF TableInv, Table!TypeOK, Table!RegisterHandler
  <2>2. idt[v].present /\ v \notin damaged => ~Table!NoHandlers(idt[v])
    <3>1. handlers[v] \in Table!Handlers \cup {NoHandler} /\ registering.at = "idle"
      BY <1>2 DEF TableInv, Table!TypeOK, Table!RegisterHandler
    <3>2. QED
      BY <3>1 DEF TableInv, Table!GateMatchesHandlers, Table!Registering,
         Table!Whole, Table!EmptyGate, Table!NoHandlers
  <2>3. Table!GateMatchesHandlers'
    BY <1>2, <2>1 DEF TableInv, Table!RegisterHandler, Table!GateMatchesHandlers,
       Table!Registering, Table!Whole
  <2>4. /\ cpu = "run" /\ handlers'[v] = h
        /\ UNCHANGED <<idt, interrupts_enabled, iflag, cpu, in_service, target, damaged>>
    BY <1>2, <2>1 DEF Table!RegisterHandler
  <2>5. QED
    BY <2>1, <2>2, <2>3, <2>4 DEF TableInv, Table!WildOnlyWhileRegistering,
       Table!Acknowledged
<1>3. CASE Table!StoreGate
  BY <1>3, StoreGateKeeps
<1>4. CASE Table!Enable \/ Table!Disable \/ UNCHANGED Table!vars
  <2>1. /\ UNCHANGED <<idt, handlers, registering, cpu, in_service, target, damaged>>
        /\ interrupts_enabled' \in BOOLEAN /\ iflag' \in BOOLEAN
    BY <1>4 DEF Table!Enable, Table!Disable, Table!vars, TableInv, Table!TypeOK
  <2>2. QED
    BY <2>1 DEF TableInv, Table!TypeOK, Table!GateMatchesHandlers,
       Table!WildOnlyWhileRegistering, Table!Acknowledged, Table!Registering, Table!Whole
<1>5. ASSUME NEW v \in Irqs, Table!DeliverIrq(v)
      PROVE  TableInv'
  BY <1>5, TakeKeeps DEF Table!DeliverIrq, Table!Vectors
<1>6. ASSUME NEW v \in Exceptions, Table!RaiseException(v)
      PROVE  TableInv'
  BY <1>6, TakeKeeps DEF Table!RaiseException, Table!Vectors, TableInv, Table!TypeOK
<1>7. CASE Table!HandlerReturns
  <2>1. /\ cpu = "handler" /\ cpu' = "run" /\ in_service' = {}
        /\ UNCHANGED <<idt, handlers, interrupts_enabled, iflag, target>>
    BY <1>7 DEF Table!HandlerReturns
  <2>2. CASE registering.at = "idle"
    <3>1. UNCHANGED <<registering, damaged>>
      BY <1>7, <2>2 DEF Table!HandlerReturns
    <3>2. QED
      BY <2>1, <3>1 DEF TableInv, Table!TypeOK, Table!GateMatchesHandlers,
         Table!WildOnlyWhileRegistering, Table!Acknowledged, Table!Registering, Table!Whole
  <2>3. CASE registering.at # "idle"
    <3>1. PICK v \in Table!Vectors, h \in Table!Handlers \cup {NoHandler} :
             /\ registering' = [registering EXCEPT !.vector = v, !.handler = h,
                                                   !.intact = FALSE]
             /\ damaged' = damaged \cup {registering.vector, v}
      BY <1>7, <2>3 DEF Table!HandlerReturns
    <3>2. /\ registering'.vector = v /\ registering'.at = registering.at
          /\ registering'.intact = FALSE /\ Table!TypeOK'
      BY <2>1, <3>1 DEF TableInv, Table!TypeOK
    <3>3. Table!GateMatchesHandlers'
      BY <2>1, <3>1 DEF TableInv, Table!GateMatchesHandlers, Table!Registering, Table!Whole
    <3>4. QED
      BY <2>1, <3>1, <3>2, <3>3 DEF TableInv, Table!WildOnlyWhileRegistering,
         Table!Acknowledged
  <2>4. QED
    BY <2>2, <2>3
<1>8. CASE Table!GoesAstray
  BY <1>8 DEF TableInv, Table!TypeOK, Table!GoesAstray, Table!GateMatchesHandlers,
     Table!WildOnlyWhileRegistering, Table!Acknowledged, Table!Registering, Table!Whole
<1>9. QED
  BY <1>1, <1>2, <1>3, <1>4, <1>5, <1>6, <1>7, <1>8 DEF Table!Next

(***************************************************************************)
(* register_handler and the handlers, whatever interrupts come between two *)
(* stores: a gate no one is writing leads to its handler, unless a handler *)
(* returned into its registration and no whole one followed; with no such  *)
(* vector, a mixed address is jumped to only while one is written; and     *)
(* ordinary code runs with every interrupt acknowledged.                   *)
(***************************************************************************)
THEOREM GatesStaySound == Spec => []GatesSound
<1>1. Init => TableInv
  BY TableInit DEF Init
<1>2. TableInv /\ [Next]_vars => TableInv'
  BY TableStep, PartSteps
<1>3. TableInv => GatesSound
  BY DEF TableInv, GatesSound
<1>4. QED
  BY <1>1, <1>2, <1>3, PTL DEF Spec

-----------------------------------------------------------------------------
(***************************************************************************)
(* Process handles.  That owners and claims balance is inductive with the  *)
(* types: every operation changes one handle, or moves one to another.     *)
(***************************************************************************)
Balanced == \A p \in Pids : Cardinality(Process!OwnersOf(p)) = claims[p]

ProcessInv == Process!TypeOK /\ Balanced

\* The part's operators on finite sets are those of FiniteSets.
LEMMA ProcessSets ==
    ASSUME NEW S
    PROVE  /\ Process!IsFiniteSet(S) <=> IsFiniteSet(S)
           /\ Process!Cardinality(S) = Cardinality(S)
<1>1. Process!IsFiniteSet(S) <=> IsFiniteSet(S)
  BY DEF Process!IsFiniteSet, IsFiniteSet
<1>2. Process!Cardinality(S) = Cardinality(S)
  BY DEF Process!Cardinality, Cardinality
<1>3. QED
  BY <1>1, <1>2

\* Sets of handles that differ at most in h differ in size by h.
LEMMA CountOne ==
    ASSUME NEW S \in SUBSET Places, NEW T \in SUBSET Places, NEW h \in Places,
           T \ {h} = S \ {h}
    PROVE  /\ Cardinality(S) \in Nat /\ Cardinality(T) \in Nat
           /\ Cardinality(T) = (IF h \in T THEN 1 ELSE 0) + Cardinality(S)
                               - (IF h \in S THEN 1 ELSE 0)
<1> DEFINE R == S \ {h}
<1>1. IsFiniteSet(Places)
  BY PartsAssumption, ProcessSets DEF Process!ProcessHandleAssumption
<1>2. IsFiniteSet(R) /\ Cardinality(R) \in Nat /\ h \notin R
  BY <1>1, FS_Subset, FS_CardinalityType
<1>3. Cardinality(R \cup {h}) = Cardinality(R) + 1
  BY <1>2, FS_AddElement
<1>4. /\ S = IF h \in S THEN R \cup {h} ELSE R
      /\ T = IF h \in T THEN R \cup {h} ELSE R
  OBVIOUS
<1> HIDE DEF R
<1>5. /\ Cardinality(S) = IF h \in S THEN Cardinality(R) + 1 ELSE Cardinality(R)
      /\ Cardinality(T) = IF h \in T THEN Cardinality(R) + 1 ELSE Cardinality(R)
  BY <1>3, <1>4
<1>6. QED
  BY <1>2, <1>5

\* An operation that changes the ownership of one handle only.
LEMMA OneHandle ==
    ASSUME ProcessInv, NEW h \in Places, NEW lost, NEW won, Process!Settle(lost, won),
           \A p \in Pids :
             /\ \A g \in Places \ {h} : p \in Process!OwnedBy(g)' <=> p \in Process!OwnedBy(g)
             /\ p \in Process!OwnedBy(h) <=> p \in lost
             /\ p \in Process!OwnedBy(h)' <=> p \in won
    PROVE  claims' \in [Pids -> Nat] /\ Balanced'
<1>1. ASSUME NEW p \in Pids
      PROVE  claims'[p] \in Nat /\ Cardinality(Process!OwnersOf(p)') = claims'[p]
  <2> DEFINE S == Process!OwnersOf(p)
             T == Process!OwnersOf(p)'
  <2>1. /\ S \in SUBSET Places /\ T \in SUBSET Places /\ T \ {h} = S \ {h}
        /\ (h \in S <=> p \in lost) /\ (h \in T <=> p \in won)
    BY DEF Process!OwnersOf
  <2>2. claims'[p] = (IF p \in won THEN 1 ELSE 0) + claims[p] - (IF p \in lost THEN 1 ELSE 0)
    BY DEF Process!Settle
  <2>3. Cardinality(S) = claims[p]
    BY DEF ProcessInv, Balanced
  <2> HIDE DEF S, T
  <2>4. Cardinality(T) \in Nat /\ Cardinality(T) = claims'[p]
    BY <2>1, <2>2, <2>3, CountOne
  <2>5. QED
    BY <2>4 DEF T
<1>2. claims' = [p \in Pids |-> claims'[p]]
  BY DEF Process!Settle
<1>3. QED
  BY <1>1, <1>2 DEF Balanced

\* A move from other to h: what h owned is lost, other's ownership is now h's.
LEMMA TwoHandles ==
    ASSUME ProcessInv, NEW h \in Places, NEW other \in Places, h # other,
           NEW p \in Pids,
           \A g \in Places \ {h, other} : p \in Process!OwnedBy(g)' <=> p \in Process!OwnedBy(g),
           p \notin Process!OwnedBy(other)',
           p \in Process!OwnedBy(h)' <=> p \in Process!OwnedBy(other)
    PROVE  /\ Cardinality(Process!OwnersOf(p)') \in Nat
           /\ Cardinality(Process!OwnersOf(p)') =
                claims[p] - (IF p \in Process!OwnedBy(h) THEN 1 ELSE 0)
<1> DEFINE S == Process!OwnersOf(p)
           T == Process!OwnersOf(p)'
           U == S \ {other}
<1>1. /\ S \in SUBSET Places /\ T \in SUBSET Places /\ U \in SUBSET Places
      /\ U \ {other} = S \ {other} /\ T \ {h} = U \ {h} /\ other \notin U
      /\ (h \in T <=> other \in S) /\ (h \in U <=> h \in S)
  BY DEF Process!OwnersOf
<1>2. (h \in S <=> p \in Process!OwnedBy(h)) /\ Cardinality(S) = claims[p]
  BY DEF Process!OwnersOf, ProcessInv, Balanced
<1> HIDE DEF S, T, U
<1>3. /\ Cardinality(S) \in Nat /\ Cardinality(U) \in Nat
      /\ Cardinality(U) = Cardinality(S) - (IF other \in S THEN 1 ELSE 0)
  BY <1>1, CountOne
<1>4. /\ Cardinality(T) \in Nat
      /\ Cardinality(T) = (IF h \in T THEN 1 ELSE 0) + Cardinality(U)
                          - (IF h \in U THEN 1 ELSE 0)
  BY <1>1, CountOne
<1>5. Cardinality(T) = claims[p] - (IF p \in Process!OwnedBy(h) THEN 1 ELSE 0)
  BY <1>1, <1>2, <1>3, <1>4
<1>6. QED
  BY <1>4, <1>5 DEF T

\* Every step of the handles keeps the balance.
LEMMA ProcessStep ==
    ASSUME ProcessInv, [Process!Next]_(Process!vars)
    PROVE  ProcessInv'
<1> USE DEF Process!OwnedBy
<1>0. Process!TypeOK /\ INVALID_PID \notin Pids
  BY PartsAssumption DEF ProcessInv, Process!ProcessHandleAssumption
<1>1. ASSUME NEW h \in Places, NEW p \in Pids, NEW owns \in BOOLEAN,
             Process!Construct(h, p, owns)
      PROVE  ProcessInv'
  <2>1. /\ h \notin exists /\ exists' = exists \cup {h}
        /\ pid_' = [pid_ EXCEPT ![h] = p] /\ owns_process_' = [owns_process_ EXCEPT ![h] = owns]
        /\ Process!Settle({}, IF owns THEN {p} ELSE {})
    BY <1>1 DEF Process!Construct
  <2>2. claims' \in [Pids -> Nat] /\ Balanced'
    <3>1. \A q \in Pids, g \in Places \ {h} :
            q \in Process!OwnedBy(g)' <=> q \in Process!OwnedBy(g)
      BY <1>0, <2>1 DEF Process!TypeOK
    <3>2. \A q \in Pids : /\ q \notin Process!OwnedBy(h)
                          /\ q \in Process!OwnedBy(h)' <=> owns /\ q = p
      BY <1>0, <2>1 DEF Process!TypeOK
    <3>3. QED
      BY <2>1, <3>1, <3>2, OneHandle
  <2>3. QED
    BY <1>0, <2>1, <2>2 DEF ProcessInv, Process!TypeOK
<1>2. ASSUME NEW h \in Places, Process!Destroy(h)
      PROVE  ProcessInv'
  <2>1. /\ exists' = exists \ {h} /\ UNCHANGED <<pid_, owns_process_>>
        /\ Process!Settle(Process!OwnedBy(h), {})
    BY <1>2 DEF Process!Destroy
  <2>2. claims' \in [Pids -> Nat] /\ Balanced'
    <3>1. \A q \in Pids, g \in Places \ {h} :
            q \in Process!OwnedBy(g)' <=> q \in Process!OwnedBy(g)
      BY <2>1
    <3>2. \A q \in Pids : q \notin Process!OwnedBy(h)'
      BY <2>1
    <3>3. QED
      BY <2>1, <3>1, <3>2, OneHandle
  <2>3. QED
    BY <1>0, <2>1, <2>2 DEF ProcessInv, Process!TypeOK
<1>3. ASSUME NEW h \in Places, Process!Release(h)
      PROVE  ProcessInv'
  <2>1. /\ owns_process_' = [owns_process_ EXCEPT ![h] = FALSE] /\ UNCHANGED <<exists, pid_>>
        /\ Process!Settle(Process!OwnedBy(h), {})
    BY <1>3 DEF Process!Release
  <2>2. claims' \in [Pids -> Nat] /\ Balanced'
    <3>1. \A q \in Pids, g \in Places \ {h} :
            q \in Process!OwnedBy(g)' <=> q \in Process!OwnedBy(g)
      BY <1>0, <2>1 DEF Process!TypeOK
    <3>2. \A q \in Pids : q \notin Process!OwnedBy(h)'
      BY <1>0, <2>1 DEF Process!TypeOK
    <3>3. QED
      BY <2>1, <3>1, <3>2, OneHandle
  <2>3. QED
    BY <1>0, <2>1, <2>2 DEF ProcessInv, Process!TypeOK
<1>4. ASSUME NEW h \in Places, NEW p \in Pids \cup {INVALID_PID}, Process!Reset(h, p)
      PROVE  ProcessInv'
  <2>1. /\ h \in exists /\ pid_' = [pid_ EXCEPT ![h] = p]
        /\ owns_process_' = [owns_process_ EXCEPT ![h] = TRUE] /\ UNCHANGED exists
        /\ Process!Settle(Process!OwnedBy(h), {p})
    BY <1>4 DEF Process!Reset
  <2>2. claims' \in [Pids -> Nat] /\ Balanced'
    <3>1. \A q \in Pids, g \in Places \ {h} :
            q \in Process!OwnedBy(g)' <=> q \in Process!OwnedBy(g)
      BY <1>0, <2>1 DEF Process!TypeOK
    <3>2. \A q \in Pids : q \in Process!OwnedBy(h)' <=> q = p
      BY <1>0, <2>1 DEF Process!TypeOK
    <3>3. QED
      BY <2>1, <3>1, <3>2, OneHandle
  <2>3. QED
    BY <1>0, <2>1, <2>2 DEF ProcessInv, Process!TypeOK
<1>5. ASSUME NEW h \in Places, NEW other \in Places, Process!TakeOver(h, other),
             h # other, other \in exists, exists' = exists \cup {h}
      PROVE  /\ exists' \in SUBSET Places
             /\ pid_' \in [Places -> Pids \cup {INVALID_PID}]
             /\ owns_process_' \in [Places -> BOOLEAN]
             /\ \A p \in Pids :
                  /\ Cardinality(Process!OwnersOf(p)') \in Nat
                  /\ Cardinality(Process!OwnersOf(p)') =
                       claims[p] - (IF p \in Process!OwnedBy(h) THEN 1 ELSE 0)
  <2>1. /\ pid_' \in [Places -> Pids \cup {INVALID_PID}]
        /\ owns_process_' \in [Places -> BOOLEAN]
        /\ \A g \in Places \ {h, other} : pid_'[g] = pid_[g] /\ owns_process_'[g] = owns_process_[g]
        /\ pid_'[h] = pid_[other] /\ owns_process_'[h] = owns_process_[other]
        /\ pid_'[other] = INVALID_PID
    BY <1>0, <1>5 DEF Process!TakeOver, Process!TypeOK
  <2>2. ASSUME NEW p \in Pids
        PROVE  /\ \A g \in Places \ {h, other} :
                    p \in Process!OwnedBy(g)' <=> p \in Process!OwnedBy(g)
               /\ p \notin Process!OwnedBy(other)'
               /\ p \in Process!OwnedBy(h)' <=> p \in Process!OwnedBy(other)
    BY <1>0, <1>5, <2>1
  <2>3. QED
    BY <1>0, <1>5, <2>1, <2>2, TwoHandles DEF Process!TypeOK
<1>6. ASSUME NEW h \in Places, NEW other \in Places, Process!MoveConstruct(h, other)
      PROVE  ProcessInv'
  <2>1. /\ h \notin exists /\ other \in exists /\ exists' = exists \cup {h}
        /\ Process!TakeOver(h, other) /\ claims' = claims /\ h # other
    BY <1>6 DEF Process!MoveConstruct
  <2>2. \A p \in Pids : p \notin Process!OwnedBy(h)
    BY <2>1
  <2>3. \A p \in Pids : claims[p] \in Nat
    BY <1>0 DEF Process!TypeOK
  <2>4. QED
    BY <1>0, <1>5, <2>1, <2>2, <2>3 DEF ProcessInv, Process!TypeOK, Balanced
<1>7. ASSUME NEW h \in Places, NEW other \in Places, Process!MoveAssign(h, other), h # other
      PROVE  ProcessInv'
  <2>1. /\ h \in exists /\ other \in exists /\ exists' = exists
        /\ Process!TakeOver(h, other) /\ Process!Settle(Process!OwnedBy(h), {})
    BY <1>7 DEF Process!MoveAssign
  <2>2. exists' = exists \cup {h}
    BY <2>1
  <2>3. ASSUME NEW p \in Pids
        PROVE  claims'[p] = claims[p] - (IF p \in Process!OwnedBy(h) THEN 1 ELSE 0)
    <3>1. claims[p] \in Nat
      BY <1>0 DEF Process!TypeOK
    <3>2. claims'[p] = (IF p \in {} THEN 1 ELSE 0) + claims[p]
                       - (IF p \in Process!OwnedBy(h) THEN 1 ELSE 0)
      BY <2>1 DEF Process!Settle
    <3>3. QED
      BY <3>1, <3>2
  <2>4. \A p \in Pids : claims'[p] \in Nat /\ Cardinality(Process!OwnersOf(p)') = claims'[p]
    BY <1>5, <1>7, <2>1, <2>2, <2>3
  <2>5. claims' = [p \in Pids |-> claims'[p]]
    BY <2>1 DEF Process!Settle
  <2>6. QED
    BY <1>5, <1>7, <2>1, <2>2, <2>4, <2>5 DEF ProcessInv, Process!TypeOK, Balanced
<1>8. CASE UNCHANGED Process!vars
  BY <1>8 DEF Process!vars, ProcessInv, Process!TypeOK, Balanced,
     Process!OwnersOf
<1>9. ASSUME NEW h \in Places, NEW other \in Places, Process!MoveAssign(h, other), h = other
      PROVE  UNCHANGED Process!vars
  BY <1>9 DEF Process!MoveAssign
<1>10. QED
  BY <1>1, <1>2, <1>3, <1>4, <1>6, <1>7, <1>8, <1>9 DEF Process!Next

(***************************************************************************)
(* ProcessHandle conserves ownership: however many handles there are, and  *)
(* however they are moved, a process has as many owners as claims stand.   *)
(***************************************************************************)
THEOREM ProcessOwnershipConserved == Spec => []ProcessesOwned
<1>1. Init => ProcessInv
  <2> SUFFICES ASSUME Init PROVE ProcessInv
    OBVIOUS
  <2>1. Process!Init
    BY DEF Init
  <2>2. \A p \in Pids : Process!OwnersOf(p) = {}
    BY <2>1 DEF Process!Init, Process!OwnersOf, Process!OwnedBy
  <2>3. QED
    BY <2>1, <2>2, FS_EmptySet DEF ProcessInv, Process!Init, Process!TypeOK,
       Balanced
<1>2. ProcessInv /\ [Next]_vars => ProcessInv'
  BY ProcessStep, PartSteps
<1>3. ProcessInv => ProcessesOwned
  BY ProcessSets DEF ProcessInv, ProcessesOwned, Balanced, Process!ProcessesOwned
<1>4. QED
  BY <1>1, <1>2, <1>3, PTL DEF Spec

-----------------------------------------------------------------------------
(***************************************************************************)
(* File handles.  An open descriptor has one owner, an owner's descriptor  *)
(* is open, and it knows its position.                                     *)
(***************************************************************************)
FileInv ==
    /\ File!TypeOK
    /\ \A h \in alive : is_open_[h] => fd_[h] \in opened
    /\ \A g, h \in alive : is_open_[g] /\ is_open_[h] /\ fd_[g] = fd_[h] => g = h
    /\ File!PositionKept

Owned(h) == {f \in Fds : File!Owns(h, f)}

\* What a handle that is still open gives back is what it owns.
LEMMA ReleasedDef ==
    ASSUME FileInv, NEW h \in alive
    PROVE  /\ File!Released(h) = opened \ Owned(h)
           /\ Fds \ File!Released(h) = (Fds \ opened) \cup Owned(h)
           /\ Owned(h) \in SUBSET opened
<1>1. h \in Handles /\ fd_[h] \in Fds \cup {INVALID_FD}
  BY DEF FileInv, File!TypeOK
<1>2. CASE is_open_[h]
  <2>1. fd_[h] \in opened /\ opened \in SUBSET Fds
    BY <1>2 DEF FileInv, File!TypeOK
  <2>2. Owned(h) = {fd_[h]}
    BY <1>1, <1>2, <2>1 DEF Owned, File!Owns
  <2>3. QED
    BY <1>2, <2>1, <2>2 DEF File!Released
<1>3. CASE ~is_open_[h]
  <2>1. Owned(h) = {}
    BY <1>3 DEF Owned, File!Owns
  <2>2. QED
    BY <1>3, <2>1 DEF File!Released, FileInv, File!TypeOK
<1>4. QED
  BY <1>2, <1>3

\* A construction takes a free descriptor.
LEMMA FileConstructed ==
    ASSUME FileInv, NEW h \in Handles, NEW f \in Fds, File!Construct(h, f)
    PROVE  FileInv' /\ File!Owning!Take(h)
<1> DEFINE held == [g \in Handles |-> {e \in Fds : File!Owns(g, e)}]
<1>1. /\ h \notin alive /\ alive' = alive \cup {h}
      /\ f \notin opened /\ opened' = opened \cup {f}
      /\ \A g \in Handles : fd_'[g] = IF g = h THEN f ELSE fd_[g]
      /\ \A g \in Handles : position_'[g] = IF g = h THEN 0 ELSE position_[g]
      /\ \A g \in Handles : is_open_'[g] <=> (g = h \/ is_open_[g])
      /\ \A e \in Fds : transferred'[e] = IF e = f THEN 0 ELSE transferred[e]
  BY DEF FileInv, File!TypeOK, File!Construct
<1>2. File!TypeOK'
  BY PartsAssumption DEF FileInv, File!TypeOK, File!Construct, File!HandleAssumption
<1>3. FileInv'
  BY <1>1, <1>2 DEF FileInv, File!PositionKept, File!TypeOK
<1>4. \A g \in Handles : held'[g] = IF g = h THEN {f} ELSE held[g]
  BY <1>1 DEF File!Owns, FileInv, File!TypeOK
<1>5. held[h] = {}
  BY <1>1 DEF File!Owns
<1>6. held' = [held EXCEPT ![h] = (held[h] \ {}) \cup {f}]
  BY <1>4, <1>5
<1>7. Fds \ opened' = ((Fds \ opened) \ {f}) \cup {}
  BY <1>1
<1>8. QED
  BY <1>1, <1>3, <1>5, <1>6, <1>7 DEF File!Owning!Take

\* close and the destructor give it back.
LEMMA FileClosed ==
    ASSUME FileInv, NEW h \in Handles, File!Close(h) \/ File!Destroy(h)
    PROVE  FileInv' /\ File!Owning!Drop(h)
<1> DEFINE held == [g \in Handles |-> {e \in Fds : File!Owns(g, e)}]
<1>1. /\ h \in alive /\ alive' \in SUBSET alive /\ alive \ alive' \in SUBSET {h}
      /\ opened' = File!Released(h)
      /\ \A g \in Handles : is_open_'[g] <=> (g # h /\ is_open_[g])
      /\ is_open_' \in [Handles -> BOOLEAN]
      /\ UNCHANGED <<fd_, position_, transferred>>
  BY DEF FileInv, File!TypeOK, File!Close, File!Destroy
<1>2. /\ opened' = opened \ Owned(h) /\ Owned(h) \in SUBSET opened
      /\ Fds \ opened' = (Fds \ opened) \cup Owned(h)
  BY <1>1, ReleasedDef
<1>3. FileInv'
  <2>1. File!TypeOK'
    BY <1>1, <1>2 DEF FileInv, File!TypeOK
  <2>2. \A g \in alive' : is_open_'[g] => fd_'[g] \in opened'
    BY <1>1, <1>2 DEF FileInv, File!TypeOK, Owned, File!Owns
  <2>3. QED
    BY <1>1, <2>1, <2>2 DEF FileInv, File!PositionKept, File!TypeOK
<1>4. \A g \in Handles : held'[g] = IF g = h THEN {} ELSE held[g]
  BY <1>1 DEF File!Owns
<1>5. held[h] = Owned(h)
  BY DEF Owned
<1>6. held' = [held EXCEPT ![h] = held[h] \ Owned(h)]
  BY <1>4, <1>5
<1>7. QED
  BY <1>2, <1>3, <1>5, <1>6 DEF File!Owning!Drop

\* A move hands the descriptor over with its position, and gives back the one
\* it covers.
LEMMA FileMoved ==
    ASSUME FileInv, NEW h \in Handles, NEW other \in alive, h # other,
           File!Transferred(h, other), alive' = alive \cup {h}, transferred' = transferred,
           opened' = IF h \in alive THEN File!Released(h) ELSE opened
    PROVE  FileInv' /\ File!Owning!Hand(other, h)
<1> DEFINE held == [g \in Handles |-> {e \in Fds : File!Owns(g, e)}]
<1>1. /\ other \in Handles
      /\ \A g \in Handles : fd_'[g] = IF g = other THEN INVALID_FD
                                      ELSE IF g = h THEN fd_[other] ELSE fd_[g]
      /\ \A g \in Handles : position_'[g] = IF g = h THEN position_[other] ELSE position_[g]
      /\ \A g \in Handles : is_open_'[g] <=> IF g = other THEN FALSE
                                      ELSE IF g = h THEN is_open_[other] ELSE is_open_[g]
      /\ is_open_' \in [Handles -> BOOLEAN] /\ position_' \in [Handles -> 0 .. MaxPos]
      /\ fd_' \in [Handles -> Fds \cup {INVALID_FD}]
  BY DEF FileInv, File!TypeOK, File!Transferred
<1>2. /\ opened' = opened \ Owned(h) /\ Owned(h) \in SUBSET opened
      /\ Fds \ opened' = (Fds \ opened) \cup Owned(h)
  <2>1. CASE h \in alive
    BY <2>1, ReleasedDef
  <2>2. CASE h \notin alive
    BY <2>2 DEF Owned, File!Owns
  <2>3. QED
    BY <2>1, <2>2
<1>3. FileInv'
  <2>1. File!TypeOK'
    BY <1>1, <1>2 DEF FileInv, File!TypeOK
  <2>2. \A g \in alive' : is_open_'[g] => fd_'[g] \in opened'
    BY <1>1, <1>2 DEF FileInv, File!TypeOK, Owned, File!Owns
  <2>3. \A g, k \in alive' : is_open_'[g] /\ is_open_'[k] /\ fd_'[g] = fd_'[k] => g = k
    BY <1>1 DEF FileInv, File!TypeOK
  <2>4. File!PositionKept'
    BY <1>1 DEF FileInv, File!TypeOK, File!PositionKept
  <2>5. QED
    BY <2>1, <2>2, <2>3, <2>4 DEF FileInv
<1>4. \A g \in Handles : held'[g] = IF g = other THEN {} ELSE IF g = h THEN held[other] ELSE held[g]
  BY <1>1 DEF File!Owns
<1>5. held[h] = Owned(h)
  BY DEF Owned
<1>6. held' = [held EXCEPT ![h] = held[other], ![other] = {}]
  BY <1>1, <1>4
<1>7. QED
  BY <1>2, <1>3, <1>5, <1>6 DEF File!Owning!Hand

\* A transfer moves the position of the owner and of the descriptor together.
LEMMA FileTransferred ==
    ASSUME FileInv, NEW h \in Handles, File!Transfer(h)
    PROVE  FileInv' /\ UNCHANGED File!Owning!vars
<1>1. /\ h \in alive /\ is_open_[h] /\ position_[h] \in Nat /\ position_[h] < MaxPos
      /\ fd_[h] \in Fds /\ transferred[fd_[h]] = position_[h]
  BY DEF FileInv, File!TypeOK, File!Transfer, File!PositionKept
<1>2. /\ \A g \in Handles : position_'[g] = IF g = h THEN position_[h] + 1 ELSE position_[g]
      /\ \A f \in Fds : transferred'[f] = IF f = fd_[h] THEN position_[h] + 1 ELSE transferred[f]
      /\ UNCHANGED <<alive, fd_, is_open_, opened>>
  BY <1>1 DEF FileInv, File!TypeOK, File!Transfer
<1>3. position_[h] + 1 \in 0 .. MaxPos
  BY <1>1, PartsAssumption DEF File!HandleAssumption
<1>4. File!TypeOK'
  BY <1>1, <1>2, <1>3 DEF FileInv, File!TypeOK, File!Transfer
<1>5. FileInv'
  BY <1>1, <1>2, <1>4 DEF FileInv, File!TypeOK, File!PositionKept
<1>6. QED
  BY <1>2, <1>5 DEF File!Owning!vars, File!Owns

\* Every operation of a handle is a step of Ownership, or changes no owner.
LEMMA FileStep ==
    ASSUME FileInv, [File!Next]_(File!vars)
    PROVE  FileInv' /\ [File!Owning!Next]_(File!Owning!vars)
<1>1. CASE UNCHANGED File!vars
  BY <1>1 DEF File!vars, FileInv, File!TypeOK, File!PositionKept, File!Owning!vars, File!Owns
<1>2. ASSUME NEW h \in Handles, NEW f \in Fds, File!Construct(h, f)
      PROVE  FileInv' /\ [File!Owning!Next]_(File!Owning!vars)
  BY <1>2, FileConstructed DEF File!Owning!Next
<1>3. ASSUME NEW h \in Handles, File!Close(h) \/ File!Destroy(h)
      PROVE  FileInv' /\ [File!Owning!Next]_(File!Owning!vars)
  BY <1>3, FileClosed DEF File!Owning!Next
<1>4. ASSUME NEW h \in Handles, File!Transfer(h)
      PROVE  FileInv' /\ [File!Owning!Next]_(File!Owning!vars)
  BY <1>4, FileTransferred
<1>5. ASSUME NEW h \in Handles, NEW other \in Handles,
             File!MoveConstruct(h, other) \/ File!MoveAssign(h, other)
      PROVE  FileInv' /\ [File!Owning!Next]_(File!Owning!vars)
  <2>1. CASE UNCHANGED File!vars
    BY <1>1, <2>1
  <2>2. CASE ~UNCHANGED File!vars
    <3>1. /\ other \in alive /\ h # other /\ File!Transferred(h, other)
          /\ alive' = alive \cup {h} /\ transferred' = transferred
          /\ opened' = IF h \in alive THEN File!Released(h) ELSE opened
      BY <1>5, <2>2 DEF File!MoveConstruct, File!MoveAssign
    <3>2. QED
      BY <1>5, <3>1, FileMoved DEF File!Owning!Next
  <2>3. QED
    BY <2>1, <2>2
<1>6. QED
  BY <1>1, <1>2, <1>3, <1>4, <1>5 DEF File!Next

(***************************************************************************)
(* FileHandle implements Ownership of the open descriptors: whatever is    *)
(* constructed, moved from, moved onto, closed and destroyed, and in which *)
(* order, none leaks, none is closed twice and the owner knows how far its *)
(* descriptor has been read.                                               *)
(***************************************************************************)
THEOREM FileHandlesImplementOwnership == Spec => FilesOwned
<1>1. Init => FileInv /\ File!Owning!Init
  <2> SUFFICES ASSUME File!Init PROVE FileInv /\ File!Owning!Init
    BY DEF Init
  <2>1. FileInv
    BY PartsAssumption DEF FileInv, File!TypeOK, File!PositionKept, File!Init,
       File!HandleAssumption
  <2>2. Fds \ opened = Fds /\ \A h \in Handles : {f \in Fds : File!Owns(h, f)} = {}
    BY DEF File!Init, File!Owns
  <2>3. QED
    BY <2>1, <2>2 DEF File!Owning!Init
<1>2. FileInv /\ [Next]_vars => FileInv' /\ [File!Owning!Next]_(File!Owning!vars)
  BY FileStep, PartSteps
<1>3. FileInv => File!PositionKept
  BY DEF FileInv
<1>4. QED
  BY <1>1, <1>2, <1>3, PTL DEF Spec, FilesOwned, File!FilesOwned, File!Owning!Spec

-----------------------------------------------------------------------------
(***************************************************************************)
(* Coroutine tasks.  Each task that has a handle answers for a coroutine   *)
(* of its own; a suspended coroutine is in one frame, and its task refers  *)
(* to that frame; a handle that leads elsewhere needs a coroutine that has *)
(* ended.                                                                  *)
(***************************************************************************)
HasHandle(t) == t \in living /\ handle[t] # NoHandle

TaskInv ==
    /\ Task!TypeOK
    /\ \A t \in Tasks : HasHandle(t) => made_for[t] \in started
    /\ \A t, u \in Tasks : HasHandle(t) /\ HasHandle(u) /\ made_for[t] = made_for[u] => t = u
    /\ \A f \in Frames : frame[f] # Vacant =>
         \E t \in Tasks : HasHandle(t) /\ handle[t] = f /\ made_for[t] = frame[f]
    /\ ended = {} => \A t \in Tasks : HasHandle(t) => frame[handle[t]] = made_for[t]

\* A call gives its frame and its coroutine to one task.
LEMMA TaskStarted ==
    ASSUME TaskInv, NEW t \in Tasks, NEW f \in Frames, NEW c \in Coroutines,
           Task!Start(t, f, c)
    PROVE  TaskInv'
<1>1. /\ t \notin living /\ frame[f] = Vacant /\ c \notin started
      /\ living' = living \cup {t} /\ handle' = [handle EXCEPT ![t] = f]
      /\ made_for' = [made_for EXCEPT ![t] = c] /\ started' = started \cup {c}
      /\ undefined' = undefined
      /\ \/ frame' = [frame EXCEPT ![f] = c] /\ ended' = ended
         \/ frame' = [frame EXCEPT ![f] = Vacant] /\ ended' = ended \cup {c}
  BY DEF Task!Start, Task!Suspend, Task!RunToEnd
<1>2. Task!TypeOK /\ NoHandle \notin Frames /\ Vacant \notin Coroutines
  BY PartsAssumption DEF TaskInv, Task!TaskAssumption
<1>3. Task!TypeOK'
  BY <1>1, <1>2 DEF Task!TypeOK
<1>4. /\ HasHandle(t)' /\ handle'[t] = f /\ made_for'[t] = c
      /\ \A u \in Tasks \ {t} : /\ HasHandle(u)' <=> HasHandle(u)
                                /\ handle'[u] = handle[u] /\ made_for'[u] = made_for[u]
      /\ ~HasHandle(t)
  BY <1>1, <1>2 DEF Task!TypeOK, HasHandle
<1>5. \A u \in Tasks : HasHandle(u)' => made_for'[u] \in started'
  BY <1>1, <1>4 DEF TaskInv
<1>6. \A u, w \in Tasks : HasHandle(u)' /\ HasHandle(w)' /\ made_for'[u] = made_for'[w] => u = w
  BY <1>1, <1>4 DEF TaskInv
<1>7. ASSUME NEW g \in Frames, frame'[g] # Vacant
      PROVE  \E u \in Tasks : HasHandle(u)' /\ handle'[u] = g /\ made_for'[u] = frame'[g]
  <2>1. CASE g = f
    BY <1>1, <1>2, <1>4, <1>7, <2>1 DEF Task!TypeOK
  <2>2. CASE g # f
    <3>1. frame'[g] = frame[g]
      BY <1>1, <1>2, <2>2 DEF Task!TypeOK
    <3>2. PICK u \in Tasks : HasHandle(u) /\ handle[u] = g /\ made_for[u] = frame[g]
      BY <1>7, <3>1 DEF TaskInv
    <3>3. QED
      BY <1>4, <3>1, <3>2
  <2>3. QED
    BY <2>1, <2>2
<1>8. ASSUME ended' = {}, NEW u \in Tasks, HasHandle(u)'
      PROVE  frame'[handle'[u]] = made_for'[u]
  <2>1. ended = {} /\ frame' = [frame EXCEPT ![f] = c]
    BY <1>1, <1>8
  <2>2. CASE u = t
    BY <1>2, <1>4, <2>1, <2>2 DEF Task!TypeOK
  <2>3. CASE u # t
    <3>1. HasHandle(u) /\ handle'[u] = handle[u] /\ made_for'[u] = made_for[u]
      BY <1>4, <1>8, <2>3
    <3>2. frame[handle[u]] = made_for[u] /\ made_for[u] \in started
      BY <2>1, <3>1 DEF TaskInv
    <3>3. handle[u] \in Frames /\ handle[u] # f
      BY <1>1, <1>2, <3>1, <3>2 DEF Task!TypeOK, HasHandle
    <3>4. QED
      BY <1>2, <2>1, <3>1, <3>2, <3>3 DEF Task!TypeOK
  <2>4. QED
    BY <2>2, <2>3
<1>9. QED
  BY <1>3, <1>5, <1>6, <1>7, <1>8 DEF TaskInv

\* What a coroutine's memory is after its task t, or one that dangles, has
\* discarded it: no other task loses its frame unless a coroutine has ended.
LEMMA Discarded ==
    ASSUME TaskInv, NEW t \in Tasks, t \in living, Task!Discard(t)
    PROVE  /\ frame' \in [Frames -> Coroutines \cup {Vacant}] /\ undefined' \in BOOLEAN
           /\ \A f \in Frames : frame'[f] # Vacant =>
                \E u \in Tasks \ {t} : HasHandle(u) /\ handle[u] = f /\ made_for[u] = frame'[f]
           /\ ended = {} => \A u \in Tasks \ {t} :
                              HasHandle(u) => frame'[handle[u]] = made_for[u]
<1>1. /\ Task!TypeOK /\ NoHandle \notin Frames /\ Vacant \notin Coroutines
      /\ handle[t] \in Frames \cup {NoHandle}
  BY PartsAssumption DEF TaskInv, Task!TaskAssumption, Task!TypeOK
<1>2. CASE handle[t] = NoHandle
  <2>1. frame' = frame /\ undefined' = undefined /\ ~HasHandle(t)
    BY <1>2 DEF Task!Discard, HasHandle
  <2>2. ASSUME NEW f \in Frames, frame[f] # Vacant
        PROVE  \E u \in Tasks \ {t} : HasHandle(u) /\ handle[u] = f /\ made_for[u] = frame[f]
    <3>1. PICK u \in Tasks : HasHandle(u) /\ handle[u] = f /\ made_for[u] = frame[f]
      BY <2>2 DEF TaskInv
    <3>2. QED
      BY <2>1, <3>1
  <2>3. QED
    BY <1>1, <2>1, <2>2 DEF TaskInv, Task!TypeOK
<1>3. CASE handle[t] # NoHandle
  <2>1. /\ frame' = [frame EXCEPT ![handle[t]] = Vacant] /\ undefined' \in BOOLEAN
        /\ HasHandle(t) /\ handle[t] \in Frames
    BY <1>1, <1>3 DEF Task!Discard, HasHandle
  <2>2. /\ frame' \in [Frames -> Coroutines \cup {Vacant}] /\ frame'[handle[t]] = Vacant
        /\ \A f \in Frames : f # handle[t] => frame'[f] = frame[f]
    BY <1>1, <2>1 DEF Task!TypeOK
  <2>3. ASSUME NEW f \in Frames, frame'[f] # Vacant
        PROVE  \E u \in Tasks \ {t} : HasHandle(u) /\ handle[u] = f /\ made_for[u] = frame'[f]
    <3>1. f # handle[t] /\ frame'[f] = frame[f]
      BY <2>2, <2>3
    <3>2. PICK u \in Tasks : HasHandle(u) /\ handle[u] = f /\ made_for[u] = frame[f]
      BY <2>3, <3>1 DEF TaskInv
    <3>3. QED
      BY <3>1, <3>2
  <2>4. ASSUME ended = {}, NEW u \in Tasks \ {t}, HasHandle(u)
        PROVE  frame'[handle[u]] = made_for[u]
    <3>1. frame[handle[u]] = made_for[u] /\ frame[handle[t]] = made_for[t]
      BY <2>1, <2>4 DEF TaskInv
    <3>2. handle[u] # handle[t] /\ handle[u] \in Frames
      BY <1>1, <2>1, <2>4, <3>1 DEF TaskInv, Task!TypeOK, HasHandle
    <3>3. QED
      BY <2>2, <3>1, <3>2
  <2>5. QED
    BY <2>1, <2>2, <2>3, <2>4
<1>4. QED
  BY <1>2, <1>3

\* A destructor.
LEMMA TaskDestroyed ==
    ASSUME TaskInv, NEW t \in Tasks, Task!Destroy(t)
    PROVE  TaskInv'
<1>1. /\ t \in living /\ living' = living \ {t} /\ Task!Discard(t)
      /\ UNCHANGED <<handle, made_for, started, ended>>
  BY DEF Task!Destroy
<1>2. Task!TypeOK'
  BY <1>1, Discarded DEF TaskInv, Task!TypeOK
<1>3. \A u \in Tasks : HasHandle(u)' <=> u # t /\ HasHandle(u)
  BY <1>1 DEF HasHandle
<1>4. \A f \in Frames : frame'[f] # Vacant =>
        \E u \in Tasks : HasHandle(u)' /\ handle'[u] = f /\ made_for'[u] = frame'[f]
  <2> SUFFICES ASSUME NEW f \in Frames, frame'[f] # Vacant
               PROVE  \E u \in Tasks : HasHandle(u)' /\ handle'[u] = f /\ made_for'[u] = frame'[f]
    OBVIOUS
  <2>1. PICK u \in Tasks \ {t} : HasHandle(u) /\ handle[u] = f /\ made_for[u] = frame'[f]
    BY <1>1, Discarded
  <2>2. QED
    BY <1>1, <1>3, <2>1
<1>5. ended' = {} => \A u \in Tasks : HasHandle(u)' => frame'[handle'[u]] = made_for'[u]
  BY <1>1, <1>3, Discarded
<1>6. /\ \A u \in Tasks : HasHandle(u)' => made_for'[u] \in started'
      /\ \A u, w \in Tasks : HasHandle(u)' /\ HasHandle(w)' /\ made_for'[u] = made_for'[w] => u = w
  BY <1>1, <1>3 DEF TaskInv
<1>7. QED
  BY <1>2, <1>4, <1>5, <1>6 DEF TaskInv

\* A move, after what t referred to is gone: t stands where other stood.
LEMMA TaskMoved ==
    ASSUME TaskInv, NEW t \in Tasks, NEW other \in Tasks, t # other,
           Task!TakeOver(t, other), other \in living, living' = living \cup {t},
           frame' \in [Frames -> Coroutines \cup {Vacant}], undefined' \in BOOLEAN,
           UNCHANGED <<started, ended>>,
           \A f \in Frames : frame'[f] # Vacant =>
             \E u \in Tasks \ {t} : HasHandle(u) /\ handle[u] = f /\ made_for[u] = frame'[f],
           ended = {} => \A u \in Tasks \ {t} :
                           HasHandle(u) => frame'[handle[u]] = made_for[u]
    PROVE  TaskInv'
<1>1. /\ handle' = [handle EXCEPT ![t] = handle[other], ![other] = NoHandle]
      /\ made_for' = [made_for EXCEPT ![t] = made_for[other]]
  BY DEF Task!TakeOver
<1>2. Task!TypeOK
  BY DEF TaskInv
<1>3. Task!TypeOK'
  BY <1>1, <1>2 DEF Task!TypeOK
<1>4. /\ HasHandle(t)' <=> HasHandle(other)
      /\ handle'[t] = handle[other] /\ made_for'[t] = made_for[other]
      /\ ~HasHandle(other)'
      /\ \A u \in Tasks \ {t, other} : /\ HasHandle(u)' <=> HasHandle(u)
                                       /\ handle'[u] = handle[u] /\ made_for'[u] = made_for[u]
  BY <1>1, <1>2 DEF Task!TypeOK, HasHandle
<1>5. \A u \in Tasks : HasHandle(u)' => made_for'[u] \in started'
  BY <1>4 DEF TaskInv
<1>6. \A u, w \in Tasks : HasHandle(u)' /\ HasHandle(w)' /\ made_for'[u] = made_for'[w] => u = w
  BY <1>4 DEF TaskInv
<1>7. ASSUME NEW f \in Frames, frame'[f] # Vacant
      PROVE  \E u \in Tasks : HasHandle(u)' /\ handle'[u] = f /\ made_for'[u] = frame'[f]
  <2>1. PICK u \in Tasks \ {t} : HasHandle(u) /\ handle[u] = f /\ made_for[u] = frame'[f]
    BY <1>7
  <2>2. CASE u = other
    BY <1>4, <2>1, <2>2
  <2>3. CASE u # other
    BY <1>4, <2>1, <2>3
  <2>4. QED
    BY <2>2, <2>3
<1>8. ended' = {} => \A u \in Tasks : HasHandle(u)' => frame'[handle'[u]] = made_for'[u]
  <2> SUFFICES ASSUME ended = {}, NEW u \in Tasks, HasHandle(u)'
               PROVE  frame'[handle'[u]] = made_for'[u]
    OBVIOUS
  <2>1. CASE u = t
    BY <1>4, <2>1
  <2>2. CASE u # t
    BY <1>4, <2>2
  <2>3. QED
    BY <2>1, <2>2
<1>9. QED
  BY <1>3, <1>5, <1>6, <1>7, <1>8 DEF TaskInv

\* resume: the coroutine suspends again, or ends, or there is none.
LEMMA TaskResumed ==
    ASSUME TaskInv, NEW t \in Tasks, Task!Resume(t)
    PROVE  TaskInv'
<1> DEFINE f == handle[t]
<1>1. /\ f \in Frames /\ Task!TypeOK /\ Vacant \notin Coroutines
      /\ UNCHANGED <<living, handle, made_for, started>>
  BY PartsAssumption DEF TaskInv, Task!TypeOK, Task!TaskAssumption, Task!Resume
<1>2. \A u \in Tasks : HasHandle(u)' <=> HasHandle(u)
  BY <1>1 DEF HasHandle
<1>3. CASE frame' = frame /\ ended' = ended /\ undefined' \in BOOLEAN
  BY <1>1, <1>2, <1>3 DEF TaskInv, Task!TypeOK
<1>4. CASE /\ frame[f] # Vacant /\ frame' = [frame EXCEPT ![f] = Vacant]
           /\ ended' = ended \cup {frame[f]} /\ undefined' = undefined
  <2>1. Task!TypeOK' /\ ended' # {}
    BY <1>1, <1>4 DEF Task!TypeOK
  <2>2. \A g \in Frames : frame'[g] # Vacant => frame'[g] = frame[g]
    BY <1>1, <1>4 DEF Task!TypeOK
  <2>3. QED
    BY <1>1, <1>2, <2>1, <2>2 DEF TaskInv
<1>5. QED
  <2>1. CASE frame[f] = Vacant
    BY <1>1, <1>3, <2>1 DEF Task!Resume
  <2>2. CASE frame[f] # Vacant
    <3>1. undefined' = undefined /\ undefined \in BOOLEAN
      BY <1>1, <2>2 DEF Task!Resume, Task!TypeOK
    <3>2. Task!Suspend(f, frame[f]) \/ Task!RunToEnd(f, frame[f])
      BY <2>2 DEF Task!Resume
    <3>3. CASE Task!Suspend(f, frame[f])
      <4>1. frame' = frame /\ ended' = ended
        BY <1>1, <3>3 DEF Task!Suspend, Task!TypeOK
      <4>2. QED
        BY <1>3, <3>1, <4>1
    <3>4. CASE Task!RunToEnd(f, frame[f])
      BY <1>4, <2>2, <3>1, <3>4 DEF Task!RunToEnd
    <3>5. QED
      BY <3>2, <3>3, <3>4
  <2>3. QED
    BY <2>1, <2>2

\* Every step of the tasks keeps their invariant.
LEMMA TaskStep ==
    ASSUME TaskInv, [Task!Next]_(Task!vars)
    PROVE  TaskInv'
<1>1. CASE UNCHANGED Task!vars
  BY <1>1 DEF Task!vars, TaskInv, Task!TypeOK, HasHandle
<1>2. ASSUME NEW t \in Tasks, NEW other \in Tasks, Task!MoveConstruct(t, other)
      PROVE  TaskInv'
  <2>1. /\ t \notin living /\ other \in living /\ living' = living \cup {t}
        /\ Task!TakeOver(t, other) /\ UNCHANGED <<frame, started, ended, undefined>>
    BY <1>2 DEF Task!MoveConstruct
  <2>2. t # other /\ ~HasHandle(t)
    BY <2>1 DEF HasHandle
  <2>3. /\ frame' \in [Frames -> Coroutines \cup {Vacant}] /\ undefined' \in BOOLEAN
        /\ ended = {} => \A u \in Tasks \ {t} :
                           HasHandle(u) => frame'[handle[u]] = made_for[u]
    BY <2>1 DEF TaskInv, Task!TypeOK
  <2>4. ASSUME NEW f \in Frames, frame'[f] # Vacant
        PROVE  \E u \in Tasks \ {t} : HasHandle(u) /\ handle[u] = f /\ made_for[u] = frame'[f]
    <3>1. PICK u \in Tasks : HasHandle(u) /\ handle[u] = f /\ made_for[u] = frame[f]
      BY <2>1, <2>4 DEF TaskInv
    <3>2. QED
      BY <2>1, <2>2, <3>1
  <2>5. QED
    BY <2>1, <2>2, <2>3, <2>4, TaskMoved
<1>3. ASSUME NEW t \in Tasks, NEW other \in Tasks, Task!MoveAssign(t, other), t # other
      PROVE  TaskInv'
  <2>1. /\ t \in living /\ other \in living /\ living' = living
        /\ Task!Discard(t) /\ Task!TakeOver(t, other) /\ UNCHANGED <<started, ended>>
    BY <1>3 DEF Task!MoveAssign
  <2>2. living' = living \cup {t}
    BY <2>1
  <2>3. /\ frame' \in [Frames -> Coroutines \cup {Vacant}] /\ undefined' \in BOOLEAN
        /\ \A f \in Frames : frame'[f] # Vacant =>
             \E u \in Tasks \ {t} : HasHandle(u) /\ handle[u] = f /\ made_for[u] = frame'[f]
        /\ ended = {} => \A u \in Tasks \ {t} :
                           HasHandle(u) => frame'[handle[u]] = made_for[u]
    BY <2>1, Discarded
  <2>4. QED
    BY <1>3, <2>1, <2>2, <2>3, TaskMoved
<1>4. ASSUME NEW t \in Tasks, NEW other \in Tasks, Task!MoveAssign(t, other), t = other
      PROVE  UNCHANGED Task!vars
  BY <1>4 DEF Task!MoveAssign
<1>5. QED
  BY <1>1, <1>2, <1>3, <1>4, TaskStarted, TaskDestroyed, TaskResumed DEF Task!Next

(***************************************************************************)
(* Every suspended coroutine has one task that answers for it, and handles *)
(* dangle only once a coroutine has run to its end, for any number of      *)
(* tasks, of calls and of frames whose memory is used again.               *)
(***************************************************************************)
THEOREM TasksOwnCoroutines == Spec => []TasksOwned
<1>1. Init => TaskInv
  BY DEF Init, Task!Init, TaskInv, Task!TypeOK, HasHandle
<1>2. TaskInv /\ [Next]_vars => TaskInv'
  BY TaskStep, PartSteps
<1>3. TaskInv => TasksOwned
  <2> SUFFICES ASSUME TaskInv PROVE Task!TasksOwned
    BY DEF TasksOwned
  <2>1. \A t \in Tasks, c \in Coroutines : Task!AnswersFor(t, c) <=> HasHandle(t) /\ made_for[t] = c
    BY DEF Task!AnswersFor, HasHandle
  <2>2. ASSUME NEW f \in Frames, frame[f] # Vacant
        PROVE  \E t \in Tasks : /\ Task!AnswersFor(t, frame[f]) /\ handle[t] = f
                                /\ \A u \in Tasks : Task!AnswersFor(u, frame[f]) => u = t
    <3>1. frame[f] \in Coroutines
      BY <2>2 DEF TaskInv, Task!TypeOK
    <3>2. PICK t \in Tasks : HasHandle(t) /\ handle[t] = f /\ made_for[t] = frame[f]
      BY <2>2 DEF TaskInv
    <3>3. \A u \in Tasks : Task!AnswersFor(u, frame[f]) => u = t
      BY <2>1, <3>1, <3>2 DEF TaskInv
    <3>4. QED
      BY <2>1, <3>1, <3>2, <3>3
  <2>3. Task!DanglesOnlyAfterEnd
    BY DEF TaskInv, Task!DanglesOnlyAfterEnd, Task!Dangling, HasHandle
  <2>4. QED
    BY <2>2, <2>3 DEF Task!TasksOwned, Task!OneTask
<1>4. QED
  BY <1>1, <1>2, <1>3, PTL DEF Spec

-----------------------------------------------------------------------------
(***************************************************************************)
(* Atomics.  Between fetch_add and the call of the handler an activation   *)
(* is counted and has not called; an activation that passed the test of    *)
(* enabled_ is known to the disable that came after.                       *)
(***************************************************************************)
ExceptionInv ==
    /\ enabled_ \in BOOLEAN /\ count_ \in Nat /\ calls \in Nat
    /\ at \in [Activations -> {"idle", "add", "call"}]
    /\ Exception!CountExact

\* Finite sets and cardinalities are the library's, in this part too.
LEMMA ExceptionSets ==
    ASSUME NEW S
    PROVE  /\ Exception!IsFiniteSet(S) <=> IsFiniteSet(S)
           /\ Exception!Cardinality(S) = Cardinality(S)
<1>1. Exception!IsFiniteSet(S) <=> IsFiniteSet(S)
  BY DEF Exception!IsFiniteSet, IsFiniteSet
<1>2. Exception!Cardinality(S) = Cardinality(S)
  BY DEF Exception!Cardinality, Cardinality
<1>3. QED
  BY <1>1, <1>2

\* count_ stays exact under every interleaving of the loads and fetch_adds.
LEMMA ExceptionStep ==
    ASSUME ExceptionInv, [Exception!Next]_(Exception!vars)
    PROVE  ExceptionInv'
<1> DEFINE C == Exception!Counted
<1>1. IsFiniteSet(Activations) /\ C \in SUBSET Activations
  BY PartsAssumption, ExceptionSets DEF Exception!ExceptionHandlerAssumption,
     Exception!Counted
<1>2. IsFiniteSet(C) /\ Cardinality(C) \in Nat
  BY <1>1, FS_Subset, FS_CardinalityType
<1>3. ASSUME NEW a \in Activations, Exception!Load(a)
      PROVE  ExceptionInv'
  <2>1. \A b \in Activations : at'[b] = IF b = a THEN "add" ELSE at[b]
    BY <1>3 DEF Exception!Load, Exception!Go, ExceptionInv
  <2>2. C' = C
    BY <1>3, <2>1 DEF Exception!Counted, Exception!Load
  <2>3. QED
    BY <1>3, <2>1, <2>2 DEF ExceptionInv, Exception!CountExact, Exception!Load, Exception!Go
<1>4. ASSUME NEW a \in Activations, Exception!FetchAdd(a)
      PROVE  ExceptionInv'
  <2>1. \A b \in Activations : at'[b] = IF b = a THEN "call" ELSE at[b]
    BY <1>4 DEF Exception!FetchAdd, Exception!Go, ExceptionInv
  <2>2. C' = C \cup {a} /\ a \notin C
    BY <1>4, <2>1 DEF Exception!Counted, Exception!FetchAdd
  <2>3. Cardinality(C') = Cardinality(C) + 1
    BY <1>2, <2>2, FS_AddElement
  <2>4. count_' = calls' + Exception!Cardinality(C')
    BY <1>2, <1>4, <2>3, ExceptionSets DEF ExceptionInv, Exception!CountExact,
       Exception!FetchAdd
  <2>5. QED
    BY <1>4, <2>1, <2>4 DEF ExceptionInv, Exception!CountExact, Exception!FetchAdd, Exception!Go
<1>5. ASSUME NEW a \in Activations, Exception!Call(a)
      PROVE  ExceptionInv'
  <2>1. \A b \in Activations : at'[b] = IF b = a THEN "idle" ELSE at[b]
    BY <1>5 DEF Exception!Call, Exception!Go, ExceptionInv
  <2>2. C' = C \ {a} /\ a \in C
    BY <1>5, <2>1 DEF Exception!Counted, Exception!Call
  <2>3. Cardinality(C') = Cardinality(C) - 1
    BY <1>2, <2>2, FS_RemoveElement
  <2>4. count_' = calls' + Exception!Cardinality(C')
    BY <1>2, <1>5, <2>3, ExceptionSets DEF ExceptionInv, Exception!CountExact,
       Exception!Call
  <2>5. QED
    BY <1>5, <2>1, <2>4 DEF ExceptionInv, Exception!CountExact, Exception!Call, Exception!Go
<1>6. CASE Exception!Enable \/ Exception!Disable \/ UNCHANGED Exception!vars
  <2>1. C' = C
    BY <1>6 DEF Exception!Counted, Exception!Enable, Exception!Disable, Exception!vars
  <2>2. QED
    BY <1>6, <2>1 DEF ExceptionInv, Exception!CountExact, Exception!Enable,
       Exception!Disable, Exception!vars
<1>7. QED
  BY <1>3, <1>4, <1>5, <1>6 DEF Exception!Next

(***************************************************************************)
(* What cache_hit_ratio has loaded is at most the hits of now, less the    *)
(* ones that were counted since; total is at least the hits it loaded.     *)
(***************************************************************************)
CacheInv ==
    /\ cache_hits \in Nat /\ cache_misses \in Nat /\ loads \in 0 .. 3
    /\ total \in Nat /\ ratio \in Nat /\ missed \in Nat
    /\ loads > 0 /\ loads < 3 => cache_hits <= total + missed
    /\ Cache!RatioSound

\* The three loads of cache_hit_ratio stay related whatever is counted between.
LEMMA CacheStep ==
    ASSUME CacheInv, [Cache!Next]_(Cache!vars)
    PROVE  CacheInv'
  BY DEF CacheInv, Cache!RatioSound, Cache!Next, Cache!vars, Cache!statistics, Cache!Lookup,
     Cache!LoadHits, Cache!LoadMisses, Cache!Divide

(***************************************************************************)
(* ExceptionHandler::handle counts every call, and cache_hit_ratio divides *)
(* by no zero and is above 1 by no more than the hits counted meanwhile,   *)
(* for any number of activations and of lookups.                           *)
(***************************************************************************)
THEOREM AtomicsStayConsistent == Spec => []AtomicsConsistent
<1>1. Init => ExceptionInv /\ CacheInv
  <2> SUFFICES ASSUME Exception!Init, Cache!Init PROVE ExceptionInv /\ CacheInv
    BY DEF Init
  <2>1. Exception!Counted = {} /\ Exception!Cardinality({}) = 0
    BY FS_EmptySet, ExceptionSets DEF Exception!Init, Exception!Counted
  <2>2. ExceptionInv
    BY <2>1 DEF ExceptionInv, Exception!Init, Exception!CountExact
  <2>3. CacheInv
    BY DEF CacheInv, Cache!Init, Cache!RatioSound
  <2>4. QED
    BY <2>2, <2>3
<1>2. ExceptionInv /\ CacheInv /\ [Next]_vars => (ExceptionInv /\ CacheInv)'
  BY ExceptionStep, CacheStep, PartSteps
<1>3. ExceptionInv /\ CacheInv => AtomicsConsistent
  BY DEF ExceptionInv, CacheInv, AtomicsConsistent
<1>4. QED
  BY <1>1, <1>2, <1>3, PTL DEF Spec

-----------------------------------------------------------------------------
(***************************************************************************)
(* Console.                                                                *)
(***************************************************************************)
TextInv == Text!TypeOK /\ Text!BlankAhead

\* The screen has a row and a column, and the cursor's bound is past a tab.
LEMMA ConsoleSizes ==
    /\ VGA_WIDTH \in Nat \ {0} /\ VGA_HEIGHT \in Nat \ {0} /\ Tab \in Nat \ {0}
    /\ MaxX \in Nat /\ MaxX >= VGA_WIDTH + Tab
  BY PartsAssumption DEF Text!ConsoleAssumption

\* A tab moves the cursor on, by no more than Tab.
LEMMA TabAdvances ==
    ASSUME NEW x \in Nat, NEW w \in Nat \ {0}
    PROVE  /\ ((x + w) \div w) * w \in Nat
           /\ x <= ((x + w) \div w) * w /\ ((x + w) \div w) * w <= x + w
<1> DEFINE q == (x + w) \div w
           m == (x + w) % w
<1>1. q \in Nat /\ m \in 0 .. w - 1
  OBVIOUS
<1>2. x + w = w * q + m
  OBVIOUS
<1> HIDE DEF q, m
<1>3. w * q = q * w /\ q * w \in Nat
  BY <1>1
<1>4. QED
  BY <1>1, <1>2, <1>3 DEF q

\* scroll_up keeps the rows' shape, and blanks the last one.
LEMMA ScrolledRows ==
    ASSUME NEW s \in [Text!Row -> [Text!Col -> Chars \cup {Text!Blank}]]
    PROVE  /\ Text!Scrolled(s) \in [Text!Row -> [Text!Col -> Chars \cup {Text!Blank}]]
           /\ \A c \in Text!Col : Text!Scrolled(s)[VGA_HEIGHT - 1][c] = Text!Blank
           /\ \A r \in Text!Row, c \in Text!Col : r + 1 \in Text!Row =>
                 Text!Scrolled(s)[r][c] = s[r + 1][c]
<1>1. VGA_HEIGHT \in Nat \ {0}
  BY ConsoleSizes
<1>2. VGA_HEIGHT - 1 \in Text!Row /\ (VGA_HEIGHT - 1) + 1 \notin Text!Row
  BY <1>1 DEF Text!Row
<1>3. QED
  BY <1>2 DEF Text!Scrolled

\* The end of putchar: with s on the screen and the cursor on row y, blank from
\* column x on unless a carriage return came.
LEMMA Settled ==
    ASSUME NEW s \in [Text!Row -> [Text!Col -> Chars \cup {Text!Blank}]],
           NEW y \in 0 .. VGA_HEIGHT, NEW x \in Nat, Text!Settle(s, y),
           \A r \in Text!Row, c \in Text!Col :
              (r > y \/ (r = y /\ ~returned' /\ c >= x)) => s[r][c] = Text!Blank
    PROVE  /\ screen' \in [Text!Row -> [Text!Col -> Chars \cup {Text!Blank}]]
           /\ g_cursor_y' \in Text!Row
           /\ \A r \in Text!Row, c \in Text!Col :
                 (r > g_cursor_y' \/ (r = g_cursor_y' /\ ~returned' /\ c >= x))
                    => screen'[r][c] = Text!Blank
<1>1. VGA_HEIGHT \in Nat \ {0}
  BY ConsoleSizes
<1>2. CASE y >= VGA_HEIGHT
  <2>1. screen' = Text!Scrolled(s) /\ g_cursor_y' = VGA_HEIGHT - 1
    BY <1>2 DEF Text!Settle
  <2>2. g_cursor_y' \in Text!Row /\ \A r \in Text!Row : ~(r > g_cursor_y')
    BY <1>1, <2>1 DEF Text!Row
  <2>3. QED
    BY <2>1, <2>2, ScrolledRows
<1>3. CASE ~(y >= VGA_HEIGHT)
  <2>1. screen' = s /\ g_cursor_y' = y /\ y \in Text!Row
    BY <1>1, <1>3 DEF Text!Settle, Text!Row
  <2>2. QED
    BY <2>1
<1>4. QED
  BY <1>2, <1>3

\* Whatever is put on the screen, the cells ahead of the cursor stay blank.
LEMMA TextStep ==
    ASSUME TextInv, [Text!Next]_(Text!vars)
    PROVE  TextInv'
<1> DEFINE Screens == [Text!Row -> [Text!Col -> Chars \cup {Text!Blank}]]
<1>1. /\ screen \in Screens /\ g_cursor_x \in Nat /\ g_cursor_x <= MaxX
      /\ g_cursor_y \in Nat /\ g_cursor_y < VGA_HEIGHT /\ g_cursor_y \in Text!Row
      /\ returned \in BOOLEAN /\ Text!BlankAhead
      /\ \A r \in Text!Row : r \in Nat
      /\ \A c \in Text!Col : c \in Nat /\ c < VGA_WIDTH
  BY ConsoleSizes DEF TextInv, Text!TypeOK, Text!Row, Text!Col
<1>2. CASE Text!ClearScreen
  <2>1. Text!BlankScreen \in Screens /\ 0 \in Text!Row /\ 0 \in 0 .. MaxX
    BY ConsoleSizes DEF Text!BlankScreen, Text!Row
  <2>2. QED
    BY <1>2, <2>1 DEF Text!ClearScreen, TextInv, Text!TypeOK, Text!BlankAhead, Text!BlankScreen
<1>3. CASE Text!NewLine
  <2>1. /\ g_cursor_y + 1 \in 0 .. VGA_HEIGHT
        /\ \A r \in Text!Row, c \in Text!Col :
              (r > g_cursor_y + 1 \/ (r = g_cursor_y + 1 /\ ~returned' /\ c >= 0))
                => screen[r][c] = Text!Blank
    BY <1>1, ConsoleSizes DEF Text!BlankAhead
  <2>2. Text!Settle(screen, g_cursor_y + 1) /\ g_cursor_x' = 0 /\ ~returned' /\ returned' \in BOOLEAN
        /\ last' \in Chars \cup {Text!Blank}
    BY <1>3 DEF Text!NewLine
  <2>3. /\ screen' \in Screens /\ g_cursor_y' \in Text!Row
        /\ \A r \in Text!Row, c \in Text!Col :
              (r > g_cursor_y' \/ (r = g_cursor_y' /\ ~returned' /\ c >= 0))
                => screen'[r][c] = Text!Blank
    BY <1>1, <2>1, <2>2, Settled
  <2>4. QED
    BY <2>2, <2>3, ConsoleSizes DEF TextInv, Text!TypeOK, Text!BlankAhead
<1>4. CASE Text!CarriageReturn
  <2>1. Text!Settle(screen, g_cursor_y) /\ g_cursor_x' = 0 /\ returned' = TRUE
        /\ last' \in Chars \cup {Text!Blank}
    BY <1>4 DEF Text!CarriageReturn
  <2>2. screen' = screen /\ g_cursor_y' = g_cursor_y
    BY <1>1, <2>1, ConsoleSizes DEF Text!Settle
  <2>3. QED
    BY <1>1, <2>1, <2>2, ConsoleSizes DEF TextInv, Text!TypeOK, Text!BlankAhead
<1>5. CASE Text!TabStop
  <2>1. /\ Text!Settle(screen, g_cursor_y) /\ returned' = returned
        /\ last' \in Chars \cup {Text!Blank}
        /\ g_cursor_x + Tab <= MaxX /\ g_cursor_x' = ((g_cursor_x + Tab) \div Tab) * Tab
    BY <1>5 DEF Text!TabStop
  <2>2. g_cursor_x' \in Nat /\ g_cursor_x <= g_cursor_x' /\ g_cursor_x' <= g_cursor_x + Tab
    BY <1>1, <2>1, ConsoleSizes, TabAdvances
  <2>3. g_cursor_x' \in 0 .. MaxX
    BY <1>1, <2>1, <2>2, ConsoleSizes
  <2>4. screen' = screen /\ g_cursor_y' = g_cursor_y
    BY <1>1, <2>1, ConsoleSizes DEF Text!Settle
  <2>5. QED
    BY <1>1, <2>1, <2>2, <2>3, <2>4 DEF TextInv, Text!TypeOK, Text!BlankAhead
<1>6. ASSUME NEW ch \in Chars, Text!PutChar(ch)
      PROVE  TextInv'
  <2> DEFINE wraps == g_cursor_x >= VGA_WIDTH
             x == IF wraps THEN 0 ELSE g_cursor_x
             y == IF wraps THEN g_cursor_y + 1 ELSE g_cursor_y
             b == returned /\ ~wraps
             s == Text!Stored(screen, x, y, ch)
  <2>1. /\ g_cursor_x' = x + 1 /\ Text!Settle(s, y) /\ returned' = b /\ last' = ch
    BY <1>6 DEF Text!PutChar
  <2>2. /\ x \in Nat /\ x < VGA_WIDTH /\ x \in Text!Col /\ x + 1 \in 0 .. MaxX
        /\ y \in 0 .. VGA_HEIGHT
    BY <1>1, ConsoleSizes DEF Text!Col
  <2>3. \A r \in Text!Row, c \in Text!Col :
           (r > y \/ (r = y /\ ~returned' /\ c >= x)) => screen[r][c] = Text!Blank
    BY <1>1, <2>1, <2>2 DEF Text!BlankAhead
  <2>4. b \in BOOLEAN
    BY <1>1
  <2> HIDE DEF b, x, y
  <2>5. \A r \in Text!Row, c \in Text!Col :
           s[r][c] = IF r = y /\ c = x THEN ch ELSE screen[r][c]
    BY <1>1, <2>2 DEF Text!Stored
  <2>6. s \in Screens
    BY <1>1, <2>2 DEF Text!Stored
  <2> HIDE DEF s
  <2>7. ASSUME NEW r \in Text!Row, NEW c \in Text!Col,
               r > y \/ (r = y /\ ~returned' /\ c >= x + 1)
        PROVE  s[r][c] = Text!Blank
    <3>1. r \in Nat /\ c \in Nat /\ y \in Nat
      BY <1>1, <2>2
    <3>2. ~(r = y /\ c = x)
      BY <2>2, <2>7, <3>1
    <3>3. screen[r][c] = Text!Blank
      BY <2>2, <2>3, <2>7, <3>1
    <3>4. QED
      BY <2>5, <3>2, <3>3
  <2> DEFINE n == x + 1
  <2>8. n \in Nat
    BY <2>2
  <2>9. \A r \in Text!Row, c \in Text!Col :
           (r > y \/ (r = y /\ ~returned' /\ c >= n)) => s[r][c] = Text!Blank
    BY <2>7
  <2>10. Text!Settle(s, y) /\ g_cursor_x' = n /\ n \in 0 .. MaxX
    BY <2>1, <2>2
  <2> HIDE DEF n
  <2>11. /\ screen' \in Screens /\ g_cursor_y' \in Text!Row
         /\ \A r \in Text!Row, c \in Text!Col :
               (r > g_cursor_y' \/ (r = g_cursor_y' /\ ~returned' /\ c >= n))
                 => screen'[r][c] = Text!Blank
    BY <2>2, <2>6, <2>8, <2>9, <2>10, Settled
  <2>12. QED
    BY <2>1, <2>4, <2>10, <2>11 DEF TextInv, Text!TypeOK, Text!BlankAhead
<1>7. CASE UNCHANGED Text!vars
  BY <1>7 DEF Text!vars, TextInv, Text!TypeOK, Text!BlankAhead
<1>8. QED
  BY <1>2, <1>3, <1>4, <1>5, <1>6, <1>7 DEF Text!Next

(***************************************************************************)
(* Output never runs over text, on a screen of any size and with tabs of   *)
(* any width: the cells below the cursor are blank, and the ones from it   *)
(* to the end of its row too unless a carriage return moved it back.       *)
(***************************************************************************)
THEOREM OutputNeverOverwrites == Spec => []BlankAhead
<1>1. Init => TextInv
  <2> SUFFICES ASSUME Text!Init PROVE TextInv
    BY DEF Init
  <2>1. 0 \in Text!Row /\ 0 \in 0 .. MaxX
    BY ConsoleSizes DEF Text!Row
  <2>2. QED
    BY <2>1 DEF Text!Init, Text!BlankScreen, TextInv, Text!TypeOK, Text!BlankAhead
<1>2. TextInv /\ [Next]_vars => TextInv'
  BY TextStep, PartSteps
<1>3. TextInv => BlankAhead
  BY DEF TextInv, BlankAhead
<1>4. QED
  BY <1>1, <1>2, <1>3, PTL DEF Spec

-----------------------------------------------------------------------------
(***************************************************************************)
(* File system.                                                            *)
(***************************************************************************)

\* Finite sets and cardinalities are the library's, in this part too.
LEMMA FilesSets ==
    ASSUME NEW S
    PROVE  Files!Cardinality(S) = Cardinality(S)
  BY DEF Files!Cardinality, Cardinality

\* A set of natural numbers that is not empty has a least one.
LEMMA LeastNumber ==
    ASSUME NEW T, T \subseteq Nat, T # {}
    PROVE  \E n \in T : \A k \in T : n <= k
<1>1. PICK x \in T : \A y \in T : ~(<<y, x>> \in OpToRel(<, Nat))
  BY NatLessThanWellFounded, WFMin
<1>2. \A j, k \in Nat : <<j, k>> \in OpToRel(<, Nat) <=> j < k
  BY DEF OpToRel
<1>3. ASSUME NEW k \in T
      PROVE  x <= k
  <2>1. x \in Nat /\ k \in Nat
    OBVIOUS
  <2>2. ~(k < x)
    BY <1>1, <1>2, <2>1
  <2>3. QED
    BY <2>1, <2>2
<1>4. QED
  BY <1>3

\* The loops stop at an element of what they look for.
LEMMA FirstIsElement ==
    ASSUME NEW S, S \subseteq Nat, S # {}
    PROVE  Files!First(S) \in S
<1>1. \E n \in S : \A m \in S : n <= m
  BY LeastNumber
<1>2. QED
  BY <1>1 DEF Files!First

\* The tables are finite and their indices are natural numbers.
LEMMA FilesTables ==
    /\ Files!Inode \subseteq Nat /\ IsFiniteSet(Files!Inode)
    /\ Files!Mount \subseteq Nat /\ IsFiniteSet(Files!Mount)
<1>1. TotalInodes \in Nat /\ NMounts \in Nat
  BY PartsAssumption DEF Files!FileSystemAssumption
<1>2. /\ TotalInodes - 1 \in Int /\ NMounts - 1 \in Int /\ 0 \in Int
  BY <1>1
<1>3. IsFiniteSet(0 .. TotalInodes - 1) /\ IsFiniteSet(0 .. NMounts - 1)
  BY <1>2, FS_Interval
<1>4. QED
  BY <1>1, <1>3 DEF Files!Inode, Files!Mount

Used == {j \in Files!Inode : types[j] # 0}

InodeInv ==
    /\ types \in [Files!Inode -> FileTypes \cup {0}]
    /\ garbage \in Nat /\ created \in Nat
    /\ Cardinality(Used) = garbage + created

\* create_file takes an inode that was free, if the type it stores is not 0.
LEMMA InodeStep ==
    ASSUME 0 \notin FileTypes, InodeInv, [Files!Next]_(Files!vars)
    PROVE  InodeInv'
<1>1. ASSUME NEW t \in FileTypes, Files!CreateFile(t)
      PROVE  InodeInv'
  <2> DEFINE n == Files!find_free_inode
  <2>1. n \in Files!FreeInodes
    <3>1. Files!FreeInodes \subseteq Nat /\ Files!FreeInodes # {}
      BY <1>1, FilesTables DEF Files!FreeInodes, Files!CreateFile
    <3>2. QED
      BY <3>1, FirstIsElement DEF Files!find_free_inode
  <2> HIDE DEF n
  <2>2. /\ n \in Files!Inode /\ types[n] = 0 /\ types' = [types EXCEPT ![n] = t]
        /\ created' = created + 1 /\ garbage' = garbage
    BY <1>1, <2>1 DEF Files!FreeInodes, Files!CreateFile, n
  <2>3. \A j \in Files!Inode : types'[j] = IF j = n THEN t ELSE types[j]
    BY <2>2 DEF InodeInv
  <2>4. Used' = Used \cup {n} /\ n \notin Used
    BY <2>2, <2>3 DEF Used
  <2>5. IsFiniteSet(Used)
    BY FilesTables, FS_Subset DEF Used
  <2>6. Cardinality(Used') = Cardinality(Used) + 1
    BY <2>4, <2>5, FS_AddElement
  <2>7. QED
    BY <2>2, <2>6 DEF InodeInv
<1>2. CASE UNCHANGED <<types, garbage, created>>
  BY <1>2 DEF InodeInv, Used
<1>3. QED
  BY <1>1, <1>2 DEF Files!Next, Files!MountDevice, Files!Unmount, Files!vars

(***************************************************************************)
(* Every create_file that returns true has an inode of its own, with any   *)
(* number of inodes and whatever the page held, as long as no file is      *)
(* created with the type 0: find_free_inode takes that for a free inode.   *)
(***************************************************************************)
THEOREM FilesHaveInodes ==
    ASSUME 0 \notin FileTypes
    PROVE  Spec => []InodePerFile
<1>1. Init => InodeInv
  <2> SUFFICES ASSUME Files!Init PROVE InodeInv
    BY DEF Init
  <2>1. IsFiniteSet(Used) /\ Cardinality(Used) \in Nat
    BY FilesTables, FS_Subset, FS_CardinalityType DEF Used
  <2>2. garbage = Cardinality(Used) /\ created = 0
    BY FilesSets DEF Files!Init, Used
  <2>3. QED
    BY <2>1, <2>2 DEF InodeInv, Files!Init
<1>2. InodeInv /\ [Next]_vars => InodeInv'
  BY InodeStep, PartSteps
<1>3. InodeInv => InodePerFile
  BY FilesSets DEF InodeInv, InodePerFile, Files!InodePerFile, Used
<1>4. QED
  BY <1>1, <1>2, <1>3, PTL DEF Spec

(***************************************************************************)
(* The mount table.  What stands in an entry is the path mount was given,  *)
(* cut; so unmount finds only paths that were not cut.                     *)
(***************************************************************************)
Paths   == Files!Path \cup {Files!NoPath}
Entries == [path : Paths, mounted : BOOLEAN]
Standing(q) == {j \in Files!Mount : mount_points[j].mounted
                                    /\ mount_points[j].path = <<q, NoRest>>}

MountInv ==
    /\ mount_points \in [Files!Mount -> Entries]
    /\ asked \in [Files!Mount -> Paths]
    /\ net \in [Prefixes -> Int]
    /\ \A j \in Files!Mount :
          mount_points[j].mounted => mount_points[j].path = <<asked[j][1], NoRest>>
    /\ \A q \in Prefixes : Cardinality(Standing(q)) = net[q]

\* The entries that hold a path are finitely many.
LEMMA StandingFinite ==
    ASSUME NEW q
    PROVE  IsFiniteSet(Standing(q)) /\ Cardinality(Standing(q)) \in Nat
  BY FilesTables, FS_Subset, FS_CardinalityType DEF Standing

\* mount takes an entry that was free and stores the path, cut.
LEMMA MountKeeps ==
    ASSUME MountInv, NEW p \in Files!Path, Files!MountDevice(p)
    PROVE  MountInv'
<1> DEFINE n == Files!First(Files!FreeMounts)
           e == [path |-> <<p[1], NoRest>>, mounted |-> TRUE]
<1>1. n \in Files!FreeMounts
  <2>1. Files!FreeMounts \subseteq Nat /\ Files!FreeMounts # {}
    BY FilesTables DEF Files!FreeMounts, Files!MountDevice
  <2>2. QED
    BY <2>1, FirstIsElement
<1>2. p[1] \in Prefixes /\ <<p[1], NoRest>> \in Files!Path
  BY PartsAssumption DEF Files!Path, Files!FileSystemAssumption
<1>3. e \in Entries
  BY <1>2 DEF Entries, Paths
<1>4. /\ mount_points' = [mount_points EXCEPT ![n] = e]
      /\ asked' = [asked EXCEPT ![n] = p]
      /\ net' = [net EXCEPT ![p[1]] = net[p[1]] + 1]
  BY DEF Files!MountDevice, Files!Truncated
<1> HIDE DEF n
<1>5. n \in Files!Mount /\ ~mount_points[n].mounted
  BY <1>1 DEF Files!FreeMounts
<1>6. /\ \A j \in Files!Mount : mount_points'[j] = IF j = n THEN e ELSE mount_points[j]
      /\ \A j \in Files!Mount : asked'[j] = IF j = n THEN p ELSE asked[j]
      /\ \A q \in Prefixes : net'[q] = IF q = p[1] THEN net[q] + 1 ELSE net[q]
  BY <1>2, <1>4, <1>5 DEF MountInv
<1>7. e.mounted = TRUE /\ e.path = <<p[1], NoRest>>
  OBVIOUS
<1>8. /\ mount_points' \in [Files!Mount -> Entries] /\ asked' \in [Files!Mount -> Paths]
      /\ net' \in [Prefixes -> Int]
  BY <1>2, <1>3, <1>4, <1>5 DEF MountInv, Paths
<1> HIDE DEF e
<1>9. \A j \in Files!Mount :
         mount_points'[j].mounted => mount_points'[j].path = <<asked'[j][1], NoRest>>
  BY <1>6, <1>7 DEF MountInv
<1>10. ASSUME NEW q \in Prefixes
       PROVE  Cardinality(Standing(q)') = net'[q]
  <2>1. CASE q = p[1]
    <3>1. Standing(q)' = Standing(q) \cup {n} /\ n \notin Standing(q)
      BY <1>5, <1>6, <1>7, <2>1 DEF Standing
    <3>2. Cardinality(Standing(q)') = Cardinality(Standing(q)) + 1
      BY <3>1, StandingFinite, FS_AddElement
    <3>3. QED
      BY <1>6, <2>1, <3>2 DEF MountInv
  <2>2. CASE q # p[1]
    <3>1. Standing(q)' = Standing(q)
      BY <1>5, <1>6, <1>7, <2>2 DEF Standing
    <3>2. QED
      BY <1>6, <2>2, <3>1 DEF MountInv
  <2>3. QED
    BY <2>1, <2>2
<1>11. QED
  BY <1>8, <1>9, <1>10 DEF MountInv

\* unmount frees an entry that holds the very path it was given.
LEMMA UnmountKeeps ==
    ASSUME MountInv, NEW p \in Files!Path, Files!Unmount(p)
    PROVE  MountInv'
<1> DEFINE n == Files!First(Files!Matching(p))
<1>1. n \in Files!Matching(p)
  <2>1. Files!Matching(p) \subseteq Nat /\ Files!Matching(p) # {}
    BY FilesTables DEF Files!Matching, Files!Unmount
  <2>2. QED
    BY <2>1, FirstIsElement
<1>2. /\ mount_points' = [mount_points EXCEPT ![n].mounted = FALSE]
      /\ net' = [net EXCEPT ![p[1]] = net[p[1]] - 1]
      /\ asked' = asked
  BY DEF Files!Unmount
<1> HIDE DEF n
<1>3. n \in Files!Mount /\ mount_points[n].mounted /\ mount_points[n].path = p
  BY <1>1 DEF Files!Matching
<1>4. p[1] \in Prefixes /\ p = <<p[1], NoRest>>
  BY <1>3 DEF MountInv, Files!Path
<1>5. /\ mount_points' \in [Files!Mount -> Entries]
      /\ \A j \in Files!Mount : /\ mount_points'[j].path = mount_points[j].path
                                /\ mount_points'[j].mounted <=> (j # n /\ mount_points[j].mounted)
  BY <1>2, <1>3 DEF MountInv, Entries
<1>6. /\ net' \in [Prefixes -> Int]
      /\ \A q \in Prefixes : net'[q] = IF q = p[1] THEN net[q] - 1 ELSE net[q]
  BY <1>2, <1>4 DEF MountInv
<1>7. ASSUME NEW q \in Prefixes
      PROVE  Cardinality(Standing(q)') = net'[q]
  <2>1. CASE q = p[1]
    <3>1. Standing(q)' = Standing(q) \ {n} /\ n \in Standing(q)
      BY <1>3, <1>4, <1>5, <2>1 DEF Standing
    <3>2. Cardinality(Standing(q)') = Cardinality(Standing(q)) - 1
      BY <3>1, StandingFinite, FS_RemoveElement
    <3>3. QED
      BY <1>6, <2>1, <3>2 DEF MountInv
  <2>2. CASE q # p[1]
    <3>1. <<q, NoRest>> # p
      BY <2>2
    <3>2. Standing(q)' = Standing(q)
      BY <1>3, <1>5, <3>1 DEF Standing
    <3>3. QED
      BY <1>6, <2>2, <3>2 DEF MountInv
  <2>3. QED
    BY <2>1, <2>2
<1>8. QED
  BY <1>2, <1>5, <1>6, <1>7 DEF MountInv

(***************************************************************************)
(* Mounts and unmounts add up, in tables of any size: the entries that     *)
(* hold a path are the successful mounts less the successful unmounts, and *)
(* a path that was not cut can be unmounted while its entry stands.        *)
(***************************************************************************)
THEOREM MountsAddUp == Spec => []MountAccounting
<1>1. Init => MountInv
  <2> SUFFICES ASSUME Files!Init PROVE MountInv
    BY DEF Init
  <2>1. /\ mount_points \in [Files!Mount -> Entries] /\ asked \in [Files!Mount -> Paths]
        /\ \A j \in Files!Mount : ~mount_points[j].mounted
    BY DEF Files!Init, Entries, Paths
  <2>2. net \in [Prefixes -> Int] /\ \A q \in Prefixes : net[q] = 0
    BY DEF Files!Init
  <2>3. \A q \in Prefixes : Standing(q) = {}
    BY <2>1 DEF Standing
  <2>4. QED
    BY <2>1, <2>2, <2>3, FS_EmptySet DEF MountInv
<1>2. MountInv /\ [Next]_vars => MountInv'
  <2> SUFFICES ASSUME MountInv, [Files!Next]_(Files!vars) PROVE MountInv'
    BY PartSteps
  <2>1. CASE UNCHANGED <<mount_points, asked, net>>
    BY <2>1 DEF MountInv, Standing
  <2>2. QED
    BY <2>1, MountKeeps, UnmountKeeps DEF Files!Next, Files!CreateFile, Files!vars
<1>3. MountInv => MountAccounting
  <2> SUFFICES ASSUME MountInv PROVE Files!MountAccounting
    BY DEF MountAccounting
  <2>1. \A q \in Prefixes : Files!Cardinality(Files!Matching(<<q, NoRest>>)) = net[q]
    BY FilesSets DEF MountInv, Files!Matching, Standing
  <2>2. ASSUME NEW j \in Files!Mount, mount_points[j].mounted, asked[j][2] = NoRest
        PROVE  Files!Matching(asked[j]) # {}
    <3>1. asked[j] = <<asked[j][1], asked[j][2]>>
      BY DEF MountInv, Paths, Files!Path, Files!NoPath
    <3>2. QED
      BY <2>2, <3>1 DEF MountInv, Files!Matching
  <2>3. QED
    BY <2>1, <2>2 DEF Files!MountAccounting
<1>4. QED
  BY <1>1, <1>2, <1>3, PTL DEF Spec

-----------------------------------------------------------------------------
(***************************************************************************)
(* Memory map.                                                             *)
(***************************************************************************)

\* Quotient and remainder are the only numbers with their property.
LEMMA QuotientRemainder ==
    ASSUME NEW n \in Nat, NEW w \in Nat \ {0}, NEW o \in 0 .. w - 1
    PROVE  (n * w + o) \div w = n /\ (n * w + o) % w = o
<1> DEFINE a == n * w + o
           q == a \div w
           m == a % w
<1>1. n * w \in Nat /\ a \in Nat
  OBVIOUS
<1>2. q \in Nat /\ m \in 0 .. w - 1 /\ a = w * q + m
  BY <1>1
<1> HIDE DEF q, m
<1>3. n * w + o = q * w + m
  BY <1>1, <1>2
<1>4. ~(q < n)
  <2> SUFFICES ASSUME q < n PROVE FALSE
    OBVIOUS
  <2>1. (q + 1) * w <= n * w
    BY <1>2
  <2>2. QED
    BY <1>1, <1>2, <1>3, <2>1
<1>5. ~(n < q)
  <2> SUFFICES ASSUME n < q PROVE FALSE
    OBVIOUS
  <2>1. (n + 1) * w <= q * w
    BY <1>2
  <2>2. QED
    BY <1>1, <1>2, <1>3, <2>1
<1>6. q = n /\ m = o
  BY <1>2, <1>3, <1>4, <1>5
<1>7. QED
  BY <1>6 DEF q, m

\* An address is in pages f to g - 1 when it is between their ends.
LEMMA PagesOfAddress ==
    ASSUME NEW a \in Nat, NEW w \in Nat \ {0}, NEW f \in Nat, NEW g \in Nat
    PROVE  a \div w \in f .. g - 1 <=> f * w <= a /\ a < g * w
<1> DEFINE q == a \div w
           m == a % w
<1>1. q \in Nat /\ m \in 0 .. w - 1 /\ a = w * q + m
  OBVIOUS
<1> HIDE DEF q, m
<1>2. /\ q * w \in Nat /\ f * w \in Nat /\ g * w \in Nat
      /\ a = q * w + m
  BY <1>1
<1>3. ASSUME NEW x \in Nat, NEW y \in Nat, x <= y
      PROVE  x * w <= y * w
  BY <1>3
<1>4. f <= q => f * w <= q * w
  BY <1>1, <1>3
<1>5. ~(f <= q) => (q + 1) * w <= f * w
  BY <1>1, <1>3
<1>6. q + 1 <= g => (q + 1) * w <= g * w
  BY <1>1, <1>3
<1>7. ~(q + 1 <= g) => g * w <= q * w
  BY <1>1, <1>3
<1>8. (q + 1) * w = q * w + w
  BY <1>1
<1>9. f <= q <=> f * w <= a
  BY <1>1, <1>2, <1>4, <1>5, <1>8
<1>10. q + 1 <= g <=> a < g * w
  BY <1>1, <1>2, <1>6, <1>7, <1>8
<1>11. q \in f .. g - 1 <=> f <= q /\ q + 1 <= g
  BY <1>1
<1>12. QED
  BY <1>9, <1>10, <1>11 DEF q

\* What the constants of the memory map are.
LEMMA MapConstants ==
    /\ DescriptorWords \in Nat /\ DescriptorWords >= 5
    /\ EfiPageSize \in Nat \ {0} /\ MaxPage \in Nat /\ AddrMod \in Nat
    /\ (MaxPage + 1) * EfiPageSize < AddrMod /\ EfiTypes \subseteq Nat
<1>1. /\ StructWords \in Nat /\ StructWords >= 5
      /\ DescriptorWords \in Nat /\ DescriptorWords >= StructWords
      /\ EfiPageSize \in Nat \ {0} /\ MaxPage \in Nat /\ AddrMod \in Nat
      /\ (MaxPage + 1) * EfiPageSize < AddrMod /\ EfiTypes \in SUBSET (0 .. 15)
  BY PartsAssumption DEF Map!MapAssumption
<1>2. QED
  BY <1>1

\* The entry that descriptor d should become.
EntryOf(d) == [base_addr |-> d.first * EfiPageSize,
               length    |-> d.pages * EfiPageSize,
               type      |-> Map!KernelType(d.type)]

MapInv ==
    part = "map" =>
        /\ firmware \in Seq(Map!Descriptor)
        /\ \A k \in 1 .. Len(firmware) : firmware[k].first + firmware[k].pages <= MaxPage + 1
        /\ i \in 0 .. Len(firmware)
        /\ memory_entries \in Seq({EntryOf(d) : d \in Map!Descriptor})
        /\ Len(memory_entries) = i
        /\ \A k \in 1 .. i : memory_entries[k] = EntryOf(firmware[k])

\* The loop reads the descriptor at its place and converts it without a wrap.
LEMMA ConvertedEntry ==
    ASSUME MapInv, part = "map", i < Len(firmware)
    PROVE  /\ firmware[i + 1] \in Map!Descriptor
           /\ Map!Converted(i) = EntryOf(firmware[i + 1])
<1> DEFINE n == Len(firmware)
           d == firmware[i + 1]
           w == DescriptorWords
<1>1. n \in Nat /\ i \in Nat /\ i < n /\ i + 1 \in 1 .. n /\ firmware \in Seq(Map!Descriptor)
  BY DEF MapInv
<1>2. d \in Map!Descriptor /\ d.first + d.pages <= MaxPage + 1
  BY <1>1 DEF MapInv
<1>3. w \in Nat \ {0} /\ w >= 5
  BY MapConstants
<1>4. \A o \in 0 .. 3 : o \in 0 .. w - 1
  BY <1>3
<1>5. \A o \in 0 .. 3 : (i * w + o) \div w = i /\ (i * w + o) % w = o
  BY <1>1, <1>3, <1>4, QuotientRemainder
<1>6. i * w \in Nat /\ i * w + 0 = i * w
  BY <1>1, <1>3
<1>7. ~(i >= n)
  BY <1>1
<1> HIDE DEF n, w
<1>8. /\ (i * w + 1) \div w = i /\ (i * w + 1) % w = 1
      /\ (i * w + 3) \div w = i /\ (i * w + 3) % w = 3
      /\ (i * w) \div w = i /\ (i * w) % w = 0
  BY <1>5, <1>6
<1>9. /\ Map!Word(i * w + 1) = d.first * EfiPageSize
      /\ Map!Word(i * w + 3) = d.pages
      /\ Map!Word(i * w) = d.type
  BY <1>7, <1>8 DEF Map!Word, n, w
<1>10. d.pages * EfiPageSize \in Nat /\ d.pages * EfiPageSize < AddrMod
  <2>1. d.pages \in Nat /\ d.pages <= MaxPage + 1
    BY <1>2, MapConstants DEF Map!Descriptor
  <2>2. d.pages * EfiPageSize <= (MaxPage + 1) * EfiPageSize
    BY <2>1, MapConstants
  <2>3. d.pages * EfiPageSize \in Nat /\ (MaxPage + 1) * EfiPageSize \in Nat
    BY <2>1, MapConstants
  <2>4. QED
    BY <2>2, <2>3, MapConstants
<1>11. (d.pages * EfiPageSize) % AddrMod = d.pages * EfiPageSize
  <2> DEFINE l == d.pages * EfiPageSize
  <2>1. l \in Nat /\ l < AddrMod /\ AddrMod \in Nat
    BY <1>10, MapConstants
  <2> HIDE DEF l
  <2>2. l % AddrMod = l
    BY <2>1
  <2>3. QED
    BY <2>2 DEF l
<1>12. QED
  BY <1>2, <1>9, <1>11 DEF Map!Converted, Map!Desc, EntryOf, w

\* Every turn of the loop appends the entry of the next descriptor.
LEMMA MapStep ==
    ASSUME MapInv, [Next]_vars
    PROVE  MapInv'
<1> SUFFICES ASSUME part' = "map" PROVE MapInv'
  BY DEF MapInv
<1> DEFINE n == Len(firmware)
<1>1. part = "map" /\ [Map!Next]_(Map!vars)
  BY PartSteps
<1>2. n \in Nat /\ i \in 0 .. n /\ firmware \in Seq(Map!Descriptor)
  BY <1>1 DEF MapInv
<1>3. CASE Map!Convert
  <2> DEFINE e == Map!Converted(i)
  <2>1. Map!entry_count = n
    <3>1. DescriptorWords \in Nat \ {0} /\ 0 \in 0 .. DescriptorWords - 1
      BY MapConstants
    <3>2. (n * DescriptorWords + 0) \div DescriptorWords = n
      BY <1>2, <3>1, QuotientRemainder
    <3>3. n * DescriptorWords + 0 = n * DescriptorWords
      BY <1>2, <3>1
    <3>4. QED
      BY <3>2, <3>3 DEF Map!entry_count, Map!memory_map_size
  <2>2. /\ i < n /\ memory_entries' = Append(memory_entries, e) /\ i' = i + 1
        /\ firmware' = firmware
    BY <1>3, <2>1 DEF Map!Convert
  <2>3. e = EntryOf(firmware[i + 1]) /\ firmware[i + 1] \in Map!Descriptor
    BY <1>1, <2>2, ConvertedEntry
  <2> HIDE DEF e, n
  <2>4. e \in {EntryOf(d) : d \in Map!Descriptor}
    BY <2>3
  <2>5. /\ memory_entries' \in Seq({EntryOf(d) : d \in Map!Descriptor})
        /\ Len(memory_entries') = i + 1
        /\ \A k \in 1 .. i : memory_entries'[k] = memory_entries[k]
        /\ memory_entries'[i + 1] = e
    BY <1>1, <1>2, <2>2, <2>4 DEF MapInv
  <2>6. \A k \in 1 .. i + 1 : memory_entries'[k] = EntryOf(firmware[k])
    BY <1>1, <1>2, <2>3, <2>5 DEF MapInv
  <2>7. i + 1 \in 0 .. n
    BY <1>2, <2>2
  <2>8. QED
    BY <1>1, <2>2, <2>5, <2>6, <2>7 DEF MapInv, n
<1>4. CASE Map!MemoryInit \/ UNCHANGED Map!vars
  BY <1>1, <1>4 DEF Map!MemoryInit, Map!vars, MapInv
<1>5. QED
  BY <1>1, <1>3, <1>4 DEF Map!Next

\* An entry is available and has an address as its descriptor is and has.
LEMMA EntryCovers ==
    ASSUME NEW d \in Map!Descriptor, d.first + d.pages <= MaxPage + 1, NEW a \in Nat
    PROVE  /\ Map!is_available(EntryOf(d)) <=> d.type = Map!Conventional
           /\ Map!contains(EntryOf(d), a) <=> Map!Covers(d, a)
<1>1. /\ d.first \in Nat /\ d.pages \in Nat /\ d.type \in EfiTypes
      /\ EfiPageSize \in Nat \ {0} /\ AddrMod \in Nat /\ MaxPage \in Nat
      /\ (MaxPage + 1) * EfiPageSize < AddrMod
  BY MapConstants DEF Map!Descriptor
<1>2. Map!is_available(EntryOf(d)) <=> d.type = Map!Conventional
  BY DEF Map!is_available, EntryOf, Map!KernelType, Map!Conventional, Map!BootServicesCode,
     Map!BootServicesData, Map!Reserved
<1> DEFINE b == d.first * EfiPageSize
           l == d.pages * EfiPageSize
           g == d.first + d.pages
           z == g * EfiPageSize
<1>3. b \in Nat /\ l \in Nat /\ g \in Nat /\ z \in Nat /\ z = b + l
  BY <1>1
<1>4. z <= (MaxPage + 1) * EfiPageSize /\ (MaxPage + 1) * EfiPageSize \in Nat
  BY <1>1, <1>3
<1>5. z < AddrMod
  BY <1>1, <1>3, <1>4
<1>6. a \div EfiPageSize \in d.first .. g - 1 <=> b <= a /\ a < z
  BY <1>1, <1>3, PagesOfAddress
<1> HIDE DEF b, l, z
<1>7. (b + l) % AddrMod = z
  BY <1>1, <1>3, <1>5
<1>8. Map!end_addr(EntryOf(d)) = z
  BY <1>7 DEF Map!end_addr, EntryOf, b, l
<1>9. Map!contains(EntryOf(d), a) <=> b <= a /\ a < z
  BY <1>3, <1>8 DEF Map!contains, EntryOf, b
<1>10. Map!Covers(d, a) <=> a \div EfiPageSize \in d.first .. g - 1
  BY <1>1, <1>3 DEF Map!Covers
<1> HIDE DEF g
<1>11. Map!contains(EntryOf(d), a) <=> Map!Covers(d, a)
  BY <1>6, <1>9, <1>10
<1>12. QED
  BY <1>2, <1>11

(***************************************************************************)
(* What the kernel takes for available is the firmware's conventional      *)
(* memory, address by address, for maps of any length, descriptors of any  *)
(* size and pages of any size.                                             *)
(***************************************************************************)
THEOREM ConventionalMemoryFound == Spec => []AvailableIsConventional
<1>1. Init => MapInv
  <2> SUFFICES ASSUME part = "map", Map!Init PROVE MapInv
    BY DEF Init, MapInv
  <2>1. PICK n \in 0 .. MaxDescriptors : firmware \in [1 .. n -> Map!Descriptor]
    BY DEF Map!Init
  <2>2. MaxDescriptors \in Nat
    BY PartsAssumption DEF Map!MapAssumption
  <2>3. n \in Nat
    BY <2>1, <2>2
  <2>4. firmware \in Seq(Map!Descriptor) /\ Len(firmware) = n
    BY <2>1, <2>3
  <2>5. \A k \in 1 .. Len(firmware) : firmware[k].first + firmware[k].pages <= MaxPage + 1
    BY DEF Map!Init, Map!WellFormed
  <2>6. memory_entries = <<>> /\ i = 0
    BY DEF Map!Init
  <2>7. QED
    BY <2>3, <2>4, <2>5, <2>6 DEF MapInv
<1>2. MapInv /\ [Next]_vars => MapInv'
  BY MapStep
<1>3. MapInv => AvailableIsConventional
  <2> SUFFICES ASSUME MapInv, part = "map", NEW a \in 0 .. AddrMod - 1
               PROVE  (\E k \in 1 .. Len(memory_entries) :
                          /\ Map!is_available(memory_entries[k])
                          /\ Map!contains(memory_entries[k], a))
                        <=> (\E k \in 1 .. i : /\ firmware[k].type = Map!Conventional
                                               /\ Map!Covers(firmware[k], a))
    BY DEF AvailableIsConventional, Map!AvailableIsConventional
  <2>1. a \in Nat
    BY MapConstants
  <2>2. Len(memory_entries) = i
    BY DEF MapInv
  <2>3. ASSUME NEW k \in 1 .. i
        PROVE  /\ Map!is_available(memory_entries[k]) <=> firmware[k].type = Map!Conventional
               /\ Map!contains(memory_entries[k], a) <=> Map!Covers(firmware[k], a)
    <3>1. k \in 1 .. Len(firmware)
      BY DEF MapInv
    <3>2. /\ memory_entries[k] = EntryOf(firmware[k]) /\ firmware[k] \in Map!Descriptor
          /\ firmware[k].first + firmware[k].pages <= MaxPage + 1
      BY <3>1 DEF MapInv
    <3>3. QED
      BY <2>1, <3>2, EntryCovers
  <2>4. QED
    BY <2>2, <2>3
<1>4. QED
  BY <1>1, <1>2, <1>3, PTL DEF Spec
-----------------------------------------------------------------------------
(***************************************************************************)
(* Paging.  init needs a page for the directory and one for each table;    *)
(* the theorems assume that so much memory has been found.  The directory  *)
(* is then page 0 and table q is page q + 1, so that all tables but the    *)
(* last lie in the identity mapped first 4 MB.                             *)
(***************************************************************************)

\* What the parts assume of the constants of paging.
LEMMA PagingConstants ==
    /\ TotalPages \in Nat /\ PAGE_SIZE \in Nat \ {0} /\ PagingAddrMod \in Nat \ {0}
    /\ TotalPages * PAGE_SIZE <= PagingAddrMod
    /\ NEntries \in Nat /\ NEntries > 1 /\ RamPages \in Nat \ {0}
    /\ TotalPages <= RamPages /\ RamPages <= NEntries * NEntries
    /\ TouchPages \subseteq Paged!VPage
  BY PartsAssumption DEF Paged!PageAssumption, Paged!PagingAssumption, Paged!VPage,
     Paged!VPages

\* The pointer of a page does not wrap, and the shift gives the page back.
LEMMA PageOfPointer ==
    ASSUME NEW n \in Paged!Page
    PROVE  Paged!PageOf(Paged!AddressOf(n)) = n
<1>1. n \in Nat /\ n < TotalPages
  BY PagingConstants DEF Paged!Page
<1>2. n * PAGE_SIZE \in Nat
  BY <1>1, PagingConstants
<1>3. (n + 1) * PAGE_SIZE <= TotalPages * PAGE_SIZE
  BY <1>1, PagingConstants
<1>4. n * PAGE_SIZE < PagingAddrMod
  BY <1>1, <1>2, <1>3, PagingConstants
<1>5. Paged!AddressOf(n) = n * PAGE_SIZE
  BY <1>2, <1>4, PagingConstants DEF Paged!AddressOf
<1>6. 0 \in 0 .. PAGE_SIZE - 1
  BY PagingConstants
<1>7. (n * PAGE_SIZE + 0) \div PAGE_SIZE = n
  BY <1>1, <1>6, PagingConstants, QuotientRemainder
<1>8. QED
  BY <1>2, <1>5, <1>7 DEF Paged!PageOf

\* allocate_page takes a page that was free.
LEMMA PageTaken ==
    ASSUME NEW b, Paged!FreePages(b) # {}
    PROVE  \E n \in Paged!Page \ b :
             /\ \A k \in Paged!Page \ b : n <= k
             /\ Paged!PageOf(Paged!allocate_page(b).ptr) = n
             /\ Paged!allocate_page(b).bitmap = b \cup {n}
<1> DEFINE F == Paged!FreePages(b)
           n == CHOOSE k \in F : \A m \in F : k <= m
<1>1. F \subseteq Nat /\ F = Paged!Page \ b
  BY PagingConstants DEF Paged!FreePages, Paged!Page
<1>2. \E k \in F : \A m \in F : k <= m
  <2> HIDE DEF F
  <2> QED
    BY <1>1, LeastNumber DEF F
<1>3. n \in F /\ \A m \in F : n <= m
  BY <1>2
<1>4. Paged!FirstFree(b) = n
  BY DEF Paged!FirstFree
<1> HIDE DEF n
<1>5. /\ Paged!allocate_page(b).ptr = Paged!AddressOf(n)
      /\ Paged!allocate_page(b).bitmap = b \cup {n}
  BY <1>4 DEF Paged!allocate_page
<1>6. QED
  BY <1>1, <1>3, <1>5, PageOfPointer

\* The pages of init come in order.
LEMMA PagesInOrder ==
    ASSUME NEW n \in Nat, n < TotalPages
    PROVE  /\ Paged!PageOf(Paged!allocate_page(0 .. n - 1).ptr) = n
           /\ Paged!allocate_page(0 .. n - 1).bitmap = 0 .. n
<1>1. n \in Paged!Page \ (0 .. n - 1)
  BY PagingConstants DEF Paged!Page
<1>2. PICK m \in Paged!Page \ (0 .. n - 1) :
         /\ \A k \in Paged!Page \ (0 .. n - 1) : m <= k
         /\ Paged!PageOf(Paged!allocate_page(0 .. n - 1).ptr) = m
         /\ Paged!allocate_page(0 .. n - 1).bitmap = (0 .. n - 1) \cup {m}
  BY <1>1, PageTaken DEF Paged!FreePages
<1>3. m = n
  BY <1>1, <1>2, PagingConstants DEF Paged!Page
<1>4. (0 .. n - 1) \cup {n} = 0 .. n
  OBVIOUS
<1>5. QED
  BY <1>2, <1>3, <1>4

\* Table index and offset of a virtual page.
LEMMA VirtualPages ==
    /\ \A v \in Paged!VPage :
         /\ v \in Nat /\ v < NEntries * NEntries
         /\ v \div NEntries \in Paged!Index /\ v % NEntries \in Paged!Index
         /\ v = (v \div NEntries) * NEntries + (v % NEntries)
    /\ \A q, j \in Paged!Index :
         /\ q * NEntries + j \in Paged!VPage
         /\ (q * NEntries + j) \div NEntries = q /\ (q * NEntries + j) % NEntries = j
<1>1. NEntries \in Nat \ {0} /\ NEntries * NEntries \in Nat
  BY PagingConstants
<1>2. ASSUME NEW v \in Paged!VPage
      PROVE  /\ v \in Nat /\ v < NEntries * NEntries
             /\ v \div NEntries \in Paged!Index /\ v % NEntries \in Paged!Index
             /\ v = (v \div NEntries) * NEntries + (v % NEntries)
  <2>1. v \in Nat /\ v < NEntries * NEntries
    BY <1>1 DEF Paged!VPage, Paged!VPages
  <2> DEFINE q == v \div NEntries
             m == v % NEntries
  <2>2. q \in Nat /\ m \in 0 .. NEntries - 1 /\ v = NEntries * q + m
    BY <1>1, <2>1
  <2> HIDE DEF q, m
  <2>3. ~(q >= NEntries)
    <3> SUFFICES ASSUME q >= NEntries PROVE FALSE
      OBVIOUS
    <3>1. NEntries * q >= NEntries * NEntries /\ NEntries * q \in Nat
      BY <1>1, <2>2
    <3>2. QED
      BY <1>1, <2>1, <2>2, <3>1
  <2>4. NEntries * q = q * NEntries
    BY <1>1, <2>2
  <2>5. q \in Paged!Index /\ m \in Paged!Index
    BY <1>1, <2>2, <2>3 DEF Paged!Index
  <2>6. v = q * NEntries + m
    BY <2>2, <2>4
  <2>7. QED
    BY <2>1, <2>5, <2>6 DEF q, m
<1>3. ASSUME NEW q \in Paged!Index, NEW j \in Paged!Index
      PROVE  /\ q * NEntries + j \in Paged!VPage
             /\ (q * NEntries + j) \div NEntries = q /\ (q * NEntries + j) % NEntries = j
  <2>1. q \in Nat /\ j \in 0 .. NEntries - 1 /\ q + 1 <= NEntries /\ j \in Nat
    BY <1>1 DEF Paged!Index
  <2>2. (q + 1) * NEntries <= NEntries * NEntries
    BY <1>1, <2>1
  <2>3. q * NEntries \in Nat /\ (q + 1) * NEntries = q * NEntries + NEntries
    BY <1>1, <2>1
  <2>4. q * NEntries + j \in Nat /\ q * NEntries + j < NEntries * NEntries
    BY <1>1, <2>1, <2>2, <2>3
  <2>5. QED
    BY <1>1, <2>1, <2>4, QuotientRemainder DEF Paged!VPage, Paged!VPages
<1>4. QED
  BY <1>2, <1>3

Memory == [Paged!RamPage -> [Paged!Index -> Paged!Entry]]

\* A store changes the one entry it names.
LEMMA Stored ==
    ASSUME NEW r \in Memory, NEW p \in Paged!RamPage, NEW j \in Paged!Index,
           NEW e \in Paged!Entry
    PROVE  /\ Paged!Store(r, p, j, e) \in Memory
           /\ \A k \in Paged!RamPage, m \in Paged!Index :
                Paged!Store(r, p, j, e)[k][m] = IF k = p /\ m = j THEN e ELSE r[k][m]
<1>1. Paged!Store(r, p, j, e) = [r EXCEPT ![p] = [r[p] EXCEPT ![j] = e]]
  BY DEF Paged!Store
<1>2. [r[p] EXCEPT ![j] = e] \in [Paged!Index -> Paged!Entry]
  BY DEF Memory
<1>3. \A k \in Paged!RamPage :
         [r EXCEPT ![p] = [r[p] EXCEPT ![j] = e]][k]
           = IF k = p THEN [r[p] EXCEPT ![j] = e] ELSE r[k]
  BY DEF Memory
<1>4. \A m \in Paged!Index : [r[p] EXCEPT ![j] = e][m] = IF m = j THEN e ELSE r[p][m]
  BY DEF Memory
<1>5. QED
  BY <1>1, <1>2, <1>3, <1>4 DEF Memory

\* Two memories with the same entries are the same.
LEMMA SameMemory ==
    ASSUME NEW r \in Memory, NEW s \in Memory,
           \A p \in Paged!RamPage, j \in Paged!Index : r[p][j] = s[p][j]
    PROVE  r = s
<1>1. ASSUME NEW p \in Paged!RamPage PROVE r[p] = s[p]
  <2>1. r[p] \in [Paged!Index -> Paged!Entry] /\ s[p] \in [Paged!Index -> Paged!Entry]
    BY DEF Memory
  <2>2. QED
    BY <2>1
<1>2. QED
  BY <1>1 DEF Memory

Absent == [present |-> FALSE, frame |-> 0]

\* RAM and bitmap when init has entered n tables.
BuiltRam(n) ==
    [p \in Paged!RamPage |-> [j \in Paged!Index |->
        IF p = 0 THEN IF j < n THEN Paged!Present(j + 1) ELSE Absent
        ELSE IF p <= n THEN Paged!Present((p - 1) * NEntries + j) ELSE Absent]]

Built(n) == [ram |-> BuiltRam(n), bitmap |-> 0 .. n]

\* It is a memory.
LEMMA BuiltType ==
    ASSUME NEntries < TotalPages, NEW n \in 0 .. NEntries
    PROVE  BuiltRam(n) \in Memory
<1>1. NEntries \in Nat /\ NEntries > 1 /\ RamPages \in Nat /\ NEntries < RamPages
      /\ RamPages <= NEntries * NEntries /\ NEntries * NEntries \in Nat /\ n \in Nat
  BY PagingConstants
<1>2. Absent \in Paged!Entry
  BY <1>1 DEF Absent, Paged!Entry, Paged!VPage, Paged!VPages
<1>3. ASSUME NEW j \in Paged!Index PROVE Paged!Present(j + 1) \in Paged!Entry
  <2>1. j + 1 \in Nat /\ j + 1 < NEntries * NEntries
    BY <1>1 DEF Paged!Index
  <2>2. QED
    BY <1>1, <2>1 DEF Paged!Present, Paged!Entry, Paged!VPage, Paged!VPages
<1>4. ASSUME NEW p \in Paged!RamPage, NEW j \in Paged!Index, p # 0, p <= n
      PROVE  Paged!Present((p - 1) * NEntries + j) \in Paged!Entry
  <2>1. p - 1 \in Paged!Index
    BY <1>1, <1>4 DEF Paged!Index, Paged!RamPage
  <2>2. (p - 1) * NEntries + j \in Paged!VPage
    BY <2>1, VirtualPages
  <2>3. QED
    BY <2>2 DEF Paged!Present, Paged!Entry
<1>5. QED
  BY <1>2, <1>3, <1>4 DEF BuiltRam, Memory

\* One turn of init's loop.
LEMMA TurnBuilds ==
    ASSUME NEntries < TotalPages, NEW n \in Paged!Index
    PROVE  Paged!InitTable(Built(n), 0, n) = Built(n + 1)
<1>1. /\ NEntries \in Nat /\ NEntries > 1 /\ RamPages \in Nat /\ NEntries < RamPages
      /\ n \in Nat /\ n < NEntries /\ n + 1 \in Nat /\ n + 1 < TotalPages
      /\ n \in 0 .. NEntries /\ n + 1 \in 0 .. NEntries /\ (n + 1) - 1 = n
  BY PagingConstants DEF Paged!Index
<1> DEFINE a == Paged!allocate_page(0 .. n)
           row == [j \in Paged!Index |-> Paged!Present(n * NEntries + j)]
           filled == [BuiltRam(n) EXCEPT ![n + 1] = row]
<1>2. Paged!PageOf(a.ptr) = n + 1 /\ a.bitmap = 0 .. n + 1
  <2>1. /\ Paged!PageOf(Paged!allocate_page(0 .. (n + 1) - 1).ptr) = n + 1
        /\ Paged!allocate_page(0 .. (n + 1) - 1).bitmap = 0 .. n + 1
    BY <1>1, PagesInOrder
  <2>2. QED
    BY <1>1, <2>1
<1> HIDE DEF a
<1>3. Paged!InitTable(Built(n), 0, n)
        = [ram |-> Paged!Store(filled, 0, n, Paged!Present(n + 1)), bitmap |-> 0 .. n + 1]
  <2>1. Built(n).ram = BuiltRam(n) /\ Built(n).bitmap = 0 .. n
    BY DEF Built
  <2> HIDE DEF row
  <2>2. QED
    BY <1>2, <2>1 DEF Paged!InitTable, a, row
<1>4. row \in [Paged!Index -> Paged!Entry]
  <2>1. \A j \in Paged!Index : n * NEntries + j \in Paged!VPage
    BY VirtualPages
  <2>2. QED
    BY <2>1 DEF Paged!Present, Paged!Entry
<1>5. BuiltRam(n) \in Memory /\ BuiltRam(n + 1) \in Memory
  BY <1>1, BuiltType
<1>6. 0 \in Paged!RamPage /\ n + 1 \in Paged!RamPage
  BY <1>1 DEF Paged!RamPage
<1>7. filled \in Memory /\ \A p \in Paged!RamPage :
         filled[p] = IF p = n + 1 THEN row ELSE BuiltRam(n)[p]
  <2> HIDE DEF row
  <2> QED
    BY <1>4, <1>5, <1>6 DEF Memory
<1>8. \A j \in Paged!Index : row[j] = Paged!Present(n * NEntries + j)
  OBVIOUS
<1> HIDE DEF filled, row
<1>9. Paged!Present(n + 1) \in Paged!Entry
  <2>1. n + 1 \in Paged!VPage
    BY <1>1, PagingConstants DEF Paged!VPage, Paged!VPages
  <2>2. QED
    BY <2>1 DEF Paged!Present, Paged!Entry
<1> DEFINE stored == Paged!Store(filled, 0, n, Paged!Present(n + 1))
<1>10. stored \in Memory /\ \A k \in Paged!RamPage, m \in Paged!Index :
          stored[k][m] = IF k = 0 /\ m = n THEN Paged!Present(n + 1) ELSE filled[k][m]
  BY <1>6, <1>7, <1>9, Stored
<1> HIDE DEF stored
<1>11. ASSUME NEW p \in Paged!RamPage, NEW j \in Paged!Index
       PROVE  stored[p][j] = BuiltRam(n + 1)[p][j]
  <2>1. p \in Nat /\ j \in Nat
    BY <1>1 DEF Paged!RamPage, Paged!Index
  <2> DEFINE Row(k) == IF p = 0 THEN IF j < k THEN Paged!Present(j + 1) ELSE Absent
                       ELSE IF p <= k THEN Paged!Present((p - 1) * NEntries + j) ELSE Absent
  <2>2. BuiltRam(n)[p][j] = Row(n) /\ BuiltRam(n + 1)[p][j] = Row(n + 1)
    BY DEF BuiltRam
  <2> HIDE DEF Row
  <2>3. stored[p][j] = Row(n + 1)
    <3>1. CASE p = 0 /\ j = n
      BY <1>1, <1>10, <3>1 DEF Row
    <3>2. CASE p = 0 /\ j # n
      <4>1. stored[p][j] = Row(n)
        BY <1>1, <1>7, <1>10, <2>2, <3>2
      <4>2. j < n <=> j < n + 1
        BY <1>1, <2>1, <3>2
      <4>3. QED
        BY <3>2, <4>1, <4>2 DEF Row
    <3>3. CASE p = n + 1
      <4>1. stored[p][j] = Paged!Present(n * NEntries + j)
        BY <1>1, <1>7, <1>8, <1>10, <3>3
      <4>2. p # 0 /\ p <= n + 1 /\ p - 1 = n
        BY <1>1, <3>3
      <4>3. QED
        BY <4>1, <4>2 DEF Row
    <3>4. CASE p # 0 /\ p # n + 1
      <4>1. stored[p][j] = Row(n)
        BY <1>1, <1>7, <1>10, <2>2, <3>4
      <4>2. p <= n <=> p <= n + 1
        BY <1>1, <2>1, <3>4
      <4>3. QED
        BY <3>4, <4>1, <4>2 DEF Row
    <3>5. QED
      BY <3>1, <3>2, <3>3, <3>4
  <2>4. QED
    BY <2>2, <2>3
<1>12. stored = BuiltRam(n + 1)
  BY <1>5, <1>10, <1>11, SameMemory
<1>13. QED
  BY <1>3, <1>12 DEF Built, stored

\* Induction with a set, for the turns of the loop.
LEMMA CountingUp ==
    ASSUME NEW T, 0 \in T, \A n \in Nat : n \in T => n + 1 \in T
    PROVE  \A n \in Nat : n \in T
<1> DEFINE U == Nat \ T
<1> SUFFICES ASSUME U # {} PROVE FALSE
  OBVIOUS
<1>1. U \subseteq Nat
  OBVIOUS
<1>2. PICK n \in U : \A k \in U : n <= k
  <2> HIDE DEF U
  <2> QED
    BY <1>1, LeastNumber
<1>3. n \in Nat /\ n - 1 \in Nat /\ ~(n <= n - 1) /\ n = (n - 1) + 1
  OBVIOUS
<1>4. n - 1 \in T
  BY <1>2, <1>3
<1>5. QED
  BY <1>3, <1>4

\* All turns: the loop is a recursive function, and Built solves its equation.
LEMMA TablesBuilt ==
    ASSUME NEntries < TotalPages, NEW st,
           st = [ram    |-> [p \in Paged!RamPage |-> [j \in Paged!Index |-> Absent]],
                 bitmap |-> 0 .. 0]
    PROVE  Paged!InitTables(st, 0) = Built(NEntries)
<1>1. NEntries \in Nat /\ NEntries > 1 /\ RamPages \in Nat \ {0} /\ NEntries < RamPages
  BY PagingConstants
<1>2. Paged!Cleared(st, 0) = Built(0)
  <2>1. 0 \in Paged!RamPage
    BY <1>1 DEF Paged!RamPage
  <2>2. /\ st.ram = [p \in Paged!RamPage |-> [j \in Paged!Index |-> Absent]]
        /\ st.bitmap = 0 .. 0
    OBVIOUS
  <2>3. [j \in Paged!Index |-> [present |-> FALSE, frame |-> st.ram[0][j].frame]]
          = [j \in Paged!Index |-> Absent]
    BY <2>1, <2>2 DEF Absent
  <2>4. [st.ram EXCEPT ![0] = [j \in Paged!Index |-> Absent]] = st.ram
    BY <2>1, <2>2
  <2>5. st.ram = BuiltRam(0)
    <3>1. \A p \in Paged!RamPage, j \in Paged!Index :
             /\ ~(j < 0) /\ (p # 0 => ~(p <= 0))
      BY <1>1 DEF Paged!RamPage, Paged!Index
    <3>2. QED
      BY <2>2, <3>1 DEF BuiltRam
  <2>6. QED
    BY <2>2, <2>3, <2>4, <2>5 DEF Paged!Cleared, Built
<1> DEFINE IsTurns(f) ==
             f = [k \in 0 .. NEntries |-> IF k = 0 THEN Paged!Cleared(st, 0)
                                          ELSE Paged!InitTable(f[k - 1], 0, k - 1)]
           B == [k \in 0 .. NEntries |-> Built(k)]
<1>3. IsTurns(B)
  <2>1. ASSUME NEW k \in 0 .. NEntries, k # 0
        PROVE  Built(k) = Paged!InitTable(B[k - 1], 0, k - 1)
    <3>1. k - 1 \in Paged!Index /\ k - 1 \in 0 .. NEntries /\ (k - 1) + 1 = k
      BY <1>1, <2>1 DEF Paged!Index
    <3>2. B[k - 1] = Built(k - 1)
      BY <3>1
    <3>3. QED
      BY <3>1, <3>2, TurnBuilds
  <2>2. \A k \in 0 .. NEntries : Built(k) = IF k = 0 THEN Paged!Cleared(st, 0)
                                            ELSE Paged!InitTable(B[k - 1], 0, k - 1)
    BY <1>2, <2>1
  <2>3. QED
    BY <2>2
<1> DEFINE f == Paged!Turns(st, 0)
<1>4. f = CHOOSE g : IsTurns(g)
  BY DEF Paged!Turns
<1>5. IsTurns(f)
  <2> HIDE DEF IsTurns, f
  <2> QED
    BY <1>3, <1>4
<1> HIDE DEF f
<1>6. \A k \in 0 .. NEntries :
         f[k] = IF k = 0 THEN Paged!Cleared(st, 0)
                ELSE Paged!InitTable(f[k - 1], 0, k - 1)
  BY <1>5
<1> DEFINE T == {k \in Nat : k <= NEntries => f[k] = Built(k)}
<1>7. 0 \in T
  BY <1>1, <1>2, <1>6
<1>8. ASSUME NEW k \in Nat, k \in T PROVE k + 1 \in T
  <2> SUFFICES ASSUME k + 1 <= NEntries PROVE f[k + 1] = Built(k + 1)
    OBVIOUS
  <2>1. /\ k \in Paged!Index /\ k + 1 \in 0 .. NEntries /\ k + 1 # 0
        /\ (k + 1) - 1 = k /\ k <= NEntries
    BY <1>1 DEF Paged!Index
  <2>2. f[k + 1] = Paged!InitTable(f[(k + 1) - 1], 0, (k + 1) - 1)
    BY <1>6, <2>1
  <2>3. f[k + 1] = Paged!InitTable(Built(k), 0, k)
    BY <1>8, <2>1, <2>2
  <2>4. QED
    BY <2>1, <2>3, TurnBuilds
<1>9. NEntries \in T
  <2> HIDE DEF T
  <2> QED
    BY <1>1, <1>7, <1>8, CountingUp
<1>10. QED
  BY <1>1, <1>9 DEF f, Paged!InitTables

(***************************************************************************)
(* Paging is on.  MapReachesTable is not inductive: that a store reaches   *)
(* its table needs that the directory and the tables up to the last but    *)
(* one are seen at their own addresses, that the pages of the tables are   *)
(* never handed out again, and that what is seen at the address of the     *)
(* last table, which map_page may map elsewhere, is no other table.  All   *)
(* this ends when a page is mapped below 4 MB, where the tables lie.       *)
(***************************************************************************)
TlbSound ==
    \A v, f \in Paged!VPage : <<v, f>> \in tlb => /\ v < NEntries => f = v
                                                  /\ v = NEntries => f >= NEntries

\* The directory leads to the tables, and every entry of theirs is present.
TablesStand(r) ==
    /\ r \in Memory
    /\ \A q \in Paged!Index : r[0][q] = Paged!Present(q + 1)
    /\ \A t \in 1 .. NEntries, j \in Paged!Index : r[t][j].present = TRUE

PagedOn ==
    /\ current_directory = 0
    /\ TablesStand(ram)
    /\ \A j \in Paged!Index : ram[1][j] = Paged!Present(j)
    /\ ram[2][0].frame >= NEntries
    /\ memory_bitmap \in SUBSET Paged!Page /\ 0 .. NEntries \subseteq memory_bitmap
    /\ tlb \in SUBSET (Paged!VPage \X Paged!VPage) /\ TlbSound
    /\ halted = FALSE
    /\ mapped \in [page : Paged!VPage, at : Paged!VPage \cup {Paged!NoFrame}, low : {FALSE}]
    /\ mapped.at < Paged!VPages - NEntries
         => Paged!Walk(ram, current_directory, mapped.at) = mapped.page

LowMapped == mapped.low = TRUE

PagedInv == part = "paging" => Paged!Init \/ PagedOn \/ LowMapped

\* Memory::init turns paging on.
LEMMA PagingStarts ==
    ASSUME NEntries < TotalPages, Paged!Init, Paged!MemoryInit
    PROVE  PagedOn'
<1>1. /\ NEntries \in Nat /\ NEntries > 1 /\ RamPages \in Nat \ {0} /\ NEntries < RamPages
      /\ TotalPages \in Nat /\ NEntries * NEntries \in Nat
      /\ RamPages <= NEntries * NEntries /\ NEntries \in 0 .. NEntries
  BY PagingConstants
<1> DEFINE a == Paged!allocate_page({})
           st == [ram |-> ram, bitmap |-> a.bitmap]
<1>2. Paged!PageOf(a.ptr) = 0 /\ a.bitmap = 0 .. 0
  <2>1. 0 \in Nat /\ 0 < TotalPages /\ 0 .. 0 - 1 = {}
    BY <1>1
  <2>2. /\ Paged!PageOf(Paged!allocate_page(0 .. 0 - 1).ptr) = 0
        /\ Paged!allocate_page(0 .. 0 - 1).bitmap = 0 .. 0
    BY <2>1, PagesInOrder
  <2>3. QED
    BY <2>1, <2>2
<1> HIDE DEF a
<1>3. ram = [p \in Paged!RamPage |-> [j \in Paged!Index |-> Absent]] /\ memory_bitmap = {}
  BY DEF Paged!Init, Absent
<1>4. Paged!InitTables(st, 0) = Built(NEntries)
  BY <1>2, <1>3, TablesBuilt
<1>5. /\ ram' = Paged!InitTables(st, 0).ram /\ memory_bitmap' = Paged!InitTables(st, 0).bitmap
      /\ current_directory' = 0 /\ tlb' = {} /\ mapped' = mapped /\ halted' = halted
  BY <1>2, <1>3 DEF Paged!MemoryInit, a
<1>6. /\ ram' = BuiltRam(NEntries) /\ memory_bitmap' = 0 .. NEntries
      /\ current_directory' = 0 /\ tlb' = {} /\ mapped' = mapped /\ halted' = FALSE
  BY <1>4, <1>5 DEF Built, Paged!Init
<1>7. ram' \in Memory
  BY <1>1, <1>6, BuiltType
<1>8. ASSUME NEW p \in Paged!RamPage, NEW j \in Paged!Index
      PROVE  ram'[p][j] = IF p = 0 THEN IF j < NEntries THEN Paged!Present(j + 1) ELSE Absent
                          ELSE IF p <= NEntries THEN Paged!Present((p - 1) * NEntries + j)
                          ELSE Absent
  BY <1>6 DEF BuiltRam
<1>9. ASSUME NEW q \in Paged!Index PROVE ram'[0][q] = Paged!Present(q + 1)
  <2>1. 0 \in Paged!RamPage /\ q < NEntries
    BY <1>1 DEF Paged!RamPage, Paged!Index
  <2>2. QED
    BY <1>8, <2>1
<1>10. ASSUME NEW t \in 1 .. NEntries, NEW j \in Paged!Index
       PROVE  ram'[t][j] = Paged!Present((t - 1) * NEntries + j)
  <2>1. t \in Paged!RamPage /\ t # 0 /\ t <= NEntries
    BY <1>1 DEF Paged!RamPage
  <2>2. QED
    BY <1>8, <2>1
<1>11. ASSUME NEW j \in Paged!Index PROVE ram'[1][j] = Paged!Present(j)
  <2>1. 1 \in 1 .. NEntries /\ (1 - 1) * NEntries + j = j
    BY <1>1 DEF Paged!Index
  <2>2. QED
    BY <1>10, <2>1
<1>12. ram'[2][0].frame >= NEntries
  <2>1. 2 \in 1 .. NEntries /\ 0 \in Paged!Index /\ (2 - 1) * NEntries + 0 = NEntries
    BY <1>1 DEF Paged!Index
  <2>2. ram'[2][0] = Paged!Present(NEntries)
    BY <1>10, <2>1
  <2>3. QED
    BY <1>1, <2>2 DEF Paged!Present
<1>13. ASSUME NEW t \in 1 .. NEntries, NEW j \in Paged!Index
       PROVE  ram'[t][j].present = TRUE
  <2>1. ram'[t][j] = Paged!Present((t - 1) * NEntries + j)
    BY <1>10
  <2>2. QED
    BY <2>1 DEF Paged!Present
<1>14. memory_bitmap' \in SUBSET Paged!Page
  BY <1>1, <1>6 DEF Paged!Page
<1>15. /\ mapped' \in [page : Paged!VPage, at : Paged!VPage \cup {Paged!NoFrame}, low : {FALSE}]
       /\ ~(mapped'.at < Paged!VPages - NEntries)
  <2>1. mapped' = [page |-> 0, at |-> Paged!NoFrame, low |-> FALSE]
    BY <1>6 DEF Paged!Init
  <2>2. 0 \in Paged!VPage /\ ~(Paged!VPages < Paged!VPages - NEntries)
    BY <1>1 DEF Paged!VPage, Paged!VPages
  <2>3. QED
    BY <2>1, <2>2 DEF Paged!NoFrame
<1>16. QED
  BY <1>6, <1>7, <1>9, <1>11, <1>12, <1>13, <1>14, <1>15 DEF PagedOn, TablesStand, TlbSound

\* The processor's walk finds the entry in the table of its page.
LEMMA Walked ==
    ASSUME NEntries < TotalPages, NEW r, TablesStand(r), NEW v \in Paged!VPage
    PROVE  /\ (v \div NEntries) + 1 \in 1 .. NEntries
           /\ Paged!Walk(r, 0, v) = r[(v \div NEntries) + 1][v % NEntries].frame
           /\ Paged!Walk(r, 0, v) \in Paged!VPage
           /\ Paged!Walk(r, 0, v) # Paged!NoFrame
<1> DEFINE q == v \div NEntries
           m == v % NEntries
<1>1. q \in Paged!Index /\ m \in Paged!Index
  BY VirtualPages
<1> HIDE DEF q, m
<1>2. /\ NEntries \in Nat /\ NEntries > 1 /\ RamPages \in Nat /\ NEntries < RamPages
      /\ NEntries * NEntries \in Nat
  BY PagingConstants
<1>3. q + 1 \in 1 .. NEntries /\ q + 1 \in Paged!RamPage
  BY <1>1, <1>2 DEF Paged!Index, Paged!RamPage
<1>4. r[0][q] = Paged!Present(q + 1)
  BY <1>1 DEF TablesStand
<1>5. r[0][q].present = TRUE /\ r[0][q].frame = q + 1
  BY <1>4 DEF Paged!Present
<1>6. r[q + 1][m].present = TRUE /\ r[q + 1][m] \in Paged!Entry
  BY <1>1, <1>3 DEF TablesStand, Memory
<1>7. r[q + 1][m].frame \in Paged!VPage
  BY <1>6 DEF Paged!Entry
<1>8. Paged!Walk(r, 0, v) = r[q + 1][m].frame
  BY <1>3, <1>5, <1>6 DEF Paged!Walk, q, m
<1>9. Paged!NoFrame \notin Paged!VPage
  BY <1>2 DEF Paged!NoFrame, Paged!VPage, Paged!VPages
<1>10. QED
  BY <1>3, <1>7, <1>8, <1>9 DEF q, m

\* What an access to the first pages can reach.
LEMMA Reached ==
    ASSUME NEntries < TotalPages, PagedOn
    PROVE  /\ \A v \in Paged!Index : /\ v \in Paged!VPage
                                     /\ Paged!Walk(ram, 0, v) = v
                                     /\ Paged!Translations(v) = {v}
           /\ NEntries \in Paged!VPage
           /\ Paged!Walk(ram, 0, NEntries) >= NEntries
           /\ \A f \in Paged!Translations(NEntries) : f \in Paged!VPage /\ f >= NEntries
<1>1. /\ NEntries \in Nat \ {0} /\ NEntries > 1 /\ NEntries * NEntries \in Nat
      /\ NEntries < NEntries * NEntries
  BY PagingConstants
<1>2. ASSUME NEW v \in Paged!Index
      PROVE  /\ v \in Paged!VPage /\ Paged!Walk(ram, 0, v) = v
             /\ Paged!Translations(v) = {v}
  <2>1. v \in Nat /\ v < NEntries /\ v \in Paged!VPage /\ 0 \in Nat
        /\ v \in 0 .. NEntries - 1 /\ 0 * NEntries + v = v /\ 0 + 1 = 1
    BY <1>1 DEF Paged!Index, Paged!VPage, Paged!VPages
  <2>2. (0 * NEntries + v) \div NEntries = 0 /\ (0 * NEntries + v) % NEntries = v
    BY <1>1, <2>1, QuotientRemainder
  <2>3. v \div NEntries = 0 /\ v % NEntries = v
    BY <2>1, <2>2
  <2>4. Paged!Walk(ram, 0, v) = ram[1][v].frame
    BY <2>1, <2>3, Walked DEF PagedOn
  <2>5. ram[1][v] = Paged!Present(v)
    BY DEF PagedOn
  <2>6. Paged!Walk(ram, 0, v) = v
    BY <2>4, <2>5 DEF Paged!Present
  <2>7. \A f \in Paged!VPage : <<v, f>> \in tlb => f = v
    BY <2>1 DEF PagedOn, TlbSound
  <2>8. QED
    BY <2>1, <2>6, <2>7 DEF Paged!Translations, PagedOn
<1>3. NEntries \in Paged!VPage /\ Paged!Walk(ram, 0, NEntries) >= NEntries
      /\ Paged!Walk(ram, 0, NEntries) \in Paged!VPage
  <2>1. 1 \in Nat /\ 0 \in 0 .. NEntries - 1 /\ 1 * NEntries + 0 = NEntries /\ 1 + 1 = 2
    BY <1>1
  <2>2. (1 * NEntries + 0) \div NEntries = 1 /\ (1 * NEntries + 0) % NEntries = 0
    BY <1>1, <2>1, QuotientRemainder
  <2>3. NEntries \div NEntries = 1 /\ NEntries % NEntries = 0
    BY <2>1, <2>2
  <2>4. NEntries \in Paged!VPage
    BY <1>1 DEF Paged!VPage, Paged!VPages
  <2>5. /\ Paged!Walk(ram, 0, NEntries) = ram[2][0].frame
        /\ Paged!Walk(ram, 0, NEntries) \in Paged!VPage
    BY <2>1, <2>3, <2>4, Walked DEF PagedOn
  <2>6. QED
    BY <2>4, <2>5 DEF PagedOn
<1>4. ASSUME NEW f \in Paged!Translations(NEntries)
      PROVE  f \in Paged!VPage /\ f >= NEntries
  <2>1. f = Paged!Walk(ram, 0, NEntries) \/ (f \in Paged!VPage /\ <<NEntries, f>> \in tlb)
    BY DEF Paged!Translations, PagedOn
  <2>2. QED
    BY <1>3, <2>1 DEF PagedOn, TlbSound
<1>5. QED
  BY <1>2, <1>3, <1>4

\* Running code touches a page: the translation it caches is the walk's.
LEMMA TouchKeeps ==
    ASSUME NEntries < TotalPages, PagedOn, NEW v \in TouchPages, Paged!Touch(v)
    PROVE  PagedOn' /\ UNCHANGED <<ram, current_directory, mapped>>
           /\ tlb' = tlb \cup {<<v, Paged!Walk(ram, 0, v)>>}
<1> DEFINE f == Paged!Walk(ram, 0, v)
<1>1. v \in Paged!VPage
  BY PagingConstants
<1>2. f \in Paged!VPage /\ f # Paged!NoFrame
  BY <1>1, Walked DEF PagedOn
<1>3. /\ UNCHANGED <<ram, memory_bitmap, current_directory, mapped>>
      /\ tlb' = tlb \cup {<<v, f>>} /\ halted' = FALSE
  BY <1>2 DEF Paged!Touch, PagedOn
<1>4. (v < NEntries => f = v) /\ (v = NEntries => f >= NEntries)
  <2>1. v < NEntries => v \in Paged!Index
    BY <1>1, PagingConstants DEF Paged!VPage, Paged!VPages, Paged!Index
  <2>2. QED
    BY <2>1, Reached
<1> HIDE DEF f
<1>5. TlbSound'
  <2> SUFFICES ASSUME NEW w \in Paged!VPage, NEW g \in Paged!VPage, <<w, g>> \in tlb'
               PROVE  (w < NEntries => g = w) /\ (w = NEntries => g >= NEntries)
    BY DEF TlbSound
  <2>1. <<w, g>> \in tlb \/ (w = v /\ g = f)
    BY <1>3
  <2>2. QED
    BY <1>4, <2>1 DEF PagedOn, TlbSound
<1>6. tlb' \in SUBSET (Paged!VPage \X Paged!VPage)
  BY <1>1, <1>2, <1>3 DEF PagedOn
<1>7. PagedOn'
  BY <1>3, <1>5, <1>6 DEF PagedOn
<1>8. QED
  BY <1>3, <1>7 DEF f

(***************************************************************************)
(* map_page stores one entry, in page t: the table of the address, or, for *)
(* the last table only, whatever page is seen at its address.              *)
(***************************************************************************)
MapsTo(v, n, t) ==
    LET tbl == (v \div NEntries) + 1
    IN  /\ t = tbl \/ (tbl = NEntries /\ t >= NEntries)
        /\ ram' = Paged!Store(ram, t, v % NEntries, Paged!Present(n))
        /\ memory_bitmap' = memory_bitmap \cup {n}
        /\ tlb' = tlb \cup {<<0, 0>>, <<tbl, Paged!Walk(ram, 0, tbl)>>}
        /\ mapped' = [page |-> n, at |-> v, low |-> FALSE]
        /\ current_directory' = 0 /\ halted' = FALSE

\* An address from 4 MB on is in the range of table 1 or above.
LEMMA AboveFirst ==
    ASSUME NEW v \in NEntries .. Paged!VPages - 1
    PROVE  /\ v \in Paged!VPage /\ v \div NEntries \in Paged!Index
           /\ v % NEntries \in Paged!Index
           /\ (v \div NEntries) + 1 \in 2 .. NEntries
           /\ v < Paged!VPages - NEntries => (v \div NEntries) + 1 < NEntries
<1>1. NEntries \in Nat \ {0} /\ NEntries > 1 /\ NEntries * NEntries \in Nat
  BY PagingConstants
<1>2. v \in Nat /\ v >= NEntries /\ v < NEntries * NEntries /\ v \in Paged!VPage
  BY <1>1 DEF Paged!VPage, Paged!VPages
<1> DEFINE q == v \div NEntries
           m == v % NEntries
<1>3. q \in Paged!Index /\ m \in Paged!Index /\ v = q * NEntries + m
  BY <1>2, VirtualPages
<1> HIDE DEF q, m
<1>4. q \in Nat /\ m \in Nat /\ q < NEntries /\ m < NEntries
  BY <1>1, <1>3 DEF Paged!Index
<1>5. q # 0
  BY <1>1, <1>2, <1>3, <1>4
<1>6. ASSUME v < NEntries * NEntries - NEntries PROVE q + 1 < NEntries
  <2> SUFFICES ASSUME ~(q + 1 < NEntries) PROVE FALSE
    OBVIOUS
  <2>1. q = NEntries - 1
    BY <1>1, <1>4
  <2>2. q * NEntries = NEntries * NEntries - NEntries
    BY <1>1, <2>1
  <2>3. QED
    BY <1>1, <1>3, <1>4, <1>6, <2>2
<1>7. q + 1 \in 2 .. NEntries
  BY <1>1, <1>4, <1>5
<1>8. QED
  BY <1>2, <1>3, <1>6, <1>7 DEF q, m, Paged!VPages

\* The call of map_page with a fresh page.
LEMMA MapsFreshPage ==
    ASSUME NEntries < TotalPages, PagedOn, NEW v \in NEntries .. Paged!VPages - 1,
           Paged!MapNewPage(v)
    PROVE  \E n \in Paged!Page \ memory_bitmap, t \in Paged!VPage : MapsTo(v, n, t)
<1>1. NEntries \in Nat \ {0} /\ NEntries > 1 /\ NEntries < RamPages /\ RamPages \in Nat
  BY PagingConstants
<1> DEFINE a == Paged!allocate_page(memory_bitmap)
           q == v \div NEntries
           tbl == q + 1
<1>2. /\ a.ptr # Paged!nullptr
      /\ Paged!MapPage(Paged!PageOf(a.ptr), v, a.bitmap)
  BY DEF Paged!MapNewPage
<1>3. Paged!FreePages(memory_bitmap) # {}
  BY <1>2 DEF Paged!allocate_page
<1>4. PICK n \in Paged!Page \ memory_bitmap :
         Paged!PageOf(a.ptr) = n /\ a.bitmap = memory_bitmap \cup {n}
  BY <1>3, PageTaken
<1> HIDE DEF a
<1>5. q \in Paged!Index /\ tbl \in 2 .. NEntries
  BY AboveFirst
<1>6. 0 \in Paged!Index /\ 0 \in Paged!VPage /\ Paged!Walk(ram, 0, 0) = 0
      /\ Paged!Translations(0) = {0}
  BY <1>1, Reached DEF Paged!Index
<1>7. ram[0][q] = Paged!Present(tbl)
  BY <1>5 DEF PagedOn, TablesStand
<1>8. ram[0][q].present = TRUE /\ ram[0][q].frame = tbl
  BY <1>7 DEF Paged!Present
<1>9. /\ tbl \in Paged!VPage
      /\ \A t \in Paged!Translations(tbl) : /\ t \in Paged!VPage
                                            /\ t = tbl \/ (tbl = NEntries /\ t >= NEntries)
  <2>1. CASE tbl = NEntries
    BY <2>1, Reached
  <2>2. CASE tbl # NEntries
    <3>1. tbl \in Paged!Index
      BY <1>1, <1>5, <2>2 DEF Paged!Index
    <3>2. QED
      BY <3>1, Reached
  <2>3. QED
    BY <2>1, <2>2
<1>10. Paged!Walk(ram, 0, tbl) # Paged!NoFrame /\ Paged!Walk(ram, 0, 0) # Paged!NoFrame
  BY <1>6, <1>9, Walked DEF PagedOn
<1> HIDE DEF q
<1>11. PICK d \in Paged!Translations(0) :
         LET de  == ram[d][q]
             b   == Paged!allocate_page(a.bitmap)
             tb  == IF de.present THEN de.frame ELSE Paged!PageOf(b.ptr)
             r   == IF de.present THEN ram
                    ELSE Paged!Store(ram, d, q, Paged!Present(tb))
         IN  /\ d \in Paged!RamPage
             /\ memory_bitmap' = IF de.present THEN a.bitmap ELSE b.bitmap
             /\ \E t \in Paged!Translations(tb) :
                   /\ halted' = (t = Paged!NoFrame)
                   /\ ram' = Paged!Store(r, t, v % NEntries, Paged!Present(n))
             /\ tlb' = tlb \cup {<<w, Paged!Walk(ram, 0, w)>> :
                                  w \in {x \in {0, tb} :
                                           Paged!Walk(ram, 0, x) # Paged!NoFrame}}
             /\ mapped' = [page |-> n, at |-> v, low |-> FALSE]
             /\ current_directory' = 0
  <2>1. current_directory = 0
    BY DEF PagedOn
  <2>2. Paged!MapPage(n, v, a.bitmap)
    BY <1>2, <1>4
  <2>3. Paged!Mapped(n, v) = [page |-> n, at |-> v, low |-> FALSE]
    <3>1. mapped.low = FALSE
      <4>1. mapped \in [page : Paged!VPage, at : Paged!VPage \cup {Paged!NoFrame},
                         low : {FALSE}]
        BY DEF PagedOn
      <4>2. QED
        BY <4>1
    <3>2. v \in Nat /\ v >= NEntries
      BY <1>1, PagingConstants DEF Paged!VPages
    <3>3. ~(v < NEntries)
      BY <1>1, <3>2
    <3>4. (mapped.low \/ v < NEntries) = FALSE
      BY <3>1, <3>3
    <3>5. QED
      BY <3>4 DEF Paged!Mapped
  <2>4. QED
    BY <2>1, <2>2, <2>3 DEF Paged!MapPage, q
<1>12. d = 0
  BY <1>6, <1>11
<1>13. PICK t \in Paged!Translations(tbl) :
         /\ halted' = (t = Paged!NoFrame)
         /\ ram' = Paged!Store(ram, t, v % NEntries, Paged!Present(n))
  BY <1>8, <1>11, <1>12
<1>14. /\ memory_bitmap' = a.bitmap
       /\ tlb' = tlb \cup {<<w, Paged!Walk(ram, 0, w)>> :
                            w \in {x \in {0, tbl} : Paged!Walk(ram, 0, x) # Paged!NoFrame}}
       /\ mapped' = [page |-> n, at |-> v, low |-> FALSE] /\ current_directory' = 0
  BY <1>8, <1>11, <1>12
<1>15. {x \in {0, tbl} : Paged!Walk(ram, 0, x) # Paged!NoFrame} = {0, tbl}
  BY <1>10
<1>16. tlb' = tlb \cup {<<0, 0>>, <<tbl, Paged!Walk(ram, 0, tbl)>>}
  <2>1. {<<w, Paged!Walk(ram, 0, w)>> : w \in {0, tbl}}
          = {<<0, 0>>, <<tbl, Paged!Walk(ram, 0, tbl)>>}
    BY <1>6
  <2>2. QED
    BY <1>14, <1>15, <2>1
<1>17. t \in Paged!VPage /\ (t = tbl \/ (tbl = NEntries /\ t >= NEntries))
  BY <1>9, <1>13
<1>18. t # Paged!NoFrame
  BY <1>1, <1>17, PagingConstants DEF Paged!NoFrame, Paged!VPage, Paged!VPages
<1>19. MapsTo(v, n, t)
  BY <1>4, <1>13, <1>14, <1>16, <1>17, <1>18 DEF MapsTo, q
<1>20. QED
  BY <1>17, <1>19

\* The store leaves directory and first table alone, and no walk but that of
\* the mapped address changes.
LEMMA MapChanges ==
    ASSUME NEntries < TotalPages, PagedOn, NEW v \in NEntries .. Paged!VPages - 1,
           NEW n \in Paged!Page \ memory_bitmap, NEW t \in Paged!VPage, MapsTo(v, n, t)
    PROVE  /\ n \in Paged!VPage /\ TablesStand(ram')
           /\ \A j \in Paged!Index : ram'[1][j] = Paged!Present(j)
           /\ ram'[2][0].frame >= NEntries
           /\ \A w \in Paged!VPage :
                w # v => Paged!Walk(ram', 0, w) = Paged!Walk(ram, 0, w)
           /\ v < Paged!VPages - NEntries => Paged!Walk(ram', 0, v) = n
<1>1. /\ NEntries \in Nat \ {0} /\ NEntries > 1 /\ NEntries < RamPages /\ RamPages \in Nat
      /\ TotalPages \in Nat /\ TotalPages <= RamPages /\ RamPages <= NEntries * NEntries
      /\ NEntries * NEntries \in Nat
  BY PagingConstants
<1>2. n \in Paged!VPage /\ n \in Nat /\ n > NEntries
  BY <1>1 DEF PagedOn, Paged!Page, Paged!VPage, Paged!VPages
<1>3. Paged!Present(n) \in Paged!Entry
  BY <1>2 DEF Paged!Present, Paged!Entry
<1> DEFINE q == v \div NEntries
           m == v % NEntries
           tbl == q + 1
<1>4. /\ v \in Paged!VPage /\ q \in Paged!Index /\ m \in Paged!Index
      /\ tbl \in 2 .. NEntries /\ v = q * NEntries + m
      /\ v < Paged!VPages - NEntries => tbl < NEntries
  BY AboveFirst, VirtualPages
<1>5. /\ t = tbl \/ (tbl = NEntries /\ t >= NEntries)
      /\ ram' = Paged!Store(ram, t, m, Paged!Present(n))
  BY DEF MapsTo
<1> HIDE DEF q, m
<1>6. t \in Nat /\ t >= 2
  BY <1>1, <1>4, <1>5 DEF Paged!VPage, Paged!VPages
<1>7. /\ ram' \in Memory
      /\ \A p \in Paged!RamPage, j \in Paged!Index :
           ram'[p][j] = IF p = t /\ j = m THEN Paged!Present(n) ELSE ram[p][j]
  <2>1. ram \in Memory
    BY DEF PagedOn, TablesStand
  <2>2. CASE t \in Paged!RamPage
    BY <1>3, <1>4, <1>5, <2>1, <2>2, Stored
  <2>3. CASE t \notin Paged!RamPage
    BY <1>5, <2>1, <2>3 DEF Paged!Store
  <2>4. QED
    BY <2>2, <2>3
<1>8. \A p \in 0 .. NEntries : p \in Paged!RamPage
  BY <1>1 DEF Paged!RamPage
<1>9. \A j \in Paged!Index : ram'[0][j] = ram[0][j] /\ ram'[1][j] = ram[1][j]
  <2>1. 0 \in Paged!RamPage /\ 1 \in Paged!RamPage /\ 0 # t /\ 1 # t
    BY <1>1, <1>6, <1>8
  <2>2. QED
    BY <1>7, <2>1
<1>10. TablesStand(ram')
  <2>1. ASSUME NEW p \in 1 .. NEntries, NEW j \in Paged!Index
        PROVE  ram'[p][j].present = TRUE
    <3>1. p \in Paged!RamPage
      BY <1>1, <1>8
    <3>2. ram[p][j].present = TRUE
      BY DEF PagedOn, TablesStand
    <3>3. Paged!Present(n).present = TRUE
      BY DEF Paged!Present
    <3>4. QED
      BY <1>7, <3>1, <3>2, <3>3
  <2>2. \A j \in Paged!Index : ram'[0][j] = Paged!Present(j + 1)
    BY <1>9 DEF PagedOn, TablesStand
  <2>3. QED
    BY <1>7, <2>1, <2>2 DEF TablesStand
<1>11. \A j \in Paged!Index : ram'[1][j] = Paged!Present(j)
  BY <1>9 DEF PagedOn
<1>12. ram'[2][0].frame >= NEntries
  <2>1. 2 \in Paged!RamPage /\ 0 \in Paged!Index
    BY <1>1, <1>8 DEF Paged!Index
  <2>2. Paged!Present(n).frame >= NEntries
    BY <1>1, <1>2 DEF Paged!Present
  <2>3. ram[2][0].frame >= NEntries
    BY DEF PagedOn
  <2>4. QED
    BY <1>7, <2>1, <2>2, <2>3
<1>13. ASSUME NEW w \in Paged!VPage, w # v
       PROVE  Paged!Walk(ram', 0, w) = Paged!Walk(ram, 0, w)
  <2> DEFINE x == w \div NEntries
             y == w % NEntries
  <2>1. /\ Paged!Walk(ram', 0, w) = ram'[x + 1][y].frame
        /\ Paged!Walk(ram, 0, w) = ram[x + 1][y].frame
        /\ x + 1 \in 1 .. NEntries
    BY <1>10, Walked DEF PagedOn
  <2>2. x \in Paged!Index /\ y \in Paged!Index /\ w = x * NEntries + y
    BY VirtualPages
  <2> HIDE DEF x, y
  <2>3. x + 1 \in Paged!RamPage
    BY <1>1, <1>8, <2>1
  <2>4. ~(x + 1 = t /\ y = m)
    <3> SUFFICES ASSUME x + 1 = t, y = m PROVE FALSE
      OBVIOUS
    <3>1. t <= NEntries /\ x \in Nat /\ q \in Nat
      BY <1>1, <1>4, <2>1, <2>2 DEF Paged!Index
    <3>2. t = tbl
      BY <1>1, <1>4, <1>5, <1>6, <3>1
    <3>3. x = q
      BY <3>1, <3>2
    <3>4. QED
      BY <1>4, <1>13, <2>2, <3>3
  <2>5. QED
    BY <1>7, <2>1, <2>2, <2>3, <2>4
<1>14. ASSUME v < Paged!VPages - NEntries PROVE Paged!Walk(ram', 0, v) = n
  <2>1. t = tbl /\ tbl \in Paged!RamPage
    BY <1>1, <1>4, <1>5, <1>8, <1>14
  <2>2. Paged!Walk(ram', 0, v) = ram'[tbl][m].frame
    BY <1>4, <1>10, Walked DEF q, m
  <2>3. QED
    BY <1>4, <1>7, <2>1, <2>2 DEF Paged!Present
<1>15. QED
  BY <1>2, <1>10, <1>11, <1>12, <1>13, <1>14

\* map_page keeps paging as it is.
LEMMA MapKeepsPaging ==
    ASSUME NEntries < TotalPages, PagedOn, NEW v \in NEntries .. Paged!VPages - 1,
           NEW n \in Paged!Page \ memory_bitmap, NEW t \in Paged!VPage, MapsTo(v, n, t)
    PROVE  PagedOn'
<1>1. NEntries \in Nat \ {0} /\ NEntries > 1 /\ NEntries * NEntries \in Nat
  BY PagingConstants
<1> DEFINE tbl == (v \div NEntries) + 1
           f == Paged!Walk(ram, 0, tbl)
<1>2. tbl \in 2 .. NEntries /\ v \in Paged!VPage
  BY AboveFirst
<1>3. /\ memory_bitmap' = memory_bitmap \cup {n}
      /\ tlb' = tlb \cup {<<0, 0>>, <<tbl, f>>}
      /\ mapped' = [page |-> n, at |-> v, low |-> FALSE]
      /\ current_directory' = 0 /\ halted' = FALSE
  BY DEF MapsTo
<1> HIDE DEF tbl
<1>4. 0 \in Paged!VPage /\ tbl \in Paged!VPage
  BY <1>1, <1>2, PagingConstants DEF Paged!VPage, Paged!VPages
<1>5. f \in Paged!VPage
  BY <1>4, Walked DEF PagedOn
<1>6. (tbl < NEntries => f = tbl) /\ (tbl = NEntries => f >= NEntries)
  <2>1. tbl < NEntries => tbl \in Paged!Index
    BY <1>1, <1>2 DEF Paged!Index
  <2>2. QED
    BY <2>1, Reached
<1> HIDE DEF f
<1>7. TlbSound'
  <2> SUFFICES ASSUME NEW w \in Paged!VPage, NEW g \in Paged!VPage, <<w, g>> \in tlb'
               PROVE  (w < NEntries => g = w) /\ (w = NEntries => g >= NEntries)
    BY DEF TlbSound
  <2>1. \/ <<w, g>> \in tlb
        \/ w = 0 /\ g = 0
        \/ w = tbl /\ g = f
    BY <1>3
  <2>2. QED
    BY <1>1, <1>6, <2>1 DEF PagedOn, TlbSound
<1>8. tlb' \in SUBSET (Paged!VPage \X Paged!VPage)
  BY <1>3, <1>4, <1>5 DEF PagedOn
<1>9. /\ n \in Paged!VPage /\ TablesStand(ram')
      /\ \A j \in Paged!Index : ram'[1][j] = Paged!Present(j)
      /\ ram'[2][0].frame >= NEntries
      /\ v < Paged!VPages - NEntries => Paged!Walk(ram', 0, v) = n
  BY MapChanges
<1>10. /\ memory_bitmap' \in SUBSET Paged!Page /\ 0 .. NEntries \subseteq memory_bitmap'
  BY <1>3 DEF PagedOn
<1>11. /\ mapped' \in [page : Paged!VPage, at : Paged!VPage \cup {Paged!NoFrame}, low : {FALSE}]
       /\ mapped'.at = v /\ mapped'.page = n
  BY <1>2, <1>3, <1>9
<1>12. QED
  BY <1>3, <1>7, <1>8, <1>9, <1>10, <1>11 DEF PagedOn

\* A page below 4 MB has been mapped, or is mapped now.
LEMMA MappedLow ==
    ASSUME NEW v \in Paged!VPage, Paged!MapNewPage(v)
    PROVE  /\ LowMapped => LowMapped'
           /\ v \in NEntries .. Paged!VPages - 1 \/ LowMapped'
<1>1. NEntries \in Nat /\ NEntries * NEntries \in Nat
  BY PagingConstants
<1>2. \E n : mapped' = Paged!Mapped(n, v)
  BY DEF Paged!MapNewPage, Paged!MapPage
<1>3. mapped'.low = (mapped.low \/ v < NEntries)
  BY <1>2 DEF Paged!Mapped
<1>4. v \in NEntries .. Paged!VPages - 1 \/ v < NEntries
  BY <1>1 DEF Paged!VPage, Paged!VPages
<1>5. QED
  BY <1>3, <1>4 DEF LowMapped

\* No step undoes that.
LEMMA LowStays == ASSUME Paged!Next, LowMapped PROVE LowMapped'
<1>1. ASSUME NEW v \in Paged!VPage, Paged!MapNewPage(v) PROVE LowMapped'
  BY <1>1, MappedLow
<1>2. (Paged!MemoryInit \/ \E v \in TouchPages : Paged!Touch(v)) => mapped' = mapped
  BY DEF Paged!MemoryInit, Paged!Touch
<1>3. QED
  BY <1>1, <1>2 DEF Paged!Next, LowMapped

\* No step of paging leaves the invariant.
LEMMA PagedStep ==
    ASSUME NEntries < TotalPages, PagedInv, [Next]_vars
    PROVE  PagedInv'
<1> SUFFICES ASSUME part = "paging" PROVE (Paged!Init \/ PagedOn \/ LowMapped)'
  BY PartSteps DEF PagedInv
<1>1. Paged!Init \/ PagedOn \/ LowMapped
  BY DEF PagedInv
<1>2. [Paged!Next]_(Paged!vars)
  BY PartSteps
<1>3. CASE UNCHANGED Paged!vars
  <2>1. CASE Paged!Init
    BY <1>3, <2>1 DEF Paged!vars, Paged!Init
  <2>2. CASE PagedOn
    BY <1>3, <2>2 DEF Paged!vars, PagedOn, TlbSound
  <2>3. CASE LowMapped
    BY <1>3, <2>3 DEF Paged!vars, LowMapped
  <2>4. QED
    BY <1>1, <2>1, <2>2, <2>3
<1>4. CASE Paged!Next /\ Paged!Init
  <2>1. Paged!MemoryInit
    BY <1>4 DEF Paged!Next, Paged!Init, Paged!Touch, Paged!MapNewPage
  <2>2. QED
    BY <1>4, <2>1, PagingStarts
<1>5. CASE Paged!Next /\ PagedOn
  <2>1. 0 # Paged!NoFrame
    BY PagingConstants DEF Paged!NoFrame, Paged!VPages
  <2>2. ~Paged!MemoryInit
    BY <1>5, <2>1 DEF Paged!MemoryInit, PagedOn
  <2>3. ASSUME NEW v \in TouchPages, Paged!Touch(v) PROVE PagedOn'
    BY <1>5, <2>3, TouchKeeps
  <2>4. ASSUME NEW v \in NEntries .. Paged!VPages - 1, Paged!MapNewPage(v) PROVE PagedOn'
    BY <1>5, <2>4, MapsFreshPage, MapKeepsPaging
  <2>5. ASSUME NEW v \in Paged!VPage, Paged!MapNewPage(v) PROVE PagedOn' \/ LowMapped'
    BY <2>4, <2>5, MappedLow
  <2>6. QED
    BY <1>5, <2>2, <2>3, <2>5 DEF Paged!Next
<1>6. CASE Paged!Next /\ LowMapped
  BY <1>6, LowStays
<1>7. QED
  BY <1>1, <1>2, <1>3, <1>4, <1>5, <1>6

\* Paging is off at first.
LEMMA PagedInit == Init => PagedInv
  BY DEF Init, PagedInv

(***************************************************************************)
(* With a page for the directory and one for each table, init leaves the   *)
(* first 4 MB identity mapped and no map_page disturbs it, in the tables   *)
(* or in the TLB, until one maps an address below 4 MB, for tables of any  *)
(* size and any memory.                                                    *)
(***************************************************************************)
THEOREM FirstPagesStayIdentity ==
    ASSUME NEntries < TotalPages
    PROVE  Spec => []IdentityFirst4MB
<1>1. PagedInv /\ [Next]_vars => PagedInv'
  BY PagedStep
<1>2. PagedInv => IdentityFirst4MB
  <2> SUFFICES ASSUME PagedInv, part = "paging", current_directory # Paged!NoFrame,
                      ~mapped.low, NEW v \in Paged!Index
               PROVE  Paged!Translations(v) = {v}
    BY DEF IdentityFirst4MB, Paged!IdentityFirst4MB, Paged!Initialised
  <2>1. PagedOn
    BY DEF PagedInv, Paged!Init, LowMapped
  <2>2. QED
    BY <2>1, Reached
<1>3. QED
  BY <1>1, <1>2, PagedInit, PTL DEF Spec

(***************************************************************************)
(* map_page's store reaches the table that the processor walks, for every  *)
(* address below the range of the last table, whatever has been mapped     *)
(* before at or above 4 MB and whatever the TLB still holds.               *)
(***************************************************************************)
THEOREM StoresReachTables ==
    ASSUME NEntries < TotalPages
    PROVE  Spec => []MapReachesTable
<1>1. PagedInv /\ [Next]_vars => PagedInv'
  BY PagedStep
<1>2. PagedInv => MapReachesTable
  <2> SUFFICES ASSUME PagedInv, part = "paging", current_directory # Paged!NoFrame,
                      ~mapped.low, mapped.at < Paged!VPages - NEntries
               PROVE  Paged!Walk(ram, current_directory, mapped.at) = mapped.page
    BY DEF MapReachesTable, Paged!MapReachesTable, Paged!Initialised
  <2>1. PagedOn
    BY DEF PagedInv, Paged!Init, LowMapped
  <2>2. QED
    BY <2>1 DEF PagedOn
<1>3. QED
  BY <1>1, <1>2, PagedInit, PTL DEF Spec

\* One step: what becomes stale was cached and is mapped again.
LEMMA StaleStep ==
    ASSUME 2 < NEntries, NEntries < TotalPages, PagedOn, Paged!Next, NEW w \in Paged!VPage,
           ~mapped'.low, Paged!Stale(w)', ~Paged!Stale(w)
    PROVE  mapped'.at = w /\ Paged!Cached(w)
<1>1. NEntries \in Nat \ {0} /\ NEntries > 1
  BY PagingConstants
<1>2. current_directory = 0 /\ 0 # Paged!NoFrame
  BY PagingConstants DEF PagedOn, Paged!NoFrame, Paged!VPages
<1>3. ~Paged!MemoryInit
  BY <1>2 DEF Paged!MemoryInit
<1>4. \A f \in Paged!VPage : <<w, f>> \in tlb => f = Paged!Walk(ram, 0, w)
  BY <1>2 DEF Paged!Stale
<1>5. PICK f \in Paged!VPage :
         <<w, f>> \in tlb' /\ f # Paged!Walk(ram', current_directory', w)
  BY DEF Paged!Stale
<1>6. ASSUME NEW v \in TouchPages, Paged!Touch(v) PROVE FALSE
  <2>1. /\ UNCHANGED <<ram, current_directory, mapped>>
        /\ tlb' = tlb \cup {<<v, Paged!Walk(ram, 0, v)>>}
    BY <1>6, TouchKeeps
  <2>2. CASE <<w, f>> \in tlb
    BY <1>2, <1>4, <1>5, <2>1, <2>2
  <2>3. CASE w = v /\ f = Paged!Walk(ram, 0, v)
    BY <1>2, <1>5, <2>1, <2>3
  <2>4. QED
    BY <1>5, <2>1, <2>2, <2>3
<1>7. ASSUME NEW v \in NEntries .. Paged!VPages - 1, Paged!MapNewPage(v)
      PROVE  mapped'.at = w /\ Paged!Cached(w)
  <2>1. PICK n \in Paged!Page \ memory_bitmap, t \in Paged!VPage : MapsTo(v, n, t)
    BY <1>7, MapsFreshPage
  <2> DEFINE tbl == (v \div NEntries) + 1
  <2>2. /\ tlb' = tlb \cup {<<0, 0>>, <<tbl, Paged!Walk(ram, 0, tbl)>>}
        /\ mapped' = [page |-> n, at |-> v, low |-> FALSE] /\ current_directory' = 0
    BY <2>1 DEF MapsTo
  <2>3. w # v => Paged!Walk(ram', 0, w) = Paged!Walk(ram, 0, w)
    BY <2>1, MapChanges
  <2>4. Paged!Walk(ram, 0, 0) = 0
    BY <1>1, Reached DEF Paged!Index
  <2>5. tbl \in 2 .. NEntries /\ v \in Nat /\ v >= NEntries
    <3>1. tbl \in 2 .. NEntries /\ v \in Paged!VPage
      BY AboveFirst
    <3>2. v \in Nat /\ v >= NEntries
      BY <1>1, <3>1, VirtualPages, PagingConstants DEF Paged!VPages
    <3>3. QED
      BY <3>1, <3>2
  <2>6. v # tbl
    <3> SUFFICES ASSUME v = tbl PROVE FALSE
      OBVIOUS
    <3>1. v = NEntries
      BY <1>1, <2>5
    <3>2. 1 \in Nat /\ 0 \in 0 .. NEntries - 1 /\ 1 * NEntries + 0 = NEntries
      BY <1>1
    <3>3. (1 * NEntries + 0) \div NEntries = 1
      BY <1>1, <3>2, QuotientRemainder
    <3>4. QED
      BY <1>1, <3>1, <3>2, <3>3
  <2> HIDE DEF tbl
  <2>7. w = v
    <3> SUFFICES ASSUME w # v PROVE FALSE
      OBVIOUS
    <3>1. f # Paged!Walk(ram, 0, w)
      BY <1>5, <2>2, <2>3
    <3>2. <<w, f>> \in tlb \/ (w = 0 /\ f = 0)
             \/ (w = tbl /\ f = Paged!Walk(ram, 0, tbl))
      BY <1>5, <2>2
    <3>3. QED
      BY <1>4, <2>4, <3>1, <3>2
  <2>8. <<w, f>> \in tlb
    <3>1. w # 0 /\ w # tbl
      BY <1>1, <2>5, <2>6, <2>7
    <3>2. QED
      BY <1>5, <2>2, <3>1
  <2>9. QED
    BY <2>2, <2>7, <2>8 DEF Paged!Cached
<1>8. ASSUME NEW v \in Paged!VPage, Paged!MapNewPage(v)
      PROVE  v \in NEntries .. Paged!VPages - 1
  BY <1>8, MappedLow DEF LowMapped
<1>9. QED
  BY <1>3, <1>6, <1>7, <1>8 DEF Paged!Next

(***************************************************************************)
(* map_page invalidates nothing, and yet the only translation that goes    *)
(* stale is that of the page being mapped, and only if it was cached.  It  *)
(* needs tables of more than two entries: with two, map_page caches the    *)
(* address of the very table whose entry for that address it replaces.     *)
(***************************************************************************)
THEOREM OnlyCachedGoesStale ==
    ASSUME 2 < NEntries, NEntries < TotalPages
    PROVE  Spec => StaleOnlyIfCached
<1> DEFINE A == Paged!Initialised /\ ~mapped'.low => \A v \in Paged!VPage :
                  Paged!Stale(v)' /\ ~Paged!Stale(v) => mapped'.at = v /\ Paged!Cached(v)
<1>1. PagedInv /\ [Next]_vars => PagedInv'
  BY PagedStep
<1>2. PagedInv /\ [Next]_vars => [A]_(Paged!vars)
  <2> SUFFICES ASSUME PagedInv, [Next]_vars, ~(UNCHANGED Paged!vars), Paged!Initialised,
                      ~mapped'.low
               PROVE  \A v \in Paged!VPage :
                        Paged!Stale(v)' /\ ~Paged!Stale(v)
                          => mapped'.at = v /\ Paged!Cached(v)
    OBVIOUS
  <2>1. part = "paging" /\ Paged!Next
    BY DEF Next, vars, EntryNext, TextNext, FormatNext, FilesNext, FileNext, TaskNext,
       MapNext, PagedNext, TableNext, ProcessNext, AddressNext, ExceptionNext, CacheNext,
       pagingVars, Paged!vars
  <2>2. PagedOn
    <3>1. ~LowMapped
      <4>1. LowMapped => LowMapped'
        BY <2>1, LowStays
      <4>2. QED
        BY <4>1 DEF LowMapped
    <3>2. QED
      BY <2>1, <3>1 DEF PagedInv, Paged!Init, Paged!Initialised
  <2>3. QED
    BY <2>1, <2>2, StaleStep
<1>3. QED
  BY <1>1, <1>2, PagedInit, PTL DEF Spec, StaleOnlyIfCached, Paged!StaleOnlyIfCached
-----------------------------------------------------------------------------
(***************************************************************************)
(* Entry code.  The instructions of the two routines by their number:      *)
(* syscall_entry pushes fifteen registers, calls, and pops them in reverse *)
(* order, with rax skipped.                                                *)
(***************************************************************************)
Saved    == Entry!SavedBySyscall
Restored == <<"r15", "r14", "r13", "r12", "r10", "r9", "r8", "rbp", "rdi", "rsi", "rdx", "rbx">>
User     == <<"r11", "rcx">>

Ins == {Entry!Push(r) : r \in Entry!Regs} \cup {Entry!Pop(r) : r \in Entry!Regs}
         \cup {Entry!Do(o) : o \in {"call", "skip", "sysret", "handle_exception", "iretq"}}

\* A list of n registers.
LEMMA RegisterLists ==
    /\ Saved \in [1 .. 15 -> Entry!Regs] /\ Len(Saved) = 15
    /\ Entry!SavedByException \in [1 .. 15 -> Entry!Regs]
    /\ Len(Entry!SavedByException) = 15
    /\ Entry!RestoredByException \in [1 .. 15 -> Entry!Regs]
    /\ Len(Entry!RestoredByException) = 15
    /\ \A k \in 1 .. 15 : Entry!RestoredByException[k] = Entry!SavedByException[16 - k]
    /\ Restored \in [1 .. 12 -> Entry!Regs] /\ Len(Restored) = 12
    /\ User \in [1 .. 2 -> Entry!Regs] /\ Len(User) = 2
    /\ \A k \in 1 .. 12 : Restored[k] = Saved[16 - k]
    /\ \A k \in 1 .. 2 : User[k] = Saved[3 - k]
<1>1. Saved \in [1 .. 15 -> Entry!Regs] /\ Len(Saved) = 15
  BY DEF Saved, Entry!SavedBySyscall, Entry!Regs
<1>2. /\ Entry!SavedByException \in [1 .. 15 -> Entry!Regs]
      /\ Len(Entry!SavedByException) = 15
  BY DEF Entry!SavedByException, Entry!Regs
<1>3. Restored \in [1 .. 12 -> Entry!Regs] /\ Len(Restored) = 12
  BY DEF Restored, Entry!Regs
<1>4. User \in [1 .. 2 -> Entry!Regs] /\ Len(User) = 2
  BY DEF User, Entry!Regs
<1>5. \A k \in 1 .. 12 : Restored[k] = Saved[16 - k]
  BY DEF Saved, Entry!SavedBySyscall, Restored
<1>6. \A k \in 1 .. 2 : User[k] = Saved[3 - k]
  BY DEF Saved, Entry!SavedBySyscall, User
<1>7. /\ Entry!RestoredByException \in [1 .. 15 -> Entry!Regs]
      /\ Len(Entry!RestoredByException) = 15
  BY DEF Entry!RestoredByException, Entry!Regs
<1>8. \A k \in 1 .. 15 : Entry!RestoredByException[k] = Entry!SavedByException[16 - k]
  BY DEF Entry!RestoredByException, Entry!SavedByException
<1>9. QED
  BY <1>1, <1>2, <1>3, <1>4, <1>5, <1>6, <1>7, <1>8

\* Pushing or popping a list.
LEMMA ListCode ==
    ASSUME NEW n \in Nat, NEW s \in [1 .. n -> Entry!Regs], Len(s) = n
    PROVE  /\ Entry!Pushes(s) \in Seq(Ins) /\ Len(Entry!Pushes(s)) = n
           /\ \A k \in 1 .. n : Entry!Pushes(s)[k] = Entry!Push(s[k])
           /\ Entry!Pops(s) \in Seq(Ins) /\ Len(Entry!Pops(s)) = n
           /\ \A k \in 1 .. n : Entry!Pops(s)[k] = Entry!Pop(s[k])
<1> DEFINE f == [k \in 1 .. n |-> Entry!Push(s[k])]
           g == [k \in 1 .. n |-> Entry!Pop(s[k])]
<1>1. f \in [1 .. n -> Ins] /\ g \in [1 .. n -> Ins]
  BY DEF Ins
<1>2. Entry!Pushes(s) = f /\ Entry!Pops(s) = g
  BY DEF Entry!Pushes, Entry!Pops
<1>3. \A k \in 1 .. n : f[k] = Entry!Push(s[k]) /\ g[k] = Entry!Pop(s[k])
  OBVIOUS
<1> HIDE DEF f, g
<1>4. f \in Seq(Ins) /\ Len(f) = n /\ g \in Seq(Ins) /\ Len(g) = n
  BY <1>1
<1>5. QED
  BY <1>2, <1>3, <1>4

\* A single instruction.
LEMMA Single ==
    ASSUME NEW o \in {"call", "skip", "sysret", "handle_exception", "iretq"}
    PROVE  /\ <<Entry!Do(o)>> \in Seq(Ins) /\ Len(<<Entry!Do(o)>>) = 1
           /\ <<Entry!Do(o)>>[1] = Entry!Do(o)
<1>1. Entry!Do(o) \in Ins
  BY DEF Ins
<1>2. QED
  BY <1>1

\* syscall_entry, by number.
LEMMA SyscallCode ==
    \A k \in 1 .. 32 : Entry!Code["syscall_entry"][k] =
        IF k <= 15 THEN Entry!Push(Saved[k])
        ELSE IF k = 16 THEN Entry!Do("call")
        ELSE IF k = 29 THEN Entry!Do("skip")
        ELSE IF k = 32 THEN Entry!Do("sysret")
        ELSE Entry!Pop(Saved[32 - k])
<1> DEFINE p1 == Entry!Pushes(Saved)
           p2 == Entry!Pops(Restored)
           p3 == Entry!Pops(User)
           i1 == <<Entry!Do("call")>>
           i2 == <<Entry!Do("skip")>>
           i3 == <<Entry!Do("sysret")>>
<1>1. p1 \in Seq(Ins) /\ Len(p1) = 15 /\ \A k \in 1 .. 15 : p1[k] = Entry!Push(Saved[k])
  BY RegisterLists, ListCode
<1>2. p2 \in Seq(Ins) /\ Len(p2) = 12 /\ \A k \in 1 .. 12 : p2[k] = Entry!Pop(Restored[k])
  BY RegisterLists, ListCode
<1>3. p3 \in Seq(Ins) /\ Len(p3) = 2 /\ \A k \in 1 .. 2 : p3[k] = Entry!Pop(User[k])
  BY RegisterLists, ListCode
<1>4. /\ i1 \in Seq(Ins) /\ Len(i1) = 1 /\ i1[1] = Entry!Do("call")
      /\ i2 \in Seq(Ins) /\ Len(i2) = 1 /\ i2[1] = Entry!Do("skip")
      /\ i3 \in Seq(Ins) /\ Len(i3) = 1 /\ i3[1] = Entry!Do("sysret")
  BY Single
<1>5. Entry!Code["syscall_entry"] = p1 \o i1 \o p2 \o i2 \o p3 \o i3
  BY DEF Entry!Code, Entry!syscall_entry, Saved, Restored, User
<1> HIDE DEF p1, p2, p3, i1, i2, i3
<1> DEFINE c1 == p1 \o i1
           c2 == c1 \o p2
           c3 == c2 \o i2
           c4 == c3 \o p3
           c5 == c4 \o i3
<1>6. /\ c1 \in Seq(Ins) /\ Len(c1) = 16
      /\ \A k \in 1 .. 16 : c1[k] = IF k <= 15 THEN p1[k] ELSE i1[k - 15]
  <2>1. /\ c1 \in Seq(Ins) /\ Len(c1) = Len(p1) + Len(i1)
        /\ \A k \in 1 .. Len(p1) + Len(i1) :
             c1[k] = IF k <= Len(p1) THEN p1[k] ELSE i1[k - Len(p1)]
    BY <1>1, <1>4, ConcatProperties, Zenon
  <2> HIDE DEF c1
  <2>2. QED
    BY <1>1, <1>4, <2>1
<1> HIDE DEF c1
<1>7. /\ c2 \in Seq(Ins) /\ Len(c2) = 28
      /\ \A k \in 1 .. 28 : c2[k] = IF k <= 16 THEN c1[k] ELSE p2[k - 16]
  <2>1. /\ c2 \in Seq(Ins) /\ Len(c2) = Len(c1) + Len(p2)
        /\ \A k \in 1 .. Len(c1) + Len(p2) :
             c2[k] = IF k <= Len(c1) THEN c1[k] ELSE p2[k - Len(c1)]
    BY <1>2, <1>6, ConcatProperties, Zenon
  <2> HIDE DEF c2
  <2>2. QED
    BY <1>2, <1>6, <2>1
<1> HIDE DEF c2
<1>8. /\ c3 \in Seq(Ins) /\ Len(c3) = 29
      /\ \A k \in 1 .. 29 : c3[k] = IF k <= 28 THEN c2[k] ELSE i2[k - 28]
  <2>1. /\ c3 \in Seq(Ins) /\ Len(c3) = Len(c2) + Len(i2)
        /\ \A k \in 1 .. Len(c2) + Len(i2) :
             c3[k] = IF k <= Len(c2) THEN c2[k] ELSE i2[k - Len(c2)]
    BY <1>4, <1>7, ConcatProperties, Zenon
  <2> HIDE DEF c3
  <2>2. QED
    BY <1>4, <1>7, <2>1
<1> HIDE DEF c3
<1>9. /\ c4 \in Seq(Ins) /\ Len(c4) = 31
      /\ \A k \in 1 .. 31 : c4[k] = IF k <= 29 THEN c3[k] ELSE p3[k - 29]
  <2>1. /\ c4 \in Seq(Ins) /\ Len(c4) = Len(c3) + Len(p3)
        /\ \A k \in 1 .. Len(c3) + Len(p3) :
             c4[k] = IF k <= Len(c3) THEN c3[k] ELSE p3[k - Len(c3)]
    BY <1>3, <1>8, ConcatProperties, Zenon
  <2> HIDE DEF c4
  <2>2. QED
    BY <1>3, <1>8, <2>1
<1> HIDE DEF c4
<1>10. /\ c5 \in Seq(Ins) /\ Len(c5) = 32
       /\ \A k \in 1 .. 32 : c5[k] = IF k <= 31 THEN c4[k] ELSE i3[k - 31]
  <2>1. /\ c5 \in Seq(Ins) /\ Len(c5) = Len(c4) + Len(i3)
        /\ \A k \in 1 .. Len(c4) + Len(i3) :
             c5[k] = IF k <= Len(c4) THEN c4[k] ELSE i3[k - Len(c4)]
    BY <1>4, <1>9, ConcatProperties, Zenon
  <2> HIDE DEF c5
  <2>2. QED
    BY <1>4, <1>9, <2>1
<1>11. Entry!Code["syscall_entry"] = c5
  BY <1>5 DEF c1, c2, c3, c4
<1> HIDE DEF c5
<1> SUFFICES ASSUME NEW k \in 1 .. 32
             PROVE  c5[k] = IF k <= 15 THEN Entry!Push(Saved[k])
                            ELSE IF k = 16 THEN Entry!Do("call")
                            ELSE IF k = 29 THEN Entry!Do("skip")
                            ELSE IF k = 32 THEN Entry!Do("sysret")
                            ELSE Entry!Pop(Saved[32 - k])
  BY <1>11
<1>12. CASE k <= 16
  <2>1. c5[k] = c1[k]
    <3>1. /\ k \in 1 .. 31 /\ k \in 1 .. 29 /\ k \in 1 .. 28 /\ k <= 31 /\ k <= 29
          /\ k <= 28 /\ k <= 16
      BY <1>12
    <3>2. c5[k] = c4[k] /\ c4[k] = c3[k] /\ c3[k] = c2[k] /\ c2[k] = c1[k]
      BY <1>7, <1>8, <1>9, <1>10, <3>1, Zenon
    <3>3. QED
      BY <3>2
  <2>2. QED
    BY <1>1, <1>4, <1>6, <1>12, <2>1
<1>13. CASE k \in 17 .. 28
  <2>1. c5[k] = p2[k - 16]
    <3>1. /\ k \in 1 .. 31 /\ k \in 1 .. 29 /\ k \in 1 .. 28 /\ k <= 31 /\ k <= 29
          /\ k <= 28 /\ ~(k <= 16)
      BY <1>13
    <3>2. c5[k] = c4[k] /\ c4[k] = c3[k] /\ c3[k] = c2[k] /\ c2[k] = p2[k - 16]
      BY <1>7, <1>8, <1>9, <1>10, <3>1, Zenon
    <3>3. QED
      BY <3>2
  <2>2. k - 16 \in 1 .. 12 /\ 16 - (k - 16) = 32 - k
    BY <1>13
  <2>3. QED
    BY <1>2, <1>13, <2>1, <2>2, RegisterLists
<1>14. CASE k = 29
  BY <1>4, <1>8, <1>9, <1>10, <1>14
<1>15. CASE k \in 30 .. 31
  <2>1. c5[k] = p3[k - 29]
    <3>1. k \in 1 .. 31 /\ k <= 31 /\ ~(k <= 29)
      BY <1>15
    <3>2. c5[k] = c4[k] /\ c4[k] = p3[k - 29]
      BY <1>9, <1>10, <3>1, Zenon
    <3>3. QED
      BY <3>2
  <2>2. k - 29 \in 1 .. 2 /\ 3 - (k - 29) = 32 - k
    BY <1>15
  <2>3. QED
    BY <1>3, <1>15, <2>1, <2>2, RegisterLists
<1>16. CASE k = 32
  BY <1>4, <1>10, <1>16
<1>17. QED
  BY <1>12, <1>13, <1>14, <1>15, <1>16

\* common_exception_handler, by number.
LEMMA ExceptionCode ==
    \A k \in 1 .. 33 : Entry!Code["common_exception_handler"][k] =
        IF k <= 15 THEN Entry!Push(Entry!SavedByException[k])
        ELSE IF k = 16 THEN Entry!Do("handle_exception")
        ELSE IF k <= 31 THEN Entry!Pop(Entry!SavedByException[32 - k])
        ELSE IF k = 32 THEN Entry!Do("skip")
        ELSE Entry!Do("iretq")
<1> DEFINE S == Entry!SavedByException
           p1 == Entry!Pushes(S)
           p2 == Entry!Pops(Entry!RestoredByException)
           i1 == <<Entry!Do("handle_exception")>>
           i2 == <<Entry!Do("skip")>>
           i3 == <<Entry!Do("iretq")>>
<1>1. p1 \in Seq(Ins) /\ Len(p1) = 15 /\ \A k \in 1 .. 15 : p1[k] = Entry!Push(S[k])
  BY RegisterLists, ListCode
<1>2. /\ p2 \in Seq(Ins) /\ Len(p2) = 15
      /\ \A k \in 1 .. 15 : p2[k] = Entry!Pop(Entry!RestoredByException[k])
  BY RegisterLists, ListCode
<1>3. /\ i1 \in Seq(Ins) /\ Len(i1) = 1 /\ i1[1] = Entry!Do("handle_exception")
      /\ i2 \in Seq(Ins) /\ Len(i2) = 1 /\ i2[1] = Entry!Do("skip")
      /\ i3 \in Seq(Ins) /\ Len(i3) = 1 /\ i3[1] = Entry!Do("iretq")
  BY Single
<1>4. Entry!Code["common_exception_handler"] = p1 \o i1 \o p2 \o i2 \o i3
  BY DEF Entry!Code, Entry!common_exception_handler
<1> HIDE DEF S, p1, p2, i1, i2, i3
<1> DEFINE c1 == p1 \o i1
           c2 == c1 \o p2
           c3 == c2 \o i2
           c4 == c3 \o i3
<1>5. /\ c1 \in Seq(Ins) /\ Len(c1) = 16
      /\ \A k \in 1 .. 16 : c1[k] = IF k <= 15 THEN p1[k] ELSE i1[k - 15]
  <2>1. /\ c1 \in Seq(Ins) /\ Len(c1) = Len(p1) + Len(i1)
        /\ \A k \in 1 .. Len(p1) + Len(i1) :
             c1[k] = IF k <= Len(p1) THEN p1[k] ELSE i1[k - Len(p1)]
    BY <1>1, <1>3, ConcatProperties, Zenon
  <2> HIDE DEF c1
  <2>2. QED
    BY <1>1, <1>3, <2>1
<1> HIDE DEF c1
<1>6. /\ c2 \in Seq(Ins) /\ Len(c2) = 31
      /\ \A k \in 1 .. 31 : c2[k] = IF k <= 16 THEN c1[k] ELSE p2[k - 16]
  <2>1. /\ c2 \in Seq(Ins) /\ Len(c2) = Len(c1) + Len(p2)
        /\ \A k \in 1 .. Len(c1) + Len(p2) :
             c2[k] = IF k <= Len(c1) THEN c1[k] ELSE p2[k - Len(c1)]
    BY <1>2, <1>5, ConcatProperties, Zenon
  <2> HIDE DEF c2
  <2>2. QED
    BY <1>2, <1>5, <2>1
<1> HIDE DEF c2
<1>7. /\ c3 \in Seq(Ins) /\ Len(c3) = 32
      /\ \A k \in 1 .. 32 : c3[k] = IF k <= 31 THEN c2[k] ELSE i2[k - 31]
  <2>1. /\ c3 \in Seq(Ins) /\ Len(c3) = Len(c2) + Len(i2)
        /\ \A k \in 1 .. Len(c2) + Len(i2) :
             c3[k] = IF k <= Len(c2) THEN c2[k] ELSE i2[k - Len(c2)]
    BY <1>3, <1>6, ConcatProperties, Zenon
  <2> HIDE DEF c3
  <2>2. QED
    BY <1>3, <1>6, <2>1
<1> HIDE DEF c3
<1>8. /\ c4 \in Seq(Ins) /\ Len(c4) = 33
      /\ \A k \in 1 .. 33 : c4[k] = IF k <= 32 THEN c3[k] ELSE i3[k - 32]
  <2>1. /\ c4 \in Seq(Ins) /\ Len(c4) = Len(c3) + Len(i3)
        /\ \A k \in 1 .. Len(c3) + Len(i3) :
             c4[k] = IF k <= Len(c3) THEN c3[k] ELSE i3[k - Len(c3)]
    BY <1>3, <1>7, ConcatProperties, Zenon
  <2> HIDE DEF c4
  <2>2. QED
    BY <1>3, <1>7, <2>1
<1>9. Entry!Code["common_exception_handler"] = c4
  BY <1>4 DEF c1, c2, c3
<1> HIDE DEF c4
<1> SUFFICES ASSUME NEW k \in 1 .. 33
             PROVE  c4[k] = IF k <= 15 THEN Entry!Push(S[k])
                            ELSE IF k = 16 THEN Entry!Do("handle_exception")
                            ELSE IF k <= 31 THEN Entry!Pop(S[32 - k])
                            ELSE IF k = 32 THEN Entry!Do("skip")
                            ELSE Entry!Do("iretq")
  BY <1>9 DEF S
<1>10. CASE k <= 16
  <2>1. k \in 1 .. 31 /\ k \in 1 .. 32 /\ k <= 31 /\ k <= 32 /\ k <= 16
    BY <1>10
  <2>2. c4[k] = c3[k] /\ c3[k] = c2[k] /\ c2[k] = c1[k]
    BY <1>6, <1>7, <1>8, <2>1, Zenon
  <2>3. QED
    BY <1>1, <1>3, <1>5, <1>10, <2>2
<1>11. CASE k \in 17 .. 31
  <2>1. k \in 1 .. 31 /\ k \in 1 .. 32 /\ k <= 31 /\ k <= 32 /\ ~(k <= 16)
    BY <1>11
  <2>2. c4[k] = c3[k] /\ c3[k] = c2[k] /\ c2[k] = p2[k - 16]
    BY <1>6, <1>7, <1>8, <2>1, Zenon
  <2>3. k - 16 \in 1 .. 15 /\ 16 - (k - 16) = 32 - k
    BY <1>11
  <2>4. p2[k - 16] = Entry!Pop(S[32 - k])
    BY <1>2, <2>3, RegisterLists DEF S
  <2>5. QED
    BY <1>11, <2>2, <2>4
<1>12. CASE k = 32
  <2>1. k \in 1 .. 32 /\ k <= 32 /\ ~(k <= 31) /\ k - 31 = 1
    BY <1>12
  <2>2. c4[k] = c3[k] /\ c3[k] = i2[1]
    BY <1>7, <1>8, <2>1, Zenon
  <2>3. QED
    BY <1>3, <1>12, <2>2
<1>13. CASE k = 33
  <2>1. ~(k <= 32) /\ k - 32 = 1
    BY <1>13
  <2>2. c4[k] = i3[1]
    BY <1>8, <2>1, Zenon
  <2>3. QED
    BY <1>3, <1>13, <2>2
<1>14. QED
  BY <1>10, <1>11, <1>12, <1>13

\* _start, by number.
LEMMA StartCode ==
    /\ \A k \in 1 .. 6 : Entry!Code["_start"][k].op \notin
                           {"call", "skip", "handle_exception", "iretq"}
    /\ Entry!Code["_start"][6].op = "kernel_main64"
    /\ Entry!Code["nowhere"][1].op = "lost"
<1> DEFINE c == <<Entry!Push("rdi"), Entry!Do("newstack"), Entry!Do("clearbss"),
                  Entry!Pop("rdi"), Entry!Do("setup_cpu_features"),
                  Entry!Do("kernel_main64")>>
<1>1. Entry!Code["_start"] = c /\ Entry!Code["nowhere"] = <<Entry!Do("lost")>>
  BY DEF Entry!Code, Entry!_start, Entry!nowhere
<1>2. /\ c[1].op = "push" /\ c[2].op = "newstack" /\ c[3].op = "clearbss"
      /\ c[4].op = "pop" /\ c[5].op = "setup_cpu_features" /\ c[6].op = "kernel_main64"
  BY DEF Entry!Push, Entry!Pop, Entry!Do
<1>3. <<Entry!Do("lost")>>[1].op = "lost"
  BY DEF Entry!Do
<1> HIDE DEF c
<1>4. QED
  BY <1>1, <1>2, <1>3

\* The lists name every register; rax is the third that syscall_entry saves.
LEMMA ListsComplete ==
    /\ \A k \in 1 .. 15 : Saved[k] = "rax" <=> k = 3
    /\ \A r \in Entry!Regs : \E k \in 1 .. 15 : Saved[k] = r
    /\ \A r \in Entry!Regs : \E k \in 1 .. 15 : Entry!SavedByException[k] = r
<1>1. \A k \in 1 .. 15 : Saved[k] = "rax" <=> k = 3
  BY DEF Saved, Entry!SavedBySyscall
<1>2. \A r \in Entry!Regs : \E k \in 1 .. 15 : Saved[k] = r
  <2>1. /\ Saved[1] = "rcx" /\ Saved[2] = "r11" /\ Saved[3] = "rax" /\ Saved[4] = "rbx"
        /\ Saved[5] = "rdx" /\ Saved[6] = "rsi" /\ Saved[7] = "rdi" /\ Saved[8] = "rbp"
        /\ Saved[9] = "r8" /\ Saved[10] = "r9" /\ Saved[11] = "r10" /\ Saved[12] = "r12"
        /\ Saved[13] = "r13" /\ Saved[14] = "r14" /\ Saved[15] = "r15"
    BY DEF Saved, Entry!SavedBySyscall
  <2>2. QED
    BY <2>1 DEF Entry!Regs
<1>3. \A r \in Entry!Regs : \E k \in 1 .. 15 : Entry!SavedByException[k] = r
  <2> DEFINE S == Entry!SavedByException
  <2>1. /\ S[1] = "rax" /\ S[2] = "rbx" /\ S[3] = "rcx" /\ S[4] = "rdx" /\ S[5] = "rsi"
        /\ S[6] = "rdi" /\ S[7] = "rbp" /\ S[8] = "r8" /\ S[9] = "r9" /\ S[10] = "r10"
        /\ S[11] = "r11" /\ S[12] = "r12" /\ S[13] = "r13" /\ S[14] = "r14"
        /\ S[15] = "r15"
    BY DEF Entry!SavedByException
  <2> HIDE DEF S
  <2>2. \A r \in Entry!Regs : \E k \in 1 .. 15 : S[k] = r
    BY <2>1 DEF Entry!Regs
  <2>3. QED
    BY <2>2 DEF S
<1>4. QED
  BY <1>1, <1>2, <1>3

Words == Entry!Values \cup {"caller", "frame", "error"} \cup StubVectors

(***************************************************************************)
(* Where the registers are at every instruction.  In syscall_entry the     *)
(* stack holds the first registers of the list above the caller's word:    *)
(* those pushed, or those not popped yet.                                  *)
(***************************************************************************)
SyscallAt(pos, rg, st) ==
    /\ pos \in 1 .. 32
    /\ rg \in [Entry!Regs -> Words] /\ st \in Seq(Words)
    /\ Len(st) = IF pos <= 16 THEN pos ELSE 33 - pos
    /\ \A k \in 1 .. 15 : k < Len(st) => st[k + 1] = Saved[k]
    /\ pos <= 16 => \A r \in Entry!Regs : rg[r] = r
    /\ pos > 16 => /\ rg["rax"] = "result"
                 /\ \A k \in 1 .. 15 : k >= 33 - pos /\ k # 3 => rg[Saved[k]] = Saved[k]

SyscallInv == entered = 1 /\ SyscallAt(ip, regs, stack)

(***************************************************************************)
(* In common_exception_handler it holds, above what was there when the     *)
(* processor had pushed its frame (b) and above the vector, the registers  *)
(* as they were (r0), again those pushed or those not popped yet.          *)
(***************************************************************************)
HandlerAt(pos, rg, st, b, r0) ==
    /\ pos \in 1 .. 33
    /\ rg \in [Entry!Regs -> Words] /\ r0 \in [Entry!Regs -> Words]
    /\ st \in Seq(Words) /\ b \in Seq(Words)
    /\ Len(st) = IF pos <= 16 THEN Len(b) + pos ELSE Len(b) + (33 - pos)
    /\ \A j \in 1 .. Len(b) : st[j] = b[j]
    /\ \A k \in 1 .. 15 : (Len(b) + 1) + k <= Len(st) =>
         st[(Len(b) + 1) + k] = r0[Entry!SavedByException[k]]
    /\ pos <= 16 => \A r \in Entry!Regs : rg[r] = r0[r]
    /\ pos > 16 => \A k \in 1 .. 15 : k >= 33 - pos =>
                    rg[Entry!SavedByException[k]] = r0[Entry!SavedByException[k]]

\* The interrupted routine will go on where it was.
HandlerInv ==
    /\ entered = 1
    /\ struck.vector \in StubVectors
    /\ SyscallAt(struck.ip, struck.regs, struck.stack)
    /\ HandlerAt(ip, regs, stack, struck.stack \o Entry!Pushed(struck.vector), struck.regs)

EntryInv ==
    part = "entry" =>
      /\ routine \in {"syscall_entry", "_start", "common_exception_handler", "nowhere"}
      /\ routine = "_start" => ip \in 1 .. 6
      /\ routine = "nowhere" => ip = 1
      /\ routine = "syscall_entry" => SyscallInv
      /\ routine = "common_exception_handler" => HandlerInv

\* Popping: what is left is the stack without its last word.
LEMMA FrontWords ==
    ASSUME NEW s \in Seq(Words), NEW n \in Nat, Len(s) = n + 1
    PROVE  /\ Entry!Front(s) \in Seq(Words) /\ Len(Entry!Front(s)) = n
           /\ \A k \in 1 .. n : Entry!Front(s)[k] = s[k]
           /\ Entry!Last(s) = s[n + 1] /\ s # <<>>
<1>1. Entry!Front(s) = SubSeq(s, 1, Len(s) - 1) /\ Entry!Last(s) = s[Len(s)]
  BY DEF Entry!Front, Entry!Last
<1>2. Len(s) - 1 = n
  OBVIOUS
<1>3. /\ SubSeq(s, 1, n) \in Seq(Words) /\ Len(SubSeq(s, 1, n)) = n
      /\ \A k \in 1 .. n : SubSeq(s, 1, n)[k] = s[k]
  OBVIOUS
<1>4. QED
  BY <1>1, <1>2, <1>3

\* Pushing.
LEMMA PushWords ==
    ASSUME NEW s \in Seq(Words), NEW n \in Nat, Len(s) = n, NEW w \in Words
    PROVE  /\ Append(s, w) \in Seq(Words) /\ Len(Append(s, w)) = n + 1
           /\ \A k \in 1 .. n : Append(s, w)[k] = s[k]
           /\ Append(s, w)[n + 1] = w
  OBVIOUS

\* An instruction of syscall_entry.
LEMMA SyscallStep ==
    ASSUME routine = "syscall_entry", SyscallInv, Entry!Next
    PROVE  \/ routine' = "syscall_entry" /\ SyscallInv'
           \/ routine' = "common_exception_handler" /\ HandlerInv'
<1>1. /\ ip \in 1 .. 32 /\ ip \in Nat /\ entered = 1
      /\ regs \in [Entry!Regs -> Words] /\ stack \in Seq(Words)
      /\ Len(stack) = IF ip <= 16 THEN ip ELSE 33 - ip
      /\ \A k \in 1 .. 15 : k < Len(stack) => stack[k + 1] = Saved[k]
  BY DEF SyscallInv, SyscallAt
<1>2. Entry!Instr = IF ip <= 15 THEN Entry!Push(Saved[ip])
                    ELSE IF ip = 16 THEN Entry!Do("call")
                    ELSE IF ip = 29 THEN Entry!Do("skip")
                    ELSE IF ip = 32 THEN Entry!Do("sysret")
                    ELSE Entry!Pop(Saved[32 - ip])
  BY <1>1, SyscallCode DEF Entry!Instr
<1>3. /\ Entry!Instr.op = "push" => ip <= 15 /\ Entry!Instr.reg = Saved[ip]
      /\ Entry!Instr.op = "call" => ip = 16
      /\ Entry!Instr.op = "skip" => ip = 29
      /\ Entry!Instr.op = "pop" => /\ ip \in 17 .. 31 /\ ip # 29
                                   /\ Entry!Instr.reg = Saved[32 - ip]
      /\ Entry!Instr.op \in {"push", "call", "skip", "pop", "sysret"}
  BY <1>1, <1>2 DEF Entry!Push, Entry!Pop, Entry!Do
<1>4. \A k \in 1 .. 15 : Saved[k] \in Entry!Regs
  BY RegisterLists
<1>5. \A r \in Entry!Regs : r \in Words
  BY DEF Words, Entry!Values
<1>6. CASE Entry!DoPush
  <2>1. /\ ip \in 1 .. 15 /\ stack' = Append(stack, regs[Saved[ip]]) /\ ip' = ip + 1
        /\ routine' = routine /\ regs' = regs /\ entered' = entered
        /\ ip \in Nat
    <3>1. /\ Entry!Instr.op = "push" /\ stack' = Append(stack, regs[Entry!Instr.reg])
          /\ ip' = ip + 1 /\ routine' = routine /\ regs' = regs /\ entered' = entered
      BY <1>6 DEF Entry!DoPush, Entry!Advance
    <3>2. ip <= 15 /\ Entry!Instr.reg = Saved[ip]
      BY <1>3, <3>1, Zenon
    <3>3. ip \in 1 .. 15 /\ ip \in Nat
      BY <1>1, <3>2
    <3>4. stack' = Append(stack, regs[Saved[ip]])
      BY <3>1, <3>2, Zenon
    <3>5. QED
      BY <3>1, <3>3, <3>4, Zenon
  <2>2. \A r \in Entry!Regs : regs[r] = r
    <3>1. ip <= 16
      BY <2>1
    <3>2. QED
      BY <3>1 DEF SyscallInv, SyscallAt
  <2>3. regs[Saved[ip]] = Saved[ip] /\ Saved[ip] \in Words /\ Len(stack) = ip
    <3>1. Saved[ip] \in Entry!Regs
      BY <1>4, <2>1, Zenon
    <3>2. regs[Saved[ip]] = Saved[ip] /\ Saved[ip] \in Words
      BY <1>5, <2>2, <3>1, Zenon
    <3>3. ip <= 16 /\ Len(stack) = IF ip <= 16 THEN ip ELSE 33 - ip
      BY <1>1, <2>1
    <3>4. QED
      BY <3>2, <3>3, Zenon
  <2>4. /\ stack' \in Seq(Words) /\ Len(stack') = ip + 1
        /\ \A k \in 1 .. ip : stack'[k] = stack[k]
        /\ stack'[ip + 1] = Saved[ip]
    BY <1>1, <2>1, <2>3, PushWords
  <2>5. ASSUME NEW k \in 1 .. 15, k < ip + 1 PROVE stack'[k + 1] = Saved[k]
    <3>1. CASE k = ip
      BY <2>4, <3>1
    <3>2. CASE k < ip
      <4>1. k + 1 \in 1 .. ip /\ k < Len(stack)
        BY <2>1, <2>3, <3>2
      <4>2. QED
        BY <1>1, <2>4, <4>1
    <3>3. k = ip \/ k < ip
      BY <2>1, <2>5
    <3>4. QED
      BY <3>1, <3>2, <3>3
  <2>6. ip' \in 1 .. 32 /\ ip' <= 16 /\ ~(ip' > 16)
    BY <2>1
  <2>7. SyscallInv'
    BY <1>1, <2>1, <2>2, <2>4, <2>5, <2>6 DEF SyscallInv, SyscallAt
  <2>8. QED
    BY <2>1, <2>7
<1>7. CASE Entry!DoCall
  <2>1. PICK c \in SUBSET Entry!CallerSaved :
           regs' = [r \in Entry!Regs |-> IF r \in c THEN "junk"
                                         ELSE IF r = "rax" THEN "result" ELSE regs[r]]
    BY <1>7 DEF Entry!DoCall
  <2>2. /\ ip = 16 /\ ip' = 17 /\ routine' = routine /\ stack' = stack /\ entered' = entered
    BY <1>3, <1>7 DEF Entry!DoCall, Entry!Advance
  <2>3. "rax" \in Entry!Regs /\ "rax" \notin c
    BY <2>1 DEF Entry!CallerSaved, Entry!Regs
  <2>4. regs'["rax"] = "result"
    BY <2>1, <2>3
  <2>5. "junk" \in Words /\ "result" \in Words
    BY DEF Words, Entry!Values
  <2>6. regs' \in [Entry!Regs -> Words]
    BY <1>1, <2>1, <2>5
  <2>7. SyscallInv'
    BY <1>1, <2>2, <2>4, <2>6 DEF SyscallInv, SyscallAt
  <2>8. QED
    BY <2>2, <2>7
<1>8. CASE Entry!DoSkip
  <2>1. /\ ip = 29 /\ ip' = 30 /\ routine' = routine /\ regs' = regs /\ entered' = entered
        /\ stack' = Entry!Front(stack)
    BY <1>3, <1>8 DEF Entry!DoSkip, Entry!Advance
  <2>2. Len(stack) = 3 + 1 /\ 3 \in Nat
    BY <1>1, <2>1
  <2>3. /\ stack' \in Seq(Words) /\ Len(stack') = 3
        /\ \A k \in 1 .. 3 : stack'[k] = stack[k]
    BY <1>1, <2>1, <2>2, FrontWords
  <2>4. ASSUME NEW k \in 1 .. 15, k < 3 PROVE stack'[k + 1] = Saved[k]
    <3>1. k + 1 \in 1 .. 3 /\ k < Len(stack)
      BY <2>2, <2>4
    <3>2. QED
      BY <1>1, <2>3, <3>1
  <2>5. /\ regs["rax"] = "result"
        /\ \A k \in 1 .. 15 : k >= 4 /\ k # 3 => regs[Saved[k]] = Saved[k]
    BY <2>1 DEF SyscallInv, SyscallAt
  <2>6. \A k \in 1 .. 15 : k >= 3 /\ k # 3 => regs'[Saved[k]] = Saved[k]
    BY <2>1, <2>5
  <2>7. SyscallInv'
    BY <1>1, <2>1, <2>3, <2>4, <2>5, <2>6 DEF SyscallInv, SyscallAt
  <2>8. QED
    BY <2>1, <2>7
<1>9. CASE Entry!DoPop
  <2> DEFINE n == 32 - ip
  <2>1. /\ ip \in 17 .. 31 /\ ip # 29 /\ ip' = ip + 1 /\ routine' = routine
        /\ entered' = entered
        /\ regs' = [regs EXCEPT ![Saved[n]] = IF stack = <<>> THEN "junk" ELSE Entry!Last(stack)]
        /\ stack' = IF stack = <<>> THEN <<>> ELSE Entry!Front(stack)
    BY <1>3, <1>9 DEF Entry!DoPop, Entry!Advance
  <2>2. n \in 1 .. 15 /\ n # 3 /\ n \in Nat /\ Len(stack) = n + 1 /\ n = 33 - ip'
        /\ n + 1 = 33 - ip
    BY <1>1, <2>1
  <2> HIDE DEF n
  <2>3. /\ Entry!Front(stack) \in Seq(Words) /\ Len(Entry!Front(stack)) = n
        /\ \A k \in 1 .. n : Entry!Front(stack)[k] = stack[k]
        /\ Entry!Last(stack) = stack[n + 1] /\ stack # <<>>
    BY <1>1, <2>2, FrontWords
  <2>4. stack[n + 1] = Saved[n]
    BY <1>1, <2>2
  <2>5. stack' = Entry!Front(stack) /\ regs' = [regs EXCEPT ![Saved[n]] = Saved[n]]
    BY <2>1, <2>3, <2>4
  <2>6. Saved[n] \in Entry!Regs /\ Saved[n] \in Words /\ Saved[n] # "rax"
    BY <1>4, <1>5, <2>2, ListsComplete
  <2>7. /\ regs' \in [Entry!Regs -> Words]
        /\ \A r \in Entry!Regs : regs'[r] = IF r = Saved[n] THEN Saved[n] ELSE regs[r]
    BY <1>1, <2>5, <2>6
  <2>8. /\ regs["rax"] = "result"
        /\ \A k \in 1 .. 15 : k >= n + 1 /\ k # 3 => regs[Saved[k]] = Saved[k]
    BY <2>1, <2>2 DEF SyscallInv, SyscallAt
  <2>9. regs'["rax"] = "result"
    BY <2>6, <2>7, <2>8 DEF Entry!Regs
  <2>10. ASSUME NEW k \in 1 .. 15, k >= n, k # 3 PROVE regs'[Saved[k]] = Saved[k]
    <3>1. k = n \/ k >= n + 1
      BY <2>2, <2>10
    <3>2. QED
      BY <1>4, <2>7, <2>8, <2>10, <3>1
  <2>11. ASSUME NEW k \in 1 .. 15, k < n PROVE stack'[k + 1] = Saved[k]
    <3>1. k + 1 \in 1 .. n /\ k < Len(stack)
      BY <2>2, <2>11
    <3>2. QED
      BY <1>1, <2>3, <2>5, <3>1
  <2>12. ip' \in 1 .. 32 /\ ~(ip' <= 16)
    BY <2>1
  <2>13. SyscallInv'
    <3> DEFINE p == ip'
    <3>1. p \in 1 .. 32 /\ ~(p <= 16) /\ p > 16 /\ 33 - p = n
      BY <2>2, <2>12
    <3>2. stack' \in Seq(Words) /\ Len(stack') = n
      BY <2>3, <2>5
    <3>3. Len(stack') = IF p <= 16 THEN p ELSE 33 - p
      BY <3>1, <3>2
    <3>4. \A k \in 1 .. 15 : k < Len(stack') => stack'[k + 1] = Saved[k]
      BY <2>11, <3>2
    <3>5. \A k \in 1 .. 15 : k >= 33 - p /\ k # 3 => regs'[Saved[k]] = Saved[k]
      BY <2>10, <3>1
    <3>6. entered' = 1
      BY <1>1, <2>1
    <3> HIDE DEF p
    <3>7. (p <= 16 => \A r \in Entry!Regs : regs'[r] = r)
      BY <3>1
    <3>8. QED
      BY <2>7, <2>9, <3>1, <3>2, <3>3, <3>4, <3>5, <3>6, <3>7, Zenon DEF SyscallInv, SyscallAt, p
  <2>14. QED
    BY <2>1, <2>13
<1>10. ASSUME NEW v \in StubVectors, Entry!Exception(v)
       PROVE  routine' = "common_exception_handler" /\ HandlerInv'
  <2> DEFINE b == stack \o Entry!Pushed(v)
  <2>1. /\ routine' = "common_exception_handler" /\ ip' = 1 /\ regs' = regs
        /\ stack' = Append(b, v) /\ entered' = entered
        /\ struck' = [ip |-> ip, regs |-> regs, stack |-> stack, vector |-> v]
    BY <1>10 DEF Entry!Exception
  <2>2. "frame" \in Words /\ "error" \in Words /\ v \in Words
    BY DEF Words
  <2>3. Entry!Pushed(v) \in Seq(Words)
    BY <2>2 DEF Entry!Pushed
  <2>4. b \in Seq(Words)
    BY <1>1, <2>3, ConcatProperties, Zenon
  <2>5. /\ struck'.ip = ip /\ struck'.regs = regs /\ struck'.stack = stack
        /\ struck'.vector = v /\ b = struck'.stack \o Entry!Pushed(struck'.vector)
    BY <2>1
  <2> HIDE DEF b
  <2>6. Len(b) \in Nat
    BY <2>4
  <2>7. HandlerAt(1, regs, Append(b, v), b, regs)
    <3>1. /\ Append(b, v) \in Seq(Words) /\ Len(Append(b, v)) = Len(b) + 1
          /\ \A j \in 1 .. Len(b) : Append(b, v)[j] = b[j]
      BY <2>2, <2>4, <2>6, PushWords
    <3>2. \A k \in 1 .. 15 : ~((Len(b) + 1) + k <= Len(b) + 1)
      BY <2>6
    <3>3. QED
      BY <1>1, <2>4, <3>1, <3>2 DEF HandlerAt
  <2>8. SyscallAt(ip, regs, stack) /\ entered = 1
    BY DEF SyscallInv
  <2>9. HandlerInv'
    BY <2>1, <2>5, <2>7, <2>8 DEF HandlerInv
  <2>10. QED
    BY <2>1, <2>9
<1>11. ~(Entry!DoNewStack \/ Entry!DoClearBss \/ Entry!DoSetupCpuFeatures
           \/ Entry!DoHandleException \/ Entry!DoIret)
  BY <1>3 DEF Entry!DoNewStack, Entry!DoClearBss, Entry!DoSetupCpuFeatures,
              Entry!DoHandleException, Entry!DoIret
<1>12. QED
  BY <1>6, <1>7, <1>8, <1>9, <1>10, <1>11 DEF Entry!Next

\* common_exception_handler pushes a register.
LEMMA HandlerPush ==
    ASSUME NEW pos \in 1 .. 15, NEW rg, NEW st, NEW b, NEW r0, HandlerAt(pos, rg, st, b, r0)
    PROVE  HandlerAt(pos + 1, rg, Append(st, rg[Entry!SavedByException[pos]]), b, r0)
<1> DEFINE S == Entry!SavedByException
           w == rg[S[pos]]
           m == Len(b)
           n == m + pos
           t == Append(st, w)
<1>1. /\ rg \in [Entry!Regs -> Words] /\ r0 \in [Entry!Regs -> Words]
      /\ st \in Seq(Words) /\ b \in Seq(Words)
  BY Zenon DEF HandlerAt
<1>2. m \in Nat
  BY <1>1
<1>3. pos <= 16 /\ pos + 1 \in 1 .. 33 /\ pos + 1 <= 16 /\ ~(pos + 1 > 16)
  OBVIOUS
<1>4. Len(st) = n /\ \A r \in Entry!Regs : rg[r] = r0[r]
  BY <1>3, Zenon DEF HandlerAt
<1>5. \A j \in 1 .. m : st[j] = b[j]
  BY Zenon DEF HandlerAt
<1>6. \A k \in 1 .. 15 : (m + 1) + k <= Len(st) => st[(m + 1) + k] = r0[S[k]]
  BY Zenon DEF HandlerAt
<1>7. S[pos] \in Entry!Regs
  BY RegisterLists
<1>8. w \in Words /\ w = r0[S[pos]]
  BY <1>1, <1>4, <1>7
<1> HIDE DEF S, w, m, n, t
<1>9. n \in Nat /\ n = m + pos /\ n + 1 = (m + 1) + pos /\ n + 1 = m + (pos + 1)
  BY <1>2 DEF n
<1>10. /\ t \in Seq(Words) /\ Len(t) = n + 1 /\ \A j \in 1 .. n : t[j] = st[j]
       /\ t[n + 1] = w
  BY <1>1, <1>4, <1>8, <1>9, PushWords DEF t
<1>11. ASSUME NEW j \in 1 .. m PROVE t[j] = b[j]
  <2>1. j \in 1 .. n
    BY <1>2, <1>9
  <2>2. QED
    BY <1>5, <1>10, <2>1, Zenon
<1>12. ASSUME NEW k \in 1 .. 15, (m + 1) + k <= n + 1 PROVE t[(m + 1) + k] = r0[S[k]]
  <2>1. CASE k = pos
    BY <1>8, <1>9, <1>10, <2>1, Zenon
  <2>2. CASE k # pos
    <3>1. (m + 1) + k \in 1 .. n /\ (m + 1) + k <= n
      BY <1>2, <1>9, <1>12, <2>2
    <3>2. QED
      BY <1>4, <1>6, <1>10, <3>1, Zenon
  <2>3. QED
    BY <2>1, <2>2
<1>13. HandlerAt(pos + 1, rg, t, b, r0)
  BY <1>1, <1>3, <1>4, <1>9, <1>10, <1>11, <1>12, Zenon DEF HandlerAt, S, m
<1>14. QED
  BY <1>13, Zenon DEF t, w, S

\* ... and pops one.
LEMMA HandlerPop ==
    ASSUME NEW pos \in 17 .. 31, NEW rg, NEW st, NEW b, NEW r0, HandlerAt(pos, rg, st, b, r0)
    PROVE  /\ st # <<>>
           /\ HandlerAt(pos + 1, [rg EXCEPT ![Entry!SavedByException[32 - pos]] = Entry!Last(st)],
                        Entry!Front(st), b, r0)
<1> DEFINE S == Entry!SavedByException
           m == Len(b)
           q == 32 - pos
           n == m + q
           t == Entry!Front(st)
           new == [rg EXCEPT ![S[q]] = Entry!Last(st)]
<1>1. /\ rg \in [Entry!Regs -> Words] /\ r0 \in [Entry!Regs -> Words]
      /\ st \in Seq(Words) /\ b \in Seq(Words)
  BY Zenon DEF HandlerAt
<1>2. m \in Nat
  BY <1>1
<1>3. /\ ~(pos <= 16) /\ pos > 16 /\ q \in 1 .. 15 /\ q = 32 - pos
      /\ pos + 1 \in 1 .. 33 /\ ~(pos + 1 <= 16) /\ 33 - (pos + 1) = q
  OBVIOUS
<1>4. Len(st) = m + (33 - pos)
  BY <1>3, Zenon DEF HandlerAt
<1>5. \A j \in 1 .. m : st[j] = b[j]
  BY Zenon DEF HandlerAt
<1>6. \A k \in 1 .. 15 : (m + 1) + k <= Len(st) => st[(m + 1) + k] = r0[S[k]]
  BY Zenon DEF HandlerAt
<1>7. \A k \in 1 .. 15 : k >= 33 - pos => rg[S[k]] = r0[S[k]]
  BY <1>3, Zenon DEF HandlerAt
<1>8. \A k \in 1 .. 15 : S[k] \in Entry!Regs
  BY RegisterLists
<1> HIDE DEF S, m, q, n, t, new
<1>9. /\ n \in Nat /\ n = m + q /\ Len(st) = n + 1 /\ n + 1 = (m + 1) + q
      /\ (m + 1) + q <= Len(st)
  BY <1>2, <1>3, <1>4 DEF n
<1>10. /\ t \in Seq(Words) /\ Len(t) = n /\ \A j \in 1 .. n : t[j] = st[j]
       /\ Entry!Last(st) = st[n + 1] /\ st # <<>>
  BY <1>1, <1>9, FrontWords DEF t
<1>11. Entry!Last(st) = r0[S[q]]
  BY <1>3, <1>6, <1>9, <1>10, Zenon
<1>12. /\ new \in [Entry!Regs -> Words]
       /\ \A r \in Entry!Regs : new[r] = IF r = S[q] THEN r0[S[q]] ELSE rg[r]
  BY <1>1, <1>3, <1>8, <1>11 DEF new
<1>13. ASSUME NEW j \in 1 .. m PROVE t[j] = b[j]
  <2>1. j \in 1 .. n
    BY <1>2, <1>3, <1>9
  <2>2. QED
    BY <1>5, <1>10, <2>1, Zenon
<1>14. ASSUME NEW k \in 1 .. 15, (m + 1) + k <= n PROVE t[(m + 1) + k] = r0[S[k]]
  <2>1. (m + 1) + k \in 1 .. n /\ (m + 1) + k <= n + 1
    BY <1>2, <1>9, <1>14
  <2>2. QED
    BY <1>6, <1>9, <1>10, <2>1, Zenon
<1>15. ASSUME NEW k \in 1 .. 15, k >= q PROVE new[S[k]] = r0[S[k]]
  <2>1. k = q \/ k >= 33 - pos
    BY <1>3, <1>15
  <2>2. S[k] \in Entry!Regs /\ new[S[k]] = IF S[k] = S[q] THEN r0[S[q]] ELSE rg[S[k]]
    BY <1>8, <1>12, Zenon
  <2>3. QED
    BY <1>7, <2>1, <2>2, Zenon
<1>16. HandlerAt(pos + 1, new, t, b, r0)
  <2>1. Len(t) = IF pos + 1 <= 16 THEN m + (pos + 1) ELSE m + (33 - (pos + 1))
    BY <1>3, <1>9, <1>10, Zenon
  <2>2. QED
    BY <1>1, <1>3, <1>10, <1>12, <1>13, <1>14, <1>15, <2>1, Zenon DEF HandlerAt, S, m
<1>17. QED
  BY <1>10, <1>16, Zenon DEF new, t, q, S

\* ... and drops the vector.
LEMMA HandlerSkip ==
    ASSUME NEW rg, NEW st, NEW b, NEW r0, HandlerAt(32, rg, st, b, r0)
    PROVE  HandlerAt(33, rg, Entry!Front(st), b, r0)
<1> DEFINE S == Entry!SavedByException
           m == Len(b)
           t == Entry!Front(st)
<1>1. /\ rg \in [Entry!Regs -> Words] /\ r0 \in [Entry!Regs -> Words]
      /\ st \in Seq(Words) /\ b \in Seq(Words)
  BY Zenon DEF HandlerAt
<1>2. m \in Nat
  BY <1>1
<1>3. ~(32 <= 16) /\ 32 > 16 /\ ~(33 <= 16) /\ 33 \in 1 .. 33 /\ 33 - 32 = 1
      /\ \A k \in 1 .. 15 : k >= 1
  OBVIOUS
<1>4. Len(st) = m + 1
  BY <1>3, Zenon DEF HandlerAt
<1>5. \A j \in 1 .. m : st[j] = b[j]
  BY Zenon DEF HandlerAt
<1>6. \A k \in 1 .. 15 : rg[S[k]] = r0[S[k]]
  BY <1>3, Zenon DEF HandlerAt
<1> HIDE DEF S, m, t
<1>7. t \in Seq(Words) /\ Len(t) = m /\ \A j \in 1 .. m : t[j] = st[j]
  BY <1>1, <1>2, <1>4, FrontWords DEF t
<1>8. m + (33 - 33) = m /\ \A k \in 1 .. 15 : ~((m + 1) + k <= m)
  BY <1>2
<1>9. HandlerAt(33, rg, t, b, r0)
  BY <1>1, <1>3, <1>5, <1>6, <1>7, <1>8, Zenon DEF HandlerAt, S, m
<1>10. QED
  BY <1>9, Zenon DEF t

\* At IRETQ nothing is left of it.
LEMMA HandlerEnd ==
    ASSUME NEW rg, NEW st, NEW b, NEW r0, HandlerAt(33, rg, st, b, r0)
    PROVE  rg = r0 /\ st = b
<1> DEFINE S == Entry!SavedByException
<1>1. /\ rg \in [Entry!Regs -> Words] /\ r0 \in [Entry!Regs -> Words]
      /\ st \in Seq(Words) /\ b \in Seq(Words)
  BY Zenon DEF HandlerAt
<1>2. Len(b) \in Nat
  BY <1>1
<1>3. ~(33 <= 16) /\ 33 > 16 /\ Len(b) + (33 - 33) = Len(b)
      /\ \A k \in 1 .. 15 : k >= 33 - 33
  BY <1>2
<1>4. Len(st) = Len(b) /\ \A j \in 1 .. Len(b) : st[j] = b[j]
  BY <1>3, Zenon DEF HandlerAt
<1>5. \A k \in 1 .. 15 : rg[S[k]] = r0[S[k]]
  BY <1>3, Zenon DEF HandlerAt
<1>6. \A r \in Entry!Regs : rg[r] = r0[r]
  <2> SUFFICES ASSUME NEW r \in Entry!Regs PROVE rg[r] = r0[r]
    OBVIOUS
  <2>1. PICK k \in 1 .. 15 : r = S[k]
    BY ListsComplete
  <2>2. rg[S[k]] = r0[S[k]]
    BY <1>5, <2>1
  <2> HIDE DEF S
  <2>3. QED
    BY <2>1, <2>2
<1>7. rg = r0
  BY <1>1, <1>6
<1>8. st = b
  BY <1>1, <1>4, SeqEqual
<1>9. QED
  BY <1>7, <1>8

\* An instruction of common_exception_handler.
LEMMA HandlerStep ==
    ASSUME routine = "common_exception_handler", HandlerInv, Entry!Next
    PROVE  \/ routine' = "common_exception_handler" /\ HandlerInv'
           \/ routine' = "syscall_entry" /\ SyscallInv'
           \/ routine' = "nowhere" /\ ip' = 1
<1> DEFINE S == Entry!SavedByException
           b == struck.stack \o Entry!Pushed(struck.vector)
           r0 == struck.regs
<1>1. /\ entered = 1 /\ struck.vector \in StubVectors
      /\ SyscallAt(struck.ip, struck.regs, struck.stack)
      /\ HandlerAt(ip, regs, stack, b, r0)
  BY DEF HandlerInv
<1>2. ip \in 1 .. 33
  BY <1>1 DEF HandlerAt
<1>3. Entry!Instr = IF ip <= 15 THEN Entry!Push(S[ip])
                    ELSE IF ip = 16 THEN Entry!Do("handle_exception")
                    ELSE IF ip <= 31 THEN Entry!Pop(S[32 - ip])
                    ELSE IF ip = 32 THEN Entry!Do("skip")
                    ELSE Entry!Do("iretq")
  BY <1>2, ExceptionCode DEF Entry!Instr
<1>4. /\ Entry!Instr.op = "push" => ip \in 1 .. 15 /\ Entry!Instr.reg = S[ip]
      /\ Entry!Instr.op = "handle_exception" => ip = 16
      /\ Entry!Instr.op = "pop" => ip \in 17 .. 31 /\ Entry!Instr.reg = S[32 - ip]
      /\ Entry!Instr.op = "skip" => ip = 32
      /\ Entry!Instr.op = "iretq" => ip = 33
      /\ Entry!Instr.op \in {"push", "handle_exception", "pop", "skip", "iretq"}
  BY <1>2, <1>3 DEF Entry!Push, Entry!Pop, Entry!Do
<1>5. ASSUME routine' = routine, entered' = entered, struck' = struck,
             HandlerAt(ip', regs', stack', b, r0)
      PROVE  routine' = "common_exception_handler" /\ HandlerInv'
  BY <1>1, <1>5 DEF HandlerInv
<1> HIDE DEF S, b, r0
<1>6. CASE Entry!DoPush
  <2>1. /\ Entry!Instr.op = "push" /\ stack' = Append(stack, regs[Entry!Instr.reg])
        /\ ip' = ip + 1 /\ routine' = routine /\ regs' = regs /\ entered' = entered
        /\ struck' = struck
    BY <1>6 DEF Entry!DoPush, Entry!Advance
  <2>2. ip \in 1 .. 15 /\ stack' = Append(stack, regs[S[ip]])
    BY <1>4, <2>1, Zenon
  <2>3. HandlerAt(ip', regs', stack', b, r0)
    BY <1>1, <2>1, <2>2, HandlerPush DEF S
  <2>4. QED
    BY <1>5, <2>1, <2>3
<1>7. CASE Entry!DoHandleException
  <2>1. /\ ip = 16 /\ ip' = 17 /\ routine' = routine /\ stack' = stack /\ entered' = entered
        /\ struck' = struck
        /\ regs' = [r \in Entry!Regs |-> IF r \in Entry!CalleeSaved THEN regs[r] ELSE "junk"]
    BY <1>4, <1>7 DEF Entry!DoHandleException, Entry!Advance
  <2>2. "junk" \in Words /\ regs \in [Entry!Regs -> Words]
    BY <1>1 DEF Words, Entry!Values, HandlerAt
  <2>3. regs' \in [Entry!Regs -> Words]
    BY <2>1, <2>2
  <2>4. 33 - 17 = 16 /\ ~(17 <= 16) /\ 17 \in 1 .. 33 /\ 16 <= 16
        /\ \A k \in 1 .. 15 : ~(k >= 33 - 17)
    OBVIOUS
  <2>5. HandlerAt(17, regs', stack, b, r0)
    BY <1>1, <2>1, <2>3, <2>4, Zenon DEF HandlerAt
  <2>6. QED
    BY <1>5, <2>1, <2>5
<1>8. CASE Entry!DoPop
  <2>1. /\ Entry!Instr.op = "pop"
        /\ regs' = [regs EXCEPT ![Entry!Instr.reg] = IF stack = <<>> THEN "junk" ELSE Entry!Last(stack)]
        /\ stack' = IF stack = <<>> THEN <<>> ELSE Entry!Front(stack)
        /\ ip' = ip + 1 /\ routine' = routine /\ entered' = entered /\ struck' = struck
    BY <1>8 DEF Entry!DoPop, Entry!Advance
  <2>2. ip \in 17 .. 31 /\ Entry!Instr.reg = S[32 - ip]
    BY <1>4, <2>1, Zenon
  <2>3. /\ stack # <<>>
        /\ HandlerAt(ip + 1, [regs EXCEPT ![S[32 - ip]] = Entry!Last(stack)],
                     Entry!Front(stack), b, r0)
    BY <1>1, <2>2, HandlerPop DEF S
  <2>4. HandlerAt(ip', regs', stack', b, r0)
    BY <2>1, <2>2, <2>3
  <2>5. QED
    BY <1>5, <2>1, <2>4
<1>9. CASE Entry!DoSkip
  <2>1. /\ ip = 32 /\ ip' = 33 /\ routine' = routine /\ regs' = regs /\ entered' = entered
        /\ struck' = struck /\ stack' = Entry!Front(stack)
    BY <1>4, <1>9 DEF Entry!DoSkip, Entry!Advance
  <2>2. HandlerAt(ip', regs', stack', b, r0)
    BY <1>1, <2>1, HandlerSkip
  <2>3. QED
    BY <1>5, <2>1, <2>2
<1>10. CASE Entry!DoIret
  <2>1. ip = 33 /\ regs' = regs /\ entered' = entered
    BY <1>4, <1>10 DEF Entry!DoIret
  <2>2. regs = r0 /\ stack = b
    BY <1>1, <2>1, HandlerEnd
  <2>3. CASE Entry!Last(stack) = "frame"
    <3>1. /\ routine' = "syscall_entry" /\ ip' = struck.ip
          /\ stack' = Entry!Front(stack)
      BY <1>10, <2>3 DEF Entry!DoIret
    <3> DEFINE st == struck.stack
               n == Len(st)
    <3>2. st \in Seq(Words) /\ n \in Nat
      <4>1. st \in Seq(Words)
        BY <1>1 DEF SyscallAt
      <4> HIDE DEF st
      <4>2. QED
        BY <4>1
    <3>3. "frame" \in Words /\ "error" \in Words /\ "frame" # "error"
      BY DEF Words
    <3>4. b = st \o Entry!Pushed(struck.vector)
      BY DEF b
    <3> HIDE DEF st, n
    <3>5. ~Entry!has_error_code(struck.vector)
      <4> SUFFICES ASSUME Entry!has_error_code(struck.vector) PROVE FALSE
        OBVIOUS
      <4>1. b = st \o <<"frame", "error">>
        BY <3>4 DEF Entry!Pushed
      <4>2. b \in Seq(Words) /\ Len(b) = (n + 1) + 1 /\ b[(n + 1) + 1] = "error"
        BY <3>2, <3>3, <4>1 DEF n
      <4>3. Entry!Last(b) = "error"
        <5>1. n + 1 \in Nat
          BY <3>2
        <5>2. QED
          BY <4>2, <5>1, FrontWords
      <4>4. QED
        BY <2>2, <2>3, <3>3, <4>3
    <3>6. b = st \o <<"frame">>
      BY <3>4, <3>5 DEF Entry!Pushed
    <3>7. /\ b \in Seq(Words) /\ Len(b) = n + 1
          /\ \A j \in 1 .. n : b[j] = st[j]
      BY <3>2, <3>3, <3>6 DEF n
    <3>8. /\ Entry!Front(b) \in Seq(Words) /\ Len(Entry!Front(b)) = n
          /\ \A j \in 1 .. n : Entry!Front(b)[j] = b[j]
      BY <3>2, <3>7, FrontWords
    <3>9. Entry!Front(b) = st
      BY <3>2, <3>7, <3>8 DEF n
    <3>10. SyscallInv'
      BY <1>1, <2>1, <2>2, <3>1, <3>9 DEF SyscallInv, r0, st
    <3>11. QED
      BY <3>1, <3>10
  <2>4. CASE Entry!Last(stack) # "frame"
    BY <1>10, <2>4 DEF Entry!DoIret
  <2>5. QED
    BY <2>3, <2>4
<1>11. ~(Entry!DoCall \/ Entry!DoNewStack \/ Entry!DoClearBss \/ Entry!DoSetupCpuFeatures)
       /\ \A v \in StubVectors : ~Entry!Exception(v)
  BY <1>4 DEF Entry!DoCall, Entry!DoNewStack, Entry!DoClearBss, Entry!DoSetupCpuFeatures,
              Entry!Exception
<1>12. QED
  BY <1>6, <1>7, <1>8, <1>9, <1>10, <1>11 DEF Entry!Next

\* _start never becomes another routine, and nothing is executed nowhere.
LEMMA EntryStep ==
    ASSUME EntryInv, [Next]_vars
    PROVE  EntryInv'
<1> SUFFICES ASSUME part = "entry"
             PROVE  /\ routine' \in {"syscall_entry", "_start", "common_exception_handler",
                                     "nowhere"}
                    /\ routine' = "_start" => ip' \in 1 .. 6
                    /\ routine' = "nowhere" => ip' = 1
                    /\ routine' = "syscall_entry" => SyscallInv'
                    /\ routine' = "common_exception_handler" => HandlerInv'
  BY PartSteps DEF EntryInv
<1>1. [Entry!Next]_(Entry!vars)
  BY PartSteps
<1>2. CASE UNCHANGED Entry!vars
  <2>1. SyscallInv => SyscallInv'
    BY <1>2 DEF Entry!vars, SyscallInv
  <2>2. HandlerInv => HandlerInv'
    BY <1>2 DEF Entry!vars, HandlerInv
  <2>3. QED
    BY <1>2, <2>1, <2>2 DEF EntryInv, Entry!vars
<1>3. CASE Entry!Next /\ routine = "_start"
  <2>1. ip \in 1 .. 6
    BY <1>3 DEF EntryInv
  <2>2. Entry!Instr.op \notin {"call", "skip", "handle_exception", "iretq"}
    BY <1>3, <2>1, StartCode DEF Entry!Instr
  <2>3. ip = 6 => Entry!Instr.op = "kernel_main64"
    BY <1>3, StartCode DEF Entry!Instr
  <2>4. routine' = "_start" /\ ip' = ip + 1 /\ Entry!Instr.op # "kernel_main64"
    BY <1>3, <2>2 DEF Entry!Next, Entry!DoPush, Entry!DoPop, Entry!DoCall, Entry!DoSkip,
       Entry!DoNewStack, Entry!DoClearBss, Entry!DoSetupCpuFeatures,
       Entry!DoHandleException, Entry!DoIret, Entry!Exception, Entry!Advance
  <2>5. ip' \in 1 .. 6
    BY <2>1, <2>3, <2>4
  <2>6. QED
    BY <2>4, <2>5
<1>4. CASE Entry!Next /\ routine = "syscall_entry"
  BY <1>4, SyscallStep DEF EntryInv
<1>5. CASE Entry!Next /\ routine = "common_exception_handler"
  BY <1>5, HandlerStep DEF EntryInv
<1>6. CASE Entry!Next /\ routine = "nowhere"
  <2>1. Entry!Instr.op = "lost"
    BY <1>6, StartCode DEF EntryInv, Entry!Instr
  <2>2. QED
    BY <1>6, <2>1 DEF Entry!Next, Entry!DoPush, Entry!DoPop, Entry!DoCall, Entry!DoSkip,
       Entry!DoNewStack, Entry!DoClearBss, Entry!DoSetupCpuFeatures,
       Entry!DoHandleException, Entry!DoIret, Entry!Exception
<1>7. QED
  BY <1>1, <1>2, <1>3, <1>4, <1>5, <1>6 DEF EntryInv

\* The processor arrives with its registers.
LEMMA EntryInit == Init => EntryInv
<1> SUFFICES ASSUME part = "entry", Entry!Init PROVE EntryInv
  BY DEF Init, EntryInv
<1>1. /\ routine \in {"syscall_entry", "_start"} /\ ip = 1 /\ entered = 1
      /\ regs = [r \in Entry!Regs |-> r] /\ stack = <<"caller">>
  BY DEF Entry!Init
<1>2. regs \in [Entry!Regs -> Words] /\ \A r \in Entry!Regs : regs[r] = r
  BY <1>1 DEF Words, Entry!Values
<1>3. "caller" \in Words
  BY DEF Words
<1>4. stack \in Seq(Words) /\ Len(stack) = 1
  BY <1>1, <1>3
<1>5. SyscallInv
  BY <1>1, <1>2, <1>4 DEF SyscallInv, SyscallAt
<1>6. QED
  BY <1>1, <1>5 DEF EntryInv

(***************************************************************************)
(* A system call returns with the user's registers and stack and with the  *)
(* result in rax, whatever handle_syscall did to the registers it may      *)
(* change and whatever exceptions came and went on the way.                *)
(***************************************************************************)
THEOREM SyscallReturnsToUser == Spec => []SyscallPreservesUser
<1>1. EntryInv => SyscallPreservesUser
  <2> SUFFICES ASSUME EntryInv, part = "entry", routine = "syscall_entry",
                      Entry!Instr.op = "sysret"
               PROVE  /\ Len(stack) = entered
                      /\ regs = [r \in Entry!Regs |-> IF r = "rax" THEN "result" ELSE r]
    BY DEF SyscallPreservesUser, Entry!SyscallPreservesUser
  <2>1. SyscallInv
    BY DEF EntryInv
  <2>2. ip = 32
    <3>1. ip \in 1 .. 32
      BY <2>1 DEF SyscallInv, SyscallAt
    <3>2. QED
      BY <3>1, SyscallCode DEF Entry!Instr, Entry!Push, Entry!Pop, Entry!Do
  <2>3. /\ Len(stack) = 1 /\ entered = 1 /\ regs \in [Entry!Regs -> Words]
        /\ regs["rax"] = "result"
        /\ \A k \in 1 .. 15 : k # 3 => regs[Saved[k]] = Saved[k]
    BY <2>1, <2>2 DEF SyscallInv, SyscallAt
  <2>4. ASSUME NEW r \in Entry!Regs, r # "rax" PROVE regs[r] = r
    BY <2>3, <2>4, ListsComplete
  <2>5. QED
    BY <2>3, <2>4
<1>2. QED
  BY <1>1, EntryInit, EntryStep, PTL DEF Spec

(***************************************************************************)
(* When common_exception_handler gets to IRETQ every register and every    *)
(* word of the stack is as it was, wherever in syscall_entry the exception *)
(* struck, whatever handle_exception did, and for any vectors.             *)
(***************************************************************************)
THEOREM ExceptionsRestored == Spec => []ExceptionRestores
<1>1. EntryInv => ExceptionRestores
  <2> SUFFICES ASSUME EntryInv, part = "entry", routine = "common_exception_handler",
                      Entry!Instr.op = "iretq"
               PROVE  /\ regs = struck.regs
                      /\ stack = struck.stack \o Entry!Pushed(struck.vector)
    BY DEF ExceptionRestores, Entry!ExceptionRestores
  <2>1. HandlerInv
    BY DEF EntryInv
  <2>2. ip = 33
    <3>1. ip \in 1 .. 33
      BY <2>1 DEF HandlerInv, HandlerAt
    <3>2. QED
      BY <3>1, ExceptionCode DEF Entry!Instr, Entry!Push, Entry!Pop, Entry!Do
  <2>3. QED
    BY <2>1, <2>2, HandlerEnd DEF HandlerInv
<1>2. QED
  BY <1>1, EntryInit, EntryStep, PTL DEF Spec

-----------------------------------------------------------------------------
(***************************************************************************)
(* Address arithmetic.  The helpers mask with powers of two, by C's bit    *)
(* operations; bitand is a recursive function, which is first shown to     *)
(* exist and then to do to such masks what remainders and quotients do.    *)
(***************************************************************************)

\* Halving a number reaches 0.
LEMMA Halving ==
    /\ \A n \in Nat : n \div 2 \in Nat /\ n % 2 \in {0, 1} /\ n = 2 * (n \div 2) + (n % 2)
    /\ \A n \in Nat : n # 0 => n \div 2 < n
<1>1. \A n \in Nat : n \div 2 \in Nat /\ n % 2 \in {0, 1} /\ n = 2 * (n \div 2) + (n % 2)
  OBVIOUS
<1>2. \A n \in Nat : n # 0 => n \div 2 < n
  BY <1>1
<1>3. QED
  BY <1>1, <1>2

\* Induction with a set along the halves of a number.
LEMMA HalvingDown ==
    ASSUME NEW T, 0 \in T, \A n \in Nat \ {0} : n \div 2 \in T => n \in T
    PROVE  \A n \in Nat : n \in T
<1> DEFINE U == Nat \ T
<1> SUFFICES ASSUME U # {} PROVE FALSE
  OBVIOUS
<1>1. PICK n \in U : \A k \in U : n <= k
  <2>1. U \subseteq Nat
    OBVIOUS
  <2> HIDE DEF U
  <2> QED
    BY <2>1, LeastNumber
<1>2. n \in Nat \ {0} /\ n \div 2 \in Nat /\ ~(n <= n \div 2)
  BY Halving
<1>3. n \div 2 \in T
  BY <1>1, <1>2
<1>4. QED
  BY <1>2, <1>3

\* The rows 0 to n of a table of bitwise conjunctions.
Rows(n, h) ==
    /\ h \in [0 .. n -> [Nat -> Nat]]
    /\ \A a \in 0 .. n, b \in Nat :
         h[a][b] = IF a = 0 THEN 0 ELSE (a % 2) * (b % 2) + 2 * h[a \div 2][b \div 2]

\* Each row is determined by the row of half its number.
LEMMA RowsAgree ==
    ASSUME NEW n \in Nat, NEW m \in Nat, NEW h, NEW g, Rows(n, h), Rows(m, g)
    PROVE  \A a \in Nat : a <= n /\ a <= m => h[a] = g[a]
<1> DEFINE T == {a \in Nat : a <= n /\ a <= m => h[a] = g[a]}
<1>1. ASSUME NEW a \in Nat, a <= n, a <= m, a # 0 => h[a \div 2] = g[a \div 2]
      PROVE  h[a] = g[a]
  <2>0. a \in 0 .. n /\ a \in 0 .. m
    BY <1>1
  <2>1. h[a] \in [Nat -> Nat] /\ g[a] \in [Nat -> Nat]
    BY <2>0 DEF Rows
  <2>2. ASSUME NEW b \in Nat PROVE h[a][b] = g[a][b]
    <3>1. /\ h[a][b] = IF a = 0 THEN 0 ELSE (a % 2) * (b % 2) + 2 * h[a \div 2][b \div 2]
          /\ g[a][b] = IF a = 0 THEN 0 ELSE (a % 2) * (b % 2) + 2 * g[a \div 2][b \div 2]
      BY <2>0, Zenon DEF Rows
    <3>2. QED
      BY <1>1, <3>1, Zenon
  <2>3. QED
    BY <2>1, <2>2
<1>2. 0 \in T
  BY <1>1
<1>3. ASSUME NEW a \in Nat \ {0}, a \div 2 \in T PROVE a \in T
  BY <1>1, <1>3, Halving
<1> HIDE DEF T
<1>4. \A a \in Nat : a \in T
  BY <1>2, <1>3, HalvingDown
<1>5. QED
  BY <1>4 DEF T

\* There are as many rows as one wants.
LEMMA RowsExist == \A n \in Nat : \E h : Rows(n, h)
<1> DEFINE T == {n \in Nat : \E h : Rows(n, h)}
<1>1. 0 \in T
  <2> DEFINE h == [a \in 0 .. 0 |-> [b \in Nat |-> 0]]
  <2>1. Rows(0, h)
    BY DEF Rows
  <2>2. QED
    BY <2>1
<1>2. ASSUME NEW n \in Nat, n \in T PROVE n + 1 \in T
  <2>1. PICK h : Rows(n, h)
    BY <1>2
  <2> DEFINE d == (n + 1) \div 2
             row == [b \in Nat |-> ((n + 1) % 2) * (b % 2) + 2 * h[d][b \div 2]]
             g == [a \in 0 .. n + 1 |-> IF a = n + 1 THEN row ELSE h[a]]
  <2>2. d \in 0 .. n /\ (n + 1) % 2 \in {0, 1} /\ n + 1 \in Nat /\ n + 1 # 0
    BY Halving
  <2>3. h[d] \in [Nat -> Nat]
    BY <2>1, <2>2 DEF Rows
  <2>4. row \in [Nat -> Nat]
    <3>1. ASSUME NEW b \in Nat PROVE ((n + 1) % 2) * (b % 2) + 2 * h[d][b \div 2] \in Nat
      <4> DEFINE x == (n + 1) % 2
                 y == b % 2
                 z == h[d][b \div 2]
      <4>1. x \in Nat /\ y \in Nat /\ z \in Nat
        BY <2>2, <2>3, Halving
      <4> HIDE DEF x, y, z
      <4>2. x * y + 2 * z \in Nat
        BY <4>1
      <4>3. QED
        BY <4>2 DEF x, y, z
    <3>2. QED
      BY <3>1
  <2>5. \A b \in Nat : row[b] = ((n + 1) % 2) * (b % 2) + 2 * h[d][b \div 2]
    OBVIOUS
  <2> HIDE DEF row, d
  <2>6. g \in [0 .. n + 1 -> [Nat -> Nat]]
    <3>1. h \in [0 .. n -> [Nat -> Nat]]
      BY <2>1 DEF Rows
    <3>2. \A a \in 0 .. n + 1 : a # n + 1 => a \in 0 .. n
      OBVIOUS
    <3>3. QED
      BY <2>4, <3>1, <3>2
  <2>7. g[n + 1] = row /\ \A a \in 0 .. n : g[a] = h[a]
    OBVIOUS
  <2> HIDE DEF g
  <2>8. ASSUME NEW a \in 0 .. n + 1, NEW b \in Nat
        PROVE  g[a][b] = IF a = 0 THEN 0 ELSE (a % 2) * (b % 2) + 2 * g[a \div 2][b \div 2]
    <3>1. CASE a = n + 1
      <4>1. g[a][b] = ((n + 1) % 2) * (b % 2) + 2 * g[d][b \div 2]
        BY <2>2, <2>5, <2>7, <3>1
      <4>2. QED
        BY <2>2, <3>1, <4>1 DEF d
    <3>2. CASE a \in 0 .. n
      <4>1. a \div 2 \in 0 .. n
        BY <3>2, Halving
      <4>2. QED
        BY <2>1, <2>7, <3>2, <4>1 DEF Rows
    <3>3. QED
      BY <3>1, <3>2
  <2>9. Rows(n + 1, g)
    BY <2>6, <2>8 DEF Rows
  <2>10. QED
    BY <2>9
<1> HIDE DEF T
<1>3. \A n \in Nat : n \in T
  BY <1>1, <1>2, CountingUp
<1>4. QED
  BY <1>3 DEF T

\* bitand satisfies its equation.
LEMMA BitandRecursion ==
    \A a, b \in Nat :
        /\ Address!bitand[a][b] \in Nat
        /\ Address!bitand[a][b] =
             IF a = 0 THEN 0
             ELSE (a % 2) * (b % 2) + 2 * Address!bitand[a \div 2][b \div 2]
<1> DEFINE H(n) == CHOOSE h : Rows(n, h)
           G == [a \in Nat |-> H(a)[a]]
           Body(f, a) == [b \in Nat |-> IF a = 0 THEN 0
                             ELSE (a % 2) * (b % 2) + 2 * f[a \div 2][b \div 2]]
           Eq(f) == f = [a \in Nat |-> Body(f, a)]
<1>1. \A n \in Nat : Rows(n, H(n))
  BY RowsExist
<1> HIDE DEF H
<1>2. ASSUME NEW a \in Nat
      PROVE  /\ H(a)[a] \in [Nat -> Nat]
             /\ \A b \in Nat : H(a)[a][b] = IF a = 0 THEN 0
                  ELSE (a % 2) * (b % 2) + 2 * H(a \div 2)[a \div 2][b \div 2]
  <2>1. a \div 2 \in Nat /\ a \div 2 <= a /\ a \in 0 .. a
    BY Halving
  <2>2. Rows(a, H(a)) /\ Rows(a \div 2, H(a \div 2))
    BY <1>1, <2>1
  <2>3. H(a)[a \div 2] = H(a \div 2)[a \div 2]
    BY <2>1, <2>2, RowsAgree
  <2>4. QED
    BY <2>1, <2>2, <2>3 DEF Rows
<1>3. \A a \in Nat : G[a] = H(a)[a]
  OBVIOUS
<1> HIDE DEF G
<1>4. ASSUME NEW a \in Nat PROVE G[a] = Body(G, a)
  <2>1. G[a] \in [Nat -> Nat]
    BY <1>2, <1>3
  <2>2. \A b \in Nat : G[a][b] = IF a = 0 THEN 0
                  ELSE (a % 2) * (b % 2) + 2 * G[a \div 2][b \div 2]
    <3>1. G[a] = H(a)[a] /\ G[a \div 2] = H(a \div 2)[a \div 2]
      BY <1>3, Halving
    <3>2. QED
      BY <1>2, <3>1, Zenon
  <2>3. QED
    BY <2>1, <2>2
<1> HIDE DEF Body
<1>5. Eq(G)
  <2>1. G = [a \in Nat |-> G[a]]
    BY DEF G
  <2>2. QED
    BY <1>4, <2>1
<1>6. Address!bitand = CHOOSE f : Eq(f)
  BY DEF Address!bitand, Body
<1> HIDE DEF Eq
<1>7. Eq(Address!bitand)
  BY <1>5, <1>6
<1> DEFINE B == Address!bitand
<1>8. \A a \in Nat : B[a] = Body(B, a)
  BY <1>7 DEF Eq
<1>9. \A a, b \in Nat : B[a][b] = IF a = 0 THEN 0
                  ELSE (a % 2) * (b % 2) + 2 * B[a \div 2][b \div 2]
  BY <1>8 DEF Body
<1> HIDE DEF B
<1>10. \A a \in Nat : \A b \in Nat : B[a][b] \in Nat
  <2> DEFINE T == {a \in Nat : \A b \in Nat : B[a][b] \in Nat}
  <2>1. 0 \in T
    BY <1>9
  <2>2. ASSUME NEW n \in Nat \ {0}, n \div 2 \in T PROVE n \in T
    <3> SUFFICES ASSUME NEW b \in Nat PROVE B[n][b] \in Nat
      OBVIOUS
    <3> DEFINE x == n % 2
               y == b % 2
               z == B[n \div 2][b \div 2]
    <3>1. x \in Nat /\ y \in Nat /\ z \in Nat
      BY <2>2, Halving
    <3>2. B[n][b] = x * y + 2 * z
      BY <1>9
    <3> HIDE DEF x, y, z
    <3>3. QED
      BY <3>1, <3>2
  <2> HIDE DEF T
  <2>3. \A n \in Nat : n \in T
    BY <2>1, <2>2, HalvingDown
  <2>4. QED
    BY <2>3 DEF T
<1>11. QED
  BY <1>9, <1>10 DEF B

\* Half of a power of two is one.
LEMMA HalfOfPower ==
    ASSUME NEW m, Address!PowerOfTwo(m), m # 1
    PROVE  /\ m \div 2 \in Nat \ {0} /\ m = 2 * (m \div 2)
           /\ Address!PowerOfTwo(m \div 2)
<1> DEFINE h == m \div 2
<1>1. m \in Nat /\ m > 1 /\ \A d \in 2 .. m : m % d = 0 => d % 2 = 0
  BY DEF Address!PowerOfTwo
<1>2. m \in 2 .. m /\ m % m = 0
  <2>1. 1 \in Nat /\ 0 \in 0 .. m - 1 /\ m \in Nat \ {0} /\ 1 * m + 0 = m
    BY <1>1
  <2>2. (1 * m + 0) % m = 0
    BY <2>1, QuotientRemainder
  <2>3. QED
    BY <1>1, <2>1, <2>2
<1>3. m % 2 = 0
  BY <1>1, <1>2
<1>4. h \in Nat \ {0} /\ m = 2 * h
  BY <1>1, <1>3, Halving
<1> HIDE DEF h
<1>5. ASSUME NEW d \in 2 .. h, h % d = 0 PROVE d % 2 = 0
  <2> DEFINE k == h \div d
  <2>1. k \in Nat /\ h = d * k + (h % d)
    BY <1>4
  <2> HIDE DEF k
  <2>2. h = d * k /\ 2 * k \in Nat /\ d \in Nat \ {0} /\ 0 \in 0 .. d - 1
    BY <1>5, <2>1
  <2>3. m = (2 * k) * d + 0
    BY <1>4, <2>1, <2>2
  <2>4. m % d = 0
    BY <2>2, <2>3, QuotientRemainder
  <2>5. d \in 2 .. m
    BY <1>1, <1>4
  <2>6. QED
    BY <1>1, <2>4, <2>5
<1>6. QED
  BY <1>4, <1>5 DEF h, Address!PowerOfTwo

\* Induction with a set over the powers of two.
LEMMA Doubling ==
    ASSUME NEW T, 1 \in T, \A h \in Nat \ {0} : h \in T => 2 * h \in T
    PROVE  \A m \in Nat : Address!PowerOfTwo(m) => m \in T
<1> DEFINE U == {m \in Nat : Address!PowerOfTwo(m) => m \in T}
<1>1. 0 \in U
  BY DEF Address!PowerOfTwo
<1>2. ASSUME NEW n \in Nat \ {0}, n \div 2 \in U PROVE n \in U
  <2>1. CASE n = 1
    BY <2>1
  <2>2. CASE n # 1 /\ Address!PowerOfTwo(n)
    BY <1>2, <2>2, HalfOfPower
  <2>3. QED
    BY <2>1, <2>2
<1> HIDE DEF U
<1>3. \A n \in Nat : n \in U
  BY <1>1, <1>2, HalvingDown
<1>4. QED
  BY <1>3 DEF U

\* Nothing is left of a number masked with 0.
LEMMA MaskedWithZero == \A a \in Nat : Address!bitand[a][0] = 0
<1> DEFINE T == {a \in Nat : Address!bitand[a][0] = 0}
<1>1. 0 \in T
  BY BitandRecursion
<1>2. ASSUME NEW n \in Nat \ {0}, n \div 2 \in T PROVE n \in T
  <2>1. 0 % 2 = 0 /\ 0 \div 2 = 0 /\ n % 2 \in Nat
    BY Halving
  <2>2. Address!bitand[n][0] = (n % 2) * (0 % 2) + 2 * Address!bitand[n \div 2][0 \div 2]
    BY BitandRecursion
  <2>3. QED
    BY <1>2, <2>1, <2>2
<1> HIDE DEF T
<1>3. \A n \in Nat : n \in T
  BY <1>1, <1>2, HalvingDown
<1>4. QED
  BY <1>3 DEF T

\* The mask m - 1 gives the remainder.
LEMMA MaskedLow ==
    \A m \in Nat : Address!PowerOfTwo(m) => \A a \in Nat : Address!bitand[a][m - 1] = a % m
<1> DEFINE T == {m \in Nat \ {0} : \A a \in Nat : Address!bitand[a][m - 1] = a % m}
<1>1. 1 \in T
  <2>1. \A a \in Nat : a % 1 = 0
    OBVIOUS
  <2>2. QED
    BY <2>1, MaskedWithZero
<1>2. ASSUME NEW h \in Nat \ {0}, h \in T PROVE 2 * h \in T
  <2> SUFFICES ASSUME NEW a \in Nat PROVE Address!bitand[a][2 * h - 1] = a % (2 * h)
    OBVIOUS
  <2> DEFINE p == a \div 2
             r == a % 2
             q == p \div h
             s == p % h
  <2>1. p \in Nat /\ r \in {0, 1} /\ a = 2 * p + r
    BY Halving
  <2> HIDE DEF p, r
  <2>2. q \in Nat /\ s \in 0 .. h - 1 /\ p = h * q + s
    BY <2>1
  <2>3. Address!bitand[p][h - 1] = s
    BY <1>2, <2>1
  <2> HIDE DEF q, s
  <2>4. h * q = q * h /\ q * h \in Nat
    BY <2>2
  <2>5. a = q * (2 * h) + (2 * s + r) /\ 2 * s + r \in 0 .. 2 * h - 1
    <3>1. q * (2 * h) = 2 * (q * h)
      BY <2>2
    <3>2. QED
      BY <2>1, <2>2, <2>4, <3>1
  <2>6. a % (2 * h) = 2 * s + r
    <3>1. 2 * h \in Nat \ {0}
      OBVIOUS
    <3>2. QED
      BY <2>2, <2>5, <3>1, QuotientRemainder
  <2>7. (2 * h - 1) % 2 = 1 /\ (2 * h - 1) \div 2 = h - 1 /\ 2 * h - 1 \in Nat
    OBVIOUS
  <2>8. Address!bitand[a][2 * h - 1] =
          IF a = 0 THEN 0 ELSE r * 1 + 2 * Address!bitand[p][h - 1]
    BY <2>7, BitandRecursion DEF p, r
  <2>9. a = 0 => p = 0 /\ r = 0
    BY <2>1
  <2>10. a = 0 => s = 0
    <3> SUFFICES ASSUME a = 0 PROVE s = 0
      OBVIOUS
    <3>1. p = 0
      BY <2>9
    <3>2. QED
      BY <2>2, <2>4, <3>1
  <2>11. QED
    BY <2>1, <2>2, <2>3, <2>6, <2>8, <2>9, <2>10
<1> HIDE DEF T
<1>3. \A m \in Nat : Address!PowerOfTwo(m) => m \in T
  BY <1>1, <1>2, Doubling
<1>4. QED
  BY <1>3 DEF T

\* Masking above bit m keeps to the part that is shifted.
High(m) ==
    \A u \in 0 .. m - 1, v, w \in Nat :
        Address!bitand[u + m * v][m * w] = m * Address!bitand[v][w]

\* One bit more.
LEMMA HighDoubles ==
    ASSUME NEW h \in Nat \ {0}, High(h)
    PROVE  High(2 * h)
<1> SUFFICES ASSUME NEW u \in 0 .. 2 * h - 1, NEW v \in Nat, NEW w \in Nat
             PROVE  Address!bitand[u + (2 * h) * v][(2 * h) * w]
                      = (2 * h) * Address!bitand[v][w]
  BY DEF High
<1> DEFINE p == u \div 2
           r == u % 2
           c == h * v
           e == h * w
           z == Address!bitand[v][w]
           y == h * z
<1>1. p \in Nat /\ r \in {0, 1} /\ u = 2 * p + r /\ u \in Nat
  BY Halving
<1>2. z \in Nat
  BY BitandRecursion
<1>3. c \in Nat /\ e \in Nat /\ y \in Nat
      /\ (2 * h) * v = 2 * c /\ (2 * h) * w = 2 * e /\ (2 * h) * z = 2 * y
  BY <1>2
<1> HIDE DEF p, r
<1>4. p \in 0 .. h - 1
  BY <1>1
<1>5. Address!bitand[p + c][e] = y
  BY <1>4 DEF High
<1>6. v = 0 => z = 0
  BY BitandRecursion
<1>7. v = 0 => y = 0
  BY <1>6
<1>8. v # 0 => c # 0
  OBVIOUS
<1> HIDE DEF c, e, z, y
<1> DEFINE a == u + 2 * c
           b == 2 * e
<1>9. a \in Nat /\ b \in Nat /\ a \div 2 = p + c /\ a % 2 = r
      /\ b \div 2 = e /\ b % 2 = 0
  BY <1>1, <1>3
<1>10. Address!bitand[a][b] = IF a = 0 THEN 0 ELSE r * 0 + 2 * Address!bitand[p + c][e]
  <2> HIDE DEF a, b
  <2>1. Address!bitand[a][b] =
          IF a = 0 THEN 0 ELSE (a % 2) * (b % 2) + 2 * Address!bitand[a \div 2][b \div 2]
    BY <1>9, BitandRecursion, Zenon
  <2>2. QED
    BY <1>9, <2>1, Zenon
<1>11. a = 0 => y = 0
  BY <1>1, <1>3, <1>7, <1>8
<1>12. Address!bitand[a][b] = 2 * y
  BY <1>1, <1>3, <1>5, <1>10, <1>11
<1>13. QED
  BY <1>3, <1>12 DEF z

\* Numbers that are shifted are masked above the shift.
LEMMA MaskedHigh ==
    /\ High(32) /\ High(128)
    /\ \A m \in Nat : Address!PowerOfTwo(m) => High(m)
<1> DEFINE T == {m \in Nat \ {0} : High(m)}
<1>1. 1 \in T
  <2>1. \A u \in 0 .. 1 - 1, v, w \in Nat :
          u + 1 * v = v /\ 1 * w = w /\ 1 * Address!bitand[v][w] = Address!bitand[v][w]
    BY BitandRecursion
  <2>2. QED
    BY <2>1 DEF High
<1>2. ASSUME NEW h \in Nat \ {0}, h \in T PROVE 2 * h \in T
  BY <1>2, HighDoubles
<1> HIDE DEF T
<1>3. \A m \in Nat : Address!PowerOfTwo(m) => m \in T
  BY <1>1, <1>2, Doubling
<1>4. 2 \in T /\ 4 \in T /\ 8 \in T /\ 16 \in T /\ 32 \in T /\ 64 \in T /\ 128 \in T
  <2>1. 2 \in T
    BY <1>1, <1>2
  <2>2. 4 \in T
    BY <1>2, <2>1
  <2>3. 8 \in T
    BY <1>2, <2>2
  <2>4. 16 \in T
    BY <1>2, <2>3
  <2>5. 32 \in T
    BY <1>2, <2>4
  <2>6. 64 \in T
    BY <1>2, <2>5
  <2>7. 128 \in T
    BY <1>2, <2>6
  <2>8. QED
    BY <2>1, <2>2, <2>3, <2>4, <2>5, <2>6, <2>7
<1>5. QED
  BY <1>3, <1>4 DEF T

\* What the helpers are applied to.
AddressInv ==
    part = "address" =>
        /\ addr \in 0 .. Space - 1
        /\ size_space \in SizeSpaces
        /\ layout \in [Segments -> (0 .. LayoutTop) \X (0 .. LayoutTop)]

\* Only a layout is ever set, and only with addresses of the address space.
LEMMA AddressSteps ==
    /\ Init => AddressInv
    /\ AddressInv /\ [Next]_vars => AddressInv'
<1>1. ASSUME Init PROVE AddressInv
  <2>1. LayoutTop \in Nat
    BY PartsAssumption DEF Address!AddressAssumption
  <2>2. QED
    BY <1>1, <2>1 DEF AddressInv, Init, Address!Init, Address!NoLayout
<1>2. ASSUME AddressInv, [Next]_vars PROVE AddressInv'
  BY <1>2, PartSteps DEF AddressInv, Address!Next, Address!SetLayout, Address!vars
<1>3. QED
  BY <1>1, <1>2

\* The bit operations are those of the lemmas.
LEMMA Bits ==
    ASSUME NEW a, NEW b
    PROVE  /\ Address!&(a, b) = Address!bitand[a][b]
           /\ Address!|(a, b) = a + b - Address!bitand[a][b]
  BY DEF Address!&, Address!|

\* What divides a power of two leaves one.
LEMMA QuotientOfPower ==
    ASSUME NEW p \in Nat \ {0}, NEW q \in Nat, Address!PowerOfTwo(p * q)
    PROVE  Address!PowerOfTwo(q)
<1> DEFINE n == p * q
<1>1. n \in Nat /\ n # 0 /\ \A d \in 2 .. n : n % d = 0 => d % 2 = 0
  BY DEF Address!PowerOfTwo
<1>2. q # 0 /\ q <= n
  <2>1. q # 0
    BY <1>1
  <2>2. 1 * q <= p * q
    OBVIOUS
  <2>3. QED
    BY <2>1, <2>2
<1>3. ASSUME NEW d \in 2 .. q, q % d = 0 PROVE d % 2 = 0
  <2> DEFINE k == q \div d
  <2>1. k \in Nat /\ q = d * k + (q % d)
    OBVIOUS
  <2> HIDE DEF k
  <2>2. q = d * k /\ p * k \in Nat /\ d \in Nat \ {0} /\ 0 \in 0 .. d - 1
    BY <1>3, <2>1
  <2>3. n = (p * k) * d + 0
    BY <2>1, <2>2
  <2> HIDE DEF n
  <2>4. n % d = 0
    BY <2>2, <2>3, QuotientRemainder
  <2>5. d \in 2 .. n
    BY <1>1, <1>2
  <2>6. QED
    BY <1>1, <2>4, <2>5
<1>4. QED
  BY <1>2, <1>3 DEF Address!PowerOfTwo

\* The mask n - p clears the bits below p.
LEMMA MaskedPage ==
    ASSUME NEW n \in Nat, NEW p \in Nat, Address!PowerOfTwo(n), Address!PowerOfTwo(p),
           n % p = 0, NEW a \in 0 .. n - 1
    PROVE  n - p \in Nat /\ Address!bitand[a][n - p] = (a \div p) * p
<1> DEFINE q == n \div p
           v == a \div p
           u == a % p
<1>1. n \in Nat \ {0} /\ p \in Nat \ {0}
  BY DEF Address!PowerOfTwo
<1>2. /\ q \in Nat /\ n = p * q + (n % p)
      /\ v \in Nat /\ u \in 0 .. p - 1 /\ a = p * v + u
  BY <1>1
<1> HIDE DEF q, v, u
<1>3. n = p * q /\ q \in Nat \ {0}
  <2>1. n = p * q
    BY <1>1, <1>2
  <2>2. q # 0
    BY <1>1, <1>2, <2>1
  <2>3. QED
    BY <1>2, <2>1, <2>2
<1>4. Address!PowerOfTwo(q)
  BY <1>1, <1>2, <1>3, QuotientOfPower
<1>5. v < q
  <2> SUFFICES ASSUME q <= v PROVE FALSE
    BY <1>2
  <2>1. p * q <= p * v /\ p * v \in Nat
    BY <1>1, <1>2
  <2>2. QED
    BY <1>2, <1>3, <2>1
<1>6. v % q = v
  <2>1. v \in 0 .. q - 1 /\ 0 \in Nat /\ 0 * q + v = v
    BY <1>2, <1>3, <1>5
  <2>2. (0 * q + v) % q = v
    BY <1>3, <2>1, QuotientRemainder
  <2>3. QED
    BY <2>1, <2>2
<1>7. Address!bitand[v][q - 1] = v
  BY <1>2, <1>3, <1>4, <1>6, MaskedLow
<1>8. n - p = p * (q - 1) /\ q - 1 \in Nat /\ p * (q - 1) \in Nat
  BY <1>1, <1>3
<1>9. a = u + p * v
  BY <1>1, <1>2
<1>10. Address!bitand[u + p * v][p * (q - 1)] = p * Address!bitand[v][q - 1]
  <2> DEFINE k == q - 1
  <2>1. \A s \in 0 .. p - 1, t, w \in Nat :
          Address!bitand[s + p * t][p * w] = p * Address!bitand[t][w]
    BY MaskedHigh, Zenon DEF High
  <2>2. k \in Nat
    BY <1>8
  <2> HIDE DEF k
  <2>3. Address!bitand[u + p * v][p * k] = p * Address!bitand[v][k]
    BY <1>2, <2>1, <2>2, Zenon
  <2>4. QED
    BY <2>3 DEF k
<1>11. p * v = v * p
  BY <1>1, <1>2
<1>12. QED
  BY <1>7, <1>8, <1>9, <1>10, <1>11 DEF v

\* The sizes of the build.
LEMMA AddressSizes ==
    ASSUME NEW n \in SizeSpaces
    PROVE  /\ Space \in Nat \ {0} /\ HalfSize \in Nat \ {0} /\ HalfSize <= Space
           /\ PAGE_SIZE \in Nat \ {0} /\ Address!PowerOfTwo(PAGE_SIZE)
           /\ n \in Nat \ {0} /\ Address!PowerOfTwo(n) /\ n % PAGE_SIZE = 0
           /\ \E k \in Nat \ {0} : Space = k * n
           /\ n <= Space
           /\ KERNEL_VIRTUAL_BASE \in Nat
           /\ KERNEL_VIRTUAL_BASE \in Space - HalfSize .. Space - 1
<1>1. /\ {Space, HalfSize} \subseteq Nat \ {0} /\ HalfSize <= Space
      /\ Address!PowerOfTwo(PAGE_SIZE) /\ Address!PowerOfTwo(n)
      /\ Space % n = 0 /\ n % PAGE_SIZE = 0
      /\ KERNEL_VIRTUAL_BASE \in Space - HalfSize .. Space - 1
  BY PartsAssumption DEF Address!AddressAssumption
<1>2. Space \in Nat \ {0} /\ HalfSize \in Nat \ {0} /\ KERNEL_VIRTUAL_BASE \in Nat
  BY <1>1
<1>3. PAGE_SIZE \in Nat \ {0} /\ n \in Nat \ {0}
  BY <1>1 DEF Address!PowerOfTwo
<1> DEFINE k == Space \div n
<1>4. k \in Nat /\ Space = n * k + (Space % n)
  BY <1>2, <1>3
<1> HIDE DEF k
<1>5. Space = k * n /\ k \in Nat \ {0}
  <2>1. Space = n * k /\ n * k = k * n
    BY <1>1, <1>3, <1>4
  <2>2. k # 0
    BY <1>2, <1>3, <1>4, <2>1
  <2>3. QED
    BY <1>4, <2>1, <2>2
<1>6. n <= Space
  <2>1. 1 * n <= k * n
    BY <1>3, <1>5
  <2>2. QED
    BY <1>3, <1>5, <2>1
<1>7. QED
  BY <1>1, <1>2, <1>3, <1>5, <1>6

\* page_align_down and page_align_up, for pages and a size_t of any size.
LEMMA Aligned ==
    ASSUME addr \in 0 .. Space - 1, size_space \in SizeSpaces
    PROVE  Address!AlignExact
<1> DEFINE P == PAGE_SIZE
           n == size_space
           page == addr \div P
           u == addr % P
           c == IF addr = page * P THEN page ELSE page + 1
           o == IF addr = page * P THEN P - 1 ELSE u - 1
           x == addr + P - 1
<1>1. /\ Space \in Nat \ {0} /\ P \in Nat \ {0} /\ Address!PowerOfTwo(P)
      /\ n \in Nat \ {0} /\ Address!PowerOfTwo(n) /\ n % P = 0 /\ n <= Space
      /\ addr \in Nat
  BY AddressSizes
<1>2. page \in Nat /\ u \in 0 .. P - 1 /\ addr = P * page + u
  BY <1>1
<1>3. P \in Nat /\ P - 1 \in Nat /\ \A a \in Nat : Address!bitand[a][P - 1] = a % P
  <2>1. P \in Nat /\ P - 1 \in Nat
    BY <1>1
  <2> HIDE DEF P
  <2>2. QED
    BY <1>1, <2>1, MaskedLow, Zenon
<1>4. Address!is_page_aligned(addr) <=> u = 0
  BY <1>1, <1>3, Bits DEF Address!is_page_aligned
<1> HIDE DEF page, u
<1>5. P * page = page * P /\ page * P \in Nat /\ page <= addr /\ (addr = page * P <=> u = 0)
  <2>1. P * page = page * P /\ page * P \in Nat
    BY <1>1, <1>2
  <2>2. page * 1 <= page * P
    BY <1>1, <1>2
  <2>3. QED
    BY <1>1, <1>2, <2>1, <2>2
<1>6. Address!is_page_aligned(addr) <=> \E k \in 0 .. addr : addr = Address!PageStart(k)
  <2>1. ASSUME u = 0 PROVE \E k \in 0 .. addr : addr = k * P
    BY <1>1, <1>2, <1>5, <2>1
  <2>2. ASSUME NEW k \in 0 .. addr, addr = k * P PROVE u = 0
    <3>1. k \in Nat /\ 0 \in 0 .. P - 1 /\ addr = k * P + 0
      BY <1>1, <2>2
    <3>2. QED
      BY <1>1, <3>1, QuotientRemainder DEF u
  <2>3. QED
    BY <1>4, <2>1, <2>2 DEF Address!PageStart
<1>7. ASSUME NEW a \in 0 .. n - 1
      PROVE  Address!&(a, Address!PageMask) = (a \div P) * P
  <2>1. n \in Nat /\ P \in Nat
    BY <1>1
  <2>2. Address!bitand[a][n - P] = (a \div P) * P
    <3> HIDE DEF n, P
    <3> QED
      BY <1>1, <2>1, MaskedPage
  <2>3. QED
    BY <2>2, Bits DEF Address!PageMask
<1>8. addr < n => Address!page_align_down(addr) = Address!PageStart(page)
  BY <1>1, <1>7 DEF Address!page_align_down, Address!PageStart, page
<1>9. c \in Nat /\ o \in 0 .. P - 1
  BY <1>1, <1>2, <1>5
<1>10. x = c * P + o /\ c * P \in Nat
  <2>1. (page + 1) * P = page * P + P
    BY <1>1, <1>2
  <2>2. QED
    BY <1>1, <1>2, <1>5, <2>1
<1> HIDE DEF c, o
<1>11. ASSUME c * P < n PROVE Address!page_align_up(addr) = c * P
  <2> DEFINE q == n \div P
  <2>1. q \in Nat /\ n = P * q + (n % P)
    BY <1>1
  <2> HIDE DEF q
  <2>2. n = q * P /\ q * P \in Nat
    BY <1>1, <2>1
  <2>3. c < q
    <3> SUFFICES ASSUME q <= c PROVE FALSE
      BY <1>9, <2>1
    <3>1. q * P <= c * P
      BY <1>1, <1>9, <2>1
    <3>2. QED
      BY <1>10, <1>11, <2>2, <3>1
  <2>4. (c + 1) * P <= q * P /\ (c + 1) * P = c * P + P
    BY <1>1, <1>9, <2>1, <2>3
  <2>5. x \in 0 .. n - 1 /\ x \in 0 .. Space - 1
    BY <1>1, <1>9, <1>10, <2>2, <2>4
  <2>6. x % Space = x
    <3>1. 0 \in Nat /\ 0 * Space + x = x
      BY <1>1, <2>5
    <3> HIDE DEF x
    <3>2. (0 * Space + x) % Space = x
      BY <1>1, <2>5, QuotientRemainder
    <3>3. QED
      BY <3>1, <3>2
  <2>7. x \div P = c
    BY <1>1, <1>9, <1>10, QuotientRemainder
  <2>8. Address!page_align_up(addr) = (x \div P) * P
    BY <1>7, <2>5, <2>6 DEF Address!page_align_up
  <2>9. QED
    BY <2>7, <2>8
<1>12. ASSUME c * P = Space PROVE Address!page_align_up(addr) = 0
  <2>1. P <= n
    BY <1>1, MaskedPage
  <2>2. o \in 0 .. Space - 1 /\ o \in 0 .. n - 1 /\ x = 1 * Space + o
    BY <1>1, <1>9, <1>10, <1>12, <2>1
  <2>3. x % Space = o
    BY <1>1, <2>2, QuotientRemainder
  <2>4. o \div P = 0
    <3>1. 0 * P + o = o
      BY <1>1, <1>9
    <3>2. (0 * P + o) \div P = 0
      BY <1>1, <1>9, QuotientRemainder
    <3>3. QED
      BY <3>1, <3>2
  <2>5. Address!page_align_up(addr) = (o \div P) * P
    BY <1>7, <2>2, <2>3 DEF Address!page_align_up
  <2>6. QED
    BY <1>1, <2>4, <2>5
<1>13. Address!PageStart(IF addr = Address!PageStart(page) THEN page ELSE page + 1) = c * P
  BY DEF Address!PageStart, c
<1>14. QED
  BY <1>6, <1>8, <1>11, <1>12, <1>13 DEF Address!AlignExact, page

\* The two conversions of the higher half.
LEMMA HigherHalf ==
    ASSUME addr \in 0 .. Space - 1, size_space \in SizeSpaces
    PROVE  Address!HigherHalfExact
<1> DEFINE K == KERNEL_VIRTUAL_BASE
<1>1. /\ Space \in Nat \ {0} /\ addr \in Nat /\ K \in Nat /\ K < Space
      /\ HalfSize \in Nat /\ Space - HalfSize <= K
  BY AddressSizes
<1>2. ASSUME NEW a \in Nat, a < 2 * Space
      PROVE  a % Space = IF a < Space THEN a ELSE a - Space
  <2>1. CASE a < Space
    <3>1. 0 \in Nat /\ a \in 0 .. Space - 1 /\ 0 * Space + a = a
      BY <1>1, <2>1
    <3>2. (0 * Space + a) % Space = a
      BY <1>1, <3>1, QuotientRemainder
    <3>3. QED
      BY <2>1, <3>1, <3>2
  <2>2. CASE ~(a < Space)
    <3> DEFINE d == a - Space
    <3>1. 1 \in Nat /\ d \in 0 .. Space - 1 /\ 1 * Space + d = a
      BY <1>1, <1>2, <2>2
    <3>2. (1 * Space + d) % Space = d
      BY <1>1, <3>1, QuotientRemainder
    <3>3. QED
      BY <2>2, <3>1, <3>2
  <2>3. QED
    BY <2>1, <2>2
<1>3. ASSUME NEW a \in 0 .. Space - 1
      PROVE  /\ Address!physical_to_virtual(a) = IF a + K < Space THEN a + K ELSE a + K - Space
             /\ Address!virtual_to_physical_direct(a)
                  = IF a < K THEN a + Space - K ELSE a - K
  <2>1. /\ a + K \in Nat /\ a + K < 2 * Space
        /\ a + Space - K \in Nat /\ a + Space - K < 2 * Space
    BY <1>1
  <2>2. /\ Address!physical_to_virtual(a) = IF a + K < Space THEN a + K ELSE (a + K) - Space
        /\ Address!virtual_to_physical_direct(a)
             = IF a + Space - K < Space THEN a + Space - K ELSE (a + Space - K) - Space
    BY <1>2, <2>1 DEF Address!physical_to_virtual, Address!virtual_to_physical_direct
  <2>3. QED
    BY <1>1, <2>2
<1> DEFINE p == Address!physical_to_virtual(addr)
           v == Address!virtual_to_physical_direct(addr)
<1>4. p \in 0 .. Space - 1 /\ v \in 0 .. Space - 1
  BY <1>1, <1>3
<1>5. Address!virtual_to_physical_direct(p) = addr
  <2>1. p = IF addr + K < Space THEN addr + K ELSE addr + K - Space
    BY <1>3
  <2> HIDE DEF p
  <2>2. Address!virtual_to_physical_direct(p) = IF p < K THEN p + Space - K ELSE p - K
    BY <1>3, <1>4
  <2>3. QED
    BY <1>1, <2>1, <2>2
<1>6. Address!physical_to_virtual(v) = addr
  <2>1. v = IF addr < K THEN addr + Space - K ELSE addr - K
    BY <1>3
  <2> HIDE DEF v
  <2>2. Address!physical_to_virtual(v) = IF v + K < Space THEN v + K ELSE v + K - Space
    BY <1>3, <1>4
  <2>3. QED
    BY <1>1, <2>1, <2>2
<1>7. (p >= K) <=> addr < Space - K
  BY <1>1, <1>3
<1>8. addr >= K => Address!is_canonical(addr)
  BY <1>1 DEF Address!is_canonical
<1>9. QED
  BY <1>5, <1>6, <1>7, <1>8 DEF Address!HigherHalfExact

\* A gate gives back the address and the attributes.
LEMMA GateHolds ==
    ASSUME addr \in 0 .. Space - 1, size_space \in SizeSpaces
    PROVE  Address!GateExact
<1> DEFINE L == LowMod
           M == MidMod
           q == addr \div L
           low == addr % L
           high == q \div M
           mid == q % M
<1>1. /\ addr \in Nat /\ L \in Nat \ {0} /\ M \in Nat \ {0} /\ L * M \in Nat \ {0}
      /\ Address!PowerOfTwo(L) /\ Address!PowerOfTwo(M)
  <2>1. Address!PowerOfTwo(L) /\ Address!PowerOfTwo(M)
    BY PartsAssumption DEF Address!AddressAssumption
  <2>2. L \in Nat \ {0} /\ M \in Nat \ {0}
    BY <2>1 DEF Address!PowerOfTwo
  <2>3. L * M \in Nat /\ L * M # 0
    BY <2>2
  <2>4. QED
    BY <2>1, <2>2, <2>3, AddressSizes
<1>2. q \in Nat /\ low \in 0 .. L - 1 /\ addr = L * q + low
  BY <1>1
<1> HIDE DEF L, M
<1>3. low = Address!bitand[addr][L - 1]
  <2>1. \A a \in Nat : Address!bitand[a][L - 1] = a % L
    BY <1>1, MaskedLow
  <2>2. QED
    BY <1>1, <2>1
<1> HIDE DEF q
<1>4. high \in Nat /\ mid \in 0 .. M - 1 /\ q = M * high + mid
  BY <1>1, <1>2
<1>5. mid = Address!bitand[q][M - 1]
  <2>1. \A a \in Nat : Address!bitand[a][M - 1] = a % M
    BY <1>1, MaskedLow
  <2>2. QED
    BY <1>2, <2>1
<1> HIDE DEF low, high, mid
<1>6. /\ L * mid \in Nat /\ M * high \in Nat /\ L * (M * high) \in Nat
      /\ L * q = L * (M * high) + L * mid
      /\ high * (L * M) = L * (M * high)
      /\ mid * L = L * mid /\ (high * L) * M = L * (M * high)
  BY <1>1, <1>2, <1>4
<1>7. L * mid + low \in 0 .. L * M - 1
  <2>1. L * mid <= L * (M - 1) /\ L * (M - 1) = L * M - L
    BY <1>1, <1>4
  <2>2. QED
    BY <1>1, <1>2, <1>6, <2>1
<1>8. addr = high * (L * M) + (L * mid + low)
  BY <1>2, <1>6
<1>9. addr \div (L * M) = high
  BY <1>1, <1>4, <1>7, <1>8, QuotientRemainder
<1>10. \A w \in Nat : Address!bitand[0][w] = 0
  BY BitandRecursion
<1>11. \A u \in 0 .. L - 1, v, w \in Nat :
         Address!bitand[u + L * v][L * w] = L * Address!bitand[v][w]
  BY <1>1, MaskedHigh, Zenon DEF High
<1>12. \A u \in 0 .. M - 1, v, w \in Nat :
         Address!bitand[u + M * v][M * w] = M * Address!bitand[v][w]
  BY <1>1, MaskedHigh, Zenon DEF High
<1>13. Address!bitand[low][L * mid] = 0
  <2>1. Address!bitand[low + L * 0][L * mid] = L * Address!bitand[0][mid]
    BY <1>2, <1>4, <1>11
  <2>2. low + L * 0 = low /\ L * 0 = 0 /\ Address!bitand[0][mid] = 0
    BY <1>1, <1>2, <1>4, <1>10
  <2>3. QED
    BY <2>1, <2>2
<1>14. Address!bitand[mid][M * high] = 0
  <2>1. Address!bitand[mid + M * 0][M * high] = M * Address!bitand[0][high]
    BY <1>4, <1>12
  <2>2. mid + M * 0 = mid /\ M * 0 = 0 /\ Address!bitand[0][high] = 0
    BY <1>1, <1>4, <1>10
  <2>3. QED
    BY <2>1, <2>2
<1>15. Address!bitand[low + L * mid][L * (M * high)] = 0
  <2>1. mid \in Nat /\ L * 0 = 0
    BY <1>1, <1>4
  <2>2. Address!bitand[low + L * mid][L * (M * high)] = L * Address!bitand[mid][M * high]
    BY <1>2, <1>6, <1>11, <2>1, Zenon
  <2>3. QED
    BY <1>14, <2>1, <2>2
<1>16. ASSUME NEW type \in Address!GateTypes, NEW dpl \in 0 .. 3, NEW present \in BOOLEAN
       PROVE  LET g == Address!set_gate(addr, type, dpl, present) IN
              /\ Address!get_handler_address(g) = addr
              /\ g.type_attr % 16 = type
              /\ (g.type_attr \div 32) % 4 = dpl
              /\ (g.type_attr >= 128) = present
  <2> DEFINE g == Address!set_gate(addr, type, dpl, present)
             e == Address!|(Address!|(type, dpl * 32), IF present THEN 128 ELSE 0)
  <2>1. /\ g.offset_low = low /\ g.offset_mid = mid /\ g.offset_high = high
        /\ g.type_attr = e
    <3>1. g = [offset_low  |-> Address!&(addr, LowMod - 1),
               offset_mid  |-> Address!&(addr \div LowMod, MidMod - 1),
               offset_high |-> addr \div (LowMod * MidMod), type_attr |-> e]
      BY DEF Address!set_gate
    <3>2. /\ Address!&(addr, LowMod - 1) = low
          /\ Address!&(addr \div LowMod, MidMod - 1) = mid
      BY <1>3, <1>5, Bits DEF q, L, M
    <3>3. addr \div (LowMod * MidMod) = high
      BY <1>9 DEF L, M
    <3> HIDE DEF e, g
    <3>4. QED
      BY <3>1, <3>2, <3>3
  <2>2. Address!get_handler_address(g) = addr
    <3>1. Address!get_handler_address(g) = Address!|(Address!|(low, mid * L), high * L * M)
      BY <2>1 DEF Address!get_handler_address, L, M
    <3>2. Address!|(low, mid * L) = low + L * mid
      BY <1>2, <1>6, <1>13, Bits
    <3>3. Address!|(low + L * mid, high * L * M) = low + L * mid + L * (M * high)
      BY <1>2, <1>6, <1>15, Bits
    <3>4. QED
      BY <1>2, <1>6, <1>8, <3>1, <3>2, <3>3
  <2>3. e = type + dpl * 32 + (IF present THEN 128 ELSE 0)
    <3> DEFINE f == type + dpl * 32
    <3>1. type \in 0 .. 15 /\ type \in 0 .. 32 - 1 /\ dpl \in Nat /\ type \in Nat
      BY DEF Address!GateTypes
    <3>2. Address!bitand[type + 32 * 0][32 * dpl] = 32 * Address!bitand[0][dpl]
      <4>1. \A u \in 0 .. 32 - 1, v, w \in Nat :
              Address!bitand[u + 32 * v][32 * w] = 32 * Address!bitand[v][w]
        BY MaskedHigh, Zenon DEF High
      <4>2. 0 \in Nat
        OBVIOUS
      <4>3. QED
        BY <3>1, <4>1, <4>2, Zenon
    <3>3. Address!bitand[type][dpl * 32] = 0
      BY <1>10, <3>1, <3>2
    <3>4. Address!|(type, dpl * 32) = f /\ f \in 0 .. 128 - 1 /\ f \in Nat
      BY <3>1, <3>3, Bits
    <3> HIDE DEF f
    <3>5. Address!bitand[f + 128 * 0][128 * 1] = 128 * Address!bitand[0][1]
      <4> DEFINE n == 128
      <4>1. High(n) /\ f \in 0 .. n - 1 /\ 0 \in Nat /\ 1 \in Nat
        BY <3>4, MaskedHigh
      <4> HIDE DEF n
      <4>2. Address!bitand[f + n * 0][n * 1] = n * Address!bitand[0][1]
        BY <4>1, Zenon DEF High
      <4>3. QED
        BY <4>2 DEF n
    <3>6. Address!bitand[f][128] = 0 /\ Address!bitand[f][0] = 0
      BY <1>10, <3>4, <3>5, MaskedWithZero
    <3>7. e = f + (IF present THEN 128 ELSE 0)
      BY <3>4, <3>6, Bits
    <3>8. QED
      BY <3>7 DEF f
  <2> HIDE DEF e
  <2>4. /\ e % 16 = type /\ (e \div 32) % 4 = dpl /\ (e >= 128) = present
    <3>1. type \in {5, 14, 15}
      BY DEF Address!GateTypes
    <3>2. CASE present
      <4>1. e = type + dpl * 32 + 128
        BY <2>3, <3>2
      <4>2. e % 16 = type /\ (e \div 32) % 4 = dpl /\ e >= 128
        BY <3>1, <4>1
      <4>3. QED
        BY <3>2, <4>2, Zenon
    <3>3. CASE ~present
      <4>1. e = type + dpl * 32
        BY <2>3, <3>1, <3>3
      <4>2. e % 16 = type /\ (e \div 32) % 4 = dpl /\ ~(e >= 128)
        BY <3>1, <4>1
      <4>3. (e >= 128) = present
        <5>1. present = FALSE
          BY <3>3
        <5>2. (e >= 128) = FALSE
          BY <4>2
        <5>3. QED
          BY <5>1, <5>2, Zenon
      <4>4. QED
        BY <4>2, <4>3, Zenon
    <3>4. QED
      BY <3>2, <3>3
  <2>5. QED
    BY <2>1, <2>2, <2>4
<1>17. QED
  BY <1>16 DEF Address!GateExact

\* f adds the sizes of the segments in the order CHOOSE gives.
Sums(f) ==
    f = [s \in SUBSET Segments |->
           IF s = {} THEN 0
           ELSE LET x == CHOOSE x \in s : TRUE
                IN  ((layout[x][2] + Space - layout[x][1]) % Space) + f[s \ {x}]]

\* total_size is such a sum.
LEMMA TotalSizeFolds ==
    Address!total_size = (CHOOSE f : Sums(f))[Segments] % size_space
  BY DEF Sums, Address!total_size, Address!MapThenSumSet, Address!MapThenFoldSet

\* There is only one such sum of finitely many segments.
LEMMA SumsUnique ==
    ASSUME NEW f, NEW g, Sums(f), Sums(g), IsFiniteSet(Segments)
    PROVE  f[Segments] = g[Segments]
<1> DEFINE T == {n \in Nat : \A s \in SUBSET Segments : Cardinality(s) = n => f[s] = g[s]}
<1>1. \A s \in SUBSET Segments : IsFiniteSet(s) /\ Cardinality(s) \in Nat
  BY FS_Subset, FS_CardinalityType
<1>2. f[{}] = 0 /\ g[{}] = 0
  BY DEF Sums
<1> DEFINE Size(x) == (layout[x][2] + Space - layout[x][1]) % Space
           First(s) == CHOOSE x \in s : TRUE
<1>3. \A s \in SUBSET Segments : s # {} =>
        /\ f[s] = Size(First(s)) + f[s \ {First(s)}]
        /\ g[s] = Size(First(s)) + g[s \ {First(s)}]
  BY DEF Sums
<1>4. 0 \in T
  BY <1>1, <1>2, FS_EmptySet
<1>5. ASSUME NEW n \in Nat, n \in T PROVE n + 1 \in T
  <2> SUFFICES ASSUME NEW s \in SUBSET Segments, Cardinality(s) = n + 1 PROVE f[s] = g[s]
    OBVIOUS
  <2> DEFINE x == First(s)
  <2>1. s # {}
    BY <1>1, FS_EmptySet
  <2>2. x \in s
    BY <2>1
  <2> HIDE DEF Size, First
  <2>3. s \ {x} \in SUBSET Segments /\ Cardinality(s \ {x}) = n
    <3>1. Cardinality(s \ {x}) = Cardinality(s) - 1
      BY <1>1, <2>2, FS_RemoveElement
    <3>2. QED
      BY <3>1
  <2>4. f[s \ {x}] = g[s \ {x}]
    BY <1>5, <2>3
  <2>5. f[s] = Size(x) + f[s \ {x}] /\ g[s] = Size(x) + g[s \ {x}]
    BY <1>3, <2>1, Zenon
  <2>6. QED
    BY <2>4, <2>5, Zenon
<1> HIDE DEF T
<1>6. \A n \in Nat : n \in T
  BY <1>4, <1>5, CountingUp
<1>7. QED
  BY <1>1, <1>6 DEF T

\* The addresses in some of the segments.
Covered(s) == {a \in 0 .. Space - 1 : \E t \in s : layout[t][1] <= a /\ a < layout[t][2]}

\* MemoryLayout::total_size, for any segments.
LEMMA LayoutHolds ==
    ASSUME addr \in 0 .. Space - 1, size_space \in SizeSpaces,
           layout \in [Segments -> (0 .. LayoutTop) \X (0 .. LayoutTop)]
    PROVE  Address!LayoutExact
<1> DEFINE Span(s) == layout[s][1] .. layout[s][2] - 1
<1> SUFFICES ASSUME \A s \in Segments : layout[s][1] <= layout[s][2],
                    \A s, t \in Segments : s # t => Span(s) \cap Span(t) = {}
             PROVE  Address!total_size
                      = Address!Cardinality({a \in 0 .. Space - 1 : Address!is_valid_address(a)})
                          % size_space
  BY DEF Address!LayoutExact
<1>1. /\ Space \in Nat \ {0} /\ LayoutTop \in Nat /\ LayoutTop < Space
      /\ IsFiniteSet(Segments)
  <2>1. Address!IsFiniteSet(Segments) /\ LayoutTop \in Nat /\ LayoutTop < Space
    BY PartsAssumption DEF Address!AddressAssumption
  <2>2. Address!IsFiniteSet(Segments) <=> IsFiniteSet(Segments)
    BY DEF Address!IsFiniteSet, IsFiniteSet
  <2>3. QED
    BY <2>1, <2>2, AddressSizes
<1>2. \A t \in Segments : /\ layout[t][1] \in Nat /\ layout[t][2] \in Nat
                          /\ layout[t][1] <= layout[t][2] /\ layout[t][2] < Space
  BY <1>1
<1>3. ASSUME NEW t \in Segments
      PROVE  (layout[t][2] + Space - layout[t][1]) % Space = layout[t][2] - layout[t][1]
  <2> DEFINE d == layout[t][2] - layout[t][1]
             x == layout[t][2] + Space - layout[t][1]
  <2>1. d \in 0 .. Space - 1 /\ x = 1 * Space + d /\ 1 \in Nat
    BY <1>1, <1>2
  <2> HIDE DEF d, x
  <2>2. x % Space = d
    BY <1>1, <2>1, QuotientRemainder
  <2>3. QED
    BY <2>2 DEF d, x
<1>4. ASSUME NEW s PROVE IsFiniteSet(Covered(s)) /\ Cardinality(Covered(s)) \in Nat
  <2>1. IsFiniteSet(0 .. Space - 1)
    BY <1>1, FS_Interval
  <2>2. Covered(s) \in SUBSET (0 .. Space - 1)
    BY DEF Covered
  <2>3. IsFiniteSet(Covered(s))
    BY <2>1, <2>2, FS_Subset
  <2>4. QED
    BY <2>3, FS_CardinalityType
<1>5. ASSUME NEW t \in Segments
      PROVE  Cardinality(Covered({t})) = layout[t][2] - layout[t][1]
  <2> DEFINE b == layout[t][1]
             e == layout[t][2] - 1
  <2>1. b \in Int /\ e \in Int /\ b <= e + 1 /\ b \in Nat /\ e < Space
    BY <1>1, <1>2
  <2>2. Covered({t}) = b .. e
    <3>1. \A a \in Nat : a < layout[t][2] <=> a <= e
      BY <1>2
    <3>2. layout[t][2] < Space
      BY <1>2
    <3>3. QED
      BY <1>1, <1>2, <3>1, <3>2 DEF Covered
  <2>3. layout[t][2] - layout[t][1] = (e - b) + 1
    BY <1>2
  <2> HIDE DEF b, e
  <2>4. Cardinality(b .. e) = IF b > e THEN 0 ELSE e - b + 1
    BY <2>1, FS_Interval
  <2>5. QED
    BY <2>1, <2>2, <2>3, <2>4
<1>6. ASSUME NEW s \in SUBSET Segments, NEW x \in s
      PROVE  Cardinality(Covered(s))
               = (layout[x][2] - layout[x][1]) + Cardinality(Covered(s \ {x}))
  <2> DEFINE A == Covered({x})
             B == Covered(s \ {x})
  <2>1. Covered(s) = A \cup B
    BY DEF Covered
  <2>2. A \cap B = {}
    <3> SUFFICES ASSUME NEW a \in 0 .. Space - 1, layout[x][1] <= a, a < layout[x][2],
                        NEW t \in s \ {x}, layout[t][1] <= a, a < layout[t][2]
                 PROVE  FALSE
      BY DEF Covered
    <3>1. a \in Span(x) /\ a \in Span(t)
      BY <1>2
    <3>2. Span(x) \cap Span(t) = {}
      OBVIOUS
    <3>3. QED
      BY <3>1, <3>2
  <2>3. /\ IsFiniteSet(A) /\ IsFiniteSet(B) /\ Cardinality(A) \in Nat /\ Cardinality(B) \in Nat
    BY <1>4
  <2>4. Cardinality(A) = layout[x][2] - layout[x][1]
    BY <1>5
  <2> HIDE DEF A, B
  <2>5. Cardinality(A \cup B) = Cardinality(A) + Cardinality(B) - Cardinality({})
    BY <2>2, <2>3, FS_Union
  <2>6. Cardinality({}) = 0
    BY FS_EmptySet
  <2>7. QED
    BY <2>1, <2>3, <2>4, <2>5, <2>6 DEF B
<1>7. Cardinality(Covered({})) = 0
  <2>1. Covered({}) = {}
    BY DEF Covered
  <2>2. QED
    BY <2>1, FS_EmptySet
<1> DEFINE C == [s \in SUBSET Segments |-> Cardinality(Covered(s))]
<1>8. Sums(C)
  <2> DEFINE F(s) == IF s = {} THEN 0
                     ELSE LET x == CHOOSE x \in s : TRUE
                          IN ((layout[x][2] + Space - layout[x][1]) % Space) + C[s \ {x}]
  <2>1. ASSUME NEW s \in SUBSET Segments PROVE Cardinality(Covered(s)) = F(s)
    <3>1. CASE s = {}
      BY <1>7, <3>1
    <3>2. CASE s # {}
      <4> DEFINE x == CHOOSE x \in s : TRUE
      <4>1. x \in s /\ F(s) = ((layout[x][2] + Space - layout[x][1]) % Space) + C[s \ {x}]
        BY <3>2
      <4> HIDE DEF x
      <4>2. C[s \ {x}] = Cardinality(Covered(s \ {x}))
        OBVIOUS
      <4> HIDE DEF C, F
      <4>3. QED
        BY <1>3, <1>6, <4>1, <4>2
    <3>3. QED
      BY <3>1, <3>2
  <2>2. C = [s \in SUBSET Segments |-> F(s)]
    BY <2>1
  <2>3. QED
    BY <2>2 DEF Sums
<1>9. (CHOOSE f : Sums(f))[Segments] = C[Segments]
  <2> HIDE DEF C
  <2>1. Sums(CHOOSE f : Sums(f))
    BY <1>8
  <2>2. QED
    BY <1>1, <1>8, <2>1, SumsUnique
<1>10. {a \in 0 .. Space - 1 : Address!is_valid_address(a)} = Covered(Segments)
  BY DEF Covered, Address!is_valid_address
<1>11. Address!Cardinality(Covered(Segments)) = Cardinality(Covered(Segments))
  BY DEF Address!Cardinality, Cardinality
<1>12. QED
  BY <1>9, <1>10, <1>11, TotalSizeFolds

(***************************************************************************)
(* The helpers of the headers compute what they name at every address: for *)
(* pages, a size_t and IDT fields of any power of two, any higher half and *)
(* any segments of a process.                                              *)
(***************************************************************************)
THEOREM AddressHelpersExact == Spec => []AddressesExact
<1>1. AddressInv => AddressesExact
  BY Aligned, HigherHalf, GateHolds, LayoutHolds
     DEF AddressInv, AddressesExact, Address!AddressesExact
<1>2. QED
  BY <1>1, AddressSteps, PTL DEF Spec

-----------------------------------------------------------------------------
(***************************************************************************)
(* Number printers.  What a reader sees is a fold over the digits, with a  *)
(* value for every set of places; Folds says that f gives these values.    *)
(***************************************************************************)
Highest(s) == CHOOSE x \in s : \A y \in s : x >= y

Folds(f, digits, b) ==
    f = [s \in SUBSET (DOMAIN digits) |->
           IF s = {} THEN 0 ELSE f[s \ {Highest(s)}] * b + digits[Highest(s)]]

\* Reads is such a fold.
LEMMA ReadsFolds ==
    ASSUME NEW digits, NEW b
    PROVE  Format!Reads(digits, b) = (CHOOSE f : Folds(f, digits, b))[DOMAIN digits]
  BY DEF Highest, Folds, Format!Reads, Format!FoldLeft, Format!MapThenFoldSet, Format!Max

\* The highest place of a set that has one.
LEMMA HighestIs ==
    ASSUME NEW s, NEW x \in s, \A y \in s : y \in Nat /\ y <= x
    PROVE  Highest(s) = x
<1> DEFINE h == Highest(s)
<1>1. x \in Nat /\ \A y \in s : x >= y
  OBVIOUS
<1>2. h \in s /\ \A y \in s : h >= y
  BY <1>1 DEF Highest
<1> HIDE DEF h
<1>3. h \in Nat /\ h <= x /\ h >= x
  BY <1>2
<1>4. h = x
  BY <1>1, <1>3
<1>5. QED
  BY <1>4 DEF h

\* Places up to n have a highest one.
LEMMA HighestIn ==
    \A n \in Nat : \A s \in SUBSET (1 .. n) : s # {} => Highest(s) \in s
<1> DEFINE T == {n \in Nat : \A s \in SUBSET (1 .. n) : s # {} => Highest(s) \in s}
<1>1. 0 \in T
  <2>1. 1 .. 0 = {}
    OBVIOUS
  <2>2. QED
    BY <2>1
<1>2. ASSUME NEW n \in Nat, n \in T PROVE n + 1 \in T
  <2> SUFFICES ASSUME NEW s \in SUBSET (1 .. n + 1), s # {} PROVE Highest(s) \in s
    OBVIOUS
  <2>1. CASE n + 1 \in s
    <3>1. \A y \in s : y \in Nat /\ y <= n + 1
      OBVIOUS
    <3>2. QED
      BY <2>1, <3>1, HighestIs
  <2>2. CASE n + 1 \notin s
    <3>1. s \in SUBSET (1 .. n)
      BY <2>2
    <3>2. QED
      BY <1>2, <3>1
  <2>3. QED
    BY <2>1, <2>2
<1> HIDE DEF T
<1>3. \A n \in Nat : n \in T
  BY <1>1, <1>2, CountingUp
<1>4. QED
  BY <1>3 DEF T

\* The fold exists: values for the places up to n give those up to n + 1.
LEMMA FoldsExist ==
    ASSUME NEW digits \in Seq(Nat), NEW b \in Nat
    PROVE  \E f : Folds(f, digits, b)
<1> DEFINE Upto(f, n) == f = [s \in SUBSET (1 .. n) |->
             IF s = {} THEN 0 ELSE f[s \ {Highest(s)}] * b + digits[Highest(s)]]
           T == {n \in Nat : \E f : Upto(f, n)}
<1>1. 0 \in T
  <2> DEFINE f == [s \in SUBSET (1 .. 0) |-> 0]
  <2>1. \A s \in SUBSET (1 .. 0) : s = {}
    OBVIOUS
  <2>2. Upto(f, 0)
    BY <2>1
  <2>3. QED
    BY <2>2
<1>2. ASSUME NEW n \in Nat, n \in T PROVE n + 1 \in T
  <2>1. PICK f : Upto(f, n)
    BY <1>2
  <2> DEFINE g == [s \in SUBSET (1 .. n + 1) |->
                     IF n + 1 \in s THEN f[s \ {n + 1}] * b + digits[n + 1] ELSE f[s]]
             F(s) == IF s = {} THEN 0 ELSE g[s \ {Highest(s)}] * b + digits[Highest(s)]
  <2>2. \A s \in SUBSET (1 .. n) : n + 1 \notin s /\ s \in SUBSET (1 .. n + 1)
    OBVIOUS
  <2>3. \A s \in SUBSET (1 .. n) : g[s] = f[s]
    BY <2>2
  <2>4. \A s \in SUBSET (1 .. n + 1) : n + 1 \in s => g[s] = f[s \ {n + 1}] * b + digits[n + 1]
    OBVIOUS
  <2>5. \A s \in SUBSET (1 .. n) :
          f[s] = IF s = {} THEN 0 ELSE f[s \ {Highest(s)}] * b + digits[Highest(s)]
    BY <2>1
  <2>6. g = [s \in SUBSET (1 .. n + 1) |-> g[s]]
    OBVIOUS
  <2> HIDE DEF g
  <2>7. ASSUME NEW s \in SUBSET (1 .. n + 1) PROVE g[s] = F(s)
    <3>1. CASE n + 1 \in s
      <4>1. \A y \in s : y \in Nat /\ y <= n + 1
        OBVIOUS
      <4>2. Highest(s) = n + 1
        BY <3>1, <4>1, HighestIs
      <4>3. s \ {n + 1} \in SUBSET (1 .. n) /\ s # {}
        BY <3>1
      <4>4. g[s \ {n + 1}] = f[s \ {n + 1}]
        BY <2>3, <4>3
      <4>5. QED
        BY <2>4, <3>1, <4>2, <4>3, <4>4
    <3>2. CASE n + 1 \notin s
      <4>1. s \in SUBSET (1 .. n) /\ s \ {Highest(s)} \in SUBSET (1 .. n)
        <5>1. s \in SUBSET (1 .. n)
          BY <3>2
        <5>2. QED
          BY <5>1, Zenon
      <4>2. g[s] = f[s] /\ g[s \ {Highest(s)}] = f[s \ {Highest(s)}]
        BY <2>3, <4>1, Zenon
      <4>3. QED
        BY <2>5, <4>1, <4>2, Zenon
    <3>3. QED
      BY <3>1, <3>2
  <2> HIDE DEF F
  <2>8. g = [s \in SUBSET (1 .. n + 1) |-> F(s)]
    BY <2>6, <2>7
  <2>9. Upto(g, n + 1)
    BY <2>8 DEF F
  <2> HIDE DEF Upto
  <2>10. n + 1 \in Nat
    OBVIOUS
  <2>11. QED
    BY <2>9, <2>10, Zenon
<1> HIDE DEF T
<1>3. \A n \in Nat : n \in T
  BY <1>1, <1>2, CountingUp
<1>4. Len(digits) \in Nat /\ DOMAIN digits = 1 .. Len(digits)
  OBVIOUS
<1>5. QED
  BY <1>3, <1>4 DEF T, Folds

\* The fold goes through the digits from the first to the last.
LEMMA ReadsRun ==
    ASSUME NEW digits \in Seq(Nat), NEW b \in Nat, NEW w, w[0] = 0,
           \A k \in 1 .. Len(digits) : w[k] = w[k - 1] * b + digits[k]
    PROVE  Format!Reads(digits, b) = w[Len(digits)]
<1> DEFINE f == CHOOSE f : Folds(f, digits, b)
           n == Len(digits)
           T == {k \in Nat : k <= n => f[1 .. k] = w[k]}
<1>1. n \in Nat /\ DOMAIN digits = 1 .. n
  OBVIOUS
<1>2. Folds(f, digits, b)
  BY FoldsExist
<1> HIDE DEF f
<1>3. \A s \in SUBSET (1 .. n) :
        f[s] = IF s = {} THEN 0 ELSE f[s \ {Highest(s)}] * b + digits[Highest(s)]
  BY <1>1, <1>2 DEF Folds
<1> HIDE DEF n
<1>4. 0 \in T
  <2>1. 1 .. 0 = {}
    OBVIOUS
  <2>2. f[{}] = 0
    BY <1>3
  <2>3. QED
    BY <2>1, <2>2
<1>5. ASSUME NEW k \in Nat, k \in T PROVE k + 1 \in T
  <2> SUFFICES ASSUME k + 1 <= n PROVE f[1 .. k + 1] = w[k + 1]
    OBVIOUS
  <2> DEFINE s == 1 .. k + 1
  <2>1. /\ s \in SUBSET (1 .. n) /\ s # {} /\ k + 1 \in s
        /\ \A y \in s : y \in Nat /\ y <= k + 1
        /\ s \ {k + 1} = 1 .. k
    <3>1. k + 1 \in s /\ \A y \in s : y \in Nat /\ y <= k + 1
      OBVIOUS
    <3>2. s \in SUBSET (1 .. n)
      BY <1>1
    <3>3. s \ {k + 1} = 1 .. k
      OBVIOUS
    <3>4. QED
      BY <3>1, <3>2, <3>3, Zenon
  <2> HIDE DEF s
  <2>2. Highest(s) = k + 1
    BY <2>1, HighestIs
  <2>3. f[s] = f[1 .. k] * b + digits[k + 1]
    BY <1>3, <2>1, <2>2, Zenon
  <2>4. f[1 .. k] = w[k]
    BY <1>1, <1>5
  <2>5. w[k + 1] = w[k] * b + digits[k + 1]
    <3>1. k + 1 \in 1 .. Len(digits) /\ (k + 1) - 1 = k
      BY <1>1 DEF n
    <3>2. QED
      BY <3>1
  <2>6. QED
    BY <2>3, <2>4, <2>5 DEF s
<1> HIDE DEF T
<1>6. \A k \in Nat : k \in T
  BY <1>4, <1>5, CountingUp
<1>7. f[1 .. n] = w[n]
  BY <1>1, <1>6 DEF T
<1>8. QED
  BY <1>1, <1>7, ReadsFolds DEF f, n

\* A run over the digits exists.
LEMMA RunExists ==
    ASSUME NEW digits \in Seq(Nat), NEW b \in Nat
    PROVE  \E w \in [Nat -> Nat] :
             w[0] = 0 /\ \A k \in 1 .. Len(digits) : w[k] = w[k - 1] * b + digits[k]
<1> DEFINE m == Len(digits)
           Run(w, n) == /\ w \in [Nat -> Nat] /\ w[0] = 0
                        /\ \A k \in 1 .. n : k <= m => w[k] = w[k - 1] * b + digits[k]
           T == {n \in Nat : \E w : Run(w, n)}
<1>1. m \in Nat /\ \A k \in 1 .. m : digits[k] \in Nat
  OBVIOUS
<1> HIDE DEF m
<1>2. 0 \in T
  <2> DEFINE w == [k \in Nat |-> 0]
  <2>1. w \in [Nat -> Nat] /\ w[0] = 0 /\ \A k \in 1 .. 0 : FALSE
    OBVIOUS
  <2> HIDE DEF w
  <2>2. Run(w, 0)
    BY <2>1
  <2>3. QED
    BY <2>2
<1>3. ASSUME NEW n \in Nat, n \in T PROVE n + 1 \in T
  <2>1. PICK w : Run(w, n)
    BY <1>3
  <2> DEFINE x == IF n + 1 <= m THEN w[n] * b + digits[n + 1] ELSE 0
             u == [w EXCEPT ![n + 1] = x]
  <2>2. x \in Nat
    <3>1. w[n] \in Nat
      BY <2>1
    <3>2. n + 1 <= m => digits[n + 1] \in Nat
      BY <1>1
    <3>3. w[n] * b \in Nat
      BY <3>1
    <3>4. QED
      BY <3>2, <3>3
  <2>3. n + 1 <= m => x = w[n] * b + digits[n + 1]
    OBVIOUS
  <2> HIDE DEF x
  <2>4. u \in [Nat -> Nat] /\ u[n + 1] = x /\ \A k \in Nat : k # n + 1 => u[k] = w[k]
    BY <2>1, <2>2
  <2> HIDE DEF u
  <2>5. ASSUME NEW k \in 1 .. n + 1, k <= m PROVE u[k] = u[k - 1] * b + digits[k]
    <3>1. CASE k = n + 1
      <4>1. u[k - 1] = w[n]
        BY <2>4, <3>1
      <4>2. QED
        BY <2>3, <2>4, <2>5, <3>1, <4>1
    <3>2. CASE k # n + 1
      <4>1. k \in 1 .. n /\ k \in Nat /\ k - 1 \in Nat /\ k - 1 # n + 1
        BY <3>2
      <4>2. u[k] = w[k] /\ u[k - 1] = w[k - 1]
        BY <2>4, <3>2, <4>1, Zenon
      <4>3. w[k] = w[k - 1] * b + digits[k]
        BY <2>1, <2>5, <4>1, Zenon
      <4>4. QED
        BY <4>2, <4>3, Zenon
    <3>3. QED
      BY <3>1, <3>2
  <2>6. u[0] = 0
    BY <2>1, <2>4
  <2>7. Run(u, n + 1) /\ n + 1 \in Nat
    BY <2>4, <2>5, <2>6
  <2> HIDE DEF Run
  <2>8. QED
    BY <2>7, Zenon
<1> HIDE DEF T
<1>4. \A n \in Nat : n \in T
  BY <1>2, <1>3, CountingUp
<1>5. PICK w : Run(w, m)
  BY <1>1, <1>4 DEF T
<1>6. \A k \in 1 .. m : k <= m
  BY <1>1
<1>7. QED
  BY <1>5, <1>6, Zenon DEF m

\* One digit more.
LEMMA ReadsAppend ==
    ASSUME NEW s \in Seq(Nat), NEW d \in Nat, NEW b \in Nat
    PROVE  Format!Reads(Append(s, d), b) = Format!Reads(s, b) * b + d
<1> DEFINE n == Len(s)
           t == Append(s, d)
<1>1. n \in Nat /\ t \in Seq(Nat) /\ Len(t) = n + 1 /\ t[n + 1] = d
      /\ \A k \in 1 .. n : t[k] = s[k]
  OBVIOUS
<1>2. PICK w \in [Nat -> Nat] : w[0] = 0 /\ \A k \in 1 .. n : w[k] = w[k - 1] * b + s[k]
  BY RunExists
<1>3. Format!Reads(s, b) = w[n]
  BY <1>2, ReadsRun
<1> DEFINE u == [w EXCEPT ![n + 1] = w[n] * b + d]
<1>4. u[n + 1] = w[n] * b + d /\ \A k \in Nat : k # n + 1 => u[k] = w[k]
  BY <1>1
<1> HIDE DEF u, t, n
<1>5. u[0] = 0
  <2>1. 0 \in Nat /\ 0 # n + 1
    BY <1>1
  <2>2. u[0] = w[0]
    BY <1>4, <2>1, Zenon
  <2>3. QED
    BY <1>2, <2>2, Zenon
<1>6. ASSUME NEW k \in 1 .. Len(t) PROVE u[k] = u[k - 1] * b + t[k]
  <2>1. CASE k = n + 1
    <3>1. u[k - 1] = w[n]
      BY <1>1, <1>4, <2>1
    <3>2. QED
      BY <1>1, <1>4, <2>1, <3>1
  <2>2. CASE k # n + 1
    <3>1. k \in 1 .. n /\ k \in Nat /\ k - 1 \in Nat /\ k - 1 # n + 1
      BY <1>1, <2>2
    <3>2. u[k] = w[k] /\ u[k - 1] = w[k - 1] /\ t[k] = s[k]
      BY <1>1, <1>4, <2>2, <3>1, Zenon
    <3>3. QED
      BY <1>2, <3>1, <3>2, Zenon
  <2>3. QED
    BY <2>1, <2>2
<1>7. Format!Reads(t, b) = u[n + 1]
  <2>1. Format!Reads(t, b) = u[Len(t)]
    BY <1>1, <1>5, <1>6, ReadsRun
  <2>2. QED
    BY <1>1, <2>1
<1>8. QED
  BY <1>3, <1>4, <1>7 DEF t

\* No digits read as 0.
LEMMA ReadsNothing ==
    ASSUME NEW b \in Nat
    PROVE  Format!Reads(<<>>, b) = 0
<1> DEFINE w == [k \in {0} |-> 0]
<1>1. <<>> \in Seq(Nat) /\ Len(<<>>) = 0 /\ w[0] = 0 /\ \A k \in 1 .. 0 : FALSE
  OBVIOUS
<1> HIDE DEF w
<1>2. Format!Reads(<<>>, b) = w[Len(<<>>)]
  BY <1>1, ReadsRun
<1>3. QED
  BY <1>1, <1>2

\* Dividing a number by 10 reaches 0.
LEMMA Tenths ==
    \A n \in Nat : /\ n \div 10 \in Nat /\ n % 10 \in 0 .. 9 /\ n % 10 \in Nat
                   /\ n = (n \div 10) * 10 + (n % 10)
                   /\ n # 0 => n \div 10 < n
                   /\ n # 0 /\ n \div 10 = 0 => n % 10 # 0
<1>1. \A n \in Nat : /\ n \div 10 \in Nat /\ n % 10 \in 0 .. 9
                     /\ n = (n \div 10) * 10 + (n % 10)
  OBVIOUS
<1>2. QED
  BY <1>1

\* Induction with a set along the tenths of a number.
LEMMA TenthsDown ==
    ASSUME NEW T, 0 \in T, \A n \in Nat \ {0} : n \div 10 \in T => n \in T
    PROVE  \A n \in Nat : n \in T
<1> DEFINE U == Nat \ T
<1> SUFFICES ASSUME U # {} PROVE FALSE
  OBVIOUS
<1>1. PICK n \in U : \A k \in U : n <= k
  <2>1. U \subseteq Nat
    OBVIOUS
  <2> HIDE DEF U
  <2> QED
    BY <2>1, LeastNumber
<1>2. n \in Nat \ {0} /\ n \div 10 \in Nat /\ ~(n <= n \div 10)
  BY Tenths
<1>3. n \div 10 \in T
  BY <1>1, <1>2
<1>4. QED
  BY <1>2, <1>3

\* f has the decimal digits of every number up to v, as print_dec fills its buffer.
Decimal(f, v) ==
    f = [n \in 0 .. v |-> IF n = 0 THEN <<>> ELSE Append(f[n \div 10], n % 10)]

\* The same with the last digit first, as print_number fills its buffer.
Backward(f, v) ==
    f = [n \in 0 .. v |-> IF n = 0 THEN <<>> ELSE <<n % 10>> \o f[n \div 10]]

\* The printers print these.
LEMMA PrintersFill ==
    ASSUME NEW v
    PROVE  /\ Format!print_dec(v) = IF v = 0 THEN <<0>> ELSE (CHOOSE f : Decimal(f, v))[v]
           /\ Format!print_number(v) =
                IF v = 0 THEN <<0>> ELSE Format!Reverse((CHOOSE f : Backward(f, v))[v])
<1>1. Format!print_dec(v) = IF v = 0 THEN <<0>> ELSE (CHOOSE f : Decimal(f, v))[v]
  BY DEF Decimal, Format!print_dec
<1>2. Format!print_number(v) =
        IF v = 0 THEN <<0>> ELSE Format!Reverse((CHOOSE f : Backward(f, v))[v])
  BY DEF Backward, Format!print_number
<1>3. QED
  BY <1>1, <1>2

\* The digits exist.
LEMMA DecimalExists == \A v \in Nat : \E f : Decimal(f, v)
<1> DEFINE T == {v \in Nat : \E f : Decimal(f, v)}
<1>1. 0 \in T
  <2> DEFINE f == [n \in 0 .. 0 |-> <<>>]
  <2>1. Decimal(f, 0)
    BY DEF Decimal
  <2>2. QED
    BY <2>1
<1>2. ASSUME NEW v \in Nat, v \in T PROVE v + 1 \in T
  <2>1. PICK f : Decimal(f, v)
    BY <1>2
  <2> DEFINE x == Append(f[(v + 1) \div 10], (v + 1) % 10)
             g == [n \in 0 .. v + 1 |-> IF n = v + 1 THEN x ELSE f[n]]
             G(n) == IF n = 0 THEN <<>> ELSE Append(g[n \div 10], n % 10)
  <2>2. \A n \in 0 .. v : f[n] = IF n = 0 THEN <<>> ELSE Append(f[n \div 10], n % 10)
    BY <2>1 DEF Decimal
  <2>3. v + 1 \in Nat /\ v + 1 # 0 /\ (v + 1) \div 10 \in 0 .. v
    BY Tenths
  <2>4. g[v + 1] = x
    BY <2>3
  <2>5. \A n \in 0 .. v : g[n] = f[n]
    OBVIOUS
  <2>6. g = [n \in 0 .. v + 1 |-> g[n]]
    OBVIOUS
  <2> HIDE DEF g
  <2>7. ASSUME NEW n \in 0 .. v + 1 PROVE g[n] = G(n)
    <3>1. CASE n = v + 1
      <4>1. g[(v + 1) \div 10] = f[(v + 1) \div 10]
        BY <2>3, <2>5, Zenon
      <4>2. QED
        BY <2>3, <2>4, <3>1, <4>1
    <3>2. CASE n # v + 1
      <4>1. n \in 0 .. v /\ n \div 10 \in 0 .. v
        BY <3>2, Tenths
      <4>2. g[n] = f[n] /\ g[n \div 10] = f[n \div 10]
        BY <2>5, <4>1, Zenon
      <4>3. QED
        BY <2>2, <4>1, <4>2, Zenon
    <3>3. QED
      BY <3>1, <3>2
  <2> HIDE DEF G
  <2>8. g = [n \in 0 .. v + 1 |-> G(n)]
    BY <2>6, <2>7
  <2>9. Decimal(g, v + 1)
    BY <2>8 DEF Decimal, G
  <2>10. QED
    BY <2>3, <2>9, Zenon
<1> HIDE DEF T
<1>3. \A v \in Nat : v \in T
  BY <1>1, <1>2, CountingUp
<1>4. QED
  BY <1>3 DEF T

\* They read as the number and have no leading zero.
LEMMA DecimalReads ==
    ASSUME NEW v \in Nat, NEW f, Decimal(f, v)
    PROVE  \A n \in Nat : n <= v =>
             /\ f[n] \in Seq(Nat) /\ Format!Reads(f[n], 10) = n
             /\ n # 0 => Len(f[n]) > 0 /\ f[n][1] # 0
<1> DEFINE Good(n) == /\ f[n] \in Seq(Nat) /\ Format!Reads(f[n], 10) = n
                      /\ n # 0 => Len(f[n]) > 0 /\ f[n][1] # 0
           T == {n \in Nat : n <= v => Good(n)}
<1>1. \A n \in 0 .. v : f[n] = IF n = 0 THEN <<>> ELSE Append(f[n \div 10], n % 10)
  BY DEF Decimal
<1>2. 0 \in T
  <2>1. f[0] = <<>>
    BY <1>1
  <2>2. <<>> \in Seq(Nat) /\ Format!Reads(<<>>, 10) = 0
    BY ReadsNothing
  <2>3. Good(0)
    BY <2>1, <2>2
  <2>4. QED
    BY <2>3
<1>3. ASSUME NEW n \in Nat \ {0}, n \div 10 \in T PROVE n \in T
  <2> SUFFICES ASSUME n <= v PROVE Good(n)
    OBVIOUS
  <2> DEFINE m == n \div 10
             d == n % 10
             s == f[m]
  <2>1. /\ m \in Nat /\ d \in Nat /\ n = m * 10 + d /\ m < n /\ (m = 0 => d # 0)
    BY Tenths
  <2>2. n \in 0 .. v /\ m <= v /\ m \in 0 .. v
    BY <2>1
  <2>3. f[n] = Append(s, d) /\ (m = 0 => s = <<>>)
    BY <1>1, <2>2
  <2>4. Good(m)
    BY <1>3, <2>2
  <2>5. s \in Seq(Nat) /\ Format!Reads(s, 10) = m /\ (m # 0 => Len(s) > 0 /\ s[1] # 0)
    BY <2>4
  <2> HIDE DEF m, d, s
  <2>6. Append(s, d) \in Seq(Nat) /\ Len(Append(s, d)) > 0
    BY <2>1, <2>5
  <2>7. Format!Reads(Append(s, d), 10) = n
    BY <2>1, <2>5, ReadsAppend
  <2>8. Append(s, d)[1] # 0
    <3>1. CASE m = 0
      BY <2>1, <2>3, <3>1
    <3>2. CASE m # 0
      BY <2>1, <2>5, <3>2
    <3>3. QED
      BY <3>1, <3>2
  <2>9. QED
    BY <2>3, <2>6, <2>7, <2>8
<1> HIDE DEF T
<1>4. \A n \in Nat : n \in T
  BY <1>2, <1>3, TenthsDown
<1>5. QED
  BY <1>4 DEF T

\* A digit in front.
LEMMA DigitInFront ==
    ASSUME NEW s \in Seq(Nat), NEW d \in Nat
    PROVE  /\ <<d>> \o s \in Seq(Nat) /\ Len(<<d>> \o s) = Len(s) + 1
           /\ (<<d>> \o s)[1] = d
           /\ \A k \in 2 .. Len(s) + 1 : (<<d>> \o s)[k] = s[k - 1]
<1> DEFINE D == <<d>>
           C == D \o s
<1>1. D \in Seq(Nat) /\ Len(D) = 1 /\ D[1] = d /\ Len(s) \in Nat
  OBVIOUS
<1> HIDE DEF D
<1>2. /\ C \in Seq(Nat) /\ Len(C) = Len(D) + Len(s)
      /\ \A k \in 1 .. Len(D) + Len(s) :
           C[k] = IF k <= Len(D) THEN D[k] ELSE s[k - Len(D)]
  BY <1>1, ConcatProperties, Zenon
<1> HIDE DEF C
<1>3. /\ C \in Seq(Nat) /\ Len(C) = Len(s) + 1 /\ C[1] = d
      /\ \A k \in 2 .. Len(s) + 1 : C[k] = s[k - 1]
  BY <1>1, <1>2
<1>4. QED
  BY <1>3 DEF C, D

\* Reversing turns a digit in front into one at the end, and back.
LEMMA ReverseDigit ==
    ASSUME NEW s \in Seq(Nat), NEW d \in Nat
    PROVE  /\ Format!Reverse(s) \in Seq(Nat)
           /\ Format!Reverse(<<d>> \o s) = Append(Format!Reverse(s), d)
           /\ Format!Reverse(Append(s, d)) = <<d>> \o Format!Reverse(s)
<1> DEFINE n == Len(s)
           r == Format!Reverse(s)
           c == <<d>> \o s
           e == <<d>> \o r
           t == Append(s, d)
<1>1. n \in Nat /\ \A k \in 1 .. n : s[k] \in Nat
  OBVIOUS
<1>2. r = [k \in 1 .. n |-> s[(n - k) + 1]]
  BY DEF Format!Reverse
<1>3. r \in Seq(Nat) /\ Len(r) = n /\ \A k \in 1 .. n : r[k] = s[(n - k) + 1]
  BY <1>1, <1>2
<1> HIDE DEF r
<1>5. /\ c \in Seq(Nat) /\ Len(c) = n + 1
      /\ c[1] = d /\ \A k \in 2 .. n + 1 : c[k] = s[k - 1]
  BY DigitInFront
<1>6. /\ e \in Seq(Nat) /\ Len(e) = n + 1
      /\ e[1] = d /\ \A k \in 2 .. n + 1 : e[k] = r[k - 1]
  <2>1. /\ e \in Seq(Nat) /\ Len(e) = Len(r) + 1
        /\ e[1] = d /\ \A k \in 2 .. Len(r) + 1 : e[k] = r[k - 1]
    <3>1. r \in Seq(Nat)
      BY <1>3
    <3>2. QED
      BY <3>1, DigitInFront
  <2> HIDE DEF e
  <2>2. QED
    BY <1>3, <2>1
<1>7. /\ t \in Seq(Nat) /\ Len(t) = n + 1 /\ t[n + 1] = d
      /\ \A k \in 1 .. n : t[k] = s[k]
  OBVIOUS
<1> DEFINE a == Append(r, d)
<1>8. /\ a \in Seq(Nat) /\ Len(a) = n + 1 /\ a[n + 1] = d
      /\ \A k \in 1 .. n : a[k] = r[k]
  BY <1>1, <1>3
<1> HIDE DEF c, e, t, a
<1>9. Format!Reverse(c) = a
  <2>1. Format!Reverse(c) = [k \in 1 .. n + 1 |-> c[((n + 1) - k) + 1]]
    BY <1>5 DEF Format!Reverse
  <2>2. a = [k \in 1 .. n + 1 |-> a[k]]
    BY <1>1, <1>8
  <2>3. ASSUME NEW k \in 1 .. n + 1 PROVE c[((n + 1) - k) + 1] = a[k]
    <3>1. CASE k = n + 1
      BY <1>1, <1>5, <1>8, <3>1
    <3>2. CASE k \in 1 .. n
      <4>1. ((n + 1) - k) + 1 \in 2 .. n + 1 /\ (((n + 1) - k) + 1) - 1 = (n - k) + 1
        BY <1>1, <3>2
      <4>2. QED
        BY <1>3, <1>5, <1>8, <3>2, <4>1
    <3>3. QED
      BY <1>1, <3>1, <3>2
  <2>4. QED
    BY <2>1, <2>2, <2>3
<1>10. Format!Reverse(t) = e
  <2>1. Format!Reverse(t) = [k \in 1 .. n + 1 |-> t[((n + 1) - k) + 1]]
    BY <1>7 DEF Format!Reverse
  <2>2. e = [k \in 1 .. n + 1 |-> e[k]]
    BY <1>1, <1>6
  <2>3. ASSUME NEW k \in 1 .. n + 1 PROVE t[((n + 1) - k) + 1] = e[k]
    <3>1. CASE k = 1
      BY <1>1, <1>6, <1>7, <3>1
    <3>2. CASE k \in 2 .. n + 1
      <4>1. /\ ((n + 1) - k) + 1 \in 1 .. n /\ k - 1 \in 1 .. n
            /\ (n - (k - 1)) + 1 = ((n + 1) - k) + 1
        BY <1>1, <3>2
      <4>2. QED
        BY <1>3, <1>6, <1>7, <3>2, <4>1
    <3>3. QED
      BY <1>1, <3>1, <3>2
  <2>4. QED
    BY <2>1, <2>2, <2>3
<1>11. QED
  BY <1>3, <1>9, <1>10 DEF c, e, t, a, r

\* print_number's buffer, reversed, is print_dec's.
LEMMA BackwardReversed ==
    ASSUME NEW v \in Nat
    PROVE  /\ \E g : Backward(g, v)
           /\ \A f, g : Decimal(f, v) /\ Backward(g, v) => Format!Reverse(g[v]) = f[v]
<1>1. ASSUME NEW f, Decimal(f, v) PROVE \E g : Backward(g, v)
  <2> DEFINE g == [n \in 0 .. v |-> Format!Reverse(f[n])]
             G(n) == IF n = 0 THEN <<>> ELSE <<n % 10>> \o g[n \div 10]
  <2>1. \A n \in 0 .. v : f[n] = IF n = 0 THEN <<>> ELSE Append(f[n \div 10], n % 10)
    BY <1>1 DEF Decimal
  <2>2. \A n \in 0 .. v : g[n] = Format!Reverse(f[n])
    OBVIOUS
  <2>3. g = [n \in 0 .. v |-> g[n]]
    OBVIOUS
  <2> HIDE DEF g
  <2>4. ASSUME NEW n \in 0 .. v PROVE g[n] = G(n)
    <3>1. CASE n = 0
      <4>1. f[n] = <<>>
        BY <2>1, <3>1
      <4>2. Format!Reverse(<<>>) = <<>>
        BY DEF Format!Reverse
      <4>3. QED
        BY <2>2, <3>1, <4>1, <4>2
    <3>2. CASE n # 0
      <4> DEFINE m == n \div 10
                 d == n % 10
      <4>1. m \in 0 .. v /\ m \in Nat /\ m <= v /\ d \in Nat
        BY <3>2, Tenths
      <4>2. f[n] = Append(f[m], d)
        BY <2>1, <3>2
      <4>3. g[n] = Format!Reverse(f[n]) /\ g[m] = Format!Reverse(f[m])
        BY <2>2, <4>1, Zenon
      <4>4. f[m] \in Seq(Nat)
        BY <1>1, <4>1, DecimalReads
      <4> HIDE DEF m, d
      <4>5. Format!Reverse(Append(f[m], d)) = <<d>> \o Format!Reverse(f[m])
        BY <4>1, <4>4, ReverseDigit
      <4>6. g[n] = <<d>> \o g[m]
        BY <4>2, <4>3, <4>5, Zenon
      <4>7. QED
        BY <3>2, <4>6 DEF m, d
    <3>3. QED
      BY <3>1, <3>2
  <2> HIDE DEF G
  <2>5. g = [n \in 0 .. v |-> G(n)]
    BY <2>3, <2>4
  <2>6. Backward(g, v)
    BY <2>5 DEF Backward, G
  <2>7. QED
    BY <2>6
<1>2. ASSUME NEW f, NEW g, Decimal(f, v), Backward(g, v)
      PROVE  Format!Reverse(g[v]) = f[v]
  <2> DEFINE Good(n) == g[n] \in Seq(Nat) /\ Format!Reverse(g[n]) = f[n]
             T == {n \in Nat : n <= v => Good(n)}
  <2>1. /\ \A n \in 0 .. v : f[n] = IF n = 0 THEN <<>> ELSE Append(f[n \div 10], n % 10)
        /\ \A n \in 0 .. v : g[n] = IF n = 0 THEN <<>> ELSE <<n % 10>> \o g[n \div 10]
    BY <1>2 DEF Decimal, Backward
  <2>2. 0 \in T
    <3>1. f[0] = <<>> /\ g[0] = <<>>
      <4>1. 0 \in 0 .. v
        OBVIOUS
      <4>2. QED
        BY <2>1, <4>1, Zenon
    <3>2. Format!Reverse(<<>>) = <<>> /\ <<>> \in Seq(Nat)
      BY DEF Format!Reverse
    <3>3. Good(0)
      BY <3>1, <3>2
    <3>4. QED
      BY <3>3
  <2>3. ASSUME NEW n \in Nat \ {0}, n \div 10 \in T PROVE n \in T
    <3> SUFFICES ASSUME n <= v PROVE Good(n)
      OBVIOUS
    <3> DEFINE m == n \div 10
               d == n % 10
    <3>1. m \in 0 .. v /\ m <= v /\ d \in Nat /\ n \in 0 .. v
      BY Tenths
    <3>2. f[n] = Append(f[m], d) /\ g[n] = <<d>> \o g[m]
      BY <2>1, <3>1
    <3>3. Good(m)
      BY <2>3, <3>1
    <3> HIDE DEF m, d
    <3>4. g[m] \in Seq(Nat) /\ Format!Reverse(g[m]) = f[m]
      BY <3>3
    <3>5. Format!Reverse(<<d>> \o g[m]) = Append(Format!Reverse(g[m]), d)
      BY <3>1, <3>4, ReverseDigit
    <3>6. <<d>> \o g[m] \in Seq(Nat)
      <4>1. <<d>> \in Seq(Nat)
        BY <3>1
      <4>2. QED
        BY <3>4, <4>1, ConcatProperties, Zenon
    <3>7. Format!Reverse(g[n]) = f[n] /\ g[n] \in Seq(Nat)
      BY <3>2, <3>4, <3>5, <3>6, Zenon
    <3>8. QED
      BY <3>7
  <2> HIDE DEF T
  <2>4. \A n \in Nat : n \in T
    BY <2>2, <2>3, TenthsDown
  <2>5. v \in T
    BY <2>4
  <2>6. QED
    BY <2>5 DEF T
<1>3. QED
  BY <1>1, <1>2, DecimalExists

\* What the two decimal printers print.
LEMMA DecimalPrinted ==
    ASSUME NEW v \in Nat, NEW p, p \in {Format!print_dec(v), Format!print_number(v)}
    PROVE  Format!Reads(p, 10) = v /\ (Len(p) > 1 => p[1] # 0)
<1>1. CASE v = 0
  <2>1. p = <<0>>
    BY <1>1, PrintersFill
  <2>2. Append(<<>>, 0) = <<0>> /\ <<>> \in Seq(Nat)
    OBVIOUS
  <2>3. Format!Reads(Append(<<>>, 0), 10) = Format!Reads(<<>>, 10) * 10 + 0
    BY <2>2, ReadsAppend
  <2>4. Format!Reads(<<0>>, 10) = 0
    BY <2>2, <2>3, ReadsNothing
  <2>5. Len(<<0>>) = 1
    OBVIOUS
  <2>6. QED
    BY <1>1, <2>1, <2>4, <2>5
<1>2. CASE v # 0
  <2> DEFINE f == CHOOSE f : Decimal(f, v)
             g == CHOOSE g : Backward(g, v)
  <2>1. Decimal(f, v) /\ Backward(g, v)
    BY DecimalExists, BackwardReversed
  <2>2. Format!print_dec(v) = f[v] /\ Format!print_number(v) = Format!Reverse(g[v])
    BY <1>2, PrintersFill
  <2> HIDE DEF f, g
  <2>3. p = f[v]
    BY <2>1, <2>2, BackwardReversed
  <2>4. v <= v
    OBVIOUS
  <2>5. Format!Reads(f[v], 10) = v /\ f[v][1] # 0
    BY <1>2, <2>1, <2>4, DecimalReads
  <2>6. QED
    BY <2>3, <2>5
<1>3. QED
  BY <1>1, <1>2

\* The places of hexadecimal digits count 1, 16, 16 * 16 and so on.
LEMMA Weights ==
    /\ Nibbles \in Nat /\ Format!Weight[0] = 1
    /\ \A n \in 0 .. Nibbles : Format!Weight[n] \in Nat \ {0}
    /\ \A n \in 1 .. Nibbles : Format!Weight[n] = 16 * Format!Weight[n - 1]
<1> DEFINE Eq(f, m) == f = [n \in 0 .. m |-> IF n = 0 THEN 1 ELSE 16 * f[n - 1]]
           T == {m \in Nat : \E f : Eq(f, m)}
<1>1. Nibbles \in Nat
  BY PartsAssumption DEF Format!FormatAssumption
<1>2. 0 \in T
  <2> DEFINE f == [n \in 0 .. 0 |-> 1]
  <2>1. Eq(f, 0)
    OBVIOUS
  <2>2. QED
    BY <2>1
<1>3. ASSUME NEW m \in Nat, m \in T PROVE m + 1 \in T
  <2>1. PICK f : Eq(f, m)
    BY <1>3
  <2> DEFINE g == [n \in 0 .. m + 1 |-> IF n = m + 1 THEN 16 * f[m] ELSE f[n]]
             G(n) == IF n = 0 THEN 1 ELSE 16 * g[n - 1]
  <2>2. \A n \in 0 .. m : f[n] = IF n = 0 THEN 1 ELSE 16 * f[n - 1]
    BY <2>1
  <2>3. g[m + 1] = 16 * f[m] /\ \A n \in 0 .. m : g[n] = f[n]
    OBVIOUS
  <2>4. g = [n \in 0 .. m + 1 |-> g[n]]
    OBVIOUS
  <2> HIDE DEF g
  <2>5. ASSUME NEW n \in 0 .. m + 1 PROVE g[n] = G(n)
    <3>1. CASE n = m + 1
      <4>1. n - 1 = m /\ n # 0 /\ m \in 0 .. m
        BY <3>1
      <4>2. QED
        BY <2>3, <3>1, <4>1
    <3>2. CASE n # m + 1
      <4>1. n \in 0 .. m /\ (n # 0 => n - 1 \in 0 .. m)
        BY <3>2
      <4>2. QED
        BY <2>2, <2>3, <4>1, Zenon
    <3>3. QED
      BY <3>1, <3>2
  <2> HIDE DEF G
  <2>6. g = [n \in 0 .. m + 1 |-> G(n)]
    BY <2>4, <2>5
  <2>7. Eq(g, m + 1) /\ m + 1 \in Nat
    BY <2>6 DEF G
  <2> HIDE DEF Eq
  <2>8. QED
    BY <2>7, Zenon
<1> HIDE DEF T
<1>4. \A m \in Nat : m \in T
  BY <1>2, <1>3, CountingUp
<1>5. \E f : Eq(f, Nibbles)
  BY <1>1, <1>4 DEF T
<1> DEFINE W == Format!Weight
<1>6. W = CHOOSE f : Eq(f, Nibbles)
  BY DEF Format!Weight
<1>7. Eq(W, Nibbles)
  <2> HIDE DEF Eq, W
  <2> QED
    BY <1>5, <1>6
<1> HIDE DEF W
<1>8. \A n \in 0 .. Nibbles : W[n] = IF n = 0 THEN 1 ELSE 16 * W[n - 1]
  BY <1>7
<1> DEFINE P == {n \in Nat : n <= Nibbles => W[n] \in Nat \ {0}}
<1>9. 0 \in P
  BY <1>1, <1>8
<1>10. ASSUME NEW n \in Nat, n \in P PROVE n + 1 \in P
  <2> SUFFICES ASSUME n + 1 <= Nibbles PROVE W[n + 1] \in Nat \ {0}
    OBVIOUS
  <2>1. n + 1 \in 0 .. Nibbles /\ n + 1 # 0 /\ (n + 1) - 1 = n /\ n <= Nibbles
    BY <1>1
  <2>2. W[n + 1] = 16 * W[n]
    BY <1>8, <2>1
  <2>3. W[n] \in Nat \ {0}
    BY <1>10, <2>1
  <2>4. QED
    BY <2>2, <2>3
<1> HIDE DEF P
<1>11. \A n \in Nat : n \in P
  BY <1>9, <1>10, CountingUp
<1>12. \A n \in 0 .. Nibbles : W[n] \in Nat \ {0}
  BY <1>1, <1>11 DEF P
<1>13. W[0] = 1 /\ \A n \in 1 .. Nibbles : W[n] = 16 * W[n - 1]
  BY <1>1, <1>8
<1>14. QED
  BY <1>1, <1>12, <1>13 DEF W

\* print_hex, read from right to left.
LEMMA HexPrinted ==
    ASSUME NEW v \in 0 .. MaxValue
    PROVE  Format!Reads(Format!Reverse(Format!print_hex(v)), 16) = v
<1> DEFINE N == Nibbles
           W == Format!Weight
           h == Format!print_hex(v)
           r == Format!Reverse(h)
           w == [k \in 0 .. N |-> v \div W[N - k]]
<1>1. N \in Nat /\ v \in Nat /\ v < W[N] /\ MaxValue \in Nat
  BY PartsAssumption, Weights DEF Format!FormatAssumption
<1>2. /\ W[0] = 1 /\ \A n \in 0 .. N : W[n] \in Nat \ {0}
      /\ \A n \in 1 .. N : W[n] = 16 * W[n - 1]
  BY Weights
<1>3. h = [k \in 1 .. N |-> (v \div W[k - 1]) % 16]
  BY DEF Format!print_hex
<1> HIDE DEF N, W
<1>4. \A n \in 0 .. N : v \div W[n] \in Nat
  BY <1>1, <1>2
<1>5. /\ h \in Seq(Nat) /\ Len(h) = N
      /\ \A k \in 1 .. N : h[k] = (v \div W[k - 1]) % 16 /\ h[k] \in Nat
  <2>1. ASSUME NEW k \in 1 .. N PROVE (v \div W[k - 1]) % 16 \in Nat
    <3>1. k - 1 \in 0 .. N
      BY <1>1
    <3>2. v \div W[k - 1] \in Nat
      BY <1>4, <3>1
    <3>3. QED
      BY <3>2
  <2> HIDE DEF h
  <2>2. QED
    BY <1>1, <1>3, <2>1
<1> HIDE DEF h
<1>6. r \in Seq(Nat) /\ Len(r) = N /\ \A k \in 1 .. N : r[k] = h[(N - k) + 1]
  <2>1. r = [k \in 1 .. N |-> h[(N - k) + 1]]
    BY <1>5 DEF Format!Reverse
  <2>2. \A k \in 1 .. N : h[(N - k) + 1] \in Nat
    BY <1>1, <1>5
  <2> HIDE DEF r
  <2>3. QED
    BY <1>1, <2>1, <2>2
<1> HIDE DEF r
<1>7. \A k \in 0 .. N : w[k] = v \div W[N - k]
  OBVIOUS
<1> HIDE DEF w
<1>8. w[0] = 0
  <2> DEFINE a == W[N]
  <2>1. w[0] = v \div a /\ a \in Nat \ {0}
    <3>1. 0 \in 0 .. N /\ N - 0 = N /\ N \in 0 .. N
      BY <1>1
    <3>2. QED
      BY <1>2, <1>7, <3>1
  <2>2. v \in 0 .. a - 1 /\ 0 \in Nat /\ 0 * a + v = v
    BY <1>1, <2>1
  <2> HIDE DEF a
  <2>3. (0 * a + v) \div a = 0
    BY <2>1, <2>2, QuotientRemainder
  <2>4. QED
    BY <2>1, <2>2, <2>3
<1>9. ASSUME NEW k \in 1 .. N PROVE w[k] = w[k - 1] * 16 + r[k]
  <2> DEFINE n == N - k
             a == W[n]
             q == v \div a
             o == v % a
             x == q \div 16
             y == q % 16
  <2>1. /\ n \in 0 .. N /\ n + 1 \in 1 .. N /\ k \in 0 .. N /\ k - 1 \in 0 .. N
        /\ N - (k - 1) = n + 1 /\ (n + 1) - 1 = n /\ (N - k) + 1 = n + 1
        /\ (N - k) + 1 \in 1 .. N
    BY <1>1
  <2> HIDE DEF n
  <2>2. a \in Nat \ {0} /\ W[n + 1] = 16 * a
    BY <1>2, <2>1
  <2>3. w[k] = q
    BY <1>7, <2>1 DEF n
  <2>4. w[k - 1] = v \div (16 * a)
    BY <1>7, <2>1, <2>2
  <2>5. r[k] = y
    <3>1. r[k] = h[n + 1]
      BY <1>6, <2>1
    <3>2. h[n + 1] = (v \div W[n]) % 16
      BY <1>5, <2>1
    <3>3. QED
      BY <3>1, <3>2
  <2> HIDE DEF a
  <2>6. q \in Nat /\ o \in 0 .. a - 1 /\ v = a * q + o
    BY <1>1, <2>2
  <2> HIDE DEF q, o
  <2>7. x \in Nat /\ y \in 0 .. 15 /\ q = 16 * x + y
    BY <2>6
  <2> HIDE DEF x, y
  <2>8. /\ a * y \in Nat /\ a * y + o \in 0 .. 16 * a - 1
        /\ v = x * (16 * a) + (a * y + o)
    <3>1. a * y \in Nat /\ a * y <= a * 15 /\ a * 15 = 15 * a
      BY <2>2, <2>7
    <3>2. a * q = x * (16 * a) + a * y /\ x * (16 * a) \in Nat
      BY <2>2, <2>6, <2>7
    <3>3. QED
      BY <2>2, <2>6, <3>1, <3>2
  <2>9. v \div (16 * a) = x
    <3>1. 16 * a \in Nat \ {0}
      BY <2>2
    <3>2. QED
      BY <2>7, <2>8, <3>1, QuotientRemainder
  <2>10. QED
    BY <2>3, <2>4, <2>5, <2>7, <2>9
<1>10. w[N] = v
  <2>1. N \in 0 .. N /\ N - N = 0 /\ v \div 1 = v
    BY <1>1
  <2>2. QED
    BY <1>2, <1>7, <2>1
<1>11. Format!Reads(r, 16) = w[Len(r)]
  BY <1>6, <1>8, <1>9, ReadsRun
<1>12. QED
  BY <1>6, <1>10, <1>11 DEF r, h

\* What has been printed, and with which function.
FormatInv ==
    part = "format" =>
        /\ value \in 0 .. MaxValue
        /\ \/ printed = <<>>
           \/ base = 10 /\ printed \in {Format!print_dec(value), Format!print_number(value)}
           \/ base = 16 /\ printed = Format!print_hex(value)

(***************************************************************************)
(* What the printers of both kernels put on the screen reads as the number *)
(* they were given, the decimal ones without leading zeros and print_hex   *)
(* from right to left, for every number and every width of a word.         *)
(***************************************************************************)
THEOREM PrintedReadsBack == Spec => []ReadsBack
<1>1. Init => FormatInv
  BY DEF Init, FormatInv, Format!Init
<1>2. FormatInv /\ [Next]_vars => FormatInv'
  <2> SUFFICES ASSUME FormatInv, [Next]_vars PROVE FormatInv'
    OBVIOUS
  <2>1. [Format!Next]_(Format!vars) /\ part' = part
    BY PartSteps
  <2>2. QED
    BY <2>1 DEF FormatInv, Format!Next, Format!PrintDec, Format!PrintNumber,
       Format!PrintHex, Format!Emit, Format!vars
<1>3. FormatInv => ReadsBack
  <2> SUFFICES ASSUME FormatInv, part = "format", printed # <<>> PROVE Format!ReadsBack
    BY DEF ReadsBack, Format!ReadsBack
  <2>1. value \in 0 .. MaxValue /\ value \in Nat
    BY DEF FormatInv
  <2>2. CASE base = 10 /\ printed \in {Format!print_dec(value), Format!print_number(value)}
    <3>1. Format!Reads(printed, 10) = value /\ (Len(printed) > 1 => printed[1] # 0)
      BY <2>1, <2>2, DecimalPrinted
    <3>2. QED
      BY <2>2, <3>1 DEF Format!ReadsBack
  <2>3. CASE base = 16 /\ printed = Format!print_hex(value)
    <3>1. Format!Reads(Format!Reverse(printed), 16) = value
      BY <2>1, <2>3, HexPrinted
    <3>2. QED
      BY <2>3, <3>1 DEF Format!ReadsBack
  <2>4. QED
    BY <2>2, <2>3 DEF FormatInv
<1>4. QED
  BY <1>1, <1>2, <1>3, PTL DEF Spec
=============================================================================
