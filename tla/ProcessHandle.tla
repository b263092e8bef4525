--------------------------- MODULE ProcessHandle ---------------------------
(***************************************************************************)
(* The RAII class ProcessHandle of include/process.h: handles that own a   *)
(* process or only name it, and that are moved, released, reset and        *)
(* destroyed in any order.  The destructor does nothing ("Cleanup will be  *)
(* handled by ProcessManager"), so ownership is a claim that a handle      *)
(* carries.  Nothing checks whether another handle already has it: the     *)
(* constructor and reset make an owner of whatever they are told.          *)
(***************************************************************************)
EXTENDS Naturals, FiniteSets

CONSTANTS Places,       \* places in memory where a handle may live
          Pids,         \* processes of the process manager
          INVALID_PID

ProcessHandleAssumption ==
    /\ IsFiniteSet(Places)
    /\ INVALID_PID \notin Pids

VARIABLES exists,         \* handles whose lifetime has begun and not ended
          pid_,
          owns_process_,
          claims          \* ghost: claims to each process that callers made
                          \* and that were not given up since

vars == <<exists, pid_, owns_process_, claims>>

Init ==
    /\ exists = {}
    /\ pid_ = [h \in Places |-> INVALID_PID]
    /\ owns_process_ = [h \in Places |-> FALSE]
    /\ claims = [p \in Pids |-> 0]

\* What the destructor would have to clean up.
OwnedBy(h) == {p \in Pids : h \in exists /\ owns_process_[h] /\ pid_[h] = p}

\* A caller gives up the claims to lost and makes those to won.
Settle(lost, won) ==
    claims' = [p \in Pids |-> (IF p \in won THEN 1 ELSE 0) + claims[p]
                                - (IF p \in lost THEN 1 ELSE 0)]

\* ProcessHandle(pid, owns).
Construct(h, p, owns) ==
    /\ h \notin exists
    /\ exists' = exists \cup {h}
    /\ pid_' = [pid_ EXCEPT ![h] = p]
    /\ owns_process_' = [owns_process_ EXCEPT ![h] = owns]
    /\ Settle({}, IF owns THEN {p} ELSE {})

Destroy(h) ==
    /\ h \in exists
    /\ exists' = exists \ {h}
    /\ Settle(OwnedBy(h), {})
    /\ UNCHANGED <<pid_, owns_process_>>

-----------------------------------------------------------------------------
\* Mutant: the handle moved from keeps its ownership flag and its pid.
TakeOverCopies(h, other) ==
    /\ pid_' = [pid_ EXCEPT ![h] = pid_[other]]
    /\ owns_process_' = [owns_process_ EXCEPT ![h] = owns_process_[other]]

\* What both moves do: h names and owns what other did, other nothing.
TakeOver(h, other) ==
    /\ pid_' = [pid_ EXCEPT ![h] = pid_[other], ![other] = INVALID_PID]
    /\ owns_process_' = [owns_process_ EXCEPT ![h] = owns_process_[other], ![other] = FALSE]

MoveConstruct(h, other) ==
    /\ h \notin exists /\ other \in exists
    /\ exists' = exists \cup {h}
    /\ TakeOver(h, other)
    /\ UNCHANGED claims

\* operator=, this = &other included: nothing happens then.  The process that
\* h owned is overwritten, and with it the claim.
MoveAssign(h, other) ==
    /\ h \in exists /\ other \in exists
    /\ IF h = other THEN UNCHANGED vars
       ELSE TakeOver(h, other) /\ Settle(OwnedBy(h), {}) /\ UNCHANGED exists

\* release keeps pid_: the handle still names the process.
Release(h) ==
    /\ h \in exists
    /\ owns_process_' = [owns_process_ EXCEPT ![h] = FALSE]
    /\ Settle(OwnedBy(h), {})
    /\ UNCHANGED <<exists, pid_>>

\* reset always makes the handle an owner, of INVALID_PID by default.
Reset(h, p) ==
    /\ h \in exists
    /\ pid_' = [pid_ EXCEPT ![h] = p]
    /\ owns_process_' = [owns_process_ EXCEPT ![h] = TRUE]
    /\ Settle(OwnedBy(h), {p})
    /\ UNCHANGED exists

Next ==
    \E h \in Places :
        \/ \E p \in Pids, owns \in BOOLEAN : Construct(h, p, owns)
        \/ \E other \in Places : MoveConstruct(h, other) \/ MoveAssign(h, other)
        \/ \E p \in Pids \cup {INVALID_PID} : Reset(h, p)
        \/ Release(h) \/ Destroy(h)

Spec == Init /\ [][Next]_vars

-----------------------------------------------------------------------------
TypeOK ==
    /\ exists \in SUBSET Places
    /\ pid_ \in [Places -> Pids \cup {INVALID_PID}]
    /\ owns_process_ \in [Places -> BOOLEAN]
    /\ claims \in [Pids -> Nat]

OwnersOf(p) == {h \in Places : p \in OwnedBy(h)}

(***************************************************************************)
(* Ownership is conserved: a process has as many owning handles as callers *)
(* have made claims to it and not given up by release, reset, assignment   *)
(* or destruction.  No sequence of moves, of owning and of mere naming     *)
(* handles, adds an owner or loses one.                                    *)
(***************************************************************************)
ProcessesOwned == \A p \in Pids : Cardinality(OwnersOf(p)) = claims[p]

(***************************************************************************)
(* "Process handle with RAII", "Move-only semantics": a process has one    *)
(* owner at most.  Violated: a second owning handle can be constructed     *)
(* for the same pid, and reset owns whatever pid it is given.              *)
(***************************************************************************)
SingleOwner ==
    \A p \in Pids, g, h \in Places : {g, h} \subseteq OwnersOf(p) => g = h
=============================================================================
