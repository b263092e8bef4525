--------------------------- MODULE ProcessObject ---------------------------
(***************************************************************************)
(* class Process of include/process.h as a monitor: set_state, add_child,  *)
(* wait_for_state_change, set_exit_code and exit_code, called by several   *)
(* threads.  std::mutex and std::condition_variable are external: wait     *)
(* gives the mutex back and sleeps in one step, may wake without being     *)
(* notified (MaxSpurious bounds how often), and takes the mutex again      *)
(* before it looks at its predicate.                                       *)
(*                                                                         *)
(* The header has no caller of these functions in the repository; the      *)
(* threads here use it the way it is offered: one thread sets the exit     *)
(* code, then the final state; others change the state of a process they   *)
(* found alive, and set_state does not look whether it still is; waiters   *)
(* wait for is_terminated and then read exit_code, which no mutex guards.  *)
(***************************************************************************)
EXTENDS Naturals

CONSTANTS Waiters,      \* threads that wait for the process to terminate
          Setters,      \* threads that change the state of a live process
          Terminator,   \* the thread that ends the process
          Nobody,       \* no thread
          MaxSets,      \* bound on the calls of the setters
          MaxSpurious   \* bound on spurious wake-ups

Threads == Waiters \cup Setters \cup {Terminator}

ASSUME ThreadAssumption ==
    /\ Waiters \cap Setters = {}
    /\ Terminator \notin Waiters \cup Setters
    /\ Nobody \notin Threads
    /\ MaxSets \in Nat /\ MaxSpurious \in Nat

Living == {"Ready", "Running"}

VARIABLES
    state_,
    exit_code_,   \* whether the optional has a value
    mutex_,       \* the thread that holds it
    sleeping,     \* threads inside state_changed_.wait
    pc,
    arg,          \* the state given to the set_state a thread is in
    seen,         \* whether a waiter's exit_code() had a value
    sets,
    spurious,
    children_,    \* the size of the vector
    slot,         \* the size a push_back under way has read
    added         \* ghost: calls of add_child that stored their child

childVars == <<children_, slot, added>>
vars == <<state_, exit_code_, mutex_, sleeping, pc, arg, seen, sets, spurious, childVars>>

Init ==
    /\ state_ = "Created"
    /\ exit_code_ = FALSE
    /\ mutex_ = Nobody
    /\ sleeping = {}
    /\ pc = [t \in Threads |-> "idle"]
    /\ arg = [t \in Threads |-> "Created"]
    /\ seen = [w \in Waiters |-> FALSE]
    /\ sets = 0
    /\ spurious = 0
    /\ children_ = 0 /\ added = 0
    /\ slot = [t \in Setters |-> 0]

is_terminated == state_ \in {"Zombie", "Terminated"}

Go(t, next) == pc' = [pc EXCEPT ![t] = next]

-----------------------------------------------------------------------------
\* The callers of set_state.
CallSetState(t, s) ==
    /\ t \in Setters /\ pc[t] = "idle" /\ sets < MaxSets
    /\ ~is_terminated
    /\ arg' = [arg EXCEPT ![t] = s]
    /\ sets' = sets + 1
    /\ Go(t, "lock")
    /\ UNCHANGED <<state_, exit_code_, mutex_, sleeping, seen, spurious, childVars>>

CallAddChild(t) ==
    /\ t \in Setters /\ pc[t] = "idle" /\ sets < MaxSets
    /\ arg' = [arg EXCEPT ![t] = "child"]
    /\ sets' = sets + 1
    /\ Go(t, "lock")
    /\ UNCHANGED <<state_, exit_code_, mutex_, sleeping, seen, spurious, childVars>>

SetExitCode ==
    /\ pc[Terminator] = "idle"
    /\ exit_code_' = TRUE
    /\ arg' = [arg EXCEPT ![Terminator] = "Zombie"]
    /\ Go(Terminator, "lock")
    /\ UNCHANGED <<state_, mutex_, sleeping, seen, sets, spurious, childVars>>

\* Mutant: the lock_guard is missing.
LockNot(t) ==
    /\ pc[t] = "lock"
    /\ Go(t, "store")
    /\ UNCHANGED <<state_, exit_code_, mutex_, sleeping, arg, seen, sets, spurious, childVars>>

\* set_state: lock_guard, store, notify_all, unlock at the end of its scope.
Lock(t) ==
    /\ pc[t] = "lock" /\ mutex_ = Nobody
    /\ mutex_' = t
    /\ Go(t, "store")
    /\ UNCHANGED <<state_, exit_code_, sleeping, arg, seen, sets, spurious, childVars>>

Store(t) ==
    /\ pc[t] = "store" /\ arg[t] # "child"
    /\ state_' = arg[t]
    /\ Go(t, "notify")
    /\ UNCHANGED <<exit_code_, mutex_, sleeping, arg, seen, sets, spurious, childVars>>

\* Mutant: notify_one.
NotifyOne(t) ==
    /\ pc[t] = "notify"
    /\ sleeping' = IF sleeping = {} THEN {} ELSE sleeping \ {CHOOSE w \in sleeping : TRUE}
    /\ Go(t, "unlock")
    /\ UNCHANGED <<state_, exit_code_, mutex_, arg, seen, sets, spurious, childVars>>

NotifyAll(t) ==
    /\ pc[t] = "notify"
    /\ sleeping' = {}
    /\ Go(t, "unlock")
    /\ UNCHANGED <<state_, exit_code_, mutex_, arg, seen, sets, spurious, childVars>>

Unlock(t) ==
    /\ pc[t] = "unlock"
    /\ mutex_' = Nobody
    /\ Go(t, IF t = Terminator THEN "done" ELSE "idle")
    /\ UNCHANGED <<state_, exit_code_, sleeping, arg, seen, sets, spurious, childVars>>

\* add_child under its lock: push_back reads the size, stores behind it, grows.
ReadSize(t) ==
    /\ pc[t] = "store" /\ arg[t] = "child"
    /\ slot' = [slot EXCEPT ![t] = children_]
    /\ Go(t, "push")
    /\ UNCHANGED <<state_, exit_code_, mutex_, sleeping, arg, seen, sets, spurious, children_, added>>

PushBack(t) ==
    /\ pc[t] = "push"
    /\ children_' = slot[t] + 1
    /\ added' = added + 1
    /\ Go(t, "unlock")
    /\ UNCHANGED <<state_, exit_code_, mutex_, sleeping, arg, seen, sets, spurious, slot>>

-----------------------------------------------------------------------------
\* wait_for_state_change: unique_lock, then wait until the predicate holds.
EnterWait(w) ==
    /\ w \in Waiters /\ pc[w] = "idle" /\ mutex_ = Nobody
    /\ mutex_' = w
    /\ Go(w, "check")
    /\ UNCHANGED <<state_, exit_code_, sleeping, arg, seen, sets, spurious, childVars>>

\* Mutant: a wake-up is taken for a change; the predicate is not looked at again.
CheckOnce(w) ==
    /\ pc[w] \in {"check", "recheck"}
    /\ mutex_' = Nobody
    /\ IF is_terminated \/ pc[w] = "recheck"
         THEN Go(w, "returned") /\ UNCHANGED sleeping
         ELSE Go(w, "asleep") /\ sleeping' = sleeping \cup {w}
    /\ UNCHANGED <<state_, exit_code_, arg, seen, sets, spurious, childVars>>

\* while (!pred()) wait(lock): the lock is given back either way.
Check(w) ==
    /\ pc[w] \in {"check", "recheck"}
    /\ mutex_' = Nobody
    /\ IF is_terminated
         THEN Go(w, "returned") /\ UNCHANGED sleeping
         ELSE Go(w, "asleep") /\ sleeping' = sleeping \cup {w}
    /\ UNCHANGED <<state_, exit_code_, arg, seen, sets, spurious, childVars>>

SpuriousWakeUp(w) ==
    /\ w \in sleeping /\ spurious < MaxSpurious
    /\ sleeping' = sleeping \ {w}
    /\ spurious' = spurious + 1
    /\ UNCHANGED <<state_, exit_code_, mutex_, pc, arg, seen, sets, childVars>>

Relock(w) ==
    /\ pc[w] = "asleep" /\ w \notin sleeping /\ mutex_ = Nobody
    /\ mutex_' = w
    /\ Go(w, "recheck")
    /\ UNCHANGED <<state_, exit_code_, sleeping, arg, seen, sets, spurious, childVars>>

\* The waiter reads exit_code() after wait_for_state_change has returned.
ReadExitCode(w) ==
    /\ pc[w] = "returned"
    /\ seen' = [seen EXCEPT ![w] = exit_code_]
    /\ Go(w, "done")
    /\ UNCHANGED <<state_, exit_code_, mutex_, sleeping, arg, sets, spurious, childVars>>

SetStep(t)  == Lock(t) \/ Store(t) \/ NotifyAll(t) \/ ReadSize(t) \/ PushBack(t) \/ Unlock(t)
WaitStep(w) == EnterWait(w) \/ Check(w) \/ Relock(w) \/ ReadExitCode(w)

Next ==
    \/ \E t \in Setters, s \in Living : CallSetState(t, s)
    \/ \E t \in Setters : CallAddChild(t)
    \/ SetExitCode
    \/ \E t \in Setters \cup {Terminator} : SetStep(t)
    \/ \E w \in Waiters : WaitStep(w) \/ SpuriousWakeUp(w)

\* Threads inside these functions are scheduled; nobody has to call set_state.
Spec == /\ Init /\ [][Next]_vars
        /\ WF_vars(SetExitCode)
        /\ \A t \in Setters \cup {Terminator} : WF_vars(SetStep(t))
        /\ \A w \in Waiters : WF_vars(WaitStep(w))

-----------------------------------------------------------------------------
TypeOK ==
    /\ state_ \in Living \cup {"Created", "Zombie"}
    /\ exit_code_ \in BOOLEAN
    /\ mutex_ \in Threads \cup {Nobody}
    /\ sleeping \in SUBSET Waiters
    /\ pc \in [Threads -> {"idle", "lock", "store", "notify", "unlock", "check",
                           "recheck", "asleep", "returned", "done", "push"}]
    /\ arg \in [Threads -> Living \cup {"Created", "Zombie", "child"}]
    /\ seen \in [Waiters -> BOOLEAN]
    /\ sets \in 0 .. MaxSets /\ spurious \in 0 .. MaxSpurious
    /\ children_ \in Nat /\ added \in Nat
    /\ slot \in [Setters -> Nat]

(***************************************************************************)
(* No wake-up is lost: if the process stays terminated, every thread in    *)
(* wait_for_state_change returns, whether it came before or after          *)
(* set_state and whatever woke it in between.                              *)
(***************************************************************************)
NoLostWakeUp ==
    \A w \in Waiters : <>[]is_terminated => <>(pc[w] = "done")

(***************************************************************************)
(* A waiter that came back from wait_for_state_change finds the exit code, *)
(* although set_exit_code and exit_code take no lock: the mutex that       *)
(* set_state and the wait share orders them.                               *)
(***************************************************************************)
ExitCodeSeen == \A w \in Waiters : pc[w] = "done" => seen[w]

(***************************************************************************)
(* At most one thread is between the lock and the unlock of the process's  *)
(* mutex, and a sleeping waiter is not one of them.                        *)
(***************************************************************************)
MonitorExcludes ==
    \A t \in Threads :
        pc[t] \in {"store", "push", "notify", "unlock", "check", "recheck"} <=> mutex_ = t

(***************************************************************************)
(* No child is lost: children_ has one element for every add_child that    *)
(* stored one, although another add_child or a set_state may begin between *)
(* any two of its steps.                                                   *)
(***************************************************************************)
ChildrenKept == children_ = added
=============================================================================
