-------------------------- MODULE ExceptionHandler --------------------------
(***************************************************************************)
(* class ExceptionHandler of include/interrupt.h: handle runs on several   *)
(* processors, or again on top of itself when the handler faults, while    *)
(* other code enables, disables and reads the counter.  enabled_ and       *)
(* count_ are atomics and no lock ties them together: every load, store    *)
(* and fetch_add is a step of its own.                                     *)
(***************************************************************************)
EXTENDS Naturals, FiniteSets

CONSTANTS Activations,   \* calls of handle that may be under way together
          MaxCount       \* bound on the exceptions counted

ExceptionHandlerAssumption == IsFiniteSet(Activations) /\ MaxCount \in Nat

VARIABLES
    enabled_,
    count_,
    at,       \* where each activation of handle is
    calls,    \* ghost: calls of handler_ so far
    late      \* ghost: activations that found enabled_ set before the last disable

vars == <<enabled_, count_, at, calls, late>>

Init ==
    /\ enabled_ = TRUE
    /\ count_ = 0
    /\ at = [a \in Activations |-> "idle"]
    /\ calls = 0
    /\ late = {}

Go(a, next) == at' = [at EXCEPT ![a] = next]

\* enabled_.load() && handler_: a disabled handler returns at once.
Load(a) ==
    /\ at[a] = "idle" /\ enabled_ /\ count_ + Cardinality(Activations) <= MaxCount
    /\ Go(a, "add")
    /\ UNCHANGED <<enabled_, count_, calls, late>>

\* Mutant: count_ is loaded and stored, and another activation may come between.
FetchAddTorn(a) ==
    /\ at[a] = "add"
    /\ count_' \in IF \E b \in Activations \ {a} : at[b] = "add"
                    THEN {count_, count_ + 1} ELSE {count_ + 1}
    /\ Go(a, "call")
    /\ UNCHANGED <<enabled_, calls, late>>

FetchAdd(a) ==
    /\ at[a] = "add"
    /\ count_' = count_ + 1
    /\ Go(a, "call")
    /\ UNCHANGED <<enabled_, calls, late>>

Call(a) ==
    /\ at[a] = "call"
    /\ calls' = calls + 1
    /\ Go(a, "idle")
    /\ late' = late \ {a}
    /\ UNCHANGED <<enabled_, count_>>

Enable ==
    /\ enabled_' = TRUE
    /\ UNCHANGED <<count_, at, calls, late>>

Disable ==
    /\ enabled_' = FALSE
    /\ late' = {a \in Activations : at[a] # "idle"}
    /\ UNCHANGED <<count_, at, calls>>

Next == \/ \E a \in Activations : Load(a) \/ FetchAdd(a) \/ Call(a)
        \/ Enable \/ Disable

Spec == Init /\ [][Next]_vars

-----------------------------------------------------------------------------
Counted == {a \in Activations : at[a] = "call"}

(***************************************************************************)
(* count() is the calls of the handler and the ones about to happen, under *)
(* every interleaving; and the handler of a disabled exception still runs  *)
(* only for activations that had looked at enabled_ before the disable.    *)
(***************************************************************************)
CountExact ==
    /\ count_ = calls + Cardinality(Counted)
    /\ ~enabled_ => \A a \in Activations : at[a] # "idle" => a \in late
=============================================================================
