----------------------------- MODULE Ownership -----------------------------
(***************************************************************************)
(* What a manager of resources promises, whatever it manages: a resource   *)
(* is free or has one holder, it is taken only while it is free, it comes  *)
(* back when its holder drops it, and it may pass from one holder to       *)
(* another.  The page allocator and the RAII handles of files implement    *)
(* it; each names its resources and its holders in its refinement mapping. *)
(***************************************************************************)
CONSTANTS Resources, Holders

VARIABLES free,   \* the resources nobody holds
          held    \* what each holder holds

vars == <<free, held>>

Init ==
    /\ free = Resources
    /\ held = [h \in Holders |-> {}]

\* h takes a free resource and, in the same step, may drop what it had.
Take(h) ==
    \E r \in free, dropped \in SUBSET held[h] :
        /\ held' = [held EXCEPT ![h] = (@ \ dropped) \cup {r}]
        /\ free' = (free \ {r}) \cup dropped

Drop(h) ==
    \E dropped \in SUBSET held[h] :
        /\ held' = [held EXCEPT ![h] = @ \ dropped]
        /\ free' = free \cup dropped

\* h takes over all that g holds; what h held before comes back.
Hand(g, h) ==
    /\ g # h
    /\ held' = [held EXCEPT ![h] = held[g], ![g] = {}]
    /\ free' = free \cup held[h]

Next ==
    \E h \in Holders : Take(h) \/ Drop(h) \/ \E g \in Holders : Hand(g, h)

Spec == Init /\ [][Next]_vars

-----------------------------------------------------------------------------
TypeOK ==
    /\ free \in SUBSET Resources
    /\ held \in [Holders -> SUBSET Resources]

(***************************************************************************)
(* A resource is free or has exactly one holder: none is shared and none   *)
(* is lost, for every manager that implements this specification.          *)
(***************************************************************************)
Partition ==
    /\ \A g, h \in Holders : g # h => held[g] \cap held[h] = {}
    /\ \A h \in Holders : held[h] \cap free = {}
    /\ \A r \in Resources : r \in free \/ \E h \in Holders : r \in held[h]
=============================================================================
