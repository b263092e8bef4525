--------------------------- MODULE CacheStatistics ---------------------------
(***************************************************************************)
(* cache_hit_ratio of FileSystemStatistics in include/filesystem.h, which  *)
(* loads the atomics cache_hits, cache_misses and cache_hits again while   *)
(* the cache (declared and not defined) counts: no lock makes the three    *)
(* loads one.                                                              *)
(***************************************************************************)
EXTENDS Naturals

CONSTANT MaxLookups   \* bound on the lookups the cache counts

CacheAssumption == MaxLookups \in Nat

VARIABLES
    cache_hits, cache_misses,
    loads,    \* the loads of the running cache_hit_ratio that are done
    total,    \* its local variable, after two loads hits + misses
    ratio,    \* the hits it divides by total; 0 stands for the answer 0.0
    missed    \* ghost: hits counted since it began

statistics == <<cache_hits, cache_misses>>
vars == <<cache_hits, cache_misses, loads, total, ratio, missed>>

Init ==
    /\ cache_hits = 0 /\ cache_misses = 0
    /\ loads = 0 /\ total = 0 /\ ratio = 0 /\ missed = 0

\* A lookup of the cache: fetch_add of one of the counters.
Lookup(hit) ==
    /\ cache_hits + cache_misses < MaxLookups
    /\ IF hit THEN cache_hits' = cache_hits + 1 /\ UNCHANGED cache_misses
              ELSE cache_misses' = cache_misses + 1 /\ UNCHANGED cache_hits
    /\ missed' = IF hit /\ loads > 0 THEN missed + 1 ELSE missed
    /\ UNCHANGED <<loads, total, ratio>>

LoadHits ==
    /\ loads \in {0, 3}
    /\ total' = cache_hits /\ loads' = 1
    /\ ratio' = 0 /\ missed' = 0
    /\ UNCHANGED statistics

LoadMisses ==
    /\ loads = 1
    /\ total' = total + cache_misses /\ loads' = 2
    /\ UNCHANGED <<cache_hits, cache_misses, ratio, missed>>

\* total > 0 ? hits / total : 0.0
Divide ==
    /\ loads = 2
    /\ ratio' = (IF total > 0 THEN cache_hits ELSE 0) /\ loads' = 3
    /\ UNCHANGED <<cache_hits, cache_misses, total, missed>>

Next == (\E hit \in BOOLEAN : Lookup(hit)) \/ LoadHits \/ LoadMisses \/ Divide

Spec == Init /\ [][Next]_vars

-----------------------------------------------------------------------------
(***************************************************************************)
(* cache_hit_ratio never divides by zero, and is above 1 by no more than   *)
(* the hits counted while it ran: a quiet cache gets a ratio of at most 1. *)
(***************************************************************************)
RatioSound ==
    loads = 3 => /\ ratio > 0 => total > 0
                 /\ ratio <= total + missed
=============================================================================
