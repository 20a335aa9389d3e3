-------------------------- MODULE MCTemporalContext --------------------------
(* HotBounds for three questions about the hot state: the cache alone on two    *)
(* names, the goroutine that prunes it, and the daemon's hook calls that      *)
(* publish observations in it.                                                *)
EXTENDS TemporalContext

CONSTANTS k1, k2, c1, c2

MCKeyBytes == [k \in Key |-> IF k = k1 THEN 1 ELSE 2]

MCBefore == [k \in Key |-> IF k = k1 THEN {} ELSE {k1}]

HotLimit(entriesLimit, valueLimit, bytesLimit, interval) ==
    [entries |-> entriesLimit, valueBytes |-> valueLimit, bytes |-> bytesLimit,
     interval |-> interval]

\* Room for both names, for one entry only, and for no entry under k2.
CacheLimits == {HotLimit(2, 1, 5, 0), HotLimit(1, 2, 4, 0), HotLimit(2, 1, 1, 0)}

\* The same entry under intervals that start, stop and replace the loop.
LoopLimits == {HotLimit(1, 1, 2, i) : i \in 0 .. 2}

\* A temporal and a public name that compete for the only entry, or do not.
ContextLimits == {HotLimit(1, 2, 4, 0), HotLimit(2, 1, 5, 0)}

MCLimits == CacheLimits \cup LoopLimits \cup ContextLimits

HotBounds == [cache |-> CacheLimits, loop |-> LoopLimits, context |-> ContextLimits]

contextVars == <<runtime, call, source, latest>>
=============================================================================
