------------------------------ MODULE HotCache ------------------------------
(***************************************************************************)
(* The daemon's in-memory cache (internal/hotkv): entries with optional    *)
(* expiry, bounded in number and in bytes, some of which are temporal: they*)
(* hold the newest observation of a conversation and are ordered by the    *)
(* receipt of the hook event that made it.  Every operation holds the cache*)
(* lock, so it is one step; only the goroutine that prunes expired entries *)
(* and the callers that stop it interleave.                                *)
(*                                                                         *)
(*   entries            the map; an absent key has the entry NoEntry       *)
(*   usedBytes          bytes of namespaces, keys and values retained      *)
(*   highestRegistered  the newest hook event the cache has heard of       *)
(*   discardedBefore    the removal fence: events up to it came too late   *)
(*   options, closed    limits, and whether Close was called               *)
(*   now                the monotonic clock                                *)
(*   stopPrune          the channel that stops the current prune loop      *)
(*   loop, closers      per channel: its goroutine, and the callers that   *)
(*                      have left the lock and are about to close it       *)
(*   offered            history: per key, the newest event that Observe was*)
(*                      called for while its assignment was current        *)
(*                                                                         *)
(* A value is its length, and namespace and key are one name with a length.*)
(* Version and creation time, which nothing in the cache reads, are left   *)
(* out.                                                                    *)
(***************************************************************************)
EXTENDS Integers, FiniteSets, FiniteSetsExt

CONSTANTS
    Key,         \* namespace and key
    KeyBytes,    \* KeyBytes[k]: bytes of namespace and key
    Before,      \* Before[k]: the keys sorted before k
    Size,        \* lengths of values
    Generation,  \* successive assignments of the current audit file
    ReceiptID,   \* receipts within one assignment
    TTL,         \* time to live asked for; 0 is none
    Limits,      \* the option records Configure is called with, normalized
    MaxTime,     \* bound on the clock
    MaxLoops     \* bound on prune channels

ASSUME CacheAssumption ==
    /\ IsFiniteSet(Key)
    /\ KeyBytes \in [Key -> Nat]
    /\ Before \in [Key -> SUBSET Key]
    /\ Size \subseteq Nat
    /\ Generation \subseteq Nat /\ ReceiptID \subseteq Nat
    /\ TTL \subseteq Nat
    /\ Limits \subseteq [entries : Nat \ {0}, valueBytes : Nat \ {0},
                         bytes : Nat \ {0}, interval : Nat]
    /\ MaxTime \in Nat /\ MaxLoops \in Nat \ {0}

VARIABLES entries, usedBytes, highestRegistered, discardedBefore, options,
          closed, now, stopPrune, loop, closers, offered

memory == <<entries, usedBytes, discardedBefore>>
pruner == <<stopPrune, loop, closers>>
cacheVars == <<memory, highestRegistered, options, closed, now, pruner, offered>>

-----------------------------------------------------------------------------
Order == [gen : Nat, receipt : Nat]

NoOrder == [gen |-> 0, receipt |-> 0]

Entry == [state : {"absent", "value", "unavailable"},
          size : Nat,
          order : Order,
          updated : Nat,
          expires : Nat]

NoEntry == [state |-> "absent", size |-> 0, order |-> NoOrder, updated |-> 0,
            expires |-> 0]

newerThan(a, b) ==
    IF a.gen # b.gen THEN a.gen > b.gen ELSE a.receipt > b.receipt

Present(k) == entries[k].state # "absent"

isExpired(k) == Present(k) /\ entries[k].expires # 0 /\ entries[k].expires <= now

\* What entryLocked finds.
Live(k) == Present(k) /\ ~isExpired(k)

Temporal(k) == Present(k) /\ entries[k].order.receipt > 0

\* What Observation returns a value for.
Readable(k) == Live(k) /\ Temporal(k) /\ entries[k].state = "value"

Charge(k) == KeyBytes[k] + entries[k].size

ChargeOf(D) == MapThenSumSet(Charge, D)

-----------------------------------------------------------------------------
(* Removal and eviction.                                                   *)

Expired == {k \in Key : isExpired(k)}

Oversized(limit) == {k \in Key : Present(k) /\ entries[k].size > limit.valueBytes}

\* Slip: an eviction does not fence late observations.
FenceUnmoved(D, highest) == discardedBefore

\* removeLocked: losing a temporal entry moves the fence.
FenceAfter(D, highest) ==
    IF \E k \in D : Temporal(k) THEN highest ELSE discardedBefore

\* On every key of D, but for the fence.
removeLocked(D) ==
    /\ entries' = [k \in Key |-> IF k \in D THEN NoEntry ELSE entries[k]]
    /\ usedBytes' = usedBytes - ChargeOf(D \cap {k \in Key : Present(k)})

\* evictionKeysLocked: by update time, then by name.
Older(j, k) ==
    \/ entries[j].updated < entries[k].updated
    \/ entries[j].updated = entries[k].updated /\ j \in Before[k]

\* Do all but D, and a further charge, stay within the limits?
Within(limit, D, newEntries, freed, charge) ==
    LET rest == {k \in Key : Present(k)} \ D
    IN  /\ Cardinality(rest) + newEntries <= limit.entries
        /\ usedBytes - ChargeOf({k \in Key : Present(k)} \cap D) - freed
              <= limit.bytes - charge

\* D and the oldest candidates, as many as it takes.
Evict(limit, candidates, D, newEntries, freed, charge) ==
    D \cup {k \in candidates :
              ~Within(limit, D \cup {j \in candidates : Older(j, k)},
                      newEntries, freed, charge)}

fits(k, size) == KeyBytes[k] + size <= options.bytes

\* prepareWriteLocked, given that the entry fits: what it removes.
MakeRoom(k, size) ==
    Evict(options, {j \in Key : Present(j)} \ (Expired \cup {k}), Expired,
          IF Live(k) THEN 0 ELSE 1,
          IF Live(k) THEN Charge(k) ELSE 0,
          KeyBytes[k] + size)

\* Slip: the bytes of the value that is replaced stay charged.
WriteOnTop(k, D, entry) ==
    /\ entries' = [j \in Key |-> IF j = k THEN entry
                                 ELSE IF j \in D THEN NoEntry ELSE entries[j]]
    /\ usedBytes' = usedBytes - ChargeOf(D \cap {j \in Key : Present(j)})
                      + KeyBytes[k] + entry.size

\* writeLocked after room was made by removing D.
Write(k, D, entry) ==
    /\ entries' = [j \in Key |-> IF j = k THEN entry
                                 ELSE IF j \in D THEN NoEntry ELSE entries[j]]
    /\ usedBytes' = usedBytes - ChargeOf(D \cap {j \in Key : Present(j)})
                      - (IF Live(k) THEN Charge(k) ELSE 0)
                      + KeyBytes[k] + entry.size

-----------------------------------------------------------------------------
(* Operations.                                                             *)

\* Get, GetBounded, Exists, PTTL, Observation: an expired entry is removed.
Get(k) ==
    /\ isExpired(k)
    /\ removeLocked({k})
    /\ discardedBefore' = FenceAfter({k}, highestRegistered)
    /\ UNCHANGED <<highestRegistered, options, closed, now, pruner, offered>>

\* Delete, GetDelete, GetDeleteBounded within its budget, Expire to now.
Delete(k) ==
    /\ Present(k)
    /\ removeLocked({k})
    /\ discardedBefore' = FenceAfter({k}, highestRegistered)
    /\ UNCHANGED <<highestRegistered, options, closed, now, pruner, offered>>

plainEntry(size, ttl) ==
    [state |-> "value", size |-> size, order |-> NoOrder, updated |-> now,
     expires |-> IF ttl > 0 THEN now + ttl ELSE 0]

\* A value that may be stored; the fence moves if it replaces an observation.
Set(k, size, mode, ttl) ==
    LET D == MakeRoom(k, size)
    IN  /\ size <= options.valueBytes
        /\ mode = "NX" => ~Live(k)
        /\ mode = "XX" => Live(k)
        /\ fits(k, size)
        /\ Write(k, D, plainEntry(size, ttl))
        /\ discardedBefore' = FenceAfter(D \cup {k}, highestRegistered)
        /\ UNCHANGED <<highestRegistered, options, closed, now, pruner, offered>>

\* Set is refused after the lookup: the wrong mode, or no capacity.
SetRefused(k, size, mode) ==
    /\ size <= options.valueBytes
    /\ \/ mode = "XX"
       \/ ~fits(k, size)
    /\ isExpired(k)
    /\ removeLocked({k})
    /\ discardedBefore' = FenceAfter({k}, highestRegistered)
    /\ UNCHANGED <<highestRegistered, options, closed, now, pruner, offered>>

\* Expire with a positive time to live; an expired entry is removed instead.
Expire(k, ttl) ==
    /\ Live(k)
    /\ ttl > 0
    /\ entries' = [entries EXCEPT ![k] =
                     [state |-> @.state, size |-> @.size, order |-> @.order,
                      updated |-> now, expires |-> now + ttl]]
    /\ UNCHANGED <<usedBytes, discardedBefore, highestRegistered, options, closed,
                   now, pruner, offered>>

\* PruneExpired and ListBounded.
PruneExpired ==
    /\ Expired # {}
    /\ removeLocked(Expired)
    /\ discardedBefore' = FenceAfter(Expired, highestRegistered)
    /\ UNCHANGED <<highestRegistered, options, closed, now, pruner, offered>>

registered(order) ==
    IF newerThan(order, highestRegistered) THEN order ELSE highestRegistered

\* Receipt zero announces a new assignment.
RegisterObservation(order) ==
    /\ highestRegistered' = registered(order)
    /\ UNCHANGED <<memory, options, closed, now, pruner, offered>>

\* Observe: the assignment is retired, the event comes too late, the cache is
\* too small, or the observation is stored, as a marker if it is too large.
Observe(k, order, size) ==
    LET highest   == registered(order)
        gone      == {k} \cap Expired
        newest    == IF Live(k) /\ Temporal(k) THEN entries[k].order
                                               ELSE FenceAfter(gone, highest)
        available == size <= options.valueBytes /\ fits(k, size)
        kept      == IF available THEN size ELSE 0
        D         == MakeRoom(k, kept)
    IN  /\ order.receipt > 0
        /\ highestRegistered' = highest
        /\ \/ /\ order.gen < highest.gen
              /\ UNCHANGED memory
           \/ /\ order.gen = highest.gen
              /\ ~newerThan(order, newest)
              /\ removeLocked(gone)
              /\ discardedBefore' = FenceAfter(gone, highest)
           \/ /\ order.gen = highest.gen
              /\ newerThan(order, newest)
              /\ ~fits(k, kept)
              /\ removeLocked({k})
              /\ discardedBefore' = highest
           \/ /\ order.gen = highest.gen
              /\ newerThan(order, newest)
              /\ fits(k, kept)
              /\ Write(k, D, [state |-> IF available THEN "value" ELSE "unavailable",
                              size |-> kept, order |-> order, updated |-> now,
                              expires |-> 0])
              /\ discardedBefore' = FenceAfter(D, highest)
        /\ offered' = [offered EXCEPT ![k] =
                         IF order.gen = highest.gen /\ newerThan(order, @)
                         THEN order ELSE @]
        /\ UNCHANGED <<options, closed, now, pruner>>

-----------------------------------------------------------------------------
(* Limits, shutdown, the prune loop.                                       *)

\* Take the current channel, to be closed after the lock is released.
TakeStop == closers' = [closers EXCEPT ![stopPrune] = @ + 1]

\* pruneOversizedLocked and enforceMaxEntriesLocked: what new limits remove.
Enforced(limit) ==
    LET gone == Oversized(limit) \cup Expired
    IN  Evict(limit, {k \in Key : Present(k)} \ gone, gone, 0, 0, 0)

\* A new interval gets a new channel and loop; the caller closes the old
\* channel once it has left the lock.
ReplaceLoop(limit) ==
    IF limit.interval # options.interval
    THEN /\ stopPrune < MaxLoops
         /\ IF options.interval > 0 THEN TakeStop ELSE UNCHANGED closers
         /\ stopPrune' = stopPrune + 1
         /\ loop' = [loop EXCEPT ![stopPrune + 1] =
                        IF limit.interval > 0 THEN "running" ELSE "ended"]
    ELSE UNCHANGED pruner

\* The limits are enforced at once.
Configure(limit) ==
    /\ ~closed
    /\ options' = limit
    /\ removeLocked(Enforced(limit))
    /\ discardedBefore' = FenceAfter(Enforced(limit), highestRegistered)
    /\ ReplaceLoop(limit)
    /\ UNCHANGED <<highestRegistered, closed, now, offered>>

\* Slip: a second Close is not noticed.
CloseAgain ==
    /\ closed' = TRUE
    /\ IF options.interval > 0 THEN TakeStop ELSE UNCHANGED closers
    /\ UNCHANGED <<memory, highestRegistered, options, now, stopPrune, loop, offered>>

Close ==
    /\ ~closed
    /\ closed' = TRUE
    /\ IF options.interval > 0 THEN TakeStop ELSE UNCHANGED closers
    /\ UNCHANGED <<memory, highestRegistered, options, now, stopPrune, loop, offered>>

\* The caller of Configure or Close closes the channel it took.
CloseStop(c) ==
    /\ closers[c] > 0
    /\ loop[c] = "running"
    /\ loop' = [loop EXCEPT ![c] = "stopping"]
    /\ UNCHANGED <<memory, highestRegistered, options, closed, now, stopPrune,
                   closers, offered>>

\* The ticker fires in a loop that has not yet seen its channel closed.
PruneTick(c) ==
    /\ loop[c] \in {"running", "stopping"}
    /\ removeLocked(Expired)
    /\ discardedBefore' = FenceAfter(Expired, highestRegistered)
    /\ UNCHANGED <<highestRegistered, options, closed, now, pruner, offered>>

\* The loop returns, and with it the caller that waits for it.
LoopEnds(c) ==
    /\ loop[c] = "stopping"
    /\ loop' = [loop EXCEPT ![c] = "ended"]
    /\ closers' = [closers EXCEPT ![c] = @ - 1]
    /\ UNCHANGED <<memory, highestRegistered, options, closed, now, stopPrune,
                   offered>>

HotTick ==
    /\ now < MaxTime
    /\ now' = now + 1
    /\ UNCHANGED <<memory, highestRegistered, options, closed, pruner, offered>>

-----------------------------------------------------------------------------
CacheInit ==
    /\ entries = [k \in Key |-> NoEntry]
    /\ usedBytes = 0
    /\ highestRegistered = NoOrder
    /\ discardedBefore = NoOrder
    /\ options \in Limits
    /\ closed = FALSE
    /\ now = 1
    /\ stopPrune = 1
    /\ loop = [c \in 1 .. MaxLoops |->
                 IF c > 1 THEN "none"
                 ELSE IF options.interval > 0 THEN "running" ELSE "ended"]
    /\ closers = [c \in 1 .. MaxLoops |-> 0]
    /\ offered = [k \in Key |-> NoOrder]

KeyNext(k) ==
    \/ Get(k)
    \/ Delete(k)
    \/ \E ttl \in TTL : Expire(k, ttl)
    \/ \E size \in Size, mode \in {"any", "NX", "XX"} :
         \/ \E ttl \in TTL : Set(k, size, mode, ttl)
         \/ SetRefused(k, size, mode)

\* Everything but the observations, whose orders come from hook events.
PlainNext ==
    \/ \E k \in Key : KeyNext(k)
    \/ PruneExpired
    \/ \E limit \in Limits : Configure(limit)
    \/ Close
    \/ \E c \in 1 .. MaxLoops : CloseStop(c) \/ PruneTick(c) \/ LoopEnds(c)
    \/ HotTick

CacheNext ==
    \/ PlainNext
    \/ \E gen \in Generation, receipt \in ReceiptID \cup {0} :
         \/ RegisterObservation([gen |-> gen, receipt |-> receipt])
         \/ \E k \in Key, size \in Size :
              Observe(k, [gen |-> gen, receipt |-> receipt], size)

CacheSpec == CacheInit /\ [][CacheNext]_cacheVars

-----------------------------------------------------------------------------
(* Properties.                                                             *)

\* Every part of the cache has its type; a loop belongs to a channel made.
CacheTypeOK ==
    /\ entries \in [Key -> Entry]
    /\ usedBytes \in Int
    /\ highestRegistered \in Order
    /\ discardedBefore \in Order
    /\ options \in Limits
    /\ closed \in BOOLEAN
    /\ now \in Nat
    /\ stopPrune \in 1 .. MaxLoops
    /\ loop \in [1 .. MaxLoops -> {"none", "running", "stopping", "ended"}]
    /\ closers \in [1 .. MaxLoops -> Nat]
    /\ offered \in [Key -> Order]

\* The byte counter that admission relies on never drifts from what the map
\* really retains, through overwrites, expiry, eviction and new limits.
BytesAccounted == usedBytes = ChargeOf({k \in Key : Present(k)})

\* The cache is within its limits after every operation, also right after
\* Configure lowered them.
WithinLimits ==
    /\ Cardinality({k \in Key : Present(k)}) <= options.entries
    /\ usedBytes <= options.bytes
    /\ \A k \in Key : Present(k) => entries[k].size <= options.valueBytes

\* A rule never reads an observation older than one that was already made for
\* the conversation, whether that one was stored, was too large, was evicted,
\* expired, overwritten, deleted or found no room: it reads nothing instead.
NoStaleObservation ==
    \A k \in Key : Readable(k) => ~newerThan(offered[k], entries[k].order)

\* No channel is closed by two callers (closing one twice panics), although
\* Configure and Close pick it up in the lock and close it outside.
StopClosedOnce ==
    \A c \in 1 .. MaxLoops :
        /\ closers[c] <= 1
        /\ closers[c] = 1 => loop[c] \in {"running", "stopping"}

\* Of the loops nobody is about to stop exactly the current one runs, and none
\* once the cache is closed.
OneLoop ==
    {c \in 1 .. MaxLoops : loop[c] = "running" /\ closers[c] = 0} =
        IF ~closed /\ options.interval > 0 THEN {stopPrune} ELSE {}

\* The bookkeeping of the cache: counters that admission relies on, limits,
\* and one pruning goroutine, through any order of writes, Configure and Close.
CacheInOrder ==
    CacheTypeOK /\ BytesAccounted /\ WithinLimits /\ StopClosedOnce /\ OneLoop
=============================================================================
