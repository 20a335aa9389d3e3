------------------------ MODULE TemporalContextProofs ------------------------
(***************************************************************************)
(* No stale observation is ever readable, for every set of keys, values,   *)
(* limits and orders; and a rule never reads a stale prompt or response of *)
(* the conversation, for every set of calls and keys and however many      *)
(* files follow each other.                                                *)
(*                                                                         *)
(* The first half is about the cache alone.  What makes it inductive is    *)
(* FenceInv: each key is protected up to the newest event offered for it,  *)
(* by the order of its temporal entry while it has one and by the removal  *)
(* fence otherwise.  The second half adds that these orders are the true   *)
(* order of the events: receipts start again in every file, but the        *)
(* generation that tells the files apart moves only while no call is in    *)
(* flight.                                                                 *)
(***************************************************************************)
EXTENDS TemporalContext, TLAPS

\* What the argument needs of the types.
FenceType ==
    /\ entries \in [Key -> Entry]
    /\ highestRegistered \in Order
    /\ discardedBefore \in Order
    /\ offered \in [Key -> Order]
    /\ now \in Nat

FenceInv ==
    /\ ~newerThan(discardedBefore, highestRegistered)
    /\ \A k \in Key : ~newerThan(offered[k], highestRegistered)
    /\ \A k \in Key : Temporal(k) => ~newerThan(entries[k].order, highestRegistered)
    /\ \A k \in Key : Temporal(k) => ~newerThan(offered[k], entries[k].order)
    /\ \A k \in Key : ~Temporal(k) => ~newerThan(offered[k], discardedBefore)

CInv == FenceType /\ FenceInv

-----------------------------------------------------------------------------
\* Orders are compared by generation, then by receipt: a total order.
LEMMA NewerTotal ==
    ASSUME NEW a \in Order, NEW b \in Order, NEW c \in Order
    PROVE  /\ ~newerThan(a, a)
           /\ newerThan(a, b) => ~newerThan(b, a)
           /\ ~newerThan(a, b) /\ ~newerThan(b, c) => ~newerThan(a, c)
           /\ ~newerThan(a, NoOrder) => ~newerThan(a, b)
  BY DEF newerThan, Order, NoOrder

\* The empty entry and the empty order have their types.
LEMMA NoEntryType ==
    /\ NoOrder \in Order
    /\ NoEntry \in Entry
    /\ NoEntry.state = "absent"
  BY DEF NoOrder, NoEntry, Order, Entry

\* Removing entries with the fence moved as removeLocked moves it.
LEMMA RemoveStep ==
    ASSUME CInv, NEW D, NEW highest \in Order,
           ~newerThan(highestRegistered, highest),
           highestRegistered' = highest,
           entries' = [k \in Key |-> IF k \in D THEN NoEntry ELSE entries[k]],
           \/ discardedBefore' = FenceAfter(D, highest)
           \/ discardedBefore' = highest,
           now' \in Nat,
           offered' \in [Key -> Order],
           \A k \in Key :
               \/ offered'[k] = offered[k]
               \/ /\ ~newerThan(offered'[k], highest)
                  /\ Temporal(k)' => ~newerThan(offered'[k], entries'[k].order)
                  /\ ~Temporal(k)' => ~newerThan(offered'[k], discardedBefore')
    PROVE  CInv'
<1> USE DEF CInv
<1>1. FenceType'
  BY NoEntryType DEF FenceType, FenceAfter
<1>2. ASSUME NEW k \in Key
      PROVE  IF k \in D THEN entries'[k] = NoEntry /\ ~Temporal(k)'
             ELSE entries'[k] = entries[k] /\ Temporal(k)' = Temporal(k)
  BY NoEntryType DEF Temporal, Present
<1>3. ~newerThan(discardedBefore', highest) /\ ~newerThan(discardedBefore, discardedBefore')
  BY NewerTotal DEF FenceInv, FenceType, FenceAfter
<1>4. ASSUME NEW k \in Key
      PROVE  ~newerThan(offered[k], highest) /\ ~newerThan(offered'[k], highest)
  <2>1. ~newerThan(offered[k], highest)
    BY NewerTotal DEF FenceInv, FenceType
  <2> QED
    BY <2>1
<1>5. ASSUME NEW k \in Key, Temporal(k)'
      PROVE  /\ ~newerThan(entries'[k].order, highest)
             /\ ~newerThan(offered'[k], entries'[k].order)
  <2>1. entries'[k] = entries[k] /\ Temporal(k)
    BY <1>2, <1>5
  <2>2. entries[k].order \in Order
    BY DEF FenceType, Entry
  <2>3. ~newerThan(entries'[k].order, highest) /\ ~newerThan(offered[k], entries'[k].order)
    BY <2>1, <2>2, NewerTotal DEF FenceInv, FenceType
  <2> QED
    BY <2>3, <1>5
<1>6. ASSUME NEW k \in Key, ~Temporal(k)'
      PROVE  ~newerThan(offered'[k], discardedBefore')
  <2>1. CASE Temporal(k)
    <3>1. k \in D
      BY <1>2, <1>6, <2>1
    <3>2. discardedBefore' = highest
      BY <3>1, <2>1 DEF FenceAfter
    <3> QED
      BY <3>2, <1>4
  <2>2. CASE ~Temporal(k)
    <3>1. ~newerThan(offered[k], discardedBefore')
      BY <2>2, <1>3, <1>1, NewerTotal DEF FenceInv, FenceType
    <3> QED
      BY <3>1, <1>6
  <2> QED
    BY <2>1, <2>2
<1>7. FenceInv'
  BY <1>3, <1>4, <1>5, <1>6 DEF FenceInv
<1> QED
  BY <1>1, <1>7

\* Storing a plain value, or an observation that is newer than all before it.
LEMMA WriteStep ==
    ASSUME CInv, NEW k \in Key, NEW D, NEW entry \in Entry, NEW highest \in Order,
           ~newerThan(highestRegistered, highest),
           highestRegistered' = highest,
           entries' = [j \in Key |-> IF j = k THEN entry
                                     ELSE IF j \in D THEN NoEntry ELSE entries[j]],
           now' = now,
           entry.state # "absent",
           \/ /\ entry.order = NoOrder
              /\ offered' = offered
              /\ discardedBefore' = FenceAfter(D \cup {k}, highest)
           \/ /\ entry.order.receipt > 0
              /\ ~newerThan(entry.order, highest)
              /\ ~newerThan(offered[k], entry.order)
              /\ offered' = [offered EXCEPT ![k] =
                                IF newerThan(entry.order, @) THEN entry.order ELSE @]
              /\ discardedBefore' = FenceAfter(D, highest)
    PROVE  CInv'
<1> USE DEF CInv
<1>0. entry.order \in Order
  BY DEF Entry
<1>1. FenceType'
  BY NoEntryType, <1>0 DEF FenceType, FenceAfter
<1>2. ASSUME NEW j \in Key, j # k
      PROVE  /\ offered'[j] = offered[j]
             /\ IF j \in D THEN entries'[j] = NoEntry /\ ~Temporal(j)'
                ELSE entries'[j] = entries[j] /\ Temporal(j)' = Temporal(j)
  BY <1>2, NoEntryType DEF Temporal, Present, FenceType
<1>3. ~newerThan(discardedBefore', highest) /\ ~newerThan(discardedBefore, discardedBefore')
  BY NewerTotal DEF FenceInv, FenceType, FenceAfter
<1>4. ASSUME NEW j \in Key, j # k
      PROVE  /\ ~newerThan(offered'[j], highest)
             /\ Temporal(j)' => ~newerThan(entries'[j].order, highest)
             /\ Temporal(j)' => ~newerThan(offered'[j], entries'[j].order)
             /\ ~Temporal(j)' => ~newerThan(offered'[j], discardedBefore')
  <2>1. offered[j] \in Order /\ entries[j].order \in Order
    BY DEF FenceType, Entry
  <2>2. ~newerThan(offered'[j], highest)
    BY <1>2, <1>4, <2>1, NewerTotal DEF FenceInv, FenceType
  <2>3. CASE Temporal(j)'
    <3>1. entries'[j] = entries[j] /\ Temporal(j)
      BY <1>2, <1>4, <2>3
    <3> QED
      BY <1>2, <1>4, <2>1, <2>2, <2>3, <3>1, NewerTotal DEF FenceInv, FenceType
  <2>4. CASE ~Temporal(j)' /\ Temporal(j)
    <3>1. j \in D
      BY <1>2, <1>4, <2>4
    <3>2. discardedBefore' = highest
      BY <3>1, <2>4 DEF FenceAfter
    <3> QED
      BY <3>2, <2>2, <2>4
  <2>5. CASE ~Temporal(j)' /\ ~Temporal(j)
    BY <1>1, <1>2, <1>3, <1>4, <2>1, <2>2, <2>5, NewerTotal DEF FenceInv, FenceType
  <2> QED
    BY <2>3, <2>4, <2>5
<1>5. /\ ~newerThan(offered'[k], highest)
      /\ Temporal(k)' => ~newerThan(entries'[k].order, highest)
      /\ Temporal(k)' => ~newerThan(offered'[k], entries'[k].order)
      /\ ~Temporal(k)' => ~newerThan(offered'[k], discardedBefore')
  <2>0. offered[k] \in Order /\ entries'[k] = entry /\ ~newerThan(offered[k], highest)
    BY NewerTotal DEF FenceType, FenceInv
  <2>1. CASE entry.order = NoOrder
    <3>1. ~Temporal(k)' /\ ~(entry.order.receipt > 0)
      BY <2>0, <2>1 DEF Temporal, NoOrder
    <3>2. offered' = offered /\ discardedBefore' = FenceAfter(D \cup {k}, highest)
      BY <3>1
    <3>3. CASE Temporal(k)
      <4>1. discardedBefore' = highest
        BY <3>2, <3>3 DEF FenceAfter
      <4> QED
        BY <4>1, <3>1, <3>2, <2>0
    <3>4. CASE ~Temporal(k)
      <4>1. ~newerThan(offered[k], discardedBefore)
        BY <3>4 DEF FenceInv
      <4> QED
        BY <4>1, <3>1, <3>2, <2>0, <1>1, <1>3, NewerTotal DEF FenceType
    <3> QED
      BY <3>3, <3>4
  <2>2. CASE entry.order # NoOrder
    <3>1. /\ entry.order.receipt > 0
          /\ ~newerThan(entry.order, highest)
          /\ ~newerThan(offered[k], entry.order)
          /\ offered'[k] = IF newerThan(entry.order, offered[k]) THEN entry.order
                                                                 ELSE offered[k]
      BY <2>2 DEF FenceType
    <3>2. Temporal(k)'
      BY <2>0, <3>1 DEF Temporal, Present
    <3> QED
      BY <1>0, <2>0, <3>1, <3>2, NewerTotal
  <2> QED
    BY <2>1, <2>2
<1>7. FenceInv'
  BY <1>3, <1>4, <1>5 DEF FenceInv
<1> QED
  BY <1>1, <1>7

\* The invariant holds of the empty cache.
LEMMA CacheInvInit == CacheInit => CInv
<1> SUFFICES ASSUME CacheInit PROVE CInv
  OBVIOUS
<1>1. FenceType
  BY NoEntryType DEF CacheInit, FenceType
<1>2. ASSUME NEW k \in Key PROVE ~Temporal(k)
  BY NoEntryType DEF CacheInit, Temporal, Present
<1>3. FenceInv
  BY <1>2, NoEntryType, NewerTotal DEF CacheInit, FenceInv
<1> QED
  BY <1>1, <1>3 DEF CInv

\* Removals that leave the registered event and the history alone.
LEMMA DropStep ==
    ASSUME CInv, NEW D, removeLocked(D),
           discardedBefore' = FenceAfter(D, highestRegistered),
           UNCHANGED <<highestRegistered, now, offered>>
    PROVE  CInv'
<1>1. ~newerThan(highestRegistered, highestRegistered')
  BY NewerTotal DEF CInv, FenceType
<1> QED
  BY <1>1, RemoveStep DEF CInv, FenceType, removeLocked

\* A value set in place of whatever the key held.
LEMMA SetStep ==
    ASSUME CInv, NEW k \in Key, NEW size \in Size, NEW mode, NEW ttl \in TTL,
           Set(k, size, mode, ttl)
    PROVE  CInv'
<1> DEFINE entry == plainEntry(size, ttl)
           D == MakeRoom(k, size)
<1>1. size \in Nat /\ ttl \in Nat /\ now \in Nat /\ now + ttl \in Nat
  BY CacheAssumption DEF CInv, FenceType
<1>3. entry \in Entry /\ entry.state # "absent" /\ entry.order = NoOrder
  BY <1>1, NoEntryType DEF Entry, plainEntry
<1>4. ~newerThan(highestRegistered, highestRegistered')
  BY NewerTotal DEF CInv, FenceType, Set
<1>5. Write(k, D, entry) /\ discardedBefore' = FenceAfter(D \cup {k}, highestRegistered)
  BY DEF Set
<1>6. highestRegistered' = highestRegistered /\ now' = now /\ offered' = offered
      /\ highestRegistered \in Order
  BY DEF Set, CInv, FenceType
<1> HIDE DEF entry, D
<1> QED
  BY <1>3, <1>4, <1>5, <1>6, WriteStep DEF Write

\* A later expiry changes no order.
LEMMA ExpireStep ==
    ASSUME CInv, NEW k \in Key, NEW ttl \in TTL, Expire(k, ttl)
    PROVE  CInv'
<1>1. ttl \in Nat /\ now \in Nat /\ now + ttl \in Nat
  BY CacheAssumption DEF CInv, FenceType
<1>2. entries \in [Key -> Entry]
  BY DEF CInv, FenceType
<1>3. entries' = [entries EXCEPT ![k] =
         [state |-> entries[k].state, size |-> entries[k].size,
          order |-> entries[k].order, updated |-> now, expires |-> now + ttl]]
  BY <1>2 DEF Expire
<1>4. entries[k] \in Entry
  BY <1>2
<1>5. entries' \in [Key -> Entry]
  BY <1>1, <1>2, <1>3, <1>4 DEF Entry
<1>6. ASSUME NEW j \in Key
      PROVE  entries'[j].order = entries[j].order /\ Temporal(j)' = Temporal(j)
  BY <1>2, <1>3, <1>4 DEF Temporal, Present
<1> QED
  BY <1>5, <1>6 DEF CInv, FenceType, FenceInv, Expire

\* Registering an event: the order of highestRegistered only grows.
LEMMA Registered ==
    ASSUME CInv, NEW order \in Order
    PROVE  /\ registered(order) \in Order
           /\ ~newerThan(highestRegistered, registered(order))
           /\ ~newerThan(order, registered(order))
  BY NewerTotal DEF registered, CInv, FenceType

\* Registering an order removes nothing and raises the newest one.
LEMMA RegisterStep ==
    ASSUME CInv, NEW order \in Order, RegisterObservation(order)
    PROVE  CInv'
<1>1. entries' = [k \in Key |-> IF k \in {} THEN NoEntry ELSE entries[k]]
  BY DEF CInv, FenceType, RegisterObservation, memory
<1>2. discardedBefore' = FenceAfter({}, registered(order))
  BY DEF FenceAfter, RegisterObservation, memory
<1> QED
  BY <1>1, <1>2, Registered, RemoveStep DEF CInv, FenceType, RegisterObservation

\* The four outcomes of Observe.
LEMMA ObserveStep ==
    ASSUME CInv, NEW k \in Key, NEW order \in Order, NEW size \in Size,
           Observe(k, order, size)
    PROVE  CInv'
<1> DEFINE highest   == registered(order)
           gone      == {k} \cap Expired
           newest    == IF Live(k) /\ Temporal(k) THEN entries[k].order
                                                  ELSE FenceAfter(gone, highest)
           available == size <= options.valueBytes /\ fits(k, size)
           kept      == IF available THEN size ELSE 0
           D         == MakeRoom(k, kept)
           entry     == [state |-> IF available THEN "value" ELSE "unavailable",
                         size |-> kept, order |-> order, updated |-> now,
                         expires |-> 0]
<1>1. /\ order.receipt > 0
      /\ highestRegistered' = highest
      /\ now' = now
      /\ offered' = [offered EXCEPT ![k] =
                       IF order.gen = highest.gen /\ newerThan(order, @)
                       THEN order ELSE @]
  BY DEF Observe
<1>2. \/ /\ order.gen < highest.gen
         /\ UNCHANGED memory
      \/ /\ order.gen = highest.gen
         /\ ~newerThan(order, newest)
         /\ removeLocked(gone)
         /\ discardedBefore' = FenceAfter(gone, highest)
      \/ /\ order.gen = highest.gen
         /\ newerThan(order, newest)
         /\ ~fits(k, kept)
         /\ removeLocked({k})
         /\ discardedBefore' = highest
      \/ /\ order.gen = highest.gen
         /\ newerThan(order, newest)
         /\ fits(k, kept)
         /\ Write(k, D, entry)
         /\ discardedBefore' = FenceAfter(D, highest)
  BY DEF Observe
<1>3. /\ highest \in Order
      /\ ~newerThan(highestRegistered, highest)
      /\ ~newerThan(order, highest)
  BY Registered
<1>4. kept \in Nat
  BY CacheAssumption
<1>5. /\ entries \in [Key -> Entry]
      /\ offered \in [Key -> Order]
      /\ now \in Nat
      /\ discardedBefore \in Order
      /\ entries[k].order \in Order
  BY DEF CInv, FenceType, Entry
<1>6. /\ offered' \in [Key -> Order]
      /\ \A j \in Key \ {k} : offered'[j] = offered[j]
      /\ offered'[k] = offered[k] \/ offered'[k] = order
  BY <1>1, <1>5
<1>7. CASE order.gen < highest.gen /\ UNCHANGED memory
  <2>1. offered' = offered
    BY <1>1, <1>3, <1>5, <1>7 DEF Order
  <2>2. entries' = [j \in Key |-> IF j \in {} THEN NoEntry ELSE entries[j]]
    BY <1>5, <1>7 DEF memory
  <2>3. discardedBefore' = FenceAfter({}, highest)
    BY <1>7 DEF memory, FenceAfter
  <2> HIDE DEF highest
  <2> QED
    BY <1>1, <1>3, <1>5, <2>1, <2>2, <2>3, RemoveStep
<1>8. CASE /\ ~newerThan(order, newest)
           /\ removeLocked(gone)
           /\ discardedBefore' = FenceAfter(gone, highest)
  <2>1. /\ Temporal(k)' => ~newerThan(order, entries'[k].order)
        /\ ~Temporal(k)' => ~newerThan(order, discardedBefore')
    <3>1. CASE Live(k) /\ Temporal(k)
      <4>1. k \notin gone
        BY <3>1 DEF Live, Expired
      <4>2. entries'[k] = entries[k]
        BY <4>1, <1>8 DEF removeLocked
      <4> QED
        BY <3>1, <4>2, <1>8 DEF Temporal, Present
    <3>2. CASE ~(Live(k) /\ Temporal(k))
      <4>1. ~newerThan(order, discardedBefore')
        BY <3>2, <1>8
      <4>2. CASE isExpired(k)
        <5>1. entries'[k] = NoEntry
          BY <4>2, <1>8 DEF removeLocked, Expired
        <5> QED
          BY <5>1, <4>1, NoEntryType DEF Temporal, Present
      <4>3. CASE ~isExpired(k)
        <5>1. entries'[k] = entries[k] /\ ~Temporal(k)
          BY <4>3, <3>2, <1>8 DEF removeLocked, Expired, Live, Temporal
        <5> QED
          BY <5>1, <4>1 DEF Temporal, Present
      <4> QED
        BY <4>2, <4>3
    <3> QED
      BY <3>1, <3>2
  <2>2. entries' = [j \in Key |-> IF j \in gone THEN NoEntry ELSE entries[j]]
    BY <1>8 DEF removeLocked
  <2> HIDE DEF highest, gone, newest
  <2> QED
    BY <1>1, <1>3, <1>5, <1>6, <1>8, <2>1, <2>2, RemoveStep
<1>9. CASE removeLocked({k}) /\ discardedBefore' = highest
  <2>1. entries' = [j \in Key |-> IF j \in {k} THEN NoEntry ELSE entries[j]]
    BY <1>9 DEF removeLocked
  <2>2. ~Temporal(k)'
    BY <2>1, NoEntryType DEF Temporal, Present
  <2> HIDE DEF highest
  <2> QED
    BY <1>1, <1>3, <1>5, <1>6, <1>9, <2>1, <2>2, RemoveStep
<1>10. CASE /\ order.gen = highest.gen
            /\ newerThan(order, newest)
            /\ Write(k, D, entry)
            /\ discardedBefore' = FenceAfter(D, highest)
  <2>1. entry \in Entry /\ entry.state # "absent" /\ entry.order = order
    BY <1>4, <1>5 DEF Entry
  <2>2. ~newerThan(offered[k], newest)
    <3>1. CASE Live(k) /\ Temporal(k)
      BY <3>1 DEF CInv, FenceInv
    <3>2. CASE ~(Live(k) /\ Temporal(k)) /\ Temporal(k)
      <4>1. k \in gone
        BY <3>2 DEF Live, Expired, Temporal
      <4>2. newest = highest
        BY <4>1, <3>2 DEF FenceAfter
      <4> QED
        BY <4>2, <1>3, <1>5, NewerTotal DEF CInv, FenceInv, FenceType
    <3>3. CASE ~Temporal(k)
      <4>1. newest = FenceAfter(gone, highest) /\ gone \subseteq {k}
        BY <3>3
      <4>2. newest = discardedBefore
        BY <4>1, <3>3 DEF FenceAfter
      <4> QED
        BY <4>2, <3>3 DEF CInv, FenceInv
    <3> QED
      BY <3>1, <3>2, <3>3
  <2>3. newest \in Order
    BY <1>3, <1>5 DEF FenceAfter
  <2>4. ~newerThan(offered[k], order)
    BY <1>5, <1>10, <2>2, <2>3, NewerTotal
  <2>5. /\ entry.order.receipt > 0
        /\ ~newerThan(entry.order, highest)
        /\ ~newerThan(offered[k], entry.order)
        /\ offered' = [offered EXCEPT ![k] =
                          IF newerThan(entry.order, @) THEN entry.order ELSE @]
    BY <1>1, <1>3, <1>10, <2>1, <2>4
  <2>6. entries' = [j \in Key |-> IF j = k THEN entry
                                 ELSE IF j \in D THEN NoEntry ELSE entries[j]]
    BY <1>10 DEF Write
  <2>7. /\ highestRegistered' = highest
        /\ now' = now
        /\ discardedBefore' = FenceAfter(D, highest)
    BY <1>1, <1>10
  <2> HIDE DEF highest, gone, newest, D, entry
  <2> QED
    BY <1>3, <2>1, <2>5, <2>6, <2>7, WriteStep
<1> QED
  BY <1>2, <1>7, <1>8, <1>9, <1>10

\* Steps that touch neither entries nor fences.
LEMMA IdleStep ==
    ASSUME CInv, now' \in Nat,
           UNCHANGED <<entries, highestRegistered, discardedBefore, offered>>
    PROVE  CInv'
  BY DEF CInv, FenceType, FenceInv, Temporal, Present

\* Every operation preserves the invariant.
LEMMA CacheInvStep == CInv /\ [CacheNext]_cacheVars => CInv'
<1> SUFFICES ASSUME CInv, [CacheNext]_cacheVars PROVE CInv'
  OBVIOUS
<1>0. now \in Nat /\ now + 1 \in Nat
  BY DEF CInv, FenceType
<1>1. ASSUME NEW k \in Key, Get(k) PROVE CInv'
  BY <1>1, DropStep DEF Get
<1>2. ASSUME NEW k \in Key, Delete(k) PROVE CInv'
  BY <1>2, DropStep DEF Delete
<1>3. ASSUME NEW k \in Key, NEW size \in Size, NEW mode, SetRefused(k, size, mode)
      PROVE  CInv'
  BY <1>3, DropStep DEF SetRefused
<1>4. ASSUME PruneExpired PROVE CInv'
  BY <1>4, DropStep DEF PruneExpired
<1>5. ASSUME NEW limit \in Limits, Configure(limit) PROVE CInv'
  BY <1>5, DropStep DEF Configure
<1>6. ASSUME NEW c \in 1 .. MaxLoops, PruneTick(c) PROVE CInv'
  BY <1>6, DropStep DEF PruneTick
<1>7. ASSUME NEW c \in 1 .. MaxLoops, CloseStop(c) \/ LoopEnds(c) PROVE CInv'
  BY <1>0, <1>7, IdleStep DEF CloseStop, LoopEnds, memory
<1>8. ASSUME Close PROVE CInv'
  BY <1>0, <1>8, IdleStep DEF Close, memory
<1>9. ASSUME HotTick PROVE CInv'
  BY <1>0, <1>9, IdleStep DEF HotTick, memory
<1>10. ASSUME UNCHANGED cacheVars PROVE CInv'
  BY <1>0, <1>10, IdleStep DEF cacheVars, memory
<1>11. ASSUME NEW k \in Key, KeyNext(k) PROVE CInv'
  BY <1>1, <1>2, <1>3, <1>11, SetStep, ExpireStep DEF KeyNext
<1>12. ASSUME PlainNext PROVE CInv'
  BY <1>4, <1>5, <1>6, <1>7, <1>8, <1>9, <1>11, <1>12 DEF PlainNext
<1>13. ASSUME NEW gen \in Generation, NEW receipt \in ReceiptID \cup {0},
              \/ RegisterObservation([gen |-> gen, receipt |-> receipt])
              \/ \E k \in Key, size \in Size :
                   Observe(k, [gen |-> gen, receipt |-> receipt], size)
       PROVE  CInv'
  <2>1. [gen |-> gen, receipt |-> receipt] \in Order
    BY CacheAssumption DEF Order
  <2> QED
    BY <1>13, <2>1, RegisterStep, ObserveStep
<1> QED
  BY <1>10, <1>12, <1>13 DEF CacheNext

\* The invariant holds in every reachable state of every cache.
THEOREM CacheInvariance == CacheSpec => []CInv
  BY CacheInvInit, CacheInvStep, PTL DEF CacheSpec

\* What a rule reads is never older than an observation already offered for
\* the key: Observe and removeLocked keep each key fenced in every history.
THEOREM ObservationsFresh == CacheSpec => []NoStaleObservation
<1>1. CInv => NoStaleObservation
  BY DEF CInv, FenceInv, NoStaleObservation, Readable
<1> QED
  BY <1>1, CacheInvariance, PTL

-----------------------------------------------------------------------------
(* The prune loops and the channels that stop them.                         *)

\* Channels that were not made yet have neither a loop nor a caller that is to
\* close them, and the caller that closed one waits until its loop has ended.
LoopInv ==
    /\ options \in Limits /\ closed \in BOOLEAN
    /\ stopPrune \in 1 .. MaxLoops
    /\ loop \in [1 .. MaxLoops -> {"none", "running", "stopping", "ended"}]
    /\ closers \in [1 .. MaxLoops -> Nat]
    /\ \A c \in 1 .. MaxLoops : c > stopPrune => loop[c] = "none" /\ closers[c] = 0
    /\ \A c \in 1 .. MaxLoops : loop[c] = "stopping" => closers[c] = 1
    /\ StopClosedOnce /\ OneLoop

\* The cache starts with one loop, or with none when nothing is to be pruned.
LEMMA LoopsStart == CacheInit => LoopInv
  <1> SUFFICES ASSUME CacheInit PROVE LoopInv
    OBVIOUS
  <1>1. MaxLoops \in Nat \ {0} /\ options \in Limits /\ options.interval \in Nat
    BY CacheAssumption DEF CacheInit
  <1>2. /\ stopPrune = 1 /\ closed = FALSE
        /\ loop = [c \in 1 .. MaxLoops |->
                     IF c > 1 THEN "none" ELSE IF options.interval > 0 THEN "running" ELSE "ended"]
        /\ closers = [c \in 1 .. MaxLoops |-> 0]
    BY DEF CacheInit
  <1>3. /\ loop \in [1 .. MaxLoops -> {"none", "running", "stopping", "ended"}]
        /\ closers \in [1 .. MaxLoops -> Nat]
        /\ \A c \in 1 .. MaxLoops : /\ closers[c] = 0 /\ loop[c] # "stopping"
                                    /\ c > 1 => loop[c] = "none"
                                    /\ loop[c] = "running" <=> c = 1 /\ options.interval > 0
    BY <1>1, <1>2
  <1>4. StopClosedOnce
    BY <1>3 DEF StopClosedOnce
  <1>5. OneLoop
    BY <1>1, <1>2, <1>3 DEF OneLoop
  <1>6. stopPrune \in 1 .. MaxLoops /\ closed \in BOOLEAN
    <2>1. stopPrune = 1 /\ closed = FALSE
      BY <1>2
    <2>2. 1 \in 1 .. MaxLoops
      BY <1>1
    <2> QED BY <2>1, <2>2
  <1>7. /\ \A c \in 1 .. MaxLoops : c > stopPrune => loop[c] = "none" /\ closers[c] = 0
        /\ \A c \in 1 .. MaxLoops : loop[c] = "stopping" => closers[c] = 1
    BY <1>2, <1>3
  <1> QED BY <1>1, <1>3, <1>4, <1>5, <1>6, <1>7 DEF LoopInv

\* Whoever takes the current channel is the only one, since the loop that it
\* stops is the current one no more.
LEMMA TakeLoop ==
    ASSUME LoopInv, ~closed, options.interval > 0
    PROVE  closers[stopPrune] = 0 /\ loop[stopPrune] = "running"
  <1>1. {c \in 1 .. MaxLoops : loop[c] = "running" /\ closers[c] = 0} = {stopPrune}
    BY DEF LoopInv, OneLoop
  <1> QED BY <1>1

\* New limits, with a new loop when the interval changes.
LEMMA ConfigureLoops ==
    ASSUME LoopInv, NEW limit \in Limits, Configure(limit)
    PROVE  LoopInv'
  <1>1. /\ options' = limit /\ closed = FALSE /\ closed' = FALSE /\ ReplaceLoop(limit)
        /\ limit.interval \in Nat /\ options.interval \in Nat /\ MaxLoops \in Nat \ {0}
        /\ stopPrune \in 1 .. MaxLoops
    BY CacheAssumption DEF Configure, LoopInv
  <1>2. CASE limit.interval = options.interval
    <2>1. UNCHANGED pruner
      BY <1>2, <1>1 DEF ReplaceLoop
    <2> QED BY <1>1, <1>2, <2>1 DEF LoopInv, StopClosedOnce, OneLoop, pruner
  <1>3. CASE limit.interval # options.interval
    <2> DEFINE new == stopPrune + 1
    <2>1. /\ stopPrune' = new /\ new \in 1 .. MaxLoops
          /\ loop' = [loop EXCEPT ![new] = IF limit.interval > 0 THEN "running" ELSE "ended"]
          /\ closers' = IF options.interval > 0 THEN [closers EXCEPT ![stopPrune] = @ + 1]
                        ELSE closers
      BY <1>1, <1>3 DEF ReplaceLoop, TakeStop
    <2>2. loop[new] = "none" /\ closers[new] = 0
      BY <1>1, <2>1 DEF LoopInv
    <2>3. /\ loop'[new] = IF limit.interval > 0 THEN "running" ELSE "ended"
          /\ \A c \in 1 .. MaxLoops : c # new => loop'[c] = loop[c]
          /\ loop' \in [1 .. MaxLoops -> {"none", "running", "stopping", "ended"}]
      BY <2>1 DEF LoopInv
    <2>4. /\ closers' \in [1 .. MaxLoops -> Nat]
          /\ \A c \in 1 .. MaxLoops : c # stopPrune => closers'[c] = closers[c]
          /\ options.interval > 0 => closers'[stopPrune] = 1 /\ loop[stopPrune] = "running"
          /\ options.interval = 0 => closers' = closers
      BY <1>1, <2>1, TakeLoop DEF LoopInv
    <2>5. StopClosedOnce'
      BY <1>1, <2>1, <2>2, <2>3, <2>4 DEF LoopInv, StopClosedOnce
    <2>6. \A c \in 1 .. MaxLoops : loop'[c] = "running" /\ closers'[c] = 0
                                     => c = new /\ limit.interval > 0
      <3> SUFFICES ASSUME NEW c \in 1 .. MaxLoops, loop'[c] = "running", closers'[c] = 0, c # new
                   PROVE  FALSE
        BY <2>3
      <3>1. loop[c] = "running"
        BY <2>3
      <3>2. CASE options.interval > 0
        BY <1>1, <2>4, <3>1, <3>2 DEF LoopInv, OneLoop
      <3>3. CASE options.interval = 0
        BY <1>1, <2>4, <3>1, <3>3 DEF LoopInv, OneLoop
      <3> QED BY <1>1, <3>2, <3>3
    <2>7. limit.interval > 0 => loop'[new] = "running" /\ closers'[new] = 0
      BY <1>1, <2>1, <2>2, <2>3, <2>4
    <2>8. OneLoop'
      BY <1>1, <2>1, <2>6, <2>7 DEF OneLoop
    <2>9. \A c \in 1 .. MaxLoops : c > new => loop'[c] = "none" /\ closers'[c] = 0
      BY <1>1, <2>1, <2>3, <2>4 DEF LoopInv
    <2> QED BY <1>1, <2>1, <2>3, <2>4, <2>5, <2>8, <2>9 DEF LoopInv
  <1> QED BY <1>2, <1>3

\* The cache is closed; nothing is started afterwards.
LEMMA CloseLoops ==
    ASSUME LoopInv, Close
    PROVE  LoopInv'
  <1>1. /\ closed = FALSE /\ closed' = TRUE /\ UNCHANGED <<options, stopPrune, loop>>
        /\ closers' = IF options.interval > 0 THEN [closers EXCEPT ![stopPrune] = @ + 1]
                      ELSE closers
        /\ options.interval \in Nat
    BY CacheAssumption DEF Close, TakeStop, LoopInv
  <1>2. CASE options.interval > 0
    <2>1. /\ closers' \in [1 .. MaxLoops -> Nat] /\ closers'[stopPrune] = 1
          /\ loop[stopPrune] = "running"
          /\ \A c \in 1 .. MaxLoops : c # stopPrune => closers'[c] = closers[c]
      BY <1>1, <1>2, TakeLoop DEF LoopInv
    <2> QED BY <1>1, <1>2, <2>1 DEF LoopInv, StopClosedOnce, OneLoop
  <1>3. CASE options.interval = 0
    BY <1>1, <1>3 DEF LoopInv, StopClosedOnce, OneLoop
  <1> QED BY <1>1, <1>2, <1>3

\* A channel is closed, and the loop that sees it returns.
LEMMA StopLoops ==
    ASSUME LoopInv, NEW c \in 1 .. MaxLoops, CloseStop(c) \/ LoopEnds(c)
    PROVE  LoopInv'
  <1>1. CASE CloseStop(c)
    BY <1>1 DEF CloseStop, LoopInv, StopClosedOnce, OneLoop
  <1>2. CASE LoopEnds(c)
    <2>1. /\ loop[c] = "stopping" /\ loop' = [loop EXCEPT ![c] = "ended"]
          /\ closers' = [closers EXCEPT ![c] = @ - 1] /\ UNCHANGED <<options, closed, stopPrune>>
      BY <1>2 DEF LoopEnds
    <2>2. closers[c] = 1
      BY <2>1 DEF LoopInv
    <2> QED BY <2>1, <2>2 DEF LoopInv, StopClosedOnce, OneLoop
  <1> QED BY <1>1, <1>2

\* All other steps leave the loops and the limits alone.
LEMMA OtherLoopSteps ==
    ASSUME [CacheNext]_cacheVars,
           ~Close, \A limit \in Limits : ~Configure(limit),
           \A c \in 1 .. MaxLoops : ~CloseStop(c) /\ ~LoopEnds(c)
    PROVE  UNCHANGED <<options, closed, stopPrune, loop, closers>>
  <1>1. CASE UNCHANGED cacheVars
    BY <1>1 DEF cacheVars, pruner
  <1>2. ASSUME NEW k \in Key, KeyNext(k)
        PROVE  UNCHANGED <<options, closed, stopPrune, loop, closers>>
    BY <1>2 DEF KeyNext, Get, Delete, Expire, Set, SetRefused, pruner
  <1>3. CASE PruneExpired \/ HotTick
    BY <1>3 DEF PruneExpired, HotTick, pruner
  <1>4. ASSUME NEW c \in 1 .. MaxLoops, PruneTick(c)
        PROVE  UNCHANGED <<options, closed, stopPrune, loop, closers>>
    BY <1>4 DEF PruneTick, pruner
  <1>5. ASSUME NEW order, RegisterObservation(order)
        PROVE  UNCHANGED <<options, closed, stopPrune, loop, closers>>
    BY <1>5 DEF RegisterObservation, pruner
  <1>6. ASSUME NEW k \in Key, NEW order, NEW size \in Size, Observe(k, order, size)
        PROVE  UNCHANGED <<options, closed, stopPrune, loop, closers>>
    BY <1>6 DEF Observe, pruner
  <1> QED BY <1>1, <1>2, <1>3, <1>4, <1>5, <1>6 DEF CacheNext, PlainNext

\* Configure and Close pick a channel up in the lock and close it outside, and
\* still no channel is closed twice, and of the loops that nobody is about to
\* stop exactly the current one runs (hotkv/store.go: Configure, Close, pruneLoop).
THEOREM LoopsStopOnce == CacheSpec => [](StopClosedOnce /\ OneLoop)
  <1>1. LoopInv /\ [CacheNext]_cacheVars => LoopInv'
    <2> SUFFICES ASSUME LoopInv, [CacheNext]_cacheVars PROVE LoopInv'
      OBVIOUS
    <2>1. CASE ~Close /\ (\A limit \in Limits : ~Configure(limit))
               /\ \A c \in 1 .. MaxLoops : ~CloseStop(c) /\ ~LoopEnds(c)
      <3>1. UNCHANGED <<options, closed, stopPrune, loop, closers>>
        BY <2>1, OtherLoopSteps
      <3> QED BY <3>1 DEF LoopInv, StopClosedOnce, OneLoop
    <2> QED BY <2>1, ConfigureLoops, CloseLoops, StopLoops
  <1>2. LoopInv => StopClosedOnce /\ OneLoop
    BY DEF LoopInv
  <1> QED BY <1>1, <1>2, LoopsStart, PTL DEF CacheSpec

-----------------------------------------------------------------------------
(* The calls that publish in the cache, and the files they run on.          *)

ContextType ==
    /\ generation \in Nat /\ epoch \in Nat /\ receipts \in Nat
    /\ call \in [Call -> [pc : {"idle", "appended", "registered"},
                          order : Order, event : Order]]
    /\ source \in [Key -> Order]
    /\ latest \in [Key -> Order]

\* The server's generation counts the files, and the cache knows it.
GenerationsCount ==
    /\ generation = epoch
    /\ highestRegistered.gen = generation

\* A call in flight has its receipt from the current file.
CallsOfThisFile ==
    \A c \in Call :
        /\ call[c].event = call[c].order
        /\ call[c].pc # "idle" => /\ call[c].order.gen = generation
                                  /\ call[c].order.receipt > 0

\* What a temporal key holds is the newest observation offered for it.
HoldsNewest ==
    \A k \in TemporalKey :
        /\ latest[k] = offered[k]
        /\ entries[k].order.receipt > 0 =>
             /\ source[k] = entries[k].order
             /\ ~newerThan(entries[k].order, offered[k])

ContextInv == CInv /\ ContextType /\ GenerationsCount /\ CallsOfThisFile
              /\ HoldsNewest

-----------------------------------------------------------------------------
\* An order is its generation and its receipt.
LEMMA OrderEqual ==
    ASSUME NEW a \in Order, NEW b \in Order,
           ~newerThan(a, b), ~newerThan(b, a)
    PROVE  a = b
  BY DEF newerThan, Order

\* No call has begun and the cache is empty.
LEMMA ContextInitInv == ContextInit => ContextInv
  <1> SUFFICES ASSUME ContextInit PROVE ContextInv
    OBVIOUS
  <1> USE DEF ContextInit
  <1>1. CInv
    BY CacheInvInit
  <1>2. NoOrder \in Order /\ NoOrder.gen = 0 /\ NoOrder.receipt = 0
    BY DEF NoOrder, Order
  <1>3. IdleCall \in [pc : {"idle", "appended", "registered"},
                      order : Order, event : Order]
    BY <1>2 DEF IdleCall
  <1>4. ContextType
    BY <1>2, <1>3 DEF ContextType
  <1>5. GenerationsCount
    BY <1>2 DEF GenerationsCount, CacheInit
  <1>6. CallsOfThisFile
    BY DEF CallsOfThisFile, IdleCall
  <1>7. HoldsNewest
    BY <1>2, ContextAssumption DEF HoldsNewest, CacheInit, NoEntry
  <1> QED BY <1>1, <1>4, <1>5, <1>6, <1>7 DEF ContextInv

(* Evictions, expiry and new limits take an observation away or leave it as  *)
(* it is (removeLocked, writeLocked for another key).                        *)
LEMMA ShrinkKeeps ==
    ASSUME HoldsNewest, UNCHANGED <<offered, source, latest>>,
           \A k \in TemporalKey : \/ entries'[k] = NoEntry
                                  \/ entries'[k].order = entries[k].order
    PROVE  HoldsNewest'
  BY DEF HoldsNewest, NoEntry, NoOrder

\* What the rest of the daemon does to the cache leaves observations or
\* takes them away.
LEMMA OthersShrink ==
    ASSUME ContextInv, NEW k \in Key \ TemporalKey, KeyNext(k)
    PROVE  /\ \A j \in TemporalKey : \/ entries'[j] = NoEntry
                                     \/ entries'[j].order = entries[j].order
           /\ UNCHANGED <<offered, highestRegistered>>
  <1>0. TemporalKey \subseteq Key /\ entries \in [Key -> Entry]
    BY ContextAssumption DEF ContextInv, CInv, FenceType
  <1>1. CASE Get(k) \/ Delete(k)
    BY <1>0, <1>1 DEF Get, Delete, removeLocked
  <1>2. ASSUME NEW ttl \in TTL, Expire(k, ttl)
        PROVE  /\ \A j \in TemporalKey : entries'[j] = entries[j]
               /\ UNCHANGED <<offered, highestRegistered>>
    BY <1>0, <1>2 DEF Expire
  <1>3. ASSUME NEW size \in Size, NEW mode, NEW ttl \in TTL,
               Set(k, size, mode, ttl)
        PROVE  /\ \A j \in TemporalKey : entries'[j] \in {NoEntry, entries[j]}
               /\ UNCHANGED <<offered, highestRegistered>>
    BY <1>0, <1>3 DEF Set, Write
  <1>4. ASSUME NEW size \in Size, NEW mode, SetRefused(k, size, mode)
        PROVE  /\ \A j \in TemporalKey : entries'[j] \in {NoEntry, entries[j]}
               /\ UNCHANGED <<offered, highestRegistered>>
    BY <1>0, <1>4 DEF SetRefused, removeLocked
  <1> QED BY <1>1, <1>2, <1>3, <1>4 DEF KeyNext

\* Publish: the observation of an event of the current file.
LEMMA PublishKeeps ==
    ASSUME ContextInv, NEW c \in Call, NEW k \in TemporalKey, NEW size \in Size,
           Publish(c, k, size)
    PROVE  ContextInv'
  <1> DEFINE order == call[c].order
             highest == registered(order)
  <1>0. /\ k \in Key /\ order \in Order /\ TemporalKey \subseteq Key
        /\ entries \in [Key -> Entry] /\ offered \in [Key -> Order]
        /\ source \in [Key -> Order] /\ latest \in [Key -> Order]
        /\ highestRegistered \in Order /\ generation \in Nat
    BY ContextAssumption DEF ContextInv, ContextType, CInv, FenceType
  <1>1. /\ order.receipt > 0 /\ order.gen = generation
        /\ call[c].event = order /\ highestRegistered.gen = generation
    BY DEF ContextInv, CallsOfThisFile, GenerationsCount, Publish
  <1>2. highest.gen = generation
    BY <1>1 DEF registered
  <1>3. /\ Observe(k, order, size) /\ UNCHANGED <<runtime, call>>
        /\ source' = [source EXCEPT ![k] =
             IF entries[k].order # order /\ entries'[k].order = order
             THEN order ELSE @]
        /\ latest' = [latest EXCEPT ![k] =
             IF newerThan(order, @) THEN order ELSE @]
    BY <1>1 DEF Publish
  <1> HIDE DEF order
  <1>4. CInv'
    BY <1>0, <1>3, ObserveStep DEF ContextInv
  <1>5. /\ highestRegistered' = highest
        /\ offered' = [offered EXCEPT ![k] =
                         IF newerThan(order, @) THEN order ELSE @]
    BY <1>1, <1>2, <1>3 DEF Observe
  <1>6. \A j \in Key : \/ entries'[j] = NoEntry
                       \/ entries'[j] = entries[j]
                       \/ j = k /\ entries'[j].order = order
    <2>1. CASE UNCHANGED memory
      BY <2>1 DEF memory
    <2>2. ASSUME NEW D, removeLocked(D)
          PROVE  \A j \in Key : entries'[j] \in {NoEntry, entries[j]}
      BY <2>2 DEF removeLocked
    <2>3. ASSUME NEW D, NEW entry, Write(k, D, entry), entry.order = order
          PROVE  \A j \in Key : \/ entries'[j] \in {NoEntry, entries[j]}
                                \/ j = k /\ entries'[j].order = order
      BY <2>3 DEF Write
    <2> QED BY <1>3, <2>1, <2>2, <2>3 DEF Observe
  <1>7. /\ \A j \in Key \ {k} : /\ source'[j] = source[j]
                                /\ latest'[j] = latest[j]
                                /\ offered'[j] = offered[j]
        /\ offered'[k] = IF newerThan(order, offered[k]) THEN order
                         ELSE offered[k]
        /\ latest'[k] = IF newerThan(order, latest[k]) THEN order ELSE latest[k]
        /\ source'[k] = IF entries[k].order # order /\ entries'[k].order = order
                        THEN order ELSE source[k]
    BY <1>0, <1>3, <1>5
  <1>8. HoldsNewest'
    <2> SUFFICES ASSUME NEW j \in TemporalKey
                 PROVE  /\ latest'[j] = offered'[j]
                        /\ entries'[j].order.receipt > 0 =>
                             /\ source'[j] = entries'[j].order
                             /\ ~newerThan(entries'[j].order, offered'[j])
      BY DEF HoldsNewest
    <2>0. /\ latest[j] = offered[j] /\ j \in Key
          /\ entries[j].order.receipt > 0 =>
               /\ source[j] = entries[j].order
               /\ ~newerThan(entries[j].order, offered[j])
          /\ offered[j] \in Order /\ entries[j].order \in Order
      BY <1>0 DEF ContextInv, HoldsNewest, Entry
    <2>1. latest'[j] = offered'[j]
      BY <1>7, <2>0
    <2>2. CASE entries'[j] = NoEntry
      BY <2>1, <2>2 DEF NoEntry, NoOrder
    <2>3. CASE j # k /\ entries'[j] = entries[j]
      BY <1>7, <2>0, <2>1, <2>3
    <2>4. CASE j = k /\ entries'[j] = entries[j]
      <3>1. source'[k] = source[k]
        BY <1>7, <2>4
      <3>2. entries[k].order.receipt > 0 =>
              ~newerThan(entries[k].order, offered'[k])
        BY <1>0, <1>7, <2>0, <2>4, NewerTotal
      <3> QED BY <2>0, <2>1, <2>4, <3>1, <3>2
    <2>5. CASE j = k /\ entries'[j].order = order
      <3>1. source'[k] = order
        <4>1. CASE entries[k].order # order
          BY <1>7, <2>5, <4>1
        <4>2. CASE entries[k].order = order
          BY <1>1, <1>7, <2>0, <2>5, <4>2 DEF order
        <4> QED BY <4>1, <4>2
      <3>2. ~newerThan(order, offered'[k])
        BY <1>0, <1>7, NewerTotal
      <3> QED BY <2>1, <2>5, <3>1, <3>2
    <2> QED BY <1>6, <2>0, <2>2, <2>3, <2>4, <2>5
  <1>9. GenerationsCount' /\ CallsOfThisFile'
    BY <1>2, <1>3, <1>5
       DEF ContextInv, GenerationsCount, CallsOfThisFile, runtime
  <1>10. ContextType'
    <2>1. source' \in [Key -> Order] /\ latest' \in [Key -> Order]
      BY <1>0, <1>3
    <2> QED BY <1>3, <2>1 DEF ContextInv, ContextType, runtime
  <1> QED BY <1>4, <1>8, <1>9, <1>10 DEF ContextInv

\* A snapshot is published while no call is in flight: a new file starts a
\* new generation, which the cache registers with receipt zero.
LEMMA PublishRuntimeKeeps ==
    ASSUME ContextInv, NEW newOwner, NEW used \in 0 .. MaxReceipts,
           publishRuntimeLocked(newOwner, used)
    PROVE  ContextInv'
  <1> DEFINE order == [gen |-> generation', receipt |-> 0]
  <1>0. /\ generation \in Nat /\ epoch \in Nat /\ receipts \in Nat
        /\ highestRegistered \in Order /\ MaxReceipts \in Nat
        /\ generation = epoch /\ highestRegistered.gen = generation
    BY ContextAssumption
       DEF ContextInv, ContextType, CInv, FenceType, GenerationsCount
  <1>1. /\ generation' \in Nat /\ generation' = epoch' /\ receipts' \in Nat
        /\ generation' = generation \/ generation' = generation + 1
    BY <1>0 DEF publishRuntimeLocked
  <1>2. RegisterObservation(order) /\ UNCHANGED <<call, source, latest>>
    BY DEF publishRuntimeLocked
  <1>3. order \in Order /\ order.gen = generation' /\ order.receipt = 0
    BY <1>1 DEF Order
  <1> HIDE DEF order
  <1>4. CInv'
    BY <1>2, <1>3, RegisterStep DEF ContextInv
  <1>5. highestRegistered'.gen = generation'
    <2>1. highestRegistered' = registered(order)
      BY <1>2 DEF RegisterObservation
    <2>2. highestRegistered.gen \in Nat /\ highestRegistered.receipt \in Nat
      BY <1>0 DEF Order
    <2> QED BY <1>0, <1>1, <1>3, <2>1, <2>2 DEF registered, newerThan
  <1>6. ContextType' /\ GenerationsCount'
    BY <1>1, <1>2, <1>5 DEF ContextInv, ContextType, GenerationsCount
  <1>7. CallsOfThisFile'
    <2>1. \A c \in Call : call[c].pc = "idle"
      BY DEF publishRuntimeLocked, InFlight
    <2> QED BY <1>2, <2>1 DEF ContextInv, CallsOfThisFile
  <1>8. HoldsNewest'
    BY <1>2, ShrinkKeeps DEF ContextInv, RegisterObservation, memory
  <1> QED BY <1>4, <1>6, <1>7, <1>8 DEF ContextInv

\* Every step keeps the invariant.
LEMMA ContextStep == ContextInv /\ [ContextNext]_hotVars => ContextInv'
  <1> SUFFICES ASSUME ContextInv, [ContextNext]_hotVars PROVE ContextInv'
    OBVIOUS
  <1>0. /\ generation \in Nat /\ epoch \in Nat /\ receipts \in Nat
        /\ generation = epoch /\ CInv
    BY DEF ContextInv, ContextType, GenerationsCount
  <1>1. CASE UNCHANGED hotVars
    <2>1. CInv'
      BY <1>0, <1>1, CacheInvStep DEF hotVars
    <2>2. HoldsNewest'
      BY <1>1, ShrinkKeeps
         DEF ContextInv, hotVars, cacheVars, memory
    <2> QED BY <1>1, <2>1, <2>2
            DEF ContextInv, ContextType, GenerationsCount, CallsOfThisFile,
                hotVars, runtime, cacheVars
  <1>2. ASSUME NEW c \in Call, AppendIntake(c) PROVE ContextInv'
    <2> DEFINE order == [gen |-> generation, receipt |-> receipts + 1]
    <2>1. order \in Order /\ order.gen = generation /\ order.receipt > 0
      BY <1>0 DEF Order
    <2>2. call' = [call EXCEPT ![c] =
                     [pc |-> "appended", order |-> order, event |-> order]]
      BY <1>0, <1>2 DEF AppendIntake
    <2>3. CInv'
      BY <1>2, <1>0, CacheInvStep DEF AppendIntake
    <2>4. HoldsNewest'
      BY <1>2, ShrinkKeeps DEF AppendIntake, ContextInv, cacheVars, memory
    <2> HIDE DEF order
    <2>5. ContextType' /\ CallsOfThisFile'
      BY <1>0, <1>2, <2>1, <2>2
         DEF AppendIntake, ContextInv, ContextType, CallsOfThisFile
    <2> QED BY <1>2, <2>3, <2>4, <2>5
            DEF AppendIntake, ContextInv, GenerationsCount, cacheVars
  <1>3. ASSUME NEW c \in Call, Register(c) PROVE ContextInv'
    <2>1. call[c].order \in Order /\ call[c].order.gen = generation
      BY <1>3 DEF Register, ContextInv, ContextType, CallsOfThisFile
    <2>2. CInv'
      BY <1>0, <1>3, <2>1, RegisterStep DEF Register
    <2>3. HoldsNewest'
      BY <1>3, ShrinkKeeps
         DEF Register, RegisterObservation, ContextInv, memory
    <2>4. GenerationsCount'
      BY <1>3, <2>1 DEF Register, RegisterObservation, registered, ContextInv,
                        GenerationsCount, runtime
    <2>5. ContextType' /\ CallsOfThisFile'
      BY <1>3 DEF Register, ContextInv, ContextType, CallsOfThisFile, runtime
    <2> QED BY <2>2, <2>3, <2>4, <2>5 DEF ContextInv
  <1>4. ASSUME NEW c \in Call, NEW k \in TemporalKey, NEW size \in Size,
               Publish(c, k, size)
        PROVE  ContextInv'
    BY <1>4, PublishKeeps
  <1>5. ASSUME NEW c \in Call, Finish(c) PROVE ContextInv'
    <2>1. CInv'
      BY <1>0, <1>5, CacheInvStep DEF Finish
    <2>2. HoldsNewest'
      BY <1>5, ShrinkKeeps DEF Finish, ContextInv, cacheVars, memory
    <2>3. NoOrder \in Order
      BY DEF NoOrder, Order
    <2>4. ContextType' /\ CallsOfThisFile'
      BY <1>5, <2>3 DEF Finish, IdleCall, ContextInv, ContextType,
                        CallsOfThisFile, runtime
    <2> QED BY <1>5, <2>1, <2>2, <2>4
            DEF Finish, ContextInv, GenerationsCount, cacheVars, runtime
  <1>6. ASSUME NEW newOwner, NEW used \in 0 .. MaxReceipts,
               publishRuntimeLocked(newOwner, used)
        PROVE  ContextInv'
    BY <1>6, PublishRuntimeKeeps
  <1>7. CASE Withdraw
    <2>1. CInv'
      BY <1>0, <1>7, CacheInvStep DEF Withdraw
    <2>2. HoldsNewest'
      BY <1>7, ShrinkKeeps DEF Withdraw, ContextInv, cacheVars, memory
    <2> QED BY <1>7, <2>1, <2>2
            DEF Withdraw, ContextInv, ContextType, GenerationsCount,
                CallsOfThisFile, cacheVars
  <1>8. CASE Other
    <2>1. CInv'
      BY <1>0, <1>8, CacheInvStep DEF Other, CacheNext, PlainNext
    <2>2. HoldsNewest' /\ UNCHANGED highestRegistered
      <3>0. TemporalKey \subseteq Key
        BY ContextAssumption
      <3>1. ASSUME NEW k \in Key \ TemporalKey, KeyNext(k)
            PROVE  HoldsNewest' /\ UNCHANGED highestRegistered
        BY <1>8, <3>1, OthersShrink, ShrinkKeeps DEF Other, ContextInv
      <3>2. CASE PruneExpired
        BY <1>8, <3>0, <3>2, ShrinkKeeps
           DEF Other, ContextInv, PruneExpired, removeLocked
      <3>3. ASSUME NEW limit \in Limits, Configure(limit)
            PROVE  HoldsNewest' /\ UNCHANGED highestRegistered
        BY <1>8, <3>0, <3>3, ShrinkKeeps
           DEF Other, ContextInv, Configure, removeLocked
      <3>4. CASE HotTick
        BY <1>8, <3>4, ShrinkKeeps DEF Other, ContextInv, HotTick, memory
      <3> QED BY <1>8, <3>1, <3>2, <3>3, <3>4 DEF Other
    <2> QED BY <1>8, <2>1, <2>2
            DEF Other, ContextInv, ContextType, GenerationsCount,
                CallsOfThisFile, runtime
  <1> QED BY <1>1, <1>2, <1>3, <1>4, <1>5, <1>6, <1>7, <1>8 DEF ContextNext

-----------------------------------------------------------------------------
(* What a rule reads as the last prompt or response of the conversation is   *)
(* of the newest event that published one, however calls overlap, files are  *)
(* replaced and entries evicted (EvaluateHook, ObserveResponseOutputOrdered, *)
(* publishRuntimeLocked, temporal.go).                                       *)
THEOREM ContextFresh == ContextSpec => []NoStaleContext
  <1>1. ContextInv => NoStaleContext
    <2> SUFFICES ASSUME ContextInv, NEW k \in TemporalKey, Readable(k)
                 PROVE  source[k] = latest[k]
      BY DEF NoStaleContext
    <2>1. /\ k \in Key /\ Temporal(k) /\ entries[k].order.receipt > 0
          /\ entries[k].order \in Order /\ offered[k] \in Order
      BY ContextAssumption
         DEF Readable, Temporal, ContextInv, CInv, FenceType, Entry
    <2>2. ~newerThan(offered[k], entries[k].order)
      BY <2>1 DEF ContextInv, CInv, FenceInv
    <2>3. ~newerThan(entries[k].order, offered[k])
      BY <2>1 DEF ContextInv, HoldsNewest
    <2>4. entries[k].order = offered[k]
      BY <2>1, <2>2, <2>3, OrderEqual
    <2> QED BY <2>1, <2>4 DEF ContextInv, HoldsNewest
  <1> QED BY <1>1, ContextInitInv, ContextStep, PTL DEF ContextSpec
=============================================================================
