--------------------------- MODULE TemporalContext ---------------------------
(***************************************************************************)
(* Conversation context in the hot cache, as the daemon uses it: hook calls*)
(* run under the read side of runtimeMu, take their receipt from the       *)
(* current audit file, register it and publish prompts and responses; the  *)
(* file is replaced under the write side.  Receipt numbers start again in  *)
(* every file, so an order is a receipt within an assignment generation.   *)
(*                                                                         *)
(*   owner       the file owner of the published runtime snapshot          *)
(*   generation  assignmentGeneration of the server and of the snapshot    *)
(*   receipts    the last receipt of the current file                      *)
(*   call        the hook calls in flight                                  *)
(*   epoch, source, latest   history: how many owners were published, the  *)
(*               event whose observation each key holds, and the newest    *)
(*               event observed for it, in their true order                *)
(***************************************************************************)
EXTENDS HotCache

CONSTANTS
    Call,          \* concurrent hook calls
    TemporalKey,   \* keys of the reserved temporal namespace
    NoOwner,       \* no snapshot is published, or it has no file
    MaxEpoch,      \* bound on file owners
    MaxReceipts    \* bound on receipts in one file

ASSUME ContextAssumption ==
    /\ TemporalKey \subseteq Key
    /\ NoOwner \notin Nat
    /\ MaxEpoch \in Nat /\ MaxReceipts \in Nat

VARIABLES owner, generation, receipts, call, epoch, source, latest

runtime == <<owner, generation, receipts, epoch>>
hotVars == <<cacheVars, runtime, call, source, latest>>

-----------------------------------------------------------------------------
IdleCall == [pc |-> "idle", order |-> NoOrder, event |-> NoOrder]

InFlight == {c \in Call : call[c].pc # "idle"}

\* EvaluateHook up to the durable receipt, which the file numbers.
AppendIntake(c) ==
    /\ call[c].pc = "idle"
    /\ owner # NoOwner
    /\ receipts < MaxReceipts
    /\ receipts' = receipts + 1
    /\ call' = [call EXCEPT ![c] =
         [pc |-> "appended",
          order |-> [gen |-> generation, receipt |-> receipts + 1],
          event |-> [gen |-> epoch, receipt |-> receipts + 1]]]
    /\ UNCHANGED <<cacheVars, owner, generation, epoch, source, latest>>

\* Registered before anything is published.
Register(c) ==
    /\ call[c].pc = "appended"
    /\ RegisterObservation(call[c].order)
    /\ call' = [call EXCEPT ![c].pc = "registered"]
    /\ UNCHANGED <<runtime, source, latest>>

\* observeUserPrompt before the evaluation; ObserveResponseOutputOrdered after
\* its commit.
Publish(c, k, size) ==
    /\ call[c].pc = "registered"
    /\ Observe(k, call[c].order, size)
    /\ source' = [source EXCEPT ![k] =
         IF entries[k].order # call[c].order /\ entries'[k].order = call[c].order
         THEN call[c].event ELSE @]
    /\ latest' = [latest EXCEPT ![k] =
         IF newerThan(call[c].event, @) THEN call[c].event ELSE @]
    /\ UNCHANGED <<runtime, call>>

\* The call is answered and gives up the read lock.
Finish(c) ==
    /\ call[c].pc # "idle"
    /\ call' = [call EXCEPT ![c] = IdleCall]
    /\ UNCHANGED <<cacheVars, runtime, source, latest>>

\* Slip: the write lock is not taken.
publishUnlocked(newOwner, used) ==
    /\ \/ /\ newOwner = owner
          /\ owner # NoOwner
          /\ UNCHANGED <<generation, receipts, epoch>>
       \/ /\ newOwner # owner \/ owner = NoOwner
          /\ epoch < MaxEpoch
          /\ generation' = generation + 1
          /\ receipts' = used
          /\ epoch' = epoch + 1
    /\ owner' = newOwner
    /\ RegisterObservation([gen |-> generation', receipt |-> 0])
    /\ UNCHANGED <<call, source, latest>>

\* publishRuntimeLocked: a snapshot of the same file keeps its generation;
\* any other gets the next one.  used is the last receipt of a file that was
\* used before.
publishRuntimeLocked(newOwner, used) ==
    /\ InFlight = {}
    /\ \/ /\ newOwner = owner
          /\ owner # NoOwner
          /\ UNCHANGED <<generation, receipts, epoch>>
       \/ /\ newOwner # owner \/ owner = NoOwner
          /\ epoch < MaxEpoch
          /\ generation' = generation + 1
          /\ receipts' = used
          /\ epoch' = epoch + 1
    /\ owner' = newOwner
    /\ RegisterObservation([gen |-> generation', receipt |-> 0])
    /\ UNCHANGED <<call, source, latest>>

\* A reset of the storage first withdraws the snapshot.
Withdraw ==
    /\ InFlight = {}
    /\ owner # NoOwner
    /\ owner' = NoOwner
    /\ UNCHANGED <<cacheVars, generation, receipts, epoch, call, source, latest>>

\* The KV service (which refuses the reserved namespaces), the validator and
\* inference caches, a reload's new limits, the prune loop, the clock.
Other ==
    /\ \/ \E k \in Key \ TemporalKey : KeyNext(k)
       \/ PruneExpired
       \/ \E limit \in Limits : Configure(limit)
       \/ HotTick
    /\ UNCHANGED <<runtime, call, source, latest>>

ContextInit ==
    /\ CacheInit
    /\ owner = NoOwner
    /\ generation = 0
    /\ receipts = 0
    /\ epoch = 0
    /\ call = [c \in Call |-> IdleCall]
    /\ source = [k \in Key |-> NoOrder]
    /\ latest = [k \in Key |-> NoOrder]

ContextNext ==
    \/ \E c \in Call :
         \/ AppendIntake(c)
         \/ Register(c)
         \/ \E k \in TemporalKey, size \in Size : Publish(c, k, size)
         \/ Finish(c)
    \/ \E newOwner \in (1 .. MaxEpoch) \cup {NoOwner}, used \in 0 .. MaxReceipts :
         publishRuntimeLocked(newOwner, used)
    \/ Withdraw
    \/ Other

ContextSpec == ContextInit /\ [][ContextNext]_hotVars

-----------------------------------------------------------------------------
(* Properties.                                                             *)

\* What a rule reads as the conversation's last prompt or response is of the
\* newest event that published one, however the calls overlap, whenever files
\* are replaced (and receipts start again), whatever the cache had to evict.
NoStaleContext ==
    \A k \in TemporalKey : Readable(k) => source[k] = latest[k]
=============================================================================
