---------------------------- MODULE AuditLogger ----------------------------
(* The audit EventLogger of one runtime snapshot: a bounded queue that one  *)
(* worker writes in batches, durable writes by their callers, suppression   *)
(* of events seen a short time ago, and CloseContext, which drains until a  *)
(* deadline and joins every writer before the database it borrows closes.   *)
(*                                                                          *)
(* An event is its fingerprint (its identity in the database derives from   *)
(* it) with its size; a level below the logger's leaves no trace and is     *)
(* not logged.  The mutex el.mu is held within one step.                    *)
EXTENDS Naturals, Sequences, FiniteSets, SequencesExt

CONSTANTS
    AuditEventSet,         \* records [id, bytes]
    Durables,       \* callers of LogNormalizedDurable
    Closers,        \* callers of CloseContext
    QueueLimit, QueueMaxBytes, BatchMaxItems, BatchMaxBytes,
    DedupSize, DedupTTL,
    MaxLogs,        \* bound on calls of Log
    MaxClock,       \* bound on the clock
    MaxWriteFaults  \* bound on failing writes

ASSUME LoggerAssumption ==
    /\ {QueueLimit, QueueMaxBytes, BatchMaxItems, BatchMaxBytes, DedupSize}
         \subseteq Nat \ {0}
    /\ {DedupTTL, MaxLogs, MaxClock, MaxWriteFaults} \subseteq Nat
    /\ \A e \in AuditEventSet : e.bytes \in Nat \ {0}

VARIABLES
    queue, queuedBytes,  \* accepted events: <<number, event>>
    recency, expiry,     \* dedup: least recent first; by expiry <<id, time>>
    clock, draining, worker, canceled, durable, closer, closeDone,
    accepted,            \* how many events Log has accepted
    stored, lost,        \* numbers written, and events given up, by the worker
    rows,                \* events in the database
    dropped, writeFaults

loggerVars == <<queue, queuedBytes, recency, expiry, clock, draining, worker,
                canceled, durable, closer, closeDone, accepted, stored, lost,
                rows, dropped, writeFaults>>
dedup == <<recency, expiry>>

----------------------------------------------------------------------------
(* auditDedupCache: an LRU of fingerprints and a list ordered by expiry.    *)

without(list, ids) ==
    LET kept[i \in 0 .. Len(list)] ==
          IF i = 0 THEN <<>>
          ELSE IF list[i] \in ids THEN kept[i - 1]
          ELSE Append(kept[i - 1], list[i])
    IN  kept[Len(list)]
expiryWithout(ids) == SelectSeq(expiry, LAMBDA x : x[1] \notin ids)

\* expire removes the expired entries at the head of the expiry list.
Expired == {expiry[i][1] : i \in {j \in 1 .. Len(expiry) :
              \A k \in 1 .. j : clock > expiry[k][2]}}
live == <<without(recency, Expired), expiryWithout(Expired)>>

seen(id) == id \in ToSet(live[1])
touched(id) == Append(without(live[1], {id}), id)

\* Mutant: an entry that is displaced stays on the expiry list.
rememberUnlinked(id) ==
    LET lru == touched(id)
        kept == IF Len(lru) > DedupSize THEN Tail(lru) ELSE lru
    IN  <<kept, Append(SelectSeq(live[2], LAMBDA x : x[1] # id),
                       <<id, clock + DedupTTL>>)>>
\* remember: a displaced entry leaves the expiry list too.
remember(id) ==
    LET lru == touched(id)
        kept == IF Len(lru) > DedupSize THEN Tail(lru) ELSE lru
        list == Append(SelectSeq(live[2], LAMBDA x : x[1] # id),
                       <<id, clock + DedupTTL>>)
    IN  <<kept, SelectSeq(list, LAMBDA x : x[1] \in ToSet(kept))>>

----------------------------------------------------------------------------
Fits(e) == /\ Len(queue) < QueueLimit
           /\ e.bytes + queuedBytes <= QueueMaxBytes

notQueue == <<clock, draining, worker, canceled, durable, closer, closeDone,
              stored, lost, rows, writeFaults>>

Logs == accepted + dropped < MaxLogs

\* Log accepts the event.
Log(e) ==
    /\ Logs /\ e.bytes <= BatchMaxBytes /\ ~draining /\ Fits(e)
    /\ ~seen(e.id)
    /\ recency' = remember(e.id)[1] /\ expiry' = remember(e.id)[2]
    /\ accepted' = accepted + 1
    /\ queue' = Append(queue, <<accepted', e>>)
    /\ queuedBytes' = queuedBytes + e.bytes
    /\ UNCHANGED <<notQueue, dropped>>

\* Mutant: an event that is dropped is remembered as if it were accepted.
recordDropRemembered(e) ==
    /\ Logs
    /\ e.bytes > BatchMaxBytes \/ (~draining /\ ~Fits(e))
    /\ dropped' = dropped + 1
    /\ recency' = remember(e.id)[1] /\ expiry' = remember(e.id)[2]
    /\ UNCHANGED <<notQueue, queue, queuedBytes, accepted>>
\* recordDrop: too large for a batch, or the queue is full.
recordDrop(e) ==
    /\ Logs
    /\ e.bytes > BatchMaxBytes \/ (~draining /\ ~Fits(e))
    /\ dropped' = dropped + 1
    /\ UNCHANGED <<notQueue, queue, queuedBytes, dedup, accepted>>

\* Seen a short time ago: nothing but its recency changes.
suppress(e) ==
    /\ e.bytes <= BatchMaxBytes /\ ~draining /\ Fits(e) /\ seen(e.id)
    /\ recency' = touched(e.id) /\ expiry' = live[2]
    /\ UNCHANGED <<notQueue, queue, queuedBytes, accepted, dropped>>

----------------------------------------------------------------------------
(* The worker.                                                              *)

BytesOf(q) == FoldLeft(LAMBDA total, x : total + x[2].bytes, 0, q)

\* The longest prefix within both limits of a batch.
batchLengths ==
    {0} \cup {n \in 1 .. Len(queue) :
                /\ n <= BatchMaxItems
                /\ BytesOf(SubSeq(queue, 1, n)) <= BatchMaxBytes}
batchLength == CHOOSE n \in batchLengths : \A m \in batchLengths : m <= n

notWorker == <<dedup, clock, draining, canceled, durable, closer, closeDone,
               accepted, dropped>>

takeBatch ==
    /\ worker.pc = "take" /\ queue # <<>>
    /\ worker' = [pc |-> "begin", batch |-> SubSeq(queue, 1, batchLength)]
    /\ queue' = SubSeq(queue, batchLength + 1, Len(queue))
    /\ queuedBytes' = queuedBytes - BytesOf(worker'.batch)
    /\ UNCHANGED <<notWorker, stored, lost, rows, writeFaults>>

numbers(batch) == [i \in DOMAIN batch |-> batch[i][1]]
eventIDs(batch) == {batch[i][2].id : i \in DOMAIN batch}
giveUp == /\ lost' = lost \o worker.batch
          /\ worker' = [pc |-> "take", batch |-> <<>>]
          /\ UNCHANGED <<stored, rows>>

\* BeginTx under the worker's context.
beginBatch ==
    /\ worker.pc = "begin"
    /\ IF canceled THEN giveUp
       ELSE /\ worker' = [worker EXCEPT !.pc = "commit"]
            /\ UNCHANGED <<stored, lost, rows>>
    /\ UNCHANGED <<notWorker, queue, queuedBytes, writeFaults>>

\* The inserts and the commit of one transaction.
commitBatch ==
    /\ worker.pc = "commit"
    /\ stored' = stored \o numbers(worker.batch)
    /\ rows' = rows \cup eventIDs(worker.batch)
    /\ worker' = [pc |-> "take", batch |-> <<>>]
    /\ UNCHANGED <<notWorker, queue, queuedBytes, lost, writeFaults>>

\* Mutant: a failed batch is forgotten.
commitForgets ==
    /\ worker.pc = "commit"
    /\ \/ canceled /\ UNCHANGED writeFaults
       \/ writeFaults < MaxWriteFaults /\ writeFaults' = writeFaults + 1
    /\ worker' = [pc |-> "take", batch |-> <<>>]
    /\ UNCHANGED <<notWorker, queue, queuedBytes, stored, lost, rows>>
commitFails ==
    /\ worker.pc = "commit"
    /\ \/ canceled /\ UNCHANGED writeFaults
       \/ writeFaults < MaxWriteFaults /\ writeFaults' = writeFaults + 1
    /\ giveUp
    /\ UNCHANGED <<notWorker, queue, queuedBytes>>

workerExits ==
    /\ worker.pc = "take" /\ draining /\ queue = <<>>
    /\ worker' = [worker EXCEPT !.pc = "exited"]
    /\ UNCHANGED <<notWorker, queue, queuedBytes, stored, lost, rows,
                   writeFaults>>

----------------------------------------------------------------------------
(* LogNormalizedDurable.                                                    *)

notDurable == <<queue, queuedBytes, clock, draining, worker, canceled, closer,
                closeDone, accepted, stored, lost, dropped>>
durableAt(d, pc) == durable' = [durable EXCEPT ![d].pc = pc]

logDurable(d, e) ==
    /\ durable[d].pc \in {"idle", "failed"} /\ e.bytes <= BatchMaxBytes
    /\ IF draining THEN durableAt(d, "refused") /\ UNCHANGED dedup
       ELSE /\ recency' = IF seen(e.id) THEN touched(e.id) ELSE live[1]
            /\ expiry' = live[2]
            /\ durable' = [durable EXCEPT ![d] =
                             [pc |-> IF seen(e.id) THEN "seen" ELSE "writing",
                              id |-> e.id]]
    /\ UNCHANGED <<notDurable, rows, writeFaults>>

durableCommits(d) ==
    /\ durable[d].pc = "writing"
    /\ rows' = rows \cup {durable[d].id}
    /\ durableAt(d, "written")
    /\ UNCHANGED <<notDurable, dedup, writeFaults>>

\* Mutant: a failing write is logged and not returned.
durableFailsQuietly(d) ==
    /\ durable[d].pc = "writing"
    /\ writeFaults < MaxWriteFaults /\ writeFaults' = writeFaults + 1
    /\ durableAt(d, "written")
    /\ UNCHANGED <<notDurable, dedup, rows>>
durableFails(d) ==
    /\ durable[d].pc = "writing"
    /\ writeFaults < MaxWriteFaults /\ writeFaults' = writeFaults + 1
    /\ durableAt(d, "failed")
    /\ UNCHANGED <<notDurable, dedup, rows>>

\* Only a write that succeeded is remembered; then wg.Done.
durableRemembers(d) ==
    /\ durable[d].pc = "written"
    /\ recency' = remember(durable[d].id)[1]
    /\ expiry' = remember(durable[d].id)[2]
    /\ durableAt(d, "done")
    /\ UNCHANGED <<notDurable, rows, writeFaults>>
DurableWrites == \E d \in Durables : durable[d].pc \in {"writing", "written"}

----------------------------------------------------------------------------
(* CloseContext.                                                            *)

notCloser == <<queue, queuedBytes, clock, worker, durable, accepted, stored,
               lost, rows, dropped, writeFaults>>

CloseContext(k) ==
    /\ closer[k] = "idle"
    /\ closer' = [closer EXCEPT ![k] = IF draining THEN "waits" ELSE "joins"]
    /\ draining' = TRUE
    /\ UNCHANGED <<notCloser, dedup, canceled, closeDone>>

\* The deadline of a caller that has not returned cancels the worker.
deadline(k) ==
    /\ closer[k] \in {"joins", "waits"} /\ ~canceled
    /\ canceled' = TRUE
    /\ UNCHANGED <<notCloser, dedup, closer, closeDone, draining>>

\* Mutant: the deadline of the caller also ends its wait for the writers.
joinUntilDeadline(k) ==
    /\ closer[k] = "joins"
    /\ (worker.pc = "exited" /\ ~DurableWrites) \/ canceled
    /\ recency' = <<>> /\ expiry' = <<>>
    /\ canceled' = TRUE /\ closeDone' = TRUE
    /\ closer' = [closer EXCEPT ![k] = "returned"]
    /\ UNCHANGED <<notCloser, draining>>
\* Mutant: the other callers are never told.
joinQuiet(k) ==
    /\ closer[k] = "joins"
    /\ worker.pc = "exited" /\ ~DurableWrites
    /\ recency' = <<>> /\ expiry' = <<>> /\ canceled' = TRUE
    /\ closer' = [closer EXCEPT ![k] = "returned"]
    /\ UNCHANGED <<notCloser, draining, closeDone>>
\* wg.Wait; then purge, cancel and let the other callers return.
join(k) ==
    /\ closer[k] = "joins"
    /\ worker.pc = "exited" /\ ~DurableWrites
    /\ recency' = <<>> /\ expiry' = <<>>
    /\ canceled' = TRUE /\ closeDone' = TRUE
    /\ closer' = [closer EXCEPT ![k] = "returned"]
    /\ UNCHANGED <<notCloser, draining>>

waitClosed(k) ==
    /\ closer[k] = "waits" /\ closeDone
    /\ closer' = [closer EXCEPT ![k] = "returned"]
    /\ UNCHANGED <<notCloser, dedup, canceled, closeDone, draining>>

tickLogger ==
    /\ clock < MaxClock /\ clock' = clock + 1
    /\ UNCHANGED <<queue, queuedBytes, dedup, draining, worker, canceled,
                   durable, closer, closeDone, accepted, stored, lost, rows,
                   dropped, writeFaults>>

----------------------------------------------------------------------------
LoggerInit ==
    /\ queue = <<>> /\ queuedBytes = 0 /\ recency = <<>> /\ expiry = <<>>
    /\ clock = 0 /\ draining = FALSE /\ canceled = FALSE /\ closeDone = FALSE
    /\ worker = [pc |-> "take", batch |-> <<>>]
    /\ durable = [d \in Durables |-> [pc |-> "idle", id |-> 0]]
    /\ closer = [k \in Closers |-> "idle"]
    /\ accepted = 0 /\ stored = <<>> /\ lost = <<>> /\ rows = {}
    /\ dropped = 0 /\ writeFaults = 0

WorkerNext == takeBatch \/ beginBatch \/ commitBatch \/ commitFails
              \/ workerExits
DurableNext(d) == durableCommits(d) \/ durableFails(d) \/ durableRemembers(d)
CloserNext(k) == join(k) \/ waitClosed(k)

LoggerNext ==
    \/ \E e \in AuditEventSet : Log(e) \/ recordDrop(e) \/ suppress(e)
    \/ WorkerNext
    \/ \E d \in Durables : DurableNext(d) \/ \E e \in AuditEventSet : logDurable(d, e)
    \/ \E k \in Closers : CloseContext(k) \/ deadline(k) \/ CloserNext(k)
    \/ tickLogger

LoggerFairness ==
    /\ WF_loggerVars(WorkerNext)
    /\ \A d \in Durables : WF_loggerVars(DurableNext(d))
    /\ \A k \in Closers : WF_loggerVars(CloserNext(k))

----------------------------------------------------------------------------
(* The queue is within its limits and its byte count is exact, so a slow    *)
(* writer can neither exhaust memory nor shrink the queue for good.         *)
QueueAccounted ==
    /\ Len(queue) <= QueueLimit /\ queuedBytes <= QueueMaxBytes
    /\ queuedBytes = BytesOf(queue)

(* The fingerprints in the LRU are those on the expiry list, which is in    *)
(* the order of expiry: nothing is suppressed after its time.               *)
DedupLinked ==
    /\ Len(recency) <= DedupSize /\ Len(recency) = Len(expiry)
    /\ ToSet(recency) = {expiry[i][1] : i \in DOMAIN expiry}
    /\ \A i, j \in DOMAIN expiry : i < j => expiry[i][2] <= expiry[j][2]

(* Every accepted event is queued, in the worker's hands, stored or given   *)
(* up, exactly once; without a failing write and a deadline none is given   *)
(* up, and those stored are stored in the order they were accepted.          *)
AcceptedAccounted ==
    LET known == numbers(queue) \o numbers(worker.batch) \o stored
                 \o numbers(lost)
    IN  /\ Len(known) = accepted /\ ToSet(known) = 1 .. accepted
        /\ lost # <<>> => writeFaults > 0 \/ canceled
        /\ \A i, j \in DOMAIN stored : i < j => stored[i] < stored[j]

(* No writer is left when CloseContext returns, whoever called it and       *)
(* whatever its deadline: the borrowed database may be closed.               *)
WritersJoined ==
    (\E k \in Closers : closer[k] = "returned") =>
        worker.pc = "exited" /\ ~DurableWrites /\ queue = <<>>

(* A durable call that wrote its event and returned without an error finds  *)
(* it in the database.  One that returned because the event was seen a short *)
(* time ago wrote nothing: the event is in the database, or Log accepted it, *)
(* and then it is queued, in the worker's batch, or was given up with a      *)
(* failing batch.  It was never one that Log dropped.                        *)
DurableMeansStored ==
    \A d \in Durables :
        /\ durable[d].pc \in {"written", "done"} => durable[d].id \in rows
        /\ durable[d].pc = "seen" =>
             durable[d].id \in rows \cup eventIDs(queue)
                                   \cup eventIDs(worker.batch) \cup eventIDs(lost)

(* Every event that was accepted is known exactly once, and the structures   *)
(* that account for it agree (logger.go, session.go, dedup.go).              *)
EventsAccounted == QueueAccounted /\ DedupLinked /\ AcceptedAccounted

(* A durable write that is reported done is stored, a suppressed one is of   *)
(* an event that was stored or accepted, and Close returns only when nobody  *)
(* writes any more (session.go: LogNormalizedDurable, CloseContext).         *)
ClosedMeansWritten == WritersJoined /\ DurableMeansStored

(* CloseContext returns once the writers can make progress.                 *)
CloserReturns == draining ~> \A k \in Closers : closer[k] \in {"idle", "returned"}
============================================================================
