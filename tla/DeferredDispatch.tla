-------------------------- MODULE DeferredDispatch --------------------------
(***************************************************************************)
(* How the daemon finds deferred work: hook calls put receipts on a bounded*)
(* queue, and whatever the queue cannot take is found again by recovery    *)
(* passes over the audit files (internal/daemon: replay_scheduler.go,      *)
(* deferred_service.go, recovery.go).  The database rows are durable, the  *)
(* rest is memory of the daemon.                                           *)
(*                                                                         *)
(*   row, wait, lease  state of a receipt, time left until its next attempt*)
(*                     (Null if none was set) and until its claim expires  *)
(*   hook, current     the hook calls, and the file of the runtime snapshot*)
(*   events, queued, queuedBytes   the channel, the map of receipts that   *)
(*                     are queued or worked on, and its size               *)
(*   service           paused, epoch, excluded, transition                 *)
(*   recovery, pass    discovery state and the pass in progress            *)
(*   lifecycle         how far a replacement of the current file has got   *)
(*   worker            the slots that run work                             *)
(*                                                                         *)
(* Generation counters are only compared for equality, so each is held as  *)
(* two facts: dirty, it differs from the acknowledged one, and fresh, it is*)
(* still the one the pass captured.  Times are held as time left, 0 for    *)
(* now and before; every entry of the queue map counts 1 byte.             *)
(***************************************************************************)
EXTENDS Integers, Sequences, FiniteSets, FiniteSetsExt, Functions

CONSTANTS
    Receipt,      \* receipt numbers
    FileOf,       \* FileOf[r]: the file that numbers r
    MaxFile,      \* files are 1 .. MaxFile, in the order they become current
    Worker,       \* worker slots
    Null,
    QueueLimit,   \* length of the channel
    ByteLimit,    \* replayDispatchBytes, in entries
    PageLimit,    \* rows of a page
    RetryDelay, ErrorDelay, Lease,   \* seconds
    MaxEpoch,     \* bound on pauses
    MaxJump,      \* bound on how far the clock is set back
    MaxFaults     \* bound on errors, prunings, clock changes and crashes together

ASSUME DispatchAssumption ==
    /\ Receipt \subseteq Nat \ {0} /\ IsFiniteSet(Receipt)
    /\ FileOf \in [Receipt -> 1 .. MaxFile]
    /\ MaxFile \in Nat \ {0} /\ QueueLimit \in Nat
    /\ ByteLimit \in Nat \ {0} /\ PageLimit \in Nat \ {0}
    /\ RetryDelay \in Nat /\ ErrorDelay \in Nat /\ Lease \in Nat
    /\ MaxEpoch \in Nat /\ MaxJump \in Nat /\ MaxFaults \in Nat
    /\ Null \notin Nat

VARIABLES row, wait, lease, hook, current, events, queued, queuedBytes,
          service, recovery, pass, lifecycle, worker, faults

rows == <<row, wait, lease>>
queue == <<events, queued, queuedBytes>>
vars == <<rows, hook, current, queue, service, recovery, pass, lifecycle,
          worker, faults>>

-----------------------------------------------------------------------------
Class == {"current", "history"}

Work == [receipt : Receipt, epoch : Nat]

NotQueued == [state |-> "free", epoch |-> 0, revisit |-> FALSE, complete |-> FALSE]

queuedReplay(epoch) == [NotQueued EXCEPT !.state = "queued", !.epoch = epoch]

NoPass == [active |-> FALSE]

\* A page is a function on the receipts that are still to be examined.
NoPage == [r \in {} |-> Null]

IdleWorker == [pc |-> "idle", receipt |-> Null, epoch |-> 0, owned |-> FALSE,
               completed |-> FALSE, page |-> NoPage, full |-> FALSE]

\* A processor just made and configured: the first snapshot is new to it.
EmptyRecovery ==
    [ready |-> FALSE, probing |-> FALSE, turn |-> FALSE,
     capacityBlocked |-> FALSE, creditReserved |-> FALSE,
     dirty |-> [c \in Class |-> TRUE], fresh |-> [c \in Class |-> TRUE],
     clockFresh |-> TRUE, deadline |-> [c \in Class |-> Null],
     currentPath |-> current, behind |-> 0]

EmptyService == [paused |-> FALSE, epoch |-> 0, excluded |-> {},
                 transition |-> FALSE]

classOf(f) == IF f = current THEN "current" ELSE "history"

Fault == faults < MaxFaults /\ faults' = faults + 1

\* A job fails when its context was canceled, or by a fault.
CanceledOrFault(f) ==
    IF service.paused \/ f \in service.excluded THEN UNCHANGED faults ELSE Fault

InQueueMap(r) == queued[r].state # "free"

-----------------------------------------------------------------------------
(* Discovery state.                                                        *)

\* Raise the generation counters of the classes in C.
raise(rec, C) ==
    [rec EXCEPT !.dirty = [c \in Class |-> @[c] \/ c \in C],
                !.fresh = [c \in Class |-> @[c] /\ c \notin C]]

markDiscovery(rec, f) == raise(rec, {classOf(f)})

earlierDeadline(old, new) ==
    IF old = Null THEN new ELSE IF new = Null \/ old <= new THEN old ELSE new

deferDiscovery(rec, f, delay) ==
    [rec EXCEPT !.deadline[classOf(f)] = earlierDeadline(@, delay)]

\* recoveryState.reset; the caller clears the pass.
reset(rec) ==
    [raise(rec, Class) EXCEPT !.capacityBlocked = FALSE, !.creditReserved = FALSE]

\* storageChangedLocked: the retired file's deadline becomes historical.
storageChanged(rec) ==
    IF rec.currentPath = current THEN rec
    ELSE [raise(rec, Class) EXCEPT
            !.currentPath = current,
            !.deadline = [c \in Class |->
               IF c = "current" THEN Null
               ELSE earlierDeadline(@["history"], @["current"])]]

\* Slip: whatever was raised during the pass is acknowledged with it.
acknowledgedAll(rec) ==
    [rec EXCEPT !.dirty = [c \in Class |-> IF c = "history" THEN @[c] /\ ~pass.historical
                                                            ELSE FALSE],
                !.creditReserved = FALSE]

\* acknowledgePass: only what has not been raised since the pass began.
acknowledged(rec) ==
    [rec EXCEPT
       !.dirty = [c \in Class |->
          @[c] /\ ~(/\ pass.epoch = service.epoch
                    /\ rec.clockFresh
                    /\ rec.fresh[c]
                    /\ c = "history" => pass.historical)],
       !.creditReserved = FALSE]

pending(rec) == pass.active \/ \E c \in Class : rec.dirty[c]

required(rec) == ~rec.capacityBlocked /\ pending(rec)

-----------------------------------------------------------------------------
(* Hook calls hold the read side of runtimeMu from the receipt to submit.  *)

AppendReceipt(r) ==
    /\ hook[r] = "absent"
    /\ FileOf[r] = current
    /\ \A s \in Receipt : FileOf[s] = current /\ s < r => hook[s] # "absent"
    /\ hook' = [hook EXCEPT ![r] = "evaluating"]
    /\ UNCHANGED <<rows, current, queue, service, recovery, pass, lifecycle,
                   worker, faults>>

\* The hot commit marks the receipt pending, or the call ends without.
CommitHot(r, deferredPending) ==
    /\ hook[r] = "evaluating"
    /\ row' = [row EXCEPT ![r] = IF deferredPending THEN "pending" ELSE @]
    /\ hook' = [hook EXCEPT ![r] = IF deferredPending THEN "committed" ELSE "done"]
    /\ UNCHANGED <<wait, lease, current, queue, service, recovery, pass,
                   lifecycle, worker, faults>>

\* dispatch takes a receipt it does not have yet.
Admits(r) ==
    /\ ~service.paused
    /\ ~recovery.creditReserved
    /\ FileOf[r] \notin service.excluded
    /\ Len(events) < QueueLimit
    /\ queuedBytes + 1 <= ByteLimit

\* submit: dispatch, or else have a pass find the receipt.
submit(r) ==
    /\ hook[r] = "committed"
    /\ IF ~InQueueMap(r) /\ Admits(r)
       THEN /\ events' = Append(events, [receipt |-> r, epoch |-> service.epoch])
            /\ queued' = [queued EXCEPT ![r] = queuedReplay(service.epoch)]
            /\ queuedBytes' = queuedBytes + 1
       ELSE UNCHANGED queue
    /\ recovery' = IF InQueueMap(r) \/ Admits(r) THEN recovery
                   ELSE markDiscovery(recovery, FileOf[r])
    /\ hook' = [hook EXCEPT ![r] = "done"]
    /\ UNCHANGED <<rows, current, service, pass, lifecycle, worker, faults>>

-----------------------------------------------------------------------------
(* Taking work: a probe on its turn, or the first event that may run.       *)

ProbeDue ==
    /\ ~service.transition
    /\ ~recovery.probing
    /\ required(recovery)
    /\ recovery.turn \/ events = <<>>

takeProbe(w) ==
    /\ worker[w].pc = "idle"
    /\ ~service.paused
    /\ recovery.ready
    /\ ProbeDue
    /\ recovery' = [recovery EXCEPT !.probing = TRUE, !.turn = FALSE]
    /\ worker' = [worker EXCEPT ![w] = [IdleWorker EXCEPT !.pc = "probe"]]
    /\ UNCHANGED <<rows, hook, current, queue, service, pass, lifecycle, faults>>

\* Work on retired files waits for the end of a transition: it goes round.
takeEvent(w) ==
    /\ worker[w].pc = "idle"
    /\ ~service.paused
    /\ recovery.ready
    /\ ~ProbeDue
    /\ \E i \in 1 .. Len(events) :
         LET runnable(j) == service.transition => FileOf[events[j].receipt] = current
         IN  /\ runnable(i)
             /\ \A j \in 1 .. i - 1 : ~runnable(j)
             /\ events' = SubSeq(events, i + 1, Len(events)) \o SubSeq(events, 1, i - 1)
             /\ worker' = [worker EXCEPT ![w] = [IdleWorker EXCEPT
                              !.pc = "work",
                              !.receipt = events[i].receipt,
                              !.epoch = events[i].epoch]]
    /\ recovery' = [recovery EXCEPT !.turn = TRUE]
    /\ UNCHANGED <<rows, hook, current, queued, queuedBytes, service, pass,
                   lifecycle, faults>>

-----------------------------------------------------------------------------
(* recoverWork.  Only the worker that probes touches the pass.              *)

\* The probe ends without work.
EndProbe(w, rec) ==
    /\ recovery' = [rec EXCEPT !.probing = FALSE]
    /\ worker' = [worker EXCEPT ![w] = IdleWorker]

\* A pass of an old epoch, or of a clock since set back, is abandoned.
beginPass(w) ==
    LET stale == /\ pass.active
                 /\ pass.epoch # service.epoch \/ ~recovery.clockFresh
        rec   == IF stale THEN reset(recovery) ELSE recovery
    IN  /\ worker[w].pc = "probe"
        /\ IF pass.active /\ ~stale
           THEN UNCHANGED <<pass, recovery>>
           ELSE /\ pass' = [active |-> TRUE,
                            historical |-> rec.dirty["history"],
                            epoch |-> service.epoch,
                            files |-> Null,
                            file |-> Null,
                            currentDone |-> FALSE,
                            cursor |-> Null,
                            later |-> {r \in Receipt : wait[r] # Null /\ wait[r] > 0},
                            leased |-> {r \in Receipt : lease[r] > 0}]
                /\ recovery' = [rec EXCEPT !.fresh = [c \in Class |-> TRUE],
                                           !.clockFresh = TRUE]
        /\ worker' = [worker EXCEPT ![w].pc = "select"]
        /\ UNCHANGED <<rows, hook, current, queue, service, lifecycle, faults>>

\* selectRecoveryFile: the next file, or the end of the pass.
selectFile(w) ==
    LET rest == IF pass.files = Null THEN 1 .. current ELSE pass.files
    IN  /\ worker[w].pc = "select"
        /\ \/ /\ pass.file # Null
              /\ worker' = [worker EXCEPT ![w].pc = "read"]
              /\ UNCHANGED <<pass, recovery>>
           \/ /\ pass.file = Null
              /\ ~pass.historical /\ ~pass.currentDone
              /\ pass' = [pass EXCEPT !.file = current, !.currentDone = TRUE]
              /\ worker' = [worker EXCEPT ![w].pc = "read"]
              /\ UNCHANGED recovery
           \/ /\ pass.file = Null
              /\ pass.historical
              /\ \E f \in rest :
                   pass' = [pass EXCEPT !.file = f, !.files = rest \ {f}]
              /\ worker' = [worker EXCEPT ![w].pc = "read"]
              /\ UNCHANGED recovery
           \/ /\ pass.file = Null
              /\ IF pass.historical THEN rest = {} ELSE pass.currentDone
              /\ pass' = NoPass
              /\ EndProbe(w, acknowledged(recovery))
        /\ UNCHANGED <<rows, hook, current, queue, service, lifecycle, faults>>

\* recoveryTraversalError: the directory cannot be read.
traversalFails(w) ==
    /\ Fault
    /\ worker[w].pc = "select"
    /\ pass.file = Null
    /\ pass.historical
    /\ pass' = NoPass
    /\ EndProbe(w, acknowledged([recovery EXCEPT
            !.deadline["history"] = earlierDeadline(@, ErrorDelay)]))
    /\ UNCHANGED <<rows, hook, current, queue, service, lifecycle>>

clearFile == [pass EXCEPT !.file = Null, !.cursor = Null]

\* The file is about to be pruned, or work is paused, or a transition hides it.
skipFile(w) ==
    /\ worker[w].pc = "read"
    /\ \/ /\ pass.file \in service.excluded
          /\ pass' = clearFile
       \/ /\ pass.file \notin service.excluded
          /\ \/ service.paused
             \/ pass.epoch # service.epoch
             \/ service.transition /\ pass.file # current
          /\ UNCHANGED pass
    /\ EndProbe(w, recovery)
    /\ UNCHANGED <<rows, hook, current, queue, service, lifecycle, faults>>

\* recoveryError: the file cannot be opened or read.
readFails(w) ==
    /\ worker[w].pc \in {"read", "examine"}
    /\ CanceledOrFault(pass.file)
    /\ EndProbe(w, deferDiscovery(recovery, pass.file, ErrorDelay))
    /\ pass' = clearFile
    /\ UNCHANGED <<rows, hook, current, queue, service, lifecycle>>

NewCursor ==
    [ceiling |-> Max({0} \cup {r \in Receipt : FileOf[r] = pass.file
                                             /\ hook[r] # "absent"}),
     retry |-> FALSE, after |-> 0, seen |-> {}]

\* pending_null_page.sql and pending_retry_page.sql.  No row becomes eligible
\* behind the position in the retry range, so that position is a set.
Listed(cursor) ==
    {r \in Receipt :
        /\ FileOf[r] = pass.file
        /\ row[r] = "pending"
        /\ IF cursor.retry THEN wait[r] # Null /\ r \notin pass.later \cup cursor.seen
           ELSE wait[r] = Null /\ cursor.after < r /\ r <= cursor.ceiling}

\* A page is the first PageLimit rows, or all of them if they are fewer.
IsPage(page, listed) ==
    /\ \A r \in page, s \in listed \ page : r < s
    /\ \/ Cardinality(page) = PageLimit
       \/ page = listed /\ Cardinality(page) < PageLimit

readPage(w) ==
    LET cursor == IF pass.cursor = Null THEN NewCursor ELSE pass.cursor
        entry(r) == [leased |-> r \in pass.leased, left |-> lease[r]]
    IN  /\ worker[w].pc = "read"
        /\ pass.file \notin service.excluded
        /\ ~service.paused /\ pass.epoch = service.epoch
        /\ service.transition => pass.file = current
        /\ pass' = [pass EXCEPT !.cursor = cursor]
        /\ \E page \in SUBSET Listed(cursor) :
             /\ IsPage(page, Listed(cursor))
             /\ worker' = [worker EXCEPT ![w].pc = "examine",
                              ![w].page = [r \in page |-> entry(r)],
                              ![w].full = Cardinality(page) = PageLimit]
        /\ UNCHANGED <<rows, hook, current, queue, service, recovery, lifecycle,
                       faults>>

advanced(r) ==
    [pass EXCEPT !.cursor.after = IF pass.cursor.retry THEN @ ELSE r,
                 !.cursor.seen = IF pass.cursor.retry THEN @ \cup {r} ELSE @]

\* One entry: not of this pass, already queued (to be looked at again), under
\* a claim, or a candidate.
examine(w) ==
    LET page == worker[w].page
        next(rest) == worker' = [worker EXCEPT ![w].page = Restrict(page, rest)]
    IN  /\ worker[w].pc = "examine"
        /\ \E r \in DOMAIN page :
             /\ \A s \in DOMAIN page : r <= s
             /\ \/ /\ InQueueMap(r)
                   /\ queued' = [queued EXCEPT ![r].revisit = TRUE]
                   /\ pass' = advanced(r)
                   /\ next(DOMAIN page \ {r})
                   /\ UNCHANGED recovery
                \/ /\ ~InQueueMap(r) /\ page[r].leased
                   /\ recovery' = deferDiscovery(recovery, pass.file, page[r].left)
                   /\ pass' = advanced(r)
                   /\ next(DOMAIN page \ {r})
                   /\ UNCHANGED queued
                \/ /\ ~InQueueMap(r) /\ ~page[r].leased
                   /\ worker' = [worker EXCEPT ![w].receipt = r, ![w].pc = "admit"]
                   /\ UNCHANGED <<pass, recovery, queued>>
        /\ UNCHANGED <<rows, hook, current, events, queuedBytes, service, lifecycle,
                       faults>>

refused(r) ==
    \/ service.paused
    \/ pass.epoch # service.epoch
    \/ FileOf[r] \in service.excluded
    \/ InQueueMap(r)

\* admitRecovered: refused (the entry is read again), out of credit, or work.
admitRecovered(w) ==
    LET r == worker[w].receipt
    IN  /\ worker[w].pc = "admit"
        /\ \/ /\ refused(r)
              /\ EndProbe(w, recovery)
              /\ UNCHANGED <<queued, queuedBytes, pass>>
           \/ /\ ~refused(r)
              /\ queuedBytes + 1 > ByteLimit
              /\ EndProbe(w, [recovery EXCEPT !.capacityBlocked = TRUE,
                                              !.creditReserved = TRUE])
              /\ UNCHANGED <<queued, queuedBytes, pass>>
           \/ /\ ~refused(r)
              /\ queuedBytes + 1 <= ByteLimit
              /\ queued' = [queued EXCEPT ![r] = queuedReplay(pass.epoch)]
              /\ queuedBytes' = queuedBytes + 1
              /\ pass' = advanced(r)
              /\ recovery' = [recovery EXCEPT !.creditReserved = FALSE,
                                              !.probing = FALSE]
              /\ worker' = [worker EXCEPT ![w] = [IdleWorker EXCEPT
                              !.pc = "work", !.receipt = r, !.epoch = pass.epoch,
                              !.owned = TRUE]]
        /\ UNCHANGED <<rows, hook, current, events, service, lifecycle, faults>>

Future == {r \in Receipt : /\ FileOf[r] = pass.file
                           /\ row[r] = "pending"
                           /\ wait[r] # Null
                           /\ r \in pass.later}

\* The page is read: on to the next, to the retry range, or to the earliest
\* later attempt, which ends the file.  A retired file may then fail to be
\* finalized.
endPage(w, fails) ==
    /\ worker[w].pc = "examine"
    /\ IF fails THEN Fault ELSE UNCHANGED faults
    /\ DOMAIN worker[w].page = {}
    /\ \/ /\ worker[w].full
          /\ EndProbe(w, recovery)
          /\ UNCHANGED <<pass, queued>>
       \/ /\ ~worker[w].full
          /\ ~pass.cursor.retry
          /\ pass' = [pass EXCEPT !.cursor.retry = TRUE]
          /\ EndProbe(w, recovery)
          /\ UNCHANGED queued
       \/ /\ ~worker[w].full
          /\ pass.cursor.retry
          /\ pass' = clearFile
          /\ LET rec == IF fails /\ pass.file # current
                        THEN deferDiscovery(recovery, pass.file, ErrorDelay)
                        ELSE recovery
             IN  IF Future = {}
                 THEN EndProbe(w, rec) /\ UNCHANGED queued
                 ELSE \E r \in Future :
                        /\ \A s \in Future : wait[r] <= wait[s]
                        /\ IF InQueueMap(r)
                           THEN /\ queued' = [queued EXCEPT ![r].revisit = TRUE]
                                /\ EndProbe(w, rec)
                           ELSE /\ EndProbe(w, deferDiscovery(rec, pass.file, wait[r]))
                                /\ UNCHANGED queued
    /\ UNCHANGED <<rows, hook, current, events, queuedBytes, service, lifecycle>>

-----------------------------------------------------------------------------
(* One receipt: prepare, process, finish, give up the slot.                 *)

to(w, pc) == worker' = [worker EXCEPT ![w].pc = pc]

\* The job cannot be prepared now; it waits for a transition, or fails.
prepareDelayed(w) ==
    /\ worker[w].pc = "work"
    /\ service.transition
    /\ FileOf[worker[w].receipt] # current
    /\ ~worker[w].owned
    /\ to(w, "mark")
    /\ UNCHANGED <<rows, hook, current, queue, service, recovery, pass, lifecycle,
                   faults>>

prepareFails(w) ==
    /\ worker[w].pc = "work"
    /\ CanceledOrFault(FileOf[worker[w].receipt])
    /\ recovery' = deferDiscovery(recovery, FileOf[worker[w].receipt], 1)
    /\ to(w, "release")
    /\ UNCHANGED <<rows, hook, current, queue, service, pass, lifecycle>>

Claimable(r) == row[r] = "pending" /\ wait[r] \in {Null, 0} /\ lease[r] = 0

\* ClaimDeferred; the claim is renewed as long as the receipt is worked on.
claim(w) ==
    LET r == worker[w].receipt
    IN  /\ worker[w].pc = "work"
        /\ Claimable(r)
        /\ lease' = [lease EXCEPT ![r] = Lease]
        /\ pass' = IF pass.active THEN [pass EXCEPT !.leased = @ \cup {r}] ELSE pass
        /\ to(w, "claimed")
        /\ UNCHANGED <<row, wait, hook, current, queue, service, recovery, lifecycle,
                       faults>>

\* Evaluated and committed.
processDone(w) ==
    LET r == worker[w].receipt
    IN  /\ worker[w].pc = "claimed"
        /\ row' = [row EXCEPT ![r] = "complete"]
        /\ lease' = [lease EXCEPT ![r] = 0]
        /\ worker' = [worker EXCEPT ![w].pc = "finish", ![w].completed = TRUE]
        /\ UNCHANGED <<wait, hook, current, queue, service, recovery, pass,
                       lifecycle, faults>>

\* Not claimable.
processSkips(w) ==
    /\ worker[w].pc = "work"
    /\ ~Claimable(worker[w].receipt)
    /\ to(w, "finish")
    /\ UNCHANGED <<rows, hook, current, queue, service, recovery, pass, lifecycle,
                   faults>>

\* The claim fails, or a claimed receipt is given back with a delay, or the
\* claim is left to expire.
processFails(w) ==
    LET r == worker[w].receipt
    IN  /\ worker[w].pc \in {"work", "claimed"}
        /\ CanceledOrFault(FileOf[r])
        /\ \/ /\ worker[w].pc = "work"
              /\ UNCHANGED <<rows, pass>>
           \/ /\ worker[w].pc = "claimed"
              /\ wait' = [wait EXCEPT ![r] = RetryDelay]
              /\ lease' = [lease EXCEPT ![r] = 0]
              /\ pass' = IF pass.active THEN [pass EXCEPT !.later = @ \cup {r}]
                                        ELSE pass
              /\ UNCHANGED row
           \/ /\ worker[w].pc = "claimed"
              /\ UNCHANGED <<rows, pass>>
        /\ to(w, "finish")
        /\ UNCHANGED <<hook, current, queue, service, recovery, lifecycle>>

\* Slip: a failed job relies on the next pass.
finishForgets(w, fails) ==
    LET r == worker[w].receipt
    IN  /\ worker[w].pc = "finish"
        /\ IF fails THEN Fault ELSE UNCHANGED faults
        /\ IF row[r] = "pending" THEN UNCHANGED queued
           ELSE queued' = [queued EXCEPT ![r].complete = TRUE]
        /\ to(w, "release")
        /\ UNCHANGED <<rows, hook, current, events, queuedBytes, service, recovery,
                       pass, lifecycle>>

\* finishJob: a receipt still pending gets a deadline, no earlier than its
\* row allows; the end of a retired file may fail to be checked or sealed.
finishJob(w, fails) ==
    LET r == worker[w].receipt
        left == Max({1, lease[r]} \cup (IF wait[r] = Null THEN {} ELSE {wait[r]}))
    IN  /\ worker[w].pc = "finish"
        /\ IF fails THEN Fault ELSE UNCHANGED faults
        /\ \/ /\ ~worker[w].completed /\ fails
              /\ recovery' = deferDiscovery(recovery, FileOf[r], Lease)
              /\ UNCHANGED queued
           \/ /\ ~worker[w].completed /\ ~fails
              /\ row[r] = "pending"
              /\ recovery' = deferDiscovery(recovery, FileOf[r], left)
              /\ UNCHANGED queued
           \/ /\ worker[w].completed \/ (~fails /\ row[r] # "pending")
              /\ queued' = [queued EXCEPT ![r].complete = TRUE,
                                          ![r].state = "queued"]
              /\ recovery' = IF fails /\ FileOf[r] # current
                             THEN deferDiscovery(recovery, FileOf[r], ErrorDelay)
                             ELSE recovery
        /\ to(w, "release")
        /\ UNCHANGED <<rows, hook, current, events, queuedBytes, service, pass,
                       lifecycle>>

\* Work that was not settled has to be found again.
markUnsettled(w) ==
    /\ worker[w].pc = "mark"
    /\ recovery' = markDiscovery(recovery, FileOf[worker[w].receipt])
    /\ to(w, "release")
    /\ UNCHANGED <<rows, hook, current, queue, service, pass, lifecycle, faults>>

\* Slip: the credit comes back but the block on recovery stays.
finishDispatchBlocked(w) ==
    LET r == worker[w].receipt
    IN  /\ worker[w].pc = "release"
        /\ queuedBytes' = queuedBytes - 1
        /\ queued' = [queued EXCEPT ![r] = NotQueued]
        /\ recovery' = IF queued[r].revisit /\ ~queued[r].complete
                       THEN markDiscovery(recovery, FileOf[r]) ELSE recovery
        /\ worker' = [worker EXCEPT ![w] = IdleWorker]
        /\ UNCHANGED <<rows, hook, current, events, service, pass, lifecycle, faults>>

\* finishDispatch: the entry goes, its credit comes back.
finishDispatch(w) ==
    LET r    == worker[w].receipt
        mine == InQueueMap(r) /\ queued[r].epoch = worker[w].epoch
        rec  == IF queued[r].revisit /\ ~queued[r].complete
                THEN markDiscovery(recovery, FileOf[r]) ELSE recovery
    IN  /\ worker[w].pc = "release"
        /\ IF mine
           THEN /\ queuedBytes' = queuedBytes - 1
                /\ queued' = [queued EXCEPT ![r] = NotQueued]
                /\ recovery' = [rec EXCEPT !.capacityBlocked = FALSE]
           ELSE UNCHANGED <<queued, queuedBytes, recovery>>
        /\ worker' = [worker EXCEPT ![w] = IdleWorker]
        /\ UNCHANGED <<rows, hook, current, events, service, pass, lifecycle, faults>>

-----------------------------------------------------------------------------
(* Lifecycle: one at a time, under lifecycleMu.                             *)

HooksInFlight == \E r \in Receipt : hook[r] \in {"evaluating", "committed"}

\* pauseAndDrain up to the cancellation of the jobs.
pause ==
    /\ lifecycle \in {"none", "begun"}
    /\ service.epoch < MaxEpoch
    /\ service' = [service EXCEPT !.paused = TRUE, !.epoch = @ + 1]
    /\ lifecycle' = "pausing"
    /\ UNCHANGED <<rows, hook, current, queue, recovery, pass, worker, faults>>

\* Slip: the channel keeps the work of the old epoch.
drainKeepsEvents ==
    /\ lifecycle = "pausing"
    /\ \A w \in Worker : worker[w].pc = "idle"
    /\ recovery' = reset(recovery)
    /\ pass' = NoPass
    /\ queued' = [r \in Receipt |-> NotQueued]
    /\ queuedBytes' = 0
    /\ lifecycle' = "drained"
    /\ UNCHANGED <<rows, hook, current, events, service, worker, faults>>

\* Every job has ended.
drain ==
    /\ lifecycle = "pausing"
    /\ \A w \in Worker : worker[w].pc = "idle"
    /\ recovery' = reset(recovery)
    /\ pass' = NoPass
    /\ events' = <<>>
    /\ queued' = [r \in Receipt |-> NotQueued]
    /\ queuedBytes' = 0
    /\ lifecycle' = "drained"
    /\ UNCHANGED <<rows, hook, current, service, worker, faults>>

beginRecoveryTransition ==
    /\ lifecycle = "none"
    /\ current < MaxFile
    /\ service' = [service EXCEPT !.transition = TRUE]
    /\ lifecycle' = "begun"
    /\ UNCHANGED <<rows, hook, current, queue, recovery, pass, worker, faults>>

\* publishRuntimeLocked with the next file, under the write side of runtimeMu.
publish ==
    /\ lifecycle \in {"begun", "drained"}
    /\ service.transition
    /\ ~HooksInFlight
    /\ current' = current + 1
    /\ lifecycle' = "published"
    /\ UNCHANGED <<rows, hook, queue, service, recovery, pass, worker, faults>>

\* The scheduler's rotation tells the processor.
changeStorage ==
    /\ lifecycle = "published"
    /\ ~service.paused
    /\ recovery' = storageChanged(recovery)
    /\ lifecycle' = "changed"
    /\ UNCHANGED <<rows, hook, current, queue, service, pass, worker, faults>>

\* Also when the new file could not be opened, which is a fault.
endRecoveryTransition ==
    /\ \/ lifecycle = "changed" /\ UNCHANGED faults
       \/ lifecycle = "begun" /\ Fault
    /\ service' = [service EXCEPT !.transition = FALSE]
    /\ lifecycle' = "none"
    /\ UNCHANGED <<rows, hook, current, queue, recovery, pass, worker>>

\* configure, at the end of a reload with or without a new file or a pause.
configure ==
    /\ lifecycle \in {"none", "drained", "published"}
    /\ lifecycle = "none" => service.excluded # {}
    /\ lifecycle = "drained" => ~service.transition
    /\ recovery' = storageChanged(IF service.excluded = {} THEN recovery
                                  ELSE raise(recovery, {"history"}))
    /\ service' = [service EXCEPT !.paused = FALSE, !.transition = FALSE,
                                  !.excluded = {}]
    /\ lifecycle' = "none"
    /\ UNCHANGED <<rows, hook, current, queue, pass, worker, faults>>

\* cancelFiles: the scheduler is about to prune paths.
cancelFiles(paths) ==
    LET out(i) == FileOf[events[i].receipt] \in paths
        kept == {i \in 1 .. Len(events) : ~out(i)}
        gone == {events[i].receipt : i \in 1 .. Len(events) \ kept}
        rec  == IF service.excluded \subseteq paths THEN recovery
                ELSE raise(recovery, {"history"})
    IN  /\ Fault
        /\ lifecycle \in {"none", "changed"}
        /\ paths # service.excluded
        /\ \E next \in [1 .. Cardinality(kept) -> kept] :
             /\ \A i, j \in DOMAIN next : i < j => next[i] < next[j]
             /\ events' = [i \in DOMAIN next |-> events[next[i]]]
        /\ queued' = [r \in Receipt |-> IF r \in gone THEN NotQueued ELSE queued[r]]
        /\ queuedBytes' = queuedBytes - Cardinality(gone)
        /\ recovery' = [rec EXCEPT !.capacityBlocked = @ /\ gone = {}]
        /\ service' = [service EXCEPT !.excluded = paths]
        /\ UNCHANGED <<rows, hook, current, pass, lifecycle, worker>>

\* dispatchRetainedReplay, once the daemon is up.
start ==
    /\ ~recovery.ready
    /\ recovery' = [raise(recovery, {"history"}) EXCEPT !.ready = TRUE]
    /\ UNCHANGED <<rows, hook, current, queue, service, pass, lifecycle, worker,
                   faults>>

\* recoveryTick: the clock was set back, or deadlines have passed.
recoveryTick ==
    LET due  == {c \in Class : recovery.deadline[c] = 0}
        back == recovery.behind > 0
    IN  /\ back \/ due # {}
        /\ recovery' = [raise(recovery, IF back THEN Class ELSE due) EXCEPT
                           !.clockFresh = @ /\ ~back,
                           !.behind = 0,
                           !.deadline = [c \in Class |-> IF c \in due THEN Null ELSE @[c]]]
        /\ UNCHANGED <<rows, hook, current, queue, service, pass, lifecycle, worker,
                       faults>>

-----------------------------------------------------------------------------
(* Time and crashes.                                                        *)

Renewed(r) == \E w \in Worker : worker[w].pc = "claimed" /\ worker[w].receipt = r

Left(time) == IF time = Null \/ time = 0 THEN time ELSE time - 1

aged(page) == [r \in DOMAIN page |-> [page[r] EXCEPT !.left = Left(@)]]

\* A second passes for whatever waits for time.
Tick ==
    /\ \/ \E r \in Receipt : (lease[r] > 0 /\ ~Renewed(r)) \/ wait[r] \notin {Null, 0}
       \/ \E c \in Class : recovery.deadline[c] \notin {Null, 0}
    /\ wait' = [r \in Receipt |-> Left(wait[r])]
    /\ lease' = [r \in Receipt |-> IF Renewed(r) THEN lease[r] ELSE Left(lease[r])]
    /\ recovery' = [recovery EXCEPT
                       !.deadline = [c \in Class |-> Left(@[c])],
                       !.behind = Left(@)]
    /\ worker' = [w \in Worker |-> [worker[w] EXCEPT !.page = aged(@)]]
    /\ UNCHANGED <<row, hook, current, queue, service, pass, lifecycle, faults>>

\* The wall clock is set back by a second: stored times, of recent ones also
\* those already reached, lie further ahead.
ClockBack(recent) ==
    LET later(time) == IF time = Null THEN Null ELSE time + 1
    IN  /\ Fault
        /\ recovery.behind < MaxJump
        /\ \A r \in Receipt : /\ lease[r] < Lease + MaxJump
                               /\ wait[r] # Null => wait[r] < RetryDelay + MaxJump
        /\ wait' = [r \in Receipt |-> IF wait[r] = 0 /\ r \notin recent THEN 0
                                     ELSE later(wait[r])]
        /\ lease' = [r \in Receipt |-> IF lease[r] = 0 THEN 0 ELSE lease[r] + 1]
        /\ recovery' = [recovery EXCEPT
                           !.deadline = [c \in Class |-> later(@[c])],
                           !.behind = @ + 1]
        /\ UNCHANGED <<row, hook, current, queue, service, pass, lifecycle, worker>>

\* The daemon dies; the next one starts with the rows only.
Restart ==
    /\ Fault
    /\ hook' = [r \in Receipt |-> IF hook[r] = "absent" THEN "absent" ELSE "done"]
    /\ events' = <<>>
    /\ queued' = [r \in Receipt |-> NotQueued]
    /\ queuedBytes' = 0
    /\ service' = EmptyService
    /\ recovery' = EmptyRecovery
    /\ pass' = NoPass
    /\ lifecycle' = "none"
    /\ worker' = [w \in Worker |-> IdleWorker]
    /\ UNCHANGED <<rows, current>>

-----------------------------------------------------------------------------
Init ==
    /\ row = [r \in Receipt |-> "none"]
    /\ wait = [r \in Receipt |-> Null]
    /\ lease = [r \in Receipt |-> 0]
    /\ hook = [r \in Receipt |-> "absent"]
    /\ current = 1
    /\ events = <<>>
    /\ queued = [r \in Receipt |-> NotQueued]
    /\ queuedBytes = 0
    /\ service = EmptyService
    /\ recovery = EmptyRecovery
    /\ pass = NoPass
    /\ lifecycle = "none"
    /\ worker = [w \in Worker |-> IdleWorker]
    /\ faults = 0

HookNext(r) ==
    \/ AppendReceipt(r)
    \/ \E deferredPending \in BOOLEAN : CommitHot(r, deferredPending)
    \/ submit(r)

TakeWork(w) == takeProbe(w) \/ takeEvent(w)

\* The steps of a worker that has work.
WorkerStep(w) ==
    \/ beginPass(w)
    \/ selectFile(w)
    \/ skipFile(w)
    \/ readPage(w)
    \/ examine(w)
    \/ admitRecovered(w)
    \/ endPage(w, FALSE)
    \/ prepareDelayed(w)
    \/ claim(w)
    \/ processDone(w)
    \/ processSkips(w)
    \/ finishJob(w, FALSE)
    \/ markUnsettled(w)
    \/ finishDispatch(w)

WorkerFails(w) ==
    \/ traversalFails(w)
    \/ readFails(w)
    \/ endPage(w, TRUE)
    \/ prepareFails(w)
    \/ processFails(w)
    \/ finishJob(w, TRUE)

\* What ends a lifecycle operation that was begun.
LifecycleStep ==
    \/ drain
    \/ publish
    \/ changeStorage
    \/ endRecoveryTransition
    \/ configure

Disturbance ==
    \/ pause
    \/ beginRecoveryTransition
    \/ \E paths \in SUBSET (1 .. current - 1) : cancelFiles(paths)
    \/ \E recent \in SUBSET Receipt : ClockBack(recent)
    \/ Restart

Next ==
    \/ \E r \in Receipt : HookNext(r)
    \/ \E w \in Worker : TakeWork(w) \/ WorkerStep(w) \/ WorkerFails(w)
    \/ LifecycleStep
    \/ start
    \/ recoveryTick
    \/ Tick
    \/ Disturbance

Spec == Init /\ [][Next]_vars

\* Hook calls, workers and tickers run; a lifecycle operation that was begun
\* is brought to its end.  Nothing else is promised, a success least of all.
FairSpec ==
    /\ Spec
    /\ \A r \in Receipt : WF_vars(submit(r))
    /\ \A r \in Receipt : WF_vars(\E p \in BOOLEAN : CommitHot(r, p))
    /\ \A w \in Worker : WF_vars(TakeWork(w) \/ WorkerStep(w))
    /\ WF_vars(lifecycle # "none" /\ LifecycleStep)
    /\ WF_vars(start) /\ WF_vars(recoveryTick) /\ WF_vars(Tick)

-----------------------------------------------------------------------------
(* Properties.                                                             *)

\* The queue, the rows and the workers have their types.
TypeOK ==
    /\ row \in [Receipt -> {"none", "pending", "complete"}]
    /\ wait \in [Receipt -> Nat \cup {Null}]
    /\ lease \in [Receipt -> Nat]
    /\ hook \in [Receipt -> {"absent", "evaluating", "committed", "done"}]
    /\ current \in 1 .. MaxFile
    /\ events \in Seq(Work)
    /\ queuedBytes \in 0 .. ByteLimit
    /\ service.excluded \subseteq 1 .. MaxFile
    /\ \A c \in Class : recovery.deadline[c] \in Nat \cup {Null}
    /\ \A w \in Worker : worker[w].receipt \in Receipt \cup {Null}

Holds(w, r) ==
    /\ worker[w].receipt = r
    /\ worker[w].pc \in {"work", "claimed", "finish", "mark", "release"}

\* The map of queued receipts is exactly what the channel and the workers
\* hold, each receipt once and with the epoch of its work, so that nothing is
\* worked on twice at a time and no entry or credit is left behind, whatever
\* is cancelled, drained or finished in between.
QueueExact ==
    /\ \A r \in Receipt :
          LET inEvents == {i \in 1 .. Len(events) : events[i].receipt = r}
              held     == {w \in Worker : Holds(w, r)}
          IN  /\ Cardinality(inEvents) + Cardinality(held) =
                     IF InQueueMap(r) THEN 1 ELSE 0
              /\ \A i \in inEvents : events[i].epoch = queued[r].epoch
              /\ \A w \in held : worker[w].epoch = queued[r].epoch
    /\ queuedBytes = Cardinality({r \in Receipt : InQueueMap(r)})

\* The pass in progress has f still before it, or is to be abandoned.
PassComesTo(f) ==
    /\ pass.active
    /\ \/ pass.epoch # service.epoch
       \/ pass.file = f
       \/ ~pass.historical /\ ~pass.currentDone /\ f = current
       \/ pass.historical /\ pass.files = Null
       \/ pass.historical /\ pass.files # Null /\ f \in pass.files

\* A pass over f is still to come, because one is due or will be.
Discoverable(f) ==
    \/ \E c \in {classOf(f), "history"} :
          recovery.dirty[c] \/ recovery.deadline[c] # Null
    \/ recovery.currentPath # current
    \/ f \in service.excluded
    \/ PassComesTo(f)

\* Its hook call is about to submit it, it is queued or worked on, or a pass
\* over its file is in progress, due, or set for a time.
LedTo(r) ==
    \/ hook[r] = "committed"
    \/ InQueueMap(r)
    \/ Discoverable(FileOf[r])

\* "Every committed pending receipt remains discoverable without a lost
\* wakeup": no pending receipt is ever left with nothing that leads the daemon
\* to it.
EveryPendingDiscoverable == \A r \in Receipt : row[r] = "pending" => LedTo(r)

\* The same, of receipts that do not share their file with another one, both
\* having been given a time for the next attempt.
NoReceiptForgotten ==
    LET retried(f) == {s \in Receipt : FileOf[s] = f /\ wait[s] # Null}
    IN  \A r \in Receipt :
            row[r] = "pending" /\ (wait[r] = Null \/ retried(FileOf[r]) = {r}) => LedTo(r)

\* Recovery is blocked for want of credit only while somebody holds some, and
\* credit is held back from the hook calls only for a pass in progress.
CreditReturns ==
    /\ recovery.capacityBlocked => queuedBytes > 0
    /\ recovery.creditReserved => pass.active
    /\ recovery.probing <=> \E w \in Worker : worker[w].pc \in
            {"probe", "select", "read", "examine", "admit"}

\* What the dispatcher and the recovery know of each other's work is exact: the
\* map, the channel, the workers and the credit never drift apart
\* (deferred_service.go, replay_scheduler.go; recovery.go: the passes).
QueueInOrder == TypeOK /\ QueueExact /\ CreditReturns

\* A pending receipt is in the end settled, unless its file is put aside to be
\* pruned.
EventuallySettled ==
    \A r \in Receipt :
        row[r] = "pending" ~> row[r] # "pending" \/ FileOf[r] \in service.excluded
=============================================================================
