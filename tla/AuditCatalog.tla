---------------------------- MODULE AuditCatalog ----------------------------
(***************************************************************************)
(* The catalog of audit files (internal/auditstorage): which file is       *)
(* current, how files are created, finalized, pruned and forgotten, and    *)
(* what a crash leaves behind.                                             *)
(*                                                                         *)
(* Every operation of the catalog holds one coordination lock between      *)
(* processes, so at most one operation (op) is in progress; what           *)
(* interleaves with its steps is the closing of handles and a crash.  A    *)
(* step here is the stretch up to the next durable change.                 *)
(*                                                                         *)
(* A file is [db, side, done, full]: the identity of the database file (0  *)
(* when there is none), the identity of the database that its write-ahead  *)
(* log belongs to (0 when there is none), whether the header says that the *)
(* file is complete, and whether it has reached the size of a segment.     *)
(***************************************************************************)
EXTENDS Integers, Sequences, FiniteSets, SequencesExt

CONSTANTS
    Bases,        \* configured base paths, each the head of a family of files
    Intervals,    \* lengths of a window, in units of the clock
    Retained,     \* windows kept, the current one included (0: no age limit)
    MaxTotal,     \* files that fit in MaxBytes (0: no size limit)
    BatchLimit,   \* maintenanceBatchLimit
    Readers,      \* processes that query the history
    MaxTime, MaxSeq, MaxFiles, MaxFaults    \* bounds

ASSUME CatalogAssumption ==
    /\ Intervals \subseteq Nat \ {0}
    /\ {Retained, MaxTotal, MaxTime, MaxSeq, MaxFiles, MaxFaults} \subseteq Nat
    /\ BatchLimit \in Nat \ {0}
    /\ "none" \notin Bases

VARIABLES
    files,    \* what is on disk, by path
    staging,  \* paths whose ".creating" file exists
    saved,    \* the state file, or NoState
    op,       \* the operation that holds the coordination lock, or NoOp
    handles,  \* open BucketHandles, each with its shared lock
    daemon,   \* the daemon process: its loaded policy and its current bucket
              \* (free is history: what was expired and not in use at the choice)
    targets,  \* what PruneBatchCandidates chose, for PruneBatchSelected
    config,   \* the policy in the configuration file
    now,
    used,     \* identities of files given out so far
    faults,   \* crashes, errors, edits, purges and clock changes so far
    doomed,   \* history: identities that a recorded reset has to destroy: of
              \* every family that a policy or an unfinished reset has named
    lost,     \* history: those of them that Purge no longer knew of
    retired,  \* history: identities that were current once
    recorded  \* history: identities that the state file has named

history == <<doomed, lost, retired, recorded>>
vars == <<files, staging, saved, op, handles, daemon, targets, config, now, used,
          faults, history>>

Paths == [base: Bases, window: 0..MaxTime, seq: 0..MaxSeq]
Policies == [base: Bases, interval: Intervals]

NoPath == [base |-> "none", window |-> 0, seq |-> 0]
NoPolicy == [base |-> "none", interval |-> 0]
NoState == [policy |-> NoPolicy, pending |-> FALSE, bases |-> {}, current |-> NoPath,
            seq |-> 0, deferred |-> {}]
NoOp == [kind |-> "none", step |-> "none"]
NoFile == [db |-> 0, side |-> 0, done |-> FALSE, full |-> FALSE]

-----------------------------------------------------------------------------
(* Buckets, windows and families *)

bucketStart(at, interval) == at - (at % interval)

retained(p, policy, at) ==
    LET current == bucketStart(at, policy.interval)
    IN  /\ p.window % policy.interval = 0
        /\ p.window <= current
        /\ Retained > 0 => p.window >= current - (Retained - 1) * policy.interval

\* compareStorageFiles: IDs of windows order by time, and within a window
\* the unsegmented file precedes the segments by number.
Older(p, q) ==
    \/ p.window < q.window
    \/ p.window = q.window /\ p.seq < q.seq

OnDisk(p) == files[p].db # 0
Present(p) == files[p].db # 0 \/ files[p].side # 0

\* visitFamily: every database of the family, and what a deletion that was
\* interrupted left of one.
Family(base) == {p \in Paths : p.base = base /\ Present(p)}

\* A lock that only writers take.
pinnedByWriter(p) == \E h \in handles : h.path = p /\ h.locked /\ ~h.readonly

\* A bucket is pinned by a shared lock on its lock file.  A handle whose
\* lock file was removed (locked FALSE) no longer excludes anybody.
Pinned(p) == \E h \in handles : h.path = p /\ h.locked

sameIdentity(state, policy) == state.policy = policy

\* checkStateSummary: ErrResetPending and ErrPolicyChanged refuse the call.
Accepts(policy) ==
    \/ saved = NoState
    \/ ~saved.pending /\ sameIdentity(saved, policy)

\* NeedsRotation of a bucket.
needsRotation(p, policy, at) ==
    \/ p.window # bucketStart(at, policy.interval)
    \/ MaxTotal > 0 /\ files[p].full

-----------------------------------------------------------------------------
(* selectCurrent *)

recoverySequence(p) == p.seq

\* selectCurrent that takes up whatever file this window has.
selectNewest(policy, at) ==
    LET start == bucketStart(at, policy.interval)
        here == {p.seq : p \in {q \in Paths : q.base = policy.base /\ OnDisk(q) /\ q.window = start}}
    IN  [path |-> [base |-> policy.base, window |-> start, seq |-> Max({0} \cup here)],
         seq |-> saved.seq]

\* A count of the databases alone.
highestOnDisk(buckets) == Max({0} \cup {recoverySequence(p) : p \in buckets})

\* The state file remembers numbers whose files are gone.
highestNumber(buckets) == Max({saved.seq} \cup {recoverySequence(p) : p \in buckets})

\* The file to write to, and the highest number in use: the newest file of
\* this window, or a new segment when that one is full, complete, not the
\* recorded current file, or missing although one is recorded.
selectCurrent(policy, at) ==
    LET start == bucketStart(at, policy.interval)
        old == saved.current
        buckets == {p \in Paths : p.base = policy.base /\ OnDisk(p)}
        sequence == highestNumber(buckets)
        here == {p.seq : p \in {q \in buckets : q.window = start}}
        newest == [base |-> policy.base, window |-> start,
                   seq |-> Max({0} \cup here)]
        rotate == \/ needsRotation(newest, policy, at)
                  \/ OnDisk(newest) /\ files[newest].done
                  \/ old # NoPath /\ (newest # old \/ ~OnDisk(newest))
    IN  IF rotate THEN [path |-> [newest EXCEPT !.seq = sequence + 1],
                        seq |-> sequence + 1]
                  ELSE [path |-> newest, seq |-> sequence]

-----------------------------------------------------------------------------
(* Steps shared by the operations *)

Idle == op = NoOp

\* The end of an operation, or an error that makes it return: the
\* coordination lock is released.
Return == op' = NoOp

\* cleanStaging and the removal at the head of publishNew.
RemoveStaging(base) == {p \in staging : p.base # base}

\* removeBucket in two durable steps: the database, then its sidecars and
\* the lock file.  A handle whose lock file goes away is no longer seen.
removeDatabase(p) == [files EXCEPT ![p].db = 0, ![p].done = FALSE, ![p].full = FALSE]
removeSidecars(p) == [files EXCEPT ![p].side = 0]
removeLock(p) == {[h EXCEPT !.locked = h.locked /\ h.path # p] : h \in handles}

-----------------------------------------------------------------------------
(* EnsureCurrent *)

\* The daemon calls EnsureCurrent when it starts, and when its bucket needs
\* rotation; both with the time at which the pass began.
EnsureCurrent ==
    /\ Idle /\ daemon.up /\ daemon.mode = "ensure" /\ daemon.want = NoPath
    /\ daemon.bucket # NoPath => needsRotation(daemon.bucket, daemon.policy, now)
    /\ Accepts(daemon.policy)
    /\ LET chosen == selectCurrent(daemon.policy, now)
       IN  /\ chosen.path \in Paths /\ used < MaxFiles
           /\ op' = [kind |-> "ensure", step |-> IF OnDisk(chosen.path) THEN "save" ELSE "stage",
                     path |-> chosen.path, seq |-> chosen.seq]
    /\ staging' = RemoveStaging(daemon.policy.base)
    /\ daemon' = [daemon EXCEPT !.at = now]
    /\ UNCHANGED <<files, saved, handles, targets, config, now, used, faults,
                   history>>

\* A starting daemon that expects ErrPolicyChanged only.
refusedPolicyOnly ==
    /\ Idle /\ daemon.up /\ daemon.mode = "ensure" /\ daemon.bucket = NoPath
    /\ daemon.want = NoPath
    /\ ~Accepts(daemon.policy) /\ ~saved.pending
    /\ daemon' = [daemon EXCEPT !.mode = "reset"]
    /\ UNCHANGED <<files, staging, saved, op, handles, targets, config, now,
                   used, faults, history>>

\* ErrPolicyChanged or ErrResetPending: a starting daemon resets.
EnsureRefused ==
    /\ Idle /\ daemon.up /\ daemon.mode = "ensure" /\ daemon.bucket = NoPath
    /\ daemon.want = NoPath
    /\ ~Accepts(daemon.policy)
    /\ daemon' = [daemon EXCEPT !.mode = "reset"]
    /\ UNCHANGED <<files, staging, saved, op, handles, targets, config, now, used,
                   faults, history>>

\* publishNew creates the database under its staging name ...
Stage ==
    /\ op.kind \in {"ensure", "reset"} /\ op.step = "stage"
    /\ staging' = staging \cup {op.path}
    /\ op' = [op EXCEPT !.step = "publish"]
    /\ UNCHANGED <<files, saved, handles, daemon, targets, config, now, used,
                   faults, history>>

\* ... and renames it.  A sidecar that is still there now belongs to nothing.
Publish ==
    /\ op.kind \in {"ensure", "reset"} /\ op.step = "publish"
    /\ staging' = staging \ {op.path}
    /\ used' = used + 1
    /\ files' = [files EXCEPT ![op.path].db = used + 1, ![op.path].done = FALSE,
                              ![op.path].full = FALSE]
    /\ op' = [op EXCEPT !.step = "save"]
    /\ UNCHANGED <<saved, handles, daemon, targets, config, now, faults, history>>

identities(paths) == ({files[p].db : p \in paths} \cup {files[p].side : p \in paths}) \ {0}
currentIdentity == IF saved.current = NoPath THEN {}
                   ELSE {files[saved.current].db} \ {0}

savedCurrent ==
    [policy |-> daemon.policy, pending |-> FALSE, bases |-> {}, current |-> op.path,
     seq |-> op.seq, deferred |-> IF op.kind = "reset" THEN {} ELSE saved.deferred]

\* The state is saved when the current file changes, the number of segments
\* with it; deferred_files is preserved, and a reset starts the numbers again.
SaveCurrent ==
    /\ op.kind \in {"ensure", "reset"} /\ op.step = "save"
    /\ saved' = IF op.kind = "ensure" /\ saved.current = op.path THEN saved ELSE savedCurrent
    /\ retired' = IF saved.current # op.path
                  THEN retired \cup currentIdentity ELSE retired
    /\ recorded' = recorded \cup {files[op.path].db}
    /\ daemon' = [daemon EXCEPT !.want = op.path, !.mode = "ensure"]
    /\ Return
    /\ UNCHANGED <<files, staging, handles, targets, config, now, used, doomed,
                   lost, faults>>

-----------------------------------------------------------------------------
(* Reset and Purge *)

\* pendingFamilies that remembers only the family it is about to create.
pendingConfigured(state, base) == {base}

\* pendingFamilies, and the array that saveStatePreserving keeps.
pendingFamilies(state, base) ==
    ({base, state.policy.base} \cup state.bases) \ {NoPolicy.base}

\* The files that a reset has to destroy.
affected(state, policy) ==
    {p \in Paths : p.base \in {policy.base, state.policy.base} \cup state.bases}

\* Reset first records, durably, which families it is about to delete.
Reset ==
    /\ Idle /\ daemon.up /\ daemon.mode = "reset" /\ used < MaxFiles
    /\ LET bases == pendingFamilies(saved, daemon.policy.base)
           start == bucketStart(now, daemon.policy.interval)
       IN  /\ saved' = [policy |-> daemon.policy, pending |-> TRUE, bases |-> bases,
                        current |-> NoPath, seq |-> 0, deferred |-> {}]
           /\ op' = [kind |-> "reset", step |-> "delete", seq |-> 0, bases |-> bases, path |-> NoPath,
                     first |-> [base |-> daemon.policy.base, window |-> start, seq |-> 0]]
           /\ doomed' = doomed \cup identities(affected(saved, daemon.policy))
    /\ retired' = retired \cup currentIdentity
    /\ daemon' = [daemon EXCEPT !.at = now]
    /\ UNCHANGED <<files, staging, handles, targets, config, now, used, lost,
                   recorded, faults>>

\* deleteFamilies: one more member, whose exclusive lock can be taken; the
\* database first.
DeleteMember ==
    /\ op.kind \in {"reset", "purge"} /\ op.step = "delete"
    /\ \E b \in op.bases : \E p \in Family(b) :
           /\ ~Pinned(p)
           /\ files' = removeDatabase(p)
           /\ op' = [op EXCEPT !.step = "sidecars", !.path = p]
    /\ UNCHANGED <<staging, saved, handles, daemon, targets, config, now, used,
                   faults, history>>

\* A member still in use ends the operation; a reset stays pending.
DeleteBusy ==
    /\ op.kind \in {"reset", "purge"} /\ op.step = "delete"
    /\ \E b \in op.bases : \E p \in Family(b) : Pinned(p)
    /\ Return
    /\ UNCHANGED <<files, staging, saved, handles, daemon, targets, config, now,
                   used, faults, history>>

DeleteSidecars ==
    /\ op.kind \in {"reset", "purge"} /\ op.step = "sidecars"
    /\ files' = removeSidecars(op.path)
    /\ handles' = removeLock(op.path)
    /\ op' = [op EXCEPT !.step = "delete"]
    /\ UNCHANGED <<staging, saved, daemon, targets, config, now, used, faults,
                   history>>

\* Nothing of the families is left: a reset goes on to the new first file,
\* without a number, and a purge removes the state file.
FamiliesDeleted ==
    /\ op.kind \in {"reset", "purge"} /\ op.step = "delete"
    /\ \A b \in op.bases : Family(b) = {}
    /\ staging' = {p \in staging : p.base \notin op.bases}
    /\ op' = [op EXCEPT !.step = IF op.kind = "reset" THEN "stage" ELSE "forget",
                        !.path = op.first]
    /\ UNCHANGED <<files, saved, handles, daemon, targets, config, now, used,
                   faults, history>>

\* The reset command, once the daemon is stopped (install.ApplyReset): the
\* family that is configured now, and no other.
Purge ==
    /\ Idle /\ ~daemon.up /\ faults < MaxFaults
    /\ faults' = faults + 1
    /\ op' = [kind |-> "purge", step |-> "delete", path |-> NoPath, first |-> NoPath,
              bases |-> {config.base}]
    /\ UNCHANGED <<files, staging, saved, handles, daemon, targets, config, now,
                   used, history>>

RemoveState ==
    /\ op.kind = "purge" /\ op.step = "forget"
    /\ saved' = NoState
    /\ lost' = lost \cup identities(Paths)
    /\ Return
    /\ UNCHANGED <<files, staging, handles, daemon, targets, config, now, used,
                   doomed, retired, recorded, faults>>

-----------------------------------------------------------------------------
(* Handles *)

handle(who, p, readonly) ==
    [who |-> who, path |-> p, id |-> files[p].db, readonly |-> readonly, locked |-> TRUE]

\* OpenWriter of the file that EnsureCurrent or Reset returned.  A writer
\* creates the write-ahead log.
OpenCurrent ==
    /\ Idle /\ daemon.up /\ daemon.want # NoPath
    /\ saved # NoState /\ ~saved.pending /\ saved.policy.base = daemon.policy.base
    /\ OnDisk(daemon.want)
    /\ handles' = handles \cup {handle("daemon", daemon.want, FALSE)}
    /\ files' = [files EXCEPT ![daemon.want].side = files[daemon.want].db]
    /\ daemon' = [daemon EXCEPT !.bucket = daemon.want, !.want = NoPath]
    /\ UNCHANGED <<staging, saved, op, targets, config, now, used, faults, history>>

\* OpenWriter for recovery of another file that is not complete (one worker,
\* so one file besides the current one).
OpenHistorical(p) ==
    /\ Idle /\ daemon.up /\ daemon.bucket # NoPath
    /\ saved # NoState /\ ~saved.pending /\ saved.policy.base = daemon.policy.base
    /\ p.base = daemon.policy.base /\ p.window % saved.policy.interval = 0
    /\ p # saved.current => ~files[p].done
    /\ OnDisk(p) /\ p # daemon.bucket
    /\ \A h \in handles : h.who = "daemon" => h.path = daemon.bucket
    /\ handles' = handles \cup {handle("daemon", p, FALSE)}
    /\ files' = [files EXCEPT ![p].side = files[p].db]
    /\ UNCHANGED <<staging, saved, op, daemon, targets, config, now, used, faults,
                   history>>

\* Read: all retained windows of the configured family.
Read(r) ==
    /\ Idle /\ Accepts(config) /\ saved # NoState
    /\ ~\E h \in handles : h.who = r
    /\ \E p \in Family(config.base) : OnDisk(p)
    /\ handles' = handles \cup {handle(r, p, TRUE) : p \in
                      {q \in Family(config.base) : OnDisk(q) /\ retained(q, config, now)}}
    /\ UNCHANGED <<files, staging, saved, op, daemon, targets, config, now, used,
                   faults, history>>

\* Close: SQLite first (the last writer removes the write-ahead log), then
\* the shared lock.  The daemon keeps the handle of its bucket.
CloseHandle(h) ==
    /\ h \in handles
    /\ ~(h.who = "daemon" /\ h.path = daemon.bucket)
    /\ handles' = handles \ {h}
    /\ files' = IF \/ h.readonly \/ files[h.path].side # h.id
                   \/ \E g \in handles \ {h} : g.path = h.path
                THEN files ELSE [files EXCEPT ![h.path].side = 0]
    /\ UNCHANGED <<staging, saved, op, daemon, targets, config, now, used, faults,
                   history>>

\* The current file reaches the size of a segment.
Grow ==
    /\ Idle /\ daemon.up /\ daemon.bucket # NoPath /\ ~files[daemon.bucket].full
    /\ files' = [files EXCEPT ![daemon.bucket].full = TRUE]
    /\ UNCHANGED <<staging, saved, op, handles, daemon, targets, config, now, used,
                   faults, history>>

\* Finalize: a retired file without borrowers and without pending receipts is
\* checkpointed and leaves write-ahead logging.
Finalize(p) ==
    /\ Idle /\ daemon.up /\ daemon.bucket # NoPath
    /\ saved # NoState /\ ~saved.pending /\ saved.policy.base = daemon.policy.base
    /\ p.base = daemon.policy.base /\ p # saved.current
    /\ OnDisk(p) /\ ~Pinned(p) /\ ~files[p].done
    /\ files' = [files EXCEPT ![p].done = TRUE, ![p].side = 0]
    /\ UNCHANGED <<staging, saved, op, handles, daemon, targets, config, now, used,
                   faults, history>>

-----------------------------------------------------------------------------
(* Pruning *)

byAge(S) == SetToSortSeq(S, Older)
firstN(s, n) == SubSeq(s, 1, IF Len(s) < n THEN Len(s) ELSE n)
total == Cardinality(Family(daemon.policy.base))
expired(p, at) == ~retained(p, daemon.policy, at)
overSize(t) == MaxTotal > 0 /\ t > MaxTotal

\* pruningInventory: the oldest files, the oldest that are expired and free,
\* and the oldest that is expired and in use.
inventory(at) ==
    LET all == Family(daemon.policy.base)
        gone == {p \in all : expired(p, at)}
    IN  ToSet(firstN(byAge(all), BatchLimit + 2))
        \cup ToSet(firstN(byAge({p \in gone : ~Pinned(p)}), BatchLimit))
        \cup ToSet(firstN(byAge({p \in gone : Pinned(p)}), 1))

\* capturePruneTarget: the identity of the database, or of what is left.
identityOf(p) == IF OnDisk(p) THEN <<"db", files[p].db>> ELSE <<"side", files[p].side>>

\* Expired files in use that may fill the batch.
neverBlockedByAge(acc, p, at) == FALSE

\* Only the first expired file that is in use enters the batch.
blockedByAge(acc, p, at) == acc.ageBlocked /\ expired(p, at) /\ Pinned(p)

\* The loop of PruneBatchCandidates over the merged list, oldest first.
Candidates(at) ==
    LET step(acc, p) ==
            LET skip == ~expired(p, at) /\ (\/ ~overSize(acc.total) \/ acc.sizeBlocked
                                        \/ p = saved.current)
            IN  IF Cardinality(acc.chosen) = BatchLimit \/ skip \/ blockedByAge(acc, p, at)
                THEN acc
                ELSE [chosen |-> acc.chosen \cup {[path |-> p, id |-> identityOf(p)]},
                      total |-> IF Pinned(p) THEN acc.total ELSE acc.total - 1,
                      sizeBlocked |-> acc.sizeBlocked \/ (Pinned(p) /\ overSize(acc.total)),
                      ageBlocked |-> acc.ageBlocked \/ (expired(p, at) /\ Pinned(p))]
    IN  FoldLeft(step, [chosen |-> {}, total |-> total, sizeBlocked |-> FALSE,
                        ageBlocked |-> FALSE], byAge(inventory(at))).chosen

\* reconcileAuditStorage, after the rotation: with the same time.
PruneBatchCandidates ==
    /\ Idle /\ daemon.up /\ daemon.bucket # NoPath /\ daemon.want = NoPath
    /\ ~needsRotation(daemon.bucket, daemon.policy, now)
    /\ Accepts(daemon.policy) /\ saved # NoState
    /\ daemon.mode = "ensure" /\ targets = {}
    /\ daemon' = [daemon EXCEPT !.at = now, !.mode = "prune",
                    !.free = {p \in Family(daemon.policy.base) : expired(p, now) /\ ~Pinned(p)}]
    /\ targets' = Candidates(now)
    /\ UNCHANGED <<files, staging, saved, op, handles, config, now, used, faults,
                   history>>

\* samePruneTarget: the file is still the one that was selected.
samePruneTarget(p, chosen) == \E t \in chosen : t.path = p /\ t.id = identityOf(p)

\* PruneBatchSelected takes its own inventory, in a later critical section.
PruneBatchSelected ==
    /\ Idle /\ daemon.up /\ daemon.mode = "prune" /\ Accepts(daemon.policy)
    /\ staging' = RemoveStaging(daemon.policy.base)
    /\ op' = [kind |-> "prune", step |-> "next", path |-> NoPath,
              todo |-> byAge(ToSet(firstN(byAge(Family(daemon.policy.base)), BatchLimit + 2))
                             \cup {p \in Family(daemon.policy.base) : \E t \in targets : t.path = p}),
              total |-> total, sizeBlocked |-> FALSE, removed |-> {}, deferred |-> {}]
    /\ UNCHANGED <<files, saved, handles, daemon, targets, config, now, used,
                   faults, history>>

\* A file in use under size pressure that stops the pass for expired files too.
dueUnblocked(p) ==
    /\ ~op.sizeBlocked
    /\ expired(p, daemon.at) \/ (overSize(op.total) /\ p # saved.current)

\* Expired files go; for size the oldest go, until one cannot.
pruneDue(p) ==
    \/ expired(p, daemon.at)
    \/ overSize(op.total) /\ ~op.sizeBlocked /\ p # saved.current

\* The file at the head of the list is not to be removed, not selected, in
\* use, or removed, its database first.
PruneNext ==
    /\ op.kind = "prune" /\ op.step = "next" /\ op.todo # <<>>
    /\ LET p == Head(op.todo)
           rest == [op EXCEPT !.todo = Tail(op.todo)]
           due == pruneDue(p)
           blocked == [rest EXCEPT !.sizeBlocked = op.sizeBlocked \/ overSize(op.total)]
       IN  \/ /\ ~due
              /\ op' = rest /\ UNCHANGED files
           \/ /\ due /\ ~samePruneTarget(p, targets)
              /\ op' = blocked /\ UNCHANGED files
           \/ /\ due /\ samePruneTarget(p, targets) /\ Pinned(p)
              /\ op' = [blocked EXCEPT !.deferred = op.deferred \cup {p}]
              /\ UNCHANGED files
           \/ /\ due /\ samePruneTarget(p, targets) /\ ~Pinned(p)
              /\ op' = [rest EXCEPT !.step = "sidecars", !.path = p, !.total = op.total - 1,
                                    !.removed = op.removed \cup {identityOf(p)}]
              /\ files' = removeDatabase(p)
    /\ UNCHANGED <<staging, saved, handles, daemon, targets, config, now, used,
                   faults, history>>

PruneSidecars ==
    /\ op.kind = "prune" /\ op.step = "sidecars"
    /\ files' = removeSidecars(op.path)
    /\ handles' = removeLock(op.path)
    /\ op' = [op EXCEPT !.step = "next"]
    /\ UNCHANGED <<staging, saved, daemon, targets, config, now, used, faults,
                   history>>

\* saveBatchCleanup: the files that stay although they should go.
PruneSave ==
    /\ op.kind = "prune" /\ op.step = "next" /\ op.todo = <<>>
    /\ saved' = [saved EXCEPT !.deferred =
                    {p \in Family(daemon.policy.base) :
                        p \in op.deferred \/ (expired(p, daemon.at) /\ Pinned(p))}]
    /\ daemon' = [daemon EXCEPT !.mode = "ensure", !.free = {}]
    /\ targets' = {}
    /\ Return
    /\ UNCHANGED <<files, staging, handles, config, now, used, faults, history>>

-----------------------------------------------------------------------------
(* The processes, the configuration and the clock *)

Stopped == [up |-> FALSE, policy |-> NoPolicy, mode |-> "ensure", bucket |-> NoPath,
            want |-> NoPath, at |-> 0, free |-> {}]

\* initializeAuditStorage.
StartDaemon ==
    /\ Idle /\ ~daemon.up
    /\ daemon' = [Stopped EXCEPT !.up = TRUE, !.policy = config]
    /\ UNCHANGED <<files, staging, saved, op, handles, targets, config, now, used,
                   faults, history>>

\* replaceAuditSnapshot for another family or interval: the snapshot is
\* withdrawn and the new policy reset, until that succeeds.
Reload ==
    /\ Idle /\ daemon.up /\ daemon.policy # config /\ daemon.mode = "ensure"
    /\ daemon.bucket # NoPath /\ daemon.want = NoPath
    /\ daemon' = [daemon EXCEPT !.policy = config, !.mode = "reset", !.bucket = NoPath]
    /\ UNCHANGED <<files, staging, saved, op, handles, targets, config, now, used,
                   faults, history>>

EditConfig(policy) ==
    /\ Idle /\ faults < MaxFaults /\ policy # config
    /\ config' = policy /\ faults' = faults + 1
    /\ UNCHANGED <<files, staging, saved, op, handles, daemon, targets, now, used,
                   history>>

\* The daemon stops: it has closed everything.
Stop ==
    /\ Idle /\ daemon.up /\ daemon.bucket # NoPath
    /\ \A h \in handles : h.who = "daemon" => h.path = daemon.bucket
    /\ handles' = {h \in handles : h.who # "daemon"}
    /\ files' = IF Pinned(daemon.bucket) /\ ~\E h \in handles : h.who # "daemon" /\ h.path = daemon.bucket
                THEN removeSidecars(daemon.bucket) ELSE files
    /\ daemon' = Stopped /\ targets' = {}
    /\ UNCHANGED <<staging, saved, op, config, now, used, faults, history>>

\* The daemon dies: the kernel releases its locks, and what it had written
\* stays.
Crash ==
    /\ daemon.up /\ faults < MaxFaults
    /\ faults' = faults + 1
    /\ op' = NoOp
    /\ handles' = {h \in handles : h.who # "daemon"}
    /\ daemon' = Stopped /\ targets' = {}
    /\ UNCHANGED <<files, staging, saved, config, now, used, history>>

\* A file operation fails, or the reset command is interrupted: the catalog
\* returns the error.  The daemon repeats a reset, and leaves a prune for later.
Fail ==
    /\ ~Idle /\ faults < MaxFaults
    /\ faults' = faults + 1
    /\ Return
    /\ daemon' = IF daemon.mode = "prune" THEN [daemon EXCEPT !.mode = "ensure", !.free = {}] ELSE daemon
    /\ targets' = {}
    /\ UNCHANGED <<files, staging, saved, handles, config, now, used, history>>

Tick ==
    /\ Idle /\ now < MaxTime /\ now' = now + 1
    /\ UNCHANGED <<files, staging, saved, op, handles, daemon, targets, config,
                   used, faults, history>>

ClockBack ==
    /\ Idle /\ now > 0 /\ faults < MaxFaults
    /\ now' = now - 1 /\ faults' = faults + 1
    /\ UNCHANGED <<files, staging, saved, op, handles, daemon, targets, config,
                   used, history>>

Init ==
    /\ files = [p \in Paths |-> NoFile]
    /\ staging = {} /\ saved = NoState /\ op = NoOp /\ handles = {}
    /\ daemon = Stopped /\ targets = {}
    /\ config \in Policies
    /\ now = 0 /\ used = 0 /\ faults = 0
    /\ doomed = {} /\ lost = {} /\ retired = {} /\ recorded = {}

\* What the daemon does unasked: it starts, opens, resets until that
\* succeeds.
DaemonStep ==
    \/ EnsureCurrent \/ EnsureRefused \/ Stage \/ Publish \/ SaveCurrent \/ Reset
    \/ DeleteMember \/ DeleteBusy \/ DeleteSidecars \/ FamiliesDeleted \/ RemoveState
    \/ OpenCurrent \/ StartDaemon

Pruning ==
    PruneBatchCandidates \/ PruneBatchSelected \/ PruneNext \/ PruneSidecars \/ PruneSave

Next ==
    \/ DaemonStep \/ Pruning \/ Purge \/ Grow \/ Reload \/ Stop \/ Crash \/ Fail \/ Tick \/ ClockBack
    \/ \E p \in Paths : OpenHistorical(p) \/ Finalize(p)
    \/ \E r \in Readers : Read(r)
    \/ \E h \in handles : CloseHandle(h)
    \/ \E policy \in Policies : EditConfig(policy)

\* The daemon is restarted by its service manager and repeats a reset that
\* failed; queries end.
Fairness ==
    /\ WF_vars(DaemonStep) /\ WF_vars(Pruning)
    /\ WF_vars(\E h \in handles : CloseHandle(h))

Spec == Init /\ [][Next]_vars /\ Fairness

-----------------------------------------------------------------------------
(* Properties *)

\* Types; the recorded number covers the current file.
CatalogTypeOK ==
    /\ \A p \in Paths : files[p].db \in 0..MaxFiles /\ files[p].side \in 0..MaxFiles
    /\ staging \subseteq Paths
    /\ saved = NoState \/ /\ saved.policy \in Policies /\ saved.bases \subseteq Bases
                          /\ saved.current \in Paths \cup {NoPath}
                          /\ saved.seq \in saved.current.seq..MaxSeq /\ saved.deferred \subseteq Paths
    /\ daemon.mode \in {"ensure", "reset", "prune"}
    /\ daemon.bucket \in Paths \cup {NoPath} /\ daemon.want \in Paths \cup {NoPath}
    /\ config \in Policies /\ now \in 0..MaxTime /\ used \in 0..MaxFiles

\* A file is neither deleted nor replaced under an open handle, and not
\* finalized under a writer: removeBucket and Finalize take the exclusive
\* lock, whose file they may remove only then (catalog.go:669).
HandleSafe ==
    \A h \in handles :
        /\ files[h.path].db = h.id /\ h.locked
        /\ ~h.readonly => ~files[h.path].done

\* Once the state file says that a reset is done, nothing that the reset had
\* to destroy is left of any family, wherever it was interrupted; the files
\* that the reset command lost sight of by removing the state file excepted.
ResetForgets ==
    saved # NoState /\ ~saved.pending => identities(Paths) \cap doomed \subseteq lost

\* A file that has been superseded is never current again, whatever the
\* clock, a crash between publication and the state file, or pruning did.
CurrentNeverReturns == currentIdentity \cap retired \subseteq lost

\* A new database never meets the write-ahead log of another file that the
\* state file has named: SQLite would replay it.  A segment that was published
\* and never recorded is not covered: its number may be given out again.
NewFilesClean ==
    \A p \in Paths :
        OnDisk(p) /\ files[p].side \notin {0, files[p].db} => files[p].side \notin recorded \ lost

\* Between the choice and the deletion other processes come in: only a file
\* that was chosen is deleted.
OnlySelectedPruned ==
    op.kind = "prune" => op.removed \subseteq {t.id : t \in targets}

\* A pass that began with expired files nobody used removes a file, unless one
\* of them was opened meanwhile: expired files in use, however many and however
\* old, do not fill the batch (prune_batch.go: ageBlocked, sizeBlocked).
PassRemoves ==
    (op.kind = "prune" /\ op.step = "next" /\ op.todo = <<>> /\ daemon.free # {}) =>
        op.removed # {} \/ daemon.free \cap op.deferred # {}

\* The catalog keeps what is in use and forgets what was reset, superseded or
\* deleted (catalog.go: removeBucket, EnsureCurrent, Reset; prune_batch.go).
CatalogInOrder ==
    CatalogTypeOK /\ HandleSafe /\ OnlySelectedPruned /\ ResetForgets /\ CurrentNeverReturns

\* Pruning makes progress, and what a deletion leaves of a file does not get
\* into a new one (prune_batch.go; catalog.go: publishNew).
PruningClean == PassRemoves /\ NewFilesClean
=============================================================================
