-------------------------- MODULE AuditCatalogProofs --------------------------
(***************************************************************************)
(* What the catalog of audit files keeps, for every number of families,    *)
(* intervals, readers, files, crashes and errors.                          *)
(*                                                                         *)
(* The invariant says, besides types, what the operation in progress may   *)
(* count on: a path that is free stays free until the new file is there,   *)
(* because the coordination lock is held; a database that is deleted had   *)
(* no handle, and its sidecars go after it; a reset stays recorded, with   *)
(* its families, until it has made its new file.  From these follow that   *)
(* handles keep their files, that whatever a reset had to destroy is of a  *)
(* family that the state file still names, and that a superseded file is   *)
(* taken up only if the state file was removed since.  Steps that change   *)
(* the files in the same way share a lemma: Dwindles for handles, Shrinks  *)
(* for deletions, NothingWritten for the rest.                             *)
(***************************************************************************)
EXTENDS AuditCatalog, Lemmas

-----------------------------------------------------------------------------
Current == Paths \cup {NoPath}
FileRecord(n) == [db : 0..n, side : 0..n, done : BOOLEAN, full : BOOLEAN]
SavedState == [policy : Policies, pending : BOOLEAN, bases : SUBSET Bases,
               current : Current, seq : 0..MaxSeq, deferred : SUBSET Paths]
Handle == [who : Readers \cup {"daemon"}, path : Paths, id : Nat \ {0},
           readonly : BOOLEAN, locked : BOOLEAN]
Daemon == [up : BOOLEAN, policy : Policies \cup {NoPolicy},
           mode : {"ensure", "reset", "prune"}, bucket : Current, want : Current,
           at : 0..MaxTime, free : SUBSET Paths]

Types ==
    /\ files \in [Paths -> FileRecord(used)]
    /\ staging \subseteq Paths
    /\ saved \in SavedState \cup {NoState}
    /\ handles \subseteq Handle
    /\ daemon \in Daemon
    /\ config \in Policies /\ now \in 0..MaxTime
    /\ used \in 0..MaxFiles
    /\ doomed \subseteq 1..used /\ retired \subseteq 1..used

EnsureOp == [kind : {"ensure"}, step : {"stage", "publish", "save"}, path : Paths,
             seq : 0..MaxSeq]
ResetOp == [kind : {"reset"}, step : {"delete", "sidecars", "stage", "publish", "save"},
            seq : {0}, bases : SUBSET Bases, path : Current,
            first : {p \in Paths : p.seq = 0}]
PurgeOp == [kind : {"purge"}, step : {"delete", "sidecars", "forget"}, path : Current,
            first : {NoPath}, bases : SUBSET Bases]

\* A pass of pruning; what its list holds is not needed.
PruneOp(o) ==
    /\ o = [kind |-> "prune", step |-> o.step, path |-> o.path, todo |-> o.todo,
            total |-> o.total, sizeBlocked |-> o.sizeBlocked, removed |-> o.removed,
            deferred |-> o.deferred]
    /\ o.step \in {"next", "sidecars"}

OpType == op \in {NoOp} \cup EnsureOp \cup ResetOp \cup PurgeOp \/ PruneOp(op)

\* The process that performs an operation, and what it has to do next.
DaemonState ==
    /\ ~daemon.up => daemon = Stopped
    /\ daemon.up => daemon.policy \in Policies
    /\ daemon.want # NoPath => daemon.mode = "ensure" /\ saved.current = daemon.want
    /\ daemon.mode = "prune" => saved # NoState
    /\ op.kind \in {"ensure", "reset", "prune"} => daemon.up
    /\ op.kind = "prune" => daemon.mode = "prune"
    /\ op.kind = "purge" => ~daemon.up

\* What the state file says of the current file, and the number it covers.
SavedCurrent ==
    /\ saved.current.seq <= saved.seq
    /\ saved # NoState => (saved.pending <=> saved.current = NoPath)
    /\ saved.current # NoPath => ~files[saved.current].done

\* The operations that make a file have found its path free, and what they
\* save is neither complete nor superseded.
NewFile ==
    op.kind \in {"ensure", "reset"} =>
        /\ op.step # "save" => used < MaxFiles
        /\ op.step \in {"stage", "publish", "save"} => op.path \in Paths /\ op.path.seq <= op.seq
        /\ op.step \in {"stage", "publish"} => files[op.path].db = 0
        /\ op.step = "save" =>
               ~files[op.path].done /\ (files[op.path].db \in retired => files[op.path].db \in lost)

\* The database goes before its sidecars.
DatabaseFirst ==
    op.step = "sidecars" /\ op.path \in Paths => files[op.path].db = 0

\* A reset is recorded for as long as it goes on.
ResetRecorded ==
    /\ op.kind = "ensure" => saved = NoState \/ ~saved.pending
    /\ op.kind = "reset" =>
           /\ saved # NoState /\ saved.pending
           /\ op.bases = saved.bases /\ op.first.base \in op.bases

identitiesOf(p) == {files[p].db, files[p].side} \ {0}
remains(p) == (identitiesOf(p) \cap doomed) \ lost

\* What a reset has still to destroy is of a family that the state file names;
\* nothing is left when the reset makes its new file.
DoomedIsNamed ==
    /\ \A p \in Paths : remains(p) # {} =>
           saved # NoState /\ saved.pending /\ p.base \in saved.bases
    /\ op.kind = "reset" /\ op.step \in {"stage", "publish", "save"} =>
           \A p \in Paths : remains(p) = {}

\* A database and its log stay at one path, and without a state file no
\* database that was current is known.
Superseded ==
    /\ \A p, q \in Paths : identitiesOf(p) \cap identitiesOf(q) # {} => p = q
    /\ saved = NoState => \A p \in Paths : files[p].db \in retired => files[p].db \in lost

CatalogInv ==
    /\ Types /\ OpType /\ DaemonState /\ SavedCurrent /\ NewFile /\ DatabaseFirst
    /\ ResetRecorded /\ DoomedIsNamed /\ Superseded
    /\ HandleSafe /\ OnlySelectedPruned /\ CurrentNeverReturns

-----------------------------------------------------------------------------
(* The initial state. *)

\* No family is named as NoPath is.
LEMMA NoPathIsNone == NoPath \notin Paths
  BY CatalogAssumption DEF NoPath, Paths

\* The state file names a path as current, or none.
LEMMA CurrentIsPath ==
    ASSUME CatalogInv
    PROVE  saved.current = NoPath \/ saved.current \in Paths
  BY DEF CatalogInv, Types, SavedState, NoState, Current

\* Nothing is on disk, and nothing runs.
LEMMA InitInv == Init => CatalogInv
  <1> SUFFICES ASSUME Init PROVE CatalogInv
    OBVIOUS
  <1> USE DEF Init
  <1>1. Types
    BY CatalogAssumption DEF Types, FileRecord, NoFile, Daemon, Stopped, Current
  <1>2. op.kind = "none" /\ op.step = "none"
    BY DEF NoOp
  <1>3. OpType
    BY DEF OpType
  <1>4. DaemonState
    BY <1>2 DEF DaemonState, Stopped
  <1>5. SavedCurrent
    BY DEF SavedCurrent, NoState, NoPath
  <1>6. NewFile /\ DatabaseFirst /\ ResetRecorded /\ OnlySelectedPruned
    BY <1>2 DEF NewFile, DatabaseFirst, ResetRecorded, OnlySelectedPruned
  <1>7. DoomedIsNamed
    BY <1>2 DEF DoomedIsNamed, remains, identitiesOf
  <1>8. Superseded
    BY DEF Superseded, identitiesOf, NoFile
  <1>9. HandleSafe
    BY DEF HandleSafe
  <1>10. CurrentNeverReturns
    BY DEF CurrentNeverReturns
  <1> QED BY <1>1, <1>3, <1>4, <1>5, <1>6, <1>7, <1>8, <1>9, <1>10 DEF CatalogInv

-----------------------------------------------------------------------------
(* The clock, the configuration and the processes. *)

\* The clock moves, or the configuration file is edited.
LEMMA ClockSteps ==
    ASSUME CatalogInv,
           Tick \/ ClockBack \/ \E policy \in Policies : EditConfig(policy)
    PROVE  CatalogInv'
  <1>1. UNCHANGED <<files, staging, saved, op, handles, daemon, targets, used, history>>
    BY DEF Tick, ClockBack, EditConfig
  <1>2. config' \in Policies /\ now' \in 0..MaxTime
    BY CatalogAssumption DEF CatalogInv, Types, Tick, ClockBack, EditConfig
  <1>3. Types' /\ OpType' /\ DaemonState'
    BY <1>1, <1>2 DEF CatalogInv, Types, OpType, PruneOp, DaemonState, history
  <1>4. SavedCurrent' /\ NewFile' /\ DatabaseFirst' /\ ResetRecorded' /\ OnlySelectedPruned'
    BY <1>1 DEF CatalogInv, SavedCurrent, NewFile, DatabaseFirst, ResetRecorded, OnlySelectedPruned,
       history
  <1>5. DoomedIsNamed' /\ Superseded' /\ HandleSafe' /\ CurrentNeverReturns'
    BY <1>1 DEF CatalogInv, DoomedIsNamed, remains, identitiesOf, Superseded, HandleSafe,
       CurrentNeverReturns, currentIdentity, history
  <1> QED BY <1>3, <1>4, <1>5 DEF CatalogInv

\* Neither the files nor the state file change, and no operation is in progress.
LEMMA DaemonSteps ==
    ASSUME CatalogInv, StartDaemon \/ EnsureRefused \/ Reload
    PROVE  CatalogInv'
  <1>1. /\ UNCHANGED <<files, staging, saved, op, handles, targets, config, now, used, history>>
        /\ op = NoOp
    BY DEF StartDaemon, EnsureRefused, Reload, Idle
  <1>2. op.kind = "none" /\ op.step = "none"
    BY <1>1 DEF NoOp
  <1>3. daemon' \in Daemon
    <2>1. CASE StartDaemon
      <3>1. Stopped \in Daemon
        BY CatalogAssumption DEF Daemon, Stopped, Current
      <3> QED BY <2>1, <3>1 DEF CatalogInv, Types, StartDaemon, Daemon
    <2>2. CASE EnsureRefused
      BY <2>2 DEF CatalogInv, Types, EnsureRefused, Daemon
    <2>3. CASE Reload
      BY <2>3 DEF CatalogInv, Types, Reload, Daemon, Current
    <2> QED BY <2>1, <2>2, <2>3
  <1>4. DaemonState'
    BY <1>1, <1>2 DEF CatalogInv, Types, DaemonState, StartDaemon, EnsureRefused, Reload,
       Daemon, Stopped
  <1> QED BY <1>1, <1>2, <1>3, <1>4 DEF CatalogInv, Types, OpType, SavedCurrent, NewFile,
          DatabaseFirst, ResetRecorded, DoomedIsNamed, remains, identitiesOf, Superseded,
          HandleSafe, OnlySelectedPruned, CurrentNeverReturns, currentIdentity, history

\* The daemon dies, or an operation fails: it is over, and what it has written stays.
LEMMA FailureSteps ==
    ASSUME CatalogInv, Crash \/ Fail
    PROVE  CatalogInv'
  <1>1. /\ UNCHANGED <<files, staging, saved, config, now, used, history>>
        /\ op' = NoOp /\ handles' \subseteq handles
    BY DEF Crash, Fail, Return
  <1>2. op'.kind = "none" /\ op'.step = "none"
    BY <1>1 DEF NoOp
  <1>3. daemon' \in Daemon
    <2>1. Stopped \in Daemon
      BY CatalogAssumption DEF Daemon, Stopped, Current
    <2>2. [daemon EXCEPT !.mode = "ensure", !.free = {}] \in Daemon
      BY DEF CatalogInv, Types, Daemon
    <2> QED BY <2>1, <2>2 DEF CatalogInv, Types, Crash, Fail
  <1>4. DaemonState'
    <2>1. CASE Crash
      BY <1>1, <1>2, <2>1 DEF DaemonState, Crash, Stopped
    <2>2. CASE Fail
      <3>1. CASE daemon.mode = "prune"
        <4>1. daemon' = [daemon EXCEPT !.mode = "ensure", !.free = {}]
          BY <2>2, <3>1 DEF Fail
        <4>2. daemon.up
          BY <3>1 DEF CatalogInv, DaemonState, Stopped
        <4> QED BY <1>1, <1>2, <4>1, <4>2 DEF CatalogInv, Types, DaemonState, Daemon
      <3>2. CASE daemon.mode # "prune"
        BY <1>1, <1>2, <2>2, <3>2 DEF CatalogInv, DaemonState, Fail
      <3> QED BY <3>1, <3>2
    <2> QED BY <2>1, <2>2
  <1> QED BY <1>1, <1>2, <1>3, <1>4 DEF CatalogInv, Types, OpType, SavedCurrent, NewFile,
          DatabaseFirst, ResetRecorded, DoomedIsNamed, remains, identitiesOf, Superseded,
          HandleSafe, OnlySelectedPruned, CurrentNeverReturns, currentIdentity, history

-----------------------------------------------------------------------------
(* The files and the handles, while no operation is in progress. *)

\* The identities of a file's database and of its log stay what they are or go,
\* and it is not completed unless nobody has it open and it is not current.
Dwindles ==
    /\ files' \in [Paths -> FileRecord(used)]
    /\ \A p \in Paths :
        /\ files'[p].db = files[p].db
        /\ files'[p].side \in {0, files[p].db, files[p].side}
        /\ files'[p].done # files[p].done =>
               op = NoOp /\ p # saved.current /\ \A h \in handles : h.path # p

\* Only the log of one path changes.
LEMMA SideChange ==
    ASSUME Types, NEW p \in Paths, NEW n \in 0..used
    PROVE  LET changed == [files EXCEPT ![p].side = n]
           IN  /\ changed \in [Paths -> FileRecord(used)]
               /\ \A q \in Paths :
                      /\ changed[q].db = files[q].db /\ changed[q].done = files[q].done
                      /\ changed[q].side = IF q = p THEN n ELSE files[q].side
  <1> DEFINE changed == [files EXCEPT ![p].side = n]
  <1>1. \A q \in Paths : changed[q] = IF q = p THEN [files[p] EXCEPT !.side = n] ELSE files[q]
    BY DEF Types
  <1>2. [files[p] EXCEPT !.side = n] \in FileRecord(used)
    BY DEF Types, FileRecord
  <1>3. changed \in [Paths -> FileRecord(used)]
    BY <1>1, <1>2 DEF Types
  <1>4. ASSUME NEW q \in Paths
        PROVE  /\ changed[q].db = files[q].db /\ changed[q].done = files[q].done
               /\ changed[q].side = IF q = p THEN n ELSE files[q].side
    BY <1>1 DEF Types, FileRecord
  <1> QED BY <1>3, <1>4

\* A step that opens, closes or grows files, or finalizes one.
LEMMA FilesDwindle ==
    ASSUME CatalogInv, Dwindles,
           UNCHANGED <<staging, saved, op, config, now, used, history>>,
           op = NoOp \/ targets' = targets, daemon' \in Daemon,
           DaemonState', handles' \subseteq Handle,
           \A h \in handles' : h \in handles \/
               /\ files'[h.path].db = h.id /\ h.locked
               /\ ~h.readonly => ~files'[h.path].done
    PROVE  CatalogInv'
  <1>1. op = NoOp => op.kind = "none" /\ op.step = "none"
    BY DEF NoOp
  <1>2. Types' /\ OpType'
    BY DEF CatalogInv, Types, OpType, PruneOp, Dwindles, history
  <1>3. SavedCurrent'
    BY DEF CatalogInv, Types, SavedCurrent, SavedState, NoState, Current, Dwindles
  <1>4. NewFile' /\ DatabaseFirst'
    BY <1>1 DEF CatalogInv, NewFile, DatabaseFirst, Dwindles, history
  <1>5. ResetRecorded' /\ OnlySelectedPruned'
    BY <1>1 DEF CatalogInv, ResetRecorded, OnlySelectedPruned
  <1>6. DoomedIsNamed'
    <2>1. ASSUME NEW p \in Paths PROVE remains(p)' \subseteq remains(p)
      <3>1. doomed \subseteq 1..used
        BY DEF CatalogInv, Types
      <3> QED BY <3>1 DEF remains, identitiesOf, Dwindles, history
    <2> QED BY <2>1 DEF CatalogInv, DoomedIsNamed
  <1>7. Superseded'
    <2>1. \A p \in Paths : identitiesOf(p)' \subseteq identitiesOf(p)
      BY DEF identitiesOf, Dwindles
    <2>2. \A p, q \in Paths : identitiesOf(p)' \cap identitiesOf(q)' # {} => p = q
      BY <2>1 DEF CatalogInv, Superseded
    <2>3. saved' = NoState =>
              \A p \in Paths : files'[p].db \in retired' => files'[p].db \in lost'
      BY DEF CatalogInv, Superseded, Dwindles, history
    <2> QED BY <2>2, <2>3 DEF Superseded
  <1>8. HandleSafe'
    BY DEF CatalogInv, Types, HandleSafe, Handle, Dwindles
  <1>9. CurrentNeverReturns'
    <2>1. currentIdentity' = currentIdentity
      <3>1. saved.current = NoPath \/ saved.current \in Paths
        BY CurrentIsPath
      <3> QED BY <3>1 DEF currentIdentity, Dwindles
    <2> QED BY <2>1 DEF CatalogInv, CurrentNeverReturns, history
  <1> QED BY <1>2, <1>3, <1>4, <1>5, <1>6, <1>7, <1>8, <1>9 DEF CatalogInv

\* Nobody has a file open whose lock can be taken.
LEMMA NotPinned ==
    ASSUME CatalogInv, NEW p \in Paths, ~Pinned(p)
    PROVE  \A h \in handles : h.path # p
  BY DEF CatalogInv, HandleSafe, Pinned

\* The current file is full.
LEMMA GrowStep == ASSUME CatalogInv, Grow PROVE CatalogInv'
  <1> USE DEF Grow
  <1>1. op = NoOp /\ UNCHANGED <<staging, saved, op, daemon, handles, targets, config, now,
                                 used, history>>
    BY DEF Idle
  <1>2. Dwindles
    BY DEF CatalogInv, Types, FileRecord, Dwindles
  <1>3. daemon' \in Daemon /\ handles' \subseteq Handle
    BY <1>1 DEF CatalogInv, Types
  <1>4. DaemonState'
    BY <1>1 DEF CatalogInv, DaemonState
  <1> QED BY <1>1, <1>2, <1>3, <1>4, FilesDwindle

\* A file that is completed is nobody's and not the current one.
LEMMA FinalizeStep ==
    ASSUME CatalogInv, NEW p \in Paths, Finalize(p)
    PROVE  CatalogInv'
  <1>1. /\ op = NoOp /\ p # saved.current /\ ~Pinned(p)
        /\ UNCHANGED <<staging, saved, op, daemon, handles, targets, config, now, used, history>>
    BY DEF Finalize, Idle
  <1>2. \A h \in handles : h.path # p
    BY <1>1, NotPinned
  <1> DEFINE complete == [files[p] EXCEPT !.done = TRUE, !.side = 0]
  <1>3. files' = [files EXCEPT ![p] = complete]
    BY DEF Finalize, CatalogInv, Types
  <1>4. files[p] \in FileRecord(used) /\ 0 \in 0..used
    BY CatalogAssumption DEF CatalogInv, Types
  <1>5. complete \in FileRecord(used) /\ complete.db = files[p].db /\ complete.side = 0
    BY <1>4 DEF FileRecord
  <1> HIDE DEF complete
  <1>6. Dwindles
    <2>1. files' \in [Paths -> FileRecord(used)]
      BY <1>3, <1>5 DEF CatalogInv, Types
    <2>2. files'[p] = complete /\ \A q \in Paths : q # p => files'[q] = files[q]
      BY <1>3 DEF CatalogInv, Types
    <2> QED BY <1>1, <1>2, <1>5, <2>1, <2>2 DEF Dwindles
  <1>7. daemon' \in Daemon /\ handles' \subseteq Handle
    BY <1>1 DEF CatalogInv, Types
  <1>8. DaemonState'
    BY <1>1 DEF CatalogInv, DaemonState
  <1> QED BY <1>1, <1>6, <1>7, <1>8, FilesDwindle

\* Who opens a file takes its identity and a lock.
LEMMA OpenedHandle ==
    ASSUME CatalogInv, NEW p \in Paths, OnDisk(p), NEW who \in Readers \cup {"daemon"},
           NEW readonly \in BOOLEAN
    PROVE  LET h == handle(who, p, readonly) IN
           /\ h \in Handle
           /\ h.path = p /\ h.id = files[p].db /\ h.locked /\ h.readonly = readonly
  BY DEF CatalogInv, Types, FileRecord, Handle, handle, OnDisk

\* A file that is opened for recovery is not complete.
LEMMA OpenHistoricalStep ==
    ASSUME CatalogInv, NEW p \in Paths, OpenHistorical(p)
    PROVE  CatalogInv'
  <1> USE DEF OpenHistorical
  <1>1. op = NoOp /\ UNCHANGED <<staging, saved, op, daemon, targets, config, now, used,
                                 history>>
    BY DEF Idle
  <1> DEFINE h == handle("daemon", p, FALSE)
  <1>2. h \in Handle /\ h.path = p /\ h.id = files[p].db /\ h.locked
    BY OpenedHandle
  <1>3. Dwindles
    BY DEF CatalogInv, Types, FileRecord, Dwindles
  <1>4. ~files[p].done
    BY DEF CatalogInv, SavedCurrent, Current, NoPath, NoState
  <1>5. files'[p].db = files[p].db /\ files'[p].done = files[p].done
    BY DEF CatalogInv, Types, FileRecord
  <1>6. handles' = handles \cup {h}
    OBVIOUS
  <1> HIDE DEF h
  <1>7. daemon' \in Daemon /\ handles' \subseteq Handle
    BY <1>1, <1>2, <1>6 DEF CatalogInv, Types
  <1>8. DaemonState'
    BY <1>1 DEF CatalogInv, DaemonState
  <1> QED BY <1>1, <1>2, <1>3, <1>4, <1>5, <1>6, <1>7, <1>8, FilesDwindle

\* The file that EnsureCurrent or Reset returned is the recorded one.
LEMMA OpenCurrentStep == ASSUME CatalogInv, OpenCurrent PROVE CatalogInv'
  <1> USE DEF OpenCurrent
  <1>1. op = NoOp /\ UNCHANGED <<staging, saved, op, targets, config, now, used, history>>
    BY DEF Idle
  <1> DEFINE p == daemon.want
             h == handle("daemon", p, FALSE)
  <1>2. p \in Paths /\ p = saved.current
    BY DEF CatalogInv, Types, Daemon, Current, DaemonState
  <1>3. h \in Handle /\ h.path = p /\ h.id = files[p].db /\ h.locked
    BY <1>2, OpenedHandle
  <1>4. Dwindles
    BY <1>2 DEF CatalogInv, Types, FileRecord, Dwindles
  <1>5. ~files[p].done
    BY <1>2 DEF CatalogInv, SavedCurrent
  <1>6. files'[p].db = files[p].db /\ files'[p].done = files[p].done
    BY <1>2 DEF CatalogInv, Types, FileRecord
  <1>7. handles' = handles \cup {h}
    OBVIOUS
  <1>8. daemon' \in Daemon
    BY <1>2 DEF CatalogInv, Types, Daemon, Current
  <1>9. DaemonState'
    BY <1>1, <1>2 DEF CatalogInv, Types, Daemon, DaemonState
  <1> HIDE DEF p, h
  <1>10. handles' \subseteq Handle
    BY <1>3, <1>7 DEF CatalogInv, Types
  <1> QED BY <1>1, <1>3, <1>4, <1>5, <1>6, <1>7, <1>8, <1>9, <1>10, FilesDwindle

\* A query opens what is on disk.
LEMMA ReadStep == ASSUME CatalogInv, NEW r \in Readers, Read(r) PROVE CatalogInv'
  <1> USE DEF Read
  <1>1. op = NoOp /\ UNCHANGED <<files, staging, saved, op, daemon, targets, config, now,
                                 used, history>>
    BY DEF Idle
  <1>2. Dwindles
    BY <1>1 DEF CatalogInv, Types, Dwindles
  <1>3. ASSUME NEW h \in handles', h \notin handles
        PROVE  h \in Handle /\ files'[h.path].db = h.id /\ h.locked /\ h.readonly
    <2>1. PICK p \in Family(config.base) : OnDisk(p) /\ h = handle(r, p, TRUE)
      BY <1>3
    <2>2. p \in Paths
      BY DEF Family
    <2> DEFINE g == handle(r, p, TRUE)
    <2>3. g \in Handle /\ g.path = p /\ g.id = files[p].db /\ g.locked /\ g.readonly = TRUE
      BY <2>1, <2>2, OpenedHandle
    <2> HIDE DEF g
    <2>4. h = g
      BY <2>1 DEF g
    <2> QED BY <1>1, <2>3, <2>4
  <1>4. daemon' \in Daemon /\ handles' \subseteq Handle
    BY <1>1, <1>3 DEF CatalogInv, Types
  <1>5. DaemonState'
    BY <1>1 DEF CatalogInv, DaemonState
  <1> QED BY <1>1, <1>2, <1>3, <1>4, <1>5, FilesDwindle

\* At most the log goes with the handle that wrote it.
LEMMA CloseHandleStep ==
    ASSUME CatalogInv, NEW h \in handles, CloseHandle(h)
    PROVE  CatalogInv'
  <1> USE DEF CloseHandle
  <1>1. UNCHANGED <<staging, saved, op, daemon, targets, config, now, used, history>>
        /\ handles' \subseteq handles
    OBVIOUS
  <1>2. Dwindles
    <2>1. h.path \in Paths /\ 0 \in 0..used
      BY CatalogAssumption DEF CatalogInv, Types, Handle
    <2>2. CASE files' = files
      BY <2>2 DEF CatalogInv, Types, Dwindles
    <2>3. CASE files' = [files EXCEPT ![h.path].side = 0]
      <3> HIDE DEF CloseHandle
      <3>1. Types
        BY DEF CatalogInv
      <3> QED BY <2>1, <2>3, <3>1, SideChange DEF Dwindles
    <2> QED BY <2>2, <2>3
  <1>3. daemon' \in Daemon /\ handles' \subseteq Handle
    BY <1>1 DEF CatalogInv, Types
  <1>4. DaemonState'
    BY <1>1 DEF CatalogInv, DaemonState
  <1> QED BY <1>1, <1>2, <1>3, <1>4, FilesDwindle

\* The daemon closes its bucket and is gone.
LEMMA StopStep == ASSUME CatalogInv, Stop PROVE CatalogInv'
  <1> USE DEF Stop
  <1>1. /\ UNCHANGED <<staging, saved, op, config, now, used, history>>
        /\ op = NoOp /\ handles' \subseteq handles
    BY DEF Idle
  <1>2. Dwindles
    <2>1. daemon.bucket \in Paths /\ 0 \in 0..used
      BY CatalogAssumption DEF CatalogInv, Types, Daemon, Current
    <2>2. CASE files' = files
      BY <2>2 DEF CatalogInv, Types, Dwindles
    <2>3. CASE files' = [files EXCEPT ![daemon.bucket].side = 0]
      <3> HIDE DEF Stop
      <3>1. Types
        BY DEF CatalogInv
      <3> QED BY <2>1, <2>3, <3>1, SideChange DEF Dwindles
    <2> QED BY <2>2, <2>3 DEF removeSidecars
  <1>3. daemon' \in Daemon /\ handles' \subseteq Handle
    BY <1>1, CatalogAssumption DEF CatalogInv, Types, Daemon, Stopped, Current
  <1>4. DaemonState'
    BY <1>1 DEF DaemonState, Stopped, NoOp
  <1> QED BY <1>1, <1>2, <1>3, <1>4, FilesDwindle

-----------------------------------------------------------------------------
(* EnsureCurrent. *)

\* The largest of the numbers in use.
LEMMA MaxBelow ==
    ASSUME NEW n \in Nat, NEW S, S \subseteq 0..n, S # {}
    PROVE  Max(S) \in S /\ \A y \in S : y <= Max(S)
  <1>1. \E x \in S : \A y \in S : x >= y
    BY GreatestBelow
  <1> QED BY <1>1 DEF Max

\* A new segment has a number that no file has; another file is taken up only
\* when it is not complete, and is the recorded one unless none is recorded.
LEMMA Selected ==
    ASSUME CatalogInv, NEW policy \in Policies, NEW at \in 0..MaxTime,
           selectCurrent(policy, at).path \in Paths
    PROVE  LET chosen == selectCurrent(policy, at)
           IN  /\ chosen.seq \in 0..MaxSeq /\ chosen.path.seq <= chosen.seq
               /\ OnDisk(chosen.path) =>
                      ~files[chosen.path].done /\ saved.current \in {NoPath, chosen.path}
  <1> DEFINE start == bucketStart(at, policy.interval)
             buckets == {p \in Paths : p.base = policy.base /\ OnDisk(p)}
             numbers == {saved.seq} \cup {recoverySequence(p) : p \in buckets}
             here == {p.seq : p \in {q \in buckets : q.window = start}}
             newest == [base |-> policy.base, window |-> start, seq |-> Max({0} \cup here)]
             old == saved.current
             rotate == \/ needsRotation(newest, policy, at)
                       \/ OnDisk(newest) /\ files[newest].done
                       \/ old # NoPath /\ (newest # old \/ ~OnDisk(newest))
             chosen == selectCurrent(policy, at)
  <1>1. MaxSeq \in Nat /\ saved.seq \in 0..MaxSeq
    BY CatalogAssumption DEF CatalogInv, Types, SavedState, NoState
  <1>2. /\ Max(numbers) \in 0..MaxSeq
        /\ \A p \in buckets : p.seq <= Max(numbers)
    <2>1. numbers \subseteq 0..MaxSeq /\ numbers # {}
      BY <1>1 DEF recoverySequence, Paths
    <2>2. Max(numbers) \in numbers /\ \A y \in numbers : y <= Max(numbers)
      BY <1>1, <2>1, MaxBelow
    <2> QED BY <2>1, <2>2 DEF recoverySequence
  <1>3. Max({0} \cup here) \in {0} \cup here
    <2>1. {0} \cup here \subseteq 0..MaxSeq
      BY <1>1 DEF Paths
    <2> QED BY <1>1, <2>1, MaxBelow
  <1>4. chosen = IF rotate
                 THEN [path |-> [newest EXCEPT !.seq = Max(numbers) + 1], seq |-> Max(numbers) + 1]
                 ELSE [path |-> newest, seq |-> Max(numbers)]
    BY DEF selectCurrent, highestNumber
  <1>5. CASE rotate
    <2>1. /\ chosen.path = [newest EXCEPT !.seq = Max(numbers) + 1]
          /\ chosen.seq = Max(numbers) + 1
      BY <1>4, <1>5
    <2>2. chosen.path.seq = Max(numbers) + 1 /\ chosen.path.base = policy.base
      BY <2>1
    <2> HIDE DEF numbers
    <2>3. chosen.seq \in 0..MaxSeq
      BY <2>1, <2>2 DEF Paths
    <2>4. ~OnDisk(chosen.path)
      BY <1>2, <2>2
    <2> QED BY <1>2, <2>1, <2>2, <2>3, <2>4
  <1>6. CASE ~rotate
    <2>1. chosen.path = newest /\ chosen.seq = Max(numbers)
      BY <1>4, <1>6
    <2>2. newest.seq = 0 \/ newest.seq \in here
      BY <1>3
    <2> HIDE DEF numbers
    <2>3. chosen.path.seq <= chosen.seq
      BY <1>2, <2>1, <2>2
    <2> QED BY <1>2, <1>6, <2>1, <2>3
  <1> QED BY <1>5, <1>6

\* What EnsureCurrent chose is free, or not complete and not superseded.
LEMMA EnsureCurrentStep == ASSUME CatalogInv, EnsureCurrent PROVE CatalogInv'
  <1> DEFINE chosen == selectCurrent(daemon.policy, now)
  <1>1. /\ op = NoOp /\ daemon.up /\ daemon.mode = "ensure" /\ daemon.want = NoPath
        /\ Accepts(daemon.policy) /\ chosen.path \in Paths /\ used < MaxFiles
        /\ op' = [kind |-> "ensure", step |-> IF OnDisk(chosen.path) THEN "save" ELSE "stage",
                  path |-> chosen.path, seq |-> chosen.seq]
        /\ staging' = RemoveStaging(daemon.policy.base)
        /\ daemon' = [daemon EXCEPT !.at = now]
        /\ UNCHANGED <<files, saved, handles, targets, config, now, used, history>>
    BY DEF EnsureCurrent, Idle
  <1>2. /\ chosen.seq \in 0..MaxSeq /\ chosen.path.seq <= chosen.seq
        /\ OnDisk(chosen.path) =>
               ~files[chosen.path].done /\ saved.current \in {NoPath, chosen.path}
    <2>1. daemon.policy \in Policies /\ now \in 0..MaxTime
      BY <1>1 DEF CatalogInv, Types, DaemonState
    <2> QED BY <1>1, <2>1, Selected
  <1> HIDE DEF chosen
  <1>3. Types' /\ DaemonState'
    <2>1. daemon' \in Daemon
      BY <1>1 DEF CatalogInv, Types, Daemon
    <2>2. staging' \subseteq Paths
      BY <1>1 DEF CatalogInv, Types, RemoveStaging
    <2>3. Types'
      BY <1>1, <2>1, <2>2 DEF CatalogInv, Types, history
    <2> QED BY <1>1, <2>3 DEF CatalogInv, Types, Daemon, DaemonState
  <1>4. OpType'
    BY <1>1, <1>2 DEF OpType, EnsureOp
  <1>5. SavedCurrent' /\ Superseded' /\ HandleSafe' /\ CurrentNeverReturns'
    BY <1>1 DEF CatalogInv, SavedCurrent, Superseded, identitiesOf, HandleSafe,
       CurrentNeverReturns, currentIdentity, history
  <1>6. NewFile'
    <2>1. OnDisk(chosen.path) /\ files[chosen.path].db \in retired => files[chosen.path].db \in lost
      <3>1. CASE saved.current = chosen.path
        BY <1>1, <3>1, NoPathIsNone DEF CatalogInv, CurrentNeverReturns, currentIdentity, OnDisk
      <3>2. CASE saved.current = NoPath
        <4>1. saved = NoState
          BY <1>1, <3>2 DEF Accepts, CatalogInv, SavedCurrent
        <4> QED BY <1>1, <4>1 DEF CatalogInv, Superseded
      <3> QED BY <1>2, <3>1, <3>2
    <2> QED BY <1>1, <1>2, <2>1 DEF NewFile, OnDisk, history
  <1>7. DatabaseFirst' /\ OnlySelectedPruned'
    BY <1>1 DEF DatabaseFirst, OnlySelectedPruned
  <1>8. ResetRecorded'
    BY <1>1 DEF ResetRecorded, Accepts
  <1>9. DoomedIsNamed'
    BY <1>1 DEF CatalogInv, DoomedIsNamed, remains, identitiesOf, history
  <1> QED BY <1>3, <1>4, <1>5, <1>6, <1>7, <1>8, <1>9 DEF CatalogInv

-----------------------------------------------------------------------------
(* A new file, for EnsureCurrent or Reset. *)

\* The staging file has no part in the family.
LEMMA StageStep == ASSUME CatalogInv, Stage PROVE CatalogInv'
  <1>1. /\ op.kind \in {"ensure", "reset"} /\ op.step = "stage"
        /\ staging' = staging \cup {op.path}
        /\ op' = [op EXCEPT !.step = "publish"]
        /\ UNCHANGED <<files, saved, handles, daemon, targets, config, now, used, history>>
    BY DEF Stage
  <1>2. op \in EnsureOp \cup ResetOp
    BY <1>1 DEF CatalogInv, OpType, NoOp, PurgeOp, PruneOp
  <1>3. /\ op' \in EnsureOp \cup ResetOp /\ op'.kind = op.kind /\ op'.step = "publish"
        /\ op'.path = op.path /\ op'.seq = op.seq
        /\ op.kind = "reset" => op'.bases = op.bases /\ op'.first = op.first
    BY <1>1, <1>2 DEF EnsureOp, ResetOp
  <1>4. op.path \in Paths
    BY <1>1 DEF CatalogInv, NewFile
  <1>5. Types' /\ DaemonState'
    BY <1>1, <1>3, <1>4 DEF CatalogInv, Types, DaemonState, history
  <1>6. OpType'
    BY <1>3 DEF OpType
  <1>7. SavedCurrent' /\ Superseded' /\ HandleSafe' /\ CurrentNeverReturns'
    BY <1>1 DEF CatalogInv, SavedCurrent, Superseded, identitiesOf, HandleSafe,
       CurrentNeverReturns, currentIdentity, history
  <1>8. NewFile'
    BY <1>1, <1>3 DEF CatalogInv, NewFile, history
  <1>9. DatabaseFirst' /\ OnlySelectedPruned' /\ ResetRecorded'
    BY <1>1, <1>3 DEF CatalogInv, DatabaseFirst, OnlySelectedPruned, ResetRecorded
  <1>10. DoomedIsNamed'
    BY <1>1, <1>3 DEF CatalogInv, DoomedIsNamed, remains, identitiesOf, history
  <1> QED BY <1>5, <1>6, <1>7, <1>8, <1>9, <1>10 DEF CatalogInv

\* The record of a path whose database is new.
LEMMA NewRecord ==
    ASSUME NEW n \in Nat, NEW r \in FileRecord(n)
    PROVE  LET new == [r EXCEPT !.db = n + 1, !.done = FALSE, !.full = FALSE]
           IN  /\ new \in FileRecord(n + 1) /\ new.db = n + 1
               /\ new.side = r.side /\ ~new.done
  <1> DEFINE new == [r EXCEPT !.db = n + 1, !.done = FALSE, !.full = FALSE]
  <1> DEFINE named == [r EXCEPT !.db = n + 1]
             open == [named EXCEPT !.done = FALSE]
  <1>1. named \in FileRecord(n + 1) /\ named.db = n + 1 /\ named.side = r.side
    <2>1. n + 1 \in 0..(n + 1) /\ 0..n \subseteq 0..(n + 1)
      OBVIOUS
    <2> QED BY <2>1 DEF FileRecord
  <1> HIDE DEF named
  <1>2. /\ open \in FileRecord(n + 1) /\ open.db = n + 1 /\ open.side = r.side
        /\ open.done = FALSE
    BY <1>1 DEF FileRecord
  <1> HIDE DEF open
  <1>3. new = [open EXCEPT !.full = FALSE]
    BY DEF named, open
  <1> HIDE DEF new
  <1> QED BY <1>2, <1>3 DEF FileRecord

\* The new database has an identity of its own, and no handle.
LEMMA PublishStep == ASSUME CatalogInv, Publish PROVE CatalogInv'
  <1>1. /\ op.kind \in {"ensure", "reset"} /\ op.step = "publish"
        /\ staging' = staging \ {op.path} /\ used' = used + 1
        /\ op' = [op EXCEPT !.step = "save"]
        /\ UNCHANGED <<saved, handles, daemon, targets, config, now, history>>
    BY DEF Publish
  <1>2. op \in EnsureOp \cup ResetOp
    BY <1>1 DEF CatalogInv, OpType, NoOp, PurgeOp, PruneOp
  <1>3. /\ op' \in EnsureOp \cup ResetOp /\ op'.kind = op.kind /\ op'.step = "save"
        /\ op'.path = op.path /\ op'.seq = op.seq
        /\ op.kind = "reset" => op'.bases = op.bases /\ op'.first = op.first
    BY <1>1, <1>2 DEF EnsureOp, ResetOp
  <1>4. op.path \in Paths /\ op.path.seq <= op.seq /\ used < MaxFiles /\ files[op.path].db = 0
    BY <1>1 DEF CatalogInv, NewFile
  <1>5. used \in Nat /\ used + 1 \in 0..MaxFiles /\ 0..used \subseteq 0..(used + 1)
        /\ 1..used \subseteq 1..(used + 1)
    BY <1>4, CatalogAssumption DEF CatalogInv, Types
  <1> DEFINE new == [files[op.path] EXCEPT !.db = used + 1, !.done = FALSE, !.full = FALSE]
  <1>6. files' = [files EXCEPT ![op.path] = new]
    BY <1>4 DEF Publish, CatalogInv, Types
  <1>7. /\ new \in FileRecord(used + 1) /\ new.db = used + 1
        /\ new.side = files[op.path].side /\ ~new.done
    <2>1. files[op.path] \in FileRecord(used)
      BY <1>4 DEF CatalogInv, Types
    <2> QED BY <1>5, <2>1, NewRecord
  <1> HIDE DEF new
  <1>8. \A p \in Paths : files'[p] = IF p = op.path THEN new ELSE files[p]
    BY <1>6 DEF CatalogInv, Types
  <1>9. \A p \in Paths : files[p].db \in 0..used /\ files[p].side \in 0..used
    BY DEF CatalogInv, Types, FileRecord
  <1>10. Types' /\ DaemonState'
    <2>1. FileRecord(used) \subseteq FileRecord(used + 1)
      BY <1>5 DEF FileRecord
    <2>2. files' \in [Paths -> FileRecord(used + 1)]
      BY <1>6, <1>7, <2>1 DEF CatalogInv, Types
    <2> QED BY <1>1, <1>3, <1>5, <2>2 DEF CatalogInv, Types, DaemonState, history
  <1>11. OpType'
    BY <1>3 DEF OpType
  <1>12. SavedCurrent'
    <2>1. saved.current = NoPath \/ saved.current \in Paths
      BY CurrentIsPath
    <2> QED BY <1>1, <1>7, <1>8, <2>1 DEF CatalogInv, SavedCurrent
  <1>13. used + 1 \notin doomed /\ used + 1 \notin retired
    BY <1>5 DEF CatalogInv, Types
  <1>14. NewFile'
    BY <1>1, <1>3, <1>4, <1>7, <1>8, <1>13 DEF NewFile, history
  <1>15. DatabaseFirst' /\ OnlySelectedPruned' /\ ResetRecorded'
    BY <1>1, <1>3 DEF CatalogInv, DatabaseFirst, OnlySelectedPruned, ResetRecorded
  <1>16. DoomedIsNamed'
    <2>1. ASSUME NEW p \in Paths PROVE remains(p)' \subseteq remains(p)
      BY <1>1, <1>7, <1>8, <1>13 DEF remains, identitiesOf, history
    <2> QED BY <1>1, <1>3, <2>1 DEF CatalogInv, DoomedIsNamed
  <1>17. Superseded'
    <2>1. \A p \in Paths : identitiesOf(p)' \subseteq IF p = op.path
                                 THEN identitiesOf(p) \cup {used + 1} ELSE identitiesOf(p)
      BY <1>7, <1>8 DEF identitiesOf
    <2>2. \A p \in Paths : used + 1 \notin identitiesOf(p)
      BY <1>5, <1>9 DEF identitiesOf
    <2>3. \A p, q \in Paths : identitiesOf(p)' \cap identitiesOf(q)' # {} => p = q
      BY <1>4, <2>1, <2>2 DEF CatalogInv, Superseded
    <2> QED BY <1>1, <1>7, <1>8, <1>13, <2>3 DEF CatalogInv, Superseded, history
  <1>18. HandleSafe'
    <2>1. \A h \in handles : h.path \in Paths /\ h.path # op.path
      BY <1>4 DEF CatalogInv, Types, Handle, HandleSafe
    <2> QED BY <1>1, <1>8, <2>1 DEF CatalogInv, HandleSafe
  <1>19. CurrentNeverReturns'
    <2>1. CASE saved.current = op.path
      BY <1>1, <1>4, <1>7, <1>8, <1>13, <2>1 DEF CurrentNeverReturns, currentIdentity, history
    <2>2. CASE saved.current # op.path
      <3>1. currentIdentity' = currentIdentity
        BY <1>1, <1>8, <2>2, CurrentIsPath DEF currentIdentity
      <3> QED BY <1>1, <3>1 DEF CatalogInv, CurrentNeverReturns, history
    <2> QED BY <2>1, <2>2
  <1> QED BY <1>10, <1>11, <1>12, <1>14, <1>15, <1>16, <1>17, <1>18, <1>19 DEF CatalogInv

\* What was just made or taken up is the current file; the one before it is
\* superseded.
LEMMA SaveCurrentStep == ASSUME CatalogInv, SaveCurrent PROVE CatalogInv'
  <1>1. /\ op.kind \in {"ensure", "reset"} /\ op.step = "save"
        /\ saved' = IF op.kind = "ensure" /\ saved.current = op.path THEN saved ELSE savedCurrent
        /\ retired' = IF saved.current # op.path
                      THEN retired \cup currentIdentity ELSE retired
        /\ daemon' = [daemon EXCEPT !.want = op.path, !.mode = "ensure"]
        /\ op' = NoOp
        /\ UNCHANGED <<files, staging, handles, targets, config, now, used, doomed, lost>>
    BY DEF SaveCurrent, Return
  <1>2. op \in EnsureOp \cup ResetOp
    BY <1>1 DEF CatalogInv, OpType, NoOp, PurgeOp, PruneOp
  <1>3. /\ op.path \in Paths /\ op.path.seq <= op.seq /\ op.seq \in 0..MaxSeq
        /\ ~files[op.path].done
        /\ files[op.path].db \in retired => files[op.path].db \in lost
    BY <1>1, <1>2, CatalogAssumption DEF CatalogInv, NewFile, EnsureOp, ResetOp
  <1>4. op'.kind = "none" /\ op'.step = "none" /\ daemon.up /\ daemon.policy \in Policies
    BY <1>1 DEF CatalogInv, DaemonState, NoOp
  <1>5. NoPath \notin Paths /\ NoState.current = NoPath
    BY NoPathIsNone DEF NoState
  <1>6. op.kind = "ensure" /\ saved.current = op.path => saved # NoState /\ ~saved.pending
    BY <1>3, <1>5 DEF CatalogInv, ResetRecorded
  <1>7. /\ saved' \in SavedState /\ saved' # NoState
        /\ saved'.current = op.path /\ ~saved'.pending /\ saved'.current.seq <= saved'.seq
    <2>1. CASE op.kind = "ensure" /\ saved.current = op.path
      BY <1>1, <1>6, <2>1 DEF CatalogInv, Types, SavedCurrent
    <2>2. CASE ~(op.kind = "ensure" /\ saved.current = op.path)
      <3>1. saved.deferred \subseteq Paths
        BY DEF CatalogInv, Types, SavedState, NoState
      <3>2. saved' = savedCurrent
        BY <1>1, <2>2
      <3>3. savedCurrent \in SavedState
        BY <1>3, <1>4, <3>1 DEF savedCurrent, SavedState, Current
      <3>4. savedCurrent.current = op.path /\ ~savedCurrent.pending /\ savedCurrent.seq = op.seq
        BY DEF savedCurrent
      <3> QED BY <1>3, <1>5, <3>2, <3>3, <3>4
    <2> QED BY <2>1, <2>2
  <1>8. Types'
    <2>1. daemon' \in Daemon
      BY <1>1, <1>3 DEF CatalogInv, Types, Daemon, Current
    <2>2. currentIdentity \subseteq 1..used
      <3>1. saved.current = NoPath \/ saved.current \in Paths
        BY CurrentIsPath
      <3> QED BY <3>1, CatalogAssumption DEF CatalogInv, Types, FileRecord, currentIdentity
    <2> QED BY <1>1, <1>7, <2>1, <2>2 DEF CatalogInv, Types
  <1>9. OpType'
    BY <1>1 DEF OpType
  <1>10. DaemonState'
    BY <1>1, <1>4, <1>7 DEF CatalogInv, Types, Daemon, DaemonState
  <1>11. SavedCurrent'
    BY <1>1, <1>3, <1>5, <1>7 DEF SavedCurrent
  <1>12. NewFile' /\ DatabaseFirst' /\ ResetRecorded' /\ OnlySelectedPruned'
    BY <1>4 DEF NewFile, DatabaseFirst, ResetRecorded, OnlySelectedPruned
  <1>13. DoomedIsNamed'
    <2>1. ASSUME NEW p \in Paths PROVE remains(p) = {}
      BY <1>1 DEF CatalogInv, ResetRecorded, DoomedIsNamed
    <2> QED BY <1>1, <1>4, <2>1 DEF DoomedIsNamed, remains, identitiesOf
  <1>14. Superseded'
    BY <1>1, <1>7 DEF CatalogInv, Superseded, identitiesOf
  <1>15. HandleSafe'
    BY <1>1 DEF CatalogInv, HandleSafe
  <1>16. CurrentNeverReturns'
    <2>1. currentIdentity' = {files[op.path].db} \ {0}
      BY <1>1, <1>3, <1>5, <1>7 DEF currentIdentity
    <2>2. CASE saved.current = op.path
      BY <1>1, <1>3, <2>1, <2>2 DEF CurrentNeverReturns
    <2>3. CASE saved.current # op.path
      <3>1. files[op.path].db # 0 => files[op.path].db \notin currentIdentity
        BY <1>3, <2>3 DEF CatalogInv, Types, SavedState, NoState, Current, Superseded, identitiesOf,
         currentIdentity
      <3> QED BY <1>1, <1>3, <2>1, <2>3, <3>1 DEF CurrentNeverReturns
    <2> QED BY <2>2, <2>3
  <1> QED BY <1>8, <1>9, <1>10, <1>11, <1>12, <1>13, <1>14, <1>15, <1>16 DEF CatalogInv

-----------------------------------------------------------------------------
(* Reset and Purge. *)

\* The reset names every family whose files it has to destroy.
LEMMA ResetStep == ASSUME CatalogInv, Reset PROVE CatalogInv'
  <1> DEFINE bases == pendingFamilies(saved, daemon.policy.base)
             start == bucketStart(now, daemon.policy.interval)
             first == [base |-> daemon.policy.base, window |-> start, seq |-> 0]
  <1>1. /\ op = NoOp /\ daemon.up /\ daemon.mode = "reset" /\ used < MaxFiles
        /\ saved' = [policy |-> daemon.policy, pending |-> TRUE, bases |-> bases,
                     current |-> NoPath, seq |-> 0, deferred |-> {}]
        /\ op' = [kind |-> "reset", step |-> "delete", seq |-> 0, bases |-> bases, path |-> NoPath,
                  first |-> first]
        /\ doomed' = doomed \cup identities(affected(saved, daemon.policy))
        /\ retired' = retired \cup currentIdentity
        /\ daemon' = [daemon EXCEPT !.at = now]
        /\ UNCHANGED <<files, staging, handles, targets, config, now, used, lost>>
    BY DEF Reset, Idle
  <1>2. daemon.policy \in Policies /\ daemon.policy.base \in Bases
    BY <1>1 DEF CatalogInv, DaemonState, Policies
  <1>3. bases \subseteq Bases /\ daemon.policy.base \in bases
    <2>1. saved.bases \subseteq Bases /\ saved.policy.base \in Bases \cup {"none"}
      BY DEF CatalogInv, Types, SavedState, NoState, Policies, NoPolicy
    <2> QED BY <1>2, <2>1, CatalogAssumption DEF pendingFamilies, NoPolicy
  <1>4. first \in Paths /\ first.seq = 0 /\ first.base = daemon.policy.base
    <2>1. now \in Nat /\ daemon.policy.interval \in Nat \ {0}
      <3>1. now \in 0..MaxTime /\ MaxTime \in Nat /\ Intervals \subseteq Nat \ {0}
        BY CatalogAssumption DEF CatalogInv, Types
      <3>2. daemon.policy.interval \in Intervals
        BY <1>2 DEF Policies
      <3>3. daemon.policy.interval \in Nat \ {0}
        BY <3>1, <3>2
      <3>4. now \in Nat
        BY <3>1
      <3> QED BY <3>3, <3>4
    <2>2. start \in 0..now
      BY <2>1 DEF bucketStart
    <2> QED BY <1>2, <2>2, CatalogAssumption DEF CatalogInv, Types, Paths
  <1>5. \A p \in affected(saved, daemon.policy) : p \in Paths /\ p.base \in bases
    BY CatalogAssumption DEF affected, pendingFamilies, NoPolicy, Paths
  <1>6. affected(saved, daemon.policy) \subseteq Paths
    BY DEF affected
  <1> HIDE DEF bases, first
  <1>7. op'.kind = "reset" /\ op'.step = "delete" /\ op'.bases = bases /\ op'.first = first
    BY <1>1
  <1>8. /\ saved' \in SavedState /\ saved'.pending /\ saved'.current = NoPath /\ saved'.seq = 0
        /\ saved'.bases = bases
    BY <1>1, <1>2, <1>3, CatalogAssumption DEF SavedState, Current
  <1>9. saved' # NoState
    BY <1>8 DEF NoState
  <1>10. Types'
    <2>1. daemon' \in Daemon
      BY <1>1 DEF CatalogInv, Types, Daemon
    <2>2. \A p \in Paths : files[p].db \in 0..used /\ files[p].side \in 0..used
      BY DEF CatalogInv, Types, FileRecord
    <2>3. used \in Nat
      BY CatalogAssumption DEF CatalogInv, Types
    <2>4. identities(affected(saved, daemon.policy)) \subseteq 1..used
      BY <1>6, <2>2, <2>3 DEF identities
    <2>5. currentIdentity \subseteq 1..used
      BY <2>2, <2>3, CurrentIsPath DEF currentIdentity
    <2> QED BY <1>1, <1>8, <2>1, <2>4, <2>5 DEF CatalogInv, Types
  <1>11. OpType'
    BY <1>1, <1>3, <1>4 DEF OpType, ResetOp, Current
  <1>12. DaemonState'
    BY <1>1, <1>7, <1>9 DEF CatalogInv, Types, Daemon, DaemonState
  <1>13. SavedCurrent'
    BY <1>8 DEF SavedCurrent, NoPath
  <1>14. NewFile' /\ DatabaseFirst' /\ OnlySelectedPruned'
    BY <1>1, <1>7 DEF NewFile, DatabaseFirst, OnlySelectedPruned
  <1>15. ResetRecorded'
    BY <1>3, <1>4, <1>7, <1>8, <1>9 DEF ResetRecorded
  <1>16. DoomedIsNamed'
    <2>1. ASSUME NEW p \in Paths, remains(p)' # {} PROVE p.base \in bases
      <3>1. CASE p \in affected(saved, daemon.policy)
        BY <1>5, <3>1
      <3>2. CASE remains(p) # {}
        BY <3>2, <1>5 DEF CatalogInv, DoomedIsNamed, affected
      <3>3. CASE remains(p) = {} /\ p \notin affected(saved, daemon.policy)
        <4>1. PICK i \in identities(affected(saved, daemon.policy)) :
                  i \in {files[p].db, files[p].side}
          BY <1>1, <2>1, <3>3 DEF remains, identitiesOf
        <4>2. PICK q \in affected(saved, daemon.policy) : i \in identitiesOf(q)
          BY <4>1 DEF identities, identitiesOf
        <4>3. i \in identitiesOf(p) \cap identitiesOf(q) /\ q \in Paths
          BY <4>1, <4>2, <1>6 DEF identitiesOf
        <4>4. p = q
          BY <4>3 DEF CatalogInv, Superseded
        <4> QED BY <4>2, <4>4, <3>3
      <3> QED BY <3>1, <3>2, <3>3
    <2> QED BY <1>7, <1>8, <1>9, <2>1 DEF DoomedIsNamed
  <1>17. Superseded'
    BY <1>1, <1>9 DEF CatalogInv, Superseded, identitiesOf
  <1>18. HandleSafe'
    BY <1>1 DEF CatalogInv, HandleSafe
  <1>19. CurrentNeverReturns'
    BY <1>8 DEF CurrentNeverReturns, currentIdentity
  <1> QED BY <1>10, <1>11, <1>12, <1>13, <1>14, <1>15, <1>16, <1>17, <1>18, <1>19 DEF CatalogInv

\* removeBucket, in its two steps.
LEMMA RemovedRecord ==
    ASSUME NEW n \in Nat, NEW r \in FileRecord(n)
    PROVE  LET left == [r EXCEPT !.db = 0, !.done = FALSE, !.full = FALSE]
           IN  left \in FileRecord(n) /\ left.db = 0 /\ left.side = r.side /\ ~left.done
  <1> DEFINE left == [r EXCEPT !.db = 0, !.done = FALSE, !.full = FALSE]
             nameless == [r EXCEPT !.db = 0]
             open == [nameless EXCEPT !.done = FALSE]
  <1>1. nameless \in FileRecord(n) /\ nameless.db = 0 /\ nameless.side = r.side
    BY DEF FileRecord
  <1> HIDE DEF nameless
  <1>2. open \in FileRecord(n) /\ open.db = 0 /\ open.side = r.side /\ open.done = FALSE
    BY <1>1 DEF FileRecord
  <1> HIDE DEF open
  <1>3. left = [open EXCEPT !.full = FALSE]
    BY DEF nameless, open
  <1> HIDE DEF left
  <1> QED BY <1>2, <1>3 DEF FileRecord

\* The database is gone, and what else is at its path stays.
LEMMA DatabaseRemoved ==
    ASSUME CatalogInv, NEW p
    PROVE  /\ removeDatabase(p) \in [Paths -> FileRecord(used)]
           /\ \A q \in Paths :
                  /\ removeDatabase(p)[q].db = IF q = p THEN 0 ELSE files[q].db
                  /\ removeDatabase(p)[q].side = files[q].side
                  /\ removeDatabase(p)[q].done => files[q].done
  <1>1. files \in [Paths -> FileRecord(used)] /\ used \in Nat
    BY CatalogAssumption DEF CatalogInv, Types
  <1>2. CASE p \notin Paths
    <2>1. removeDatabase(p) = files
      BY <1>1, <1>2 DEF removeDatabase
    <2> QED BY <1>1, <1>2, <2>1
  <1>3. CASE p \in Paths
    <2> DEFINE left == [files[p] EXCEPT !.db = 0, !.done = FALSE, !.full = FALSE]
    <2>1. removeDatabase(p) = [files EXCEPT ![p] = left]
      BY <1>1, <1>3 DEF removeDatabase
    <2>2. left \in FileRecord(used) /\ left.db = 0 /\ left.side = files[p].side /\ ~left.done
      BY <1>1, <1>3, RemovedRecord
    <2> HIDE DEF left
    <2> QED BY <1>1, <1>3, <2>1, <2>2
  <1> QED BY <1>2, <1>3

\* The sidecars are gone, and every database stays.
LEMMA SidecarsRemoved ==
    ASSUME CatalogInv, NEW p
    PROVE  /\ removeSidecars(p) \in [Paths -> FileRecord(used)]
           /\ \A q \in Paths :
                  /\ removeSidecars(p)[q].db = files[q].db
                  /\ removeSidecars(p)[q].side \in {0, files[q].side}
                  /\ removeSidecars(p)[q].done = files[q].done
  <1>1. files \in [Paths -> FileRecord(used)] /\ 0 \in 0..used /\ Types
    BY CatalogAssumption DEF CatalogInv, Types
  <1>2. CASE p \notin Paths
    <2>1. removeSidecars(p) = files
      BY <1>1, <1>2 DEF removeSidecars
    <2> QED BY <1>1, <2>1
  <1>3. CASE p \in Paths
    BY <1>1, <1>3, SideChange DEF removeSidecars
  <1> QED BY <1>2, <1>3

\* A lock file that is removed is one that no handle has.
LEMMA LocksStay ==
    ASSUME CatalogInv, DatabaseFirst, op.step = "sidecars"
    PROVE  removeLock(op.path) = handles
  <1>1. ASSUME NEW h \in handles
        PROVE  [h EXCEPT !.locked = h.locked /\ h.path # op.path] = h
    <2>1. h \in Handle /\ h.path \in Paths /\ h.locked = TRUE /\ files[h.path].db = h.id /\ h.id # 0
      BY DEF CatalogInv, Types, Handle, HandleSafe
    <2>2. h.path # op.path
      BY <2>1 DEF DatabaseFirst
    <2> QED BY <2>1, <2>2 DEF Handle
  <1> QED BY <1>1 DEF removeLock

\* A step that deletes a database nobody has open, or sidecars.
Shrinks ==
    /\ files' \in [Paths -> FileRecord(used)]
    /\ \A p \in Paths :
        /\ files'[p].db \in {0, files[p].db}
        /\ files'[p].side \in {0, files[p].side}
        /\ files'[p].done => files[p].done
        /\ files'[p].db # files[p].db => \A h \in handles : h.path # p

\* Deletions keep the state file, the handles and the history in order.
LEMMA FilesShrink ==
    ASSUME CatalogInv, Shrinks, op'.kind = op.kind, handles' = handles, staging' \subseteq staging,
           UNCHANGED <<saved, daemon, targets, config, now, used, history>>
    PROVE  /\ Types' /\ DaemonState' /\ SavedCurrent' /\ Superseded' /\ HandleSafe'
           /\ CurrentNeverReturns'
           /\ \A p \in Paths : remains(p)' \subseteq remains(p)
  <1>1. Types' /\ DaemonState'
    BY DEF CatalogInv, Types, DaemonState, Shrinks, history
  <1>2. SavedCurrent'
    BY CurrentIsPath DEF CatalogInv, SavedCurrent, Shrinks
  <1>3. Superseded'
    <2>1. \A p \in Paths : identitiesOf(p)' \subseteq identitiesOf(p)
      BY DEF identitiesOf, Shrinks
    <2>2. 0 \notin retired
      BY DEF CatalogInv, Types
    <2> QED BY <2>1, <2>2 DEF CatalogInv, Superseded, Shrinks, history
  <1>4. HandleSafe'
    BY DEF CatalogInv, Types, Handle, HandleSafe, Shrinks
  <1>5. CurrentNeverReturns'
    <2>1. currentIdentity' \subseteq currentIdentity
      BY CurrentIsPath DEF currentIdentity, Shrinks
    <2> QED BY <2>1 DEF CatalogInv, CurrentNeverReturns, history
  <1>6. \A p \in Paths : remains(p)' \subseteq remains(p)
    BY DEF remains, identitiesOf, Shrinks, history
  <1> QED BY <1>1, <1>2, <1>3, <1>4, <1>5, <1>6

\* The database of a member that nobody has open is deleted.
LEMMA DeleteMemberStep == ASSUME CatalogInv, DeleteMember PROVE CatalogInv'
  <1>1. PICK p \in Paths : /\ ~Pinned(p)
                           /\ files' = removeDatabase(p)
                           /\ op' = [op EXCEPT !.step = "sidecars", !.path = p]
    BY DEF DeleteMember, Family
  <1>2. /\ op.kind \in {"reset", "purge"} /\ op.step = "delete"
        /\ UNCHANGED <<staging, saved, handles, daemon, targets, config, now, used, history>>
    BY DEF DeleteMember
  <1>3. op \in ResetOp \cup PurgeOp
    BY <1>2 DEF CatalogInv, OpType, NoOp, EnsureOp, PruneOp
  <1>4. /\ op' \in ResetOp \cup PurgeOp /\ op'.kind = op.kind /\ op'.step = "sidecars"
        /\ op'.path = p
        /\ op.kind = "reset" => op'.bases = op.bases /\ op'.first = op.first
    BY <1>1, <1>2, <1>3 DEF ResetOp, PurgeOp, Current
  <1>5. \A h \in handles : h.path # p
    BY <1>1, NotPinned
  <1>6. Shrinks
    BY <1>1, <1>5, DatabaseRemoved DEF Shrinks
  <1>7. /\ Types' /\ DaemonState' /\ SavedCurrent' /\ Superseded' /\ HandleSafe'
        /\ CurrentNeverReturns'
        /\ \A q \in Paths : remains(q)' \subseteq remains(q)
    BY <1>2, <1>4, <1>6, FilesShrink
  <1>8. OpType'
    BY <1>4 DEF OpType
  <1>9. NewFile'
    BY <1>2, <1>4 DEF CatalogInv, NewFile
  <1>10. DatabaseFirst'
    BY <1>1, <1>4, DatabaseRemoved DEF DatabaseFirst
  <1>11. ResetRecorded' /\ OnlySelectedPruned'
    BY <1>2, <1>4 DEF CatalogInv, ResetRecorded, OnlySelectedPruned
  <1>12. DoomedIsNamed'
    BY <1>2, <1>4, <1>7 DEF CatalogInv, DoomedIsNamed
  <1> QED BY <1>7, <1>8, <1>9, <1>10, <1>11, <1>12 DEF CatalogInv

\* The sidecars follow.
LEMMA DeleteSidecarsStep == ASSUME CatalogInv, DeleteSidecars PROVE CatalogInv'
  <1>1. /\ op.kind \in {"reset", "purge"} /\ op.step = "sidecars"
        /\ files' = removeSidecars(op.path) /\ handles' = removeLock(op.path)
        /\ op' = [op EXCEPT !.step = "delete"]
        /\ UNCHANGED <<staging, saved, daemon, targets, config, now, used, history>>
    BY DEF DeleteSidecars
  <1>2. op \in ResetOp \cup PurgeOp
    BY <1>1 DEF CatalogInv, OpType, NoOp, EnsureOp, PruneOp
  <1>3. /\ op' \in ResetOp \cup PurgeOp /\ op'.kind = op.kind /\ op'.step = "delete"
        /\ op.kind = "reset" => op'.bases = op.bases /\ op'.first = op.first
    BY <1>1, <1>2 DEF ResetOp, PurgeOp
  <1>4. handles' = handles
    BY <1>1, LocksStay DEF CatalogInv
  <1>5. Shrinks
    BY <1>1, SidecarsRemoved DEF Shrinks
  <1>6. /\ Types' /\ DaemonState' /\ SavedCurrent' /\ Superseded' /\ HandleSafe'
        /\ CurrentNeverReturns'
        /\ \A q \in Paths : remains(q)' \subseteq remains(q)
    BY <1>1, <1>3, <1>4, <1>5, FilesShrink
  <1>7. OpType'
    BY <1>3 DEF OpType
  <1>8. NewFile' /\ DatabaseFirst'
    BY <1>1, <1>3 DEF CatalogInv, NewFile, DatabaseFirst
  <1>9. ResetRecorded' /\ OnlySelectedPruned'
    BY <1>1, <1>3 DEF CatalogInv, ResetRecorded, OnlySelectedPruned
  <1>10. DoomedIsNamed'
    BY <1>1, <1>3, <1>6 DEF CatalogInv, DoomedIsNamed
  <1> QED BY <1>6, <1>7, <1>8, <1>9, <1>10 DEF CatalogInv

\* The files stay, and the operation goes on, begins or ends.
LEMMA NothingWritten ==
    ASSUME CatalogInv, staging' \subseteq staging,
           UNCHANGED <<files, saved, handles, config, now, used, history>>
    PROVE  /\ SavedCurrent' /\ Superseded' /\ HandleSafe' /\ CurrentNeverReturns'
           /\ daemon' \in Daemon => Types'
           /\ \A p \in Paths : remains(p)' = remains(p)
  BY DEF CatalogInv, Types, SavedCurrent, Superseded, identitiesOf, HandleSafe,
     CurrentNeverReturns, currentIdentity, remains, history

\* A member in use ends the operation, and a reset stays recorded.
LEMMA DeleteBusyStep == ASSUME CatalogInv, DeleteBusy PROVE CatalogInv'
  <1>1. /\ op' = NoOp
        /\ UNCHANGED <<files, staging, saved, handles, daemon, targets, config, now, used, history>>
    BY DEF DeleteBusy, Return
  <1>2. op'.kind = "none" /\ op'.step = "none"
    BY <1>1 DEF NoOp
  <1>3. /\ Types' /\ SavedCurrent' /\ Superseded' /\ HandleSafe' /\ CurrentNeverReturns'
        /\ \A p \in Paths : remains(p)' = remains(p)
    BY <1>1, NothingWritten DEF CatalogInv, Types
  <1>4. OpType' /\ DaemonState'
    BY <1>1, <1>2 DEF CatalogInv, OpType, DaemonState
  <1>5. /\ NewFile' /\ DatabaseFirst' /\ ResetRecorded' /\ OnlySelectedPruned'
    BY <1>2 DEF NewFile, DatabaseFirst, ResetRecorded, OnlySelectedPruned
  <1>6. DoomedIsNamed'
    BY <1>1, <1>2, <1>3 DEF CatalogInv, DoomedIsNamed
  <1> QED BY <1>3, <1>4, <1>5, <1>6 DEF CatalogInv

\* Nothing is left of the families that the state file names, so nothing that
\* the reset had to destroy.
LEMMA FamiliesDeletedStep == ASSUME CatalogInv, FamiliesDeleted PROVE CatalogInv'
  <1>1. /\ op.kind \in {"reset", "purge"} /\ op.step = "delete"
        /\ \A b \in op.bases : Family(b) = {}
        /\ staging' \subseteq staging
        /\ op' = [op EXCEPT !.step = IF op.kind = "reset" THEN "stage" ELSE "forget",
                            !.path = op.first]
        /\ UNCHANGED <<files, saved, handles, daemon, targets, config, now, used, history>>
    BY DEF FamiliesDeleted
  <1>2. op \in ResetOp \cup PurgeOp
    BY <1>1 DEF CatalogInv, OpType, NoOp, EnsureOp, PruneOp
  <1>3. /\ op' \in ResetOp \cup PurgeOp /\ op'.kind = op.kind
        /\ op'.step = (IF op.kind = "reset" THEN "stage" ELSE "forget")
        /\ op'.path = op.first
        /\ op.kind = "reset" => /\ op'.bases = op.bases /\ op'.first = op.first
                                /\ op'.seq = 0 /\ op.first \in Paths /\ op.first.seq = 0
    BY <1>1, <1>2 DEF ResetOp, PurgeOp, Current
  <1>4. /\ Types' /\ SavedCurrent' /\ Superseded' /\ HandleSafe' /\ CurrentNeverReturns'
        /\ \A p \in Paths : remains(p)' = remains(p)
    BY <1>1, NothingWritten DEF CatalogInv, Types
  <1>5. OpType' /\ DaemonState'
    BY <1>1, <1>3 DEF CatalogInv, OpType, DaemonState
  <1>6. NewFile'
    <2>1. CASE op.kind = "reset"
      <3>1. op.first \in Paths /\ op.first.base \in op.bases
        BY <1>3, <2>1 DEF CatalogInv, ResetRecorded
      <3>2. files[op.first].db = 0
        BY <1>1, <3>1 DEF Family, Present
      <3> QED BY <1>1, <1>3, <2>1, <3>2 DEF CatalogInv, NewFile
    <2>2. CASE op.kind # "reset"
      BY <1>1, <1>3, <2>2 DEF NewFile
    <2> QED BY <2>1, <2>2
  <1>7. DatabaseFirst' /\ ResetRecorded' /\ OnlySelectedPruned'
    BY <1>1, <1>3 DEF CatalogInv, DatabaseFirst, ResetRecorded, OnlySelectedPruned
  <1>8. DoomedIsNamed'
    <2>1. ASSUME op.kind = "reset", NEW p \in Paths PROVE remains(p) = {}
      <3>1. CASE remains(p) # {}
        <4>1. p.base \in op.bases
          BY <2>1, <3>1 DEF CatalogInv, DoomedIsNamed, ResetRecorded
        <4>2. ~Present(p)
          BY <1>1, <4>1 DEF Family
        <4> QED BY <3>1, <4>2 DEF Present, remains, identitiesOf
      <3> QED BY <3>1
    <2> QED BY <1>1, <1>3, <1>4, <2>1 DEF CatalogInv, DoomedIsNamed
  <1> QED BY <1>4, <1>5, <1>6, <1>7, <1>8 DEF CatalogInv

\* The reset command begins while no daemon runs.
LEMMA PurgeStep == ASSUME CatalogInv, Purge PROVE CatalogInv'
  <1>1. /\ op = NoOp /\ ~daemon.up
        /\ op' = [kind |-> "purge", step |-> "delete", path |-> NoPath, first |-> NoPath,
                  bases |-> {config.base}]
        /\ UNCHANGED <<files, staging, saved, handles, daemon, targets, config, now, used, history>>
    BY DEF Purge, Idle
  <1>2. op'.kind = "purge" /\ op'.step = "delete"
    BY <1>1
  <1>3. /\ Types' /\ SavedCurrent' /\ Superseded' /\ HandleSafe' /\ CurrentNeverReturns'
        /\ \A p \in Paths : remains(p)' = remains(p)
    BY <1>1, NothingWritten DEF CatalogInv, Types
  <1>4. OpType'
    <2>1. config.base \in Bases
      BY DEF CatalogInv, Types, Policies
    <2> QED BY <1>1, <2>1 DEF OpType, PurgeOp, Current
  <1>5. DaemonState'
    BY <1>1, <1>2 DEF CatalogInv, DaemonState
  <1>6. NewFile' /\ DatabaseFirst' /\ ResetRecorded' /\ OnlySelectedPruned'
    BY <1>2 DEF NewFile, DatabaseFirst, ResetRecorded, OnlySelectedPruned
  <1>7. DoomedIsNamed'
    BY <1>1, <1>2, <1>3 DEF CatalogInv, DoomedIsNamed
  <1> QED BY <1>3, <1>4, <1>5, <1>6, <1>7 DEF CatalogInv

\* What the reset command leaves on disk is lost sight of.
LEMMA RemoveStateStep == ASSUME CatalogInv, RemoveState PROVE CatalogInv'
  <1>1. /\ op.kind = "purge" /\ op' = NoOp /\ saved' = NoState
        /\ lost' = lost \cup identities(Paths)
        /\ UNCHANGED <<files, staging, handles, daemon, targets, config, now, used, doomed,
                       retired>>
    BY DEF RemoveState, Return
  <1>2. op'.kind = "none" /\ op'.step = "none"
    BY <1>1 DEF NoOp
  <1>3. Types' /\ OpType'
    BY <1>1 DEF CatalogInv, Types, OpType
  <1>4. ~daemon.up /\ daemon = Stopped
    BY <1>1 DEF CatalogInv, DaemonState
  <1>5. DaemonState'
    BY <1>1, <1>2, <1>4 DEF DaemonState, Stopped
  <1>6. SavedCurrent'
    BY <1>1 DEF SavedCurrent, NoState, NoPath
  <1>7. NewFile' /\ DatabaseFirst' /\ ResetRecorded' /\ OnlySelectedPruned'
    BY <1>2 DEF NewFile, DatabaseFirst, ResetRecorded, OnlySelectedPruned
  <1>8. \A p \in Paths : identitiesOf(p) \subseteq lost'
    BY <1>1 DEF identities, identitiesOf
  <1>9. DoomedIsNamed'
    BY <1>1, <1>2, <1>8 DEF DoomedIsNamed, remains, identitiesOf
  <1>10. Superseded'
    <2>1. 0 \notin retired
      BY DEF CatalogInv, Types
    <2> QED BY <1>1, <1>8, <2>1 DEF CatalogInv, Superseded, identitiesOf
  <1>11. HandleSafe' /\ CurrentNeverReturns'
    BY <1>1 DEF CatalogInv, HandleSafe, CurrentNeverReturns, currentIdentity, NoState
  <1> QED BY <1>3, <1>5, <1>6, <1>7, <1>9, <1>10, <1>11 DEF CatalogInv

-----------------------------------------------------------------------------
(* Pruning. *)

\* The choice of a pass writes nothing.
LEMMA PruneBatchCandidatesStep == ASSUME CatalogInv, PruneBatchCandidates PROVE CatalogInv'
  <1>1. /\ op = NoOp /\ daemon.up /\ daemon.want = NoPath /\ saved # NoState
        /\ \E S \in SUBSET Paths :
               daemon' = [daemon EXCEPT !.at = now, !.mode = "prune", !.free = S]
        /\ UNCHANGED <<files, staging, saved, op, handles, config, now, used, history>>
    <2>1. {p \in Family(daemon.policy.base) : expired(p, now) /\ ~Pinned(p)} \in SUBSET Paths
      BY DEF Family
    <2> QED BY <2>1 DEF PruneBatchCandidates, Idle
  <1>2. op.kind = "none" /\ op.step = "none"
    BY <1>1 DEF NoOp
  <1>3. PICK S \in SUBSET Paths :
            daemon' = [daemon EXCEPT !.at = now, !.mode = "prune", !.free = S]
    BY <1>1
  <1>4. daemon' \in Daemon
    BY <1>3 DEF CatalogInv, Types, Daemon
  <1>5. /\ Types' /\ SavedCurrent' /\ Superseded' /\ HandleSafe' /\ CurrentNeverReturns'
        /\ \A p \in Paths : remains(p)' = remains(p)
    BY <1>1, <1>4, NothingWritten
  <1>6. OpType'
    BY <1>1 DEF CatalogInv, OpType
  <1>7. DaemonState'
    BY <1>1, <1>2, <1>3 DEF CatalogInv, Types, Daemon, DaemonState
  <1>8. NewFile' /\ DatabaseFirst' /\ ResetRecorded' /\ OnlySelectedPruned'
    BY <1>1, <1>2 DEF NewFile, DatabaseFirst, ResetRecorded, OnlySelectedPruned
  <1>9. DoomedIsNamed'
    BY <1>1, <1>2, <1>5 DEF CatalogInv, DoomedIsNamed
  <1> QED BY <1>5, <1>6, <1>7, <1>8, <1>9 DEF CatalogInv

\* A pass begins with nothing removed.
LEMMA PruneBatchSelectedStep == ASSUME CatalogInv, PruneBatchSelected PROVE CatalogInv'
  <1>1. /\ daemon.up /\ daemon.mode = "prune"
        /\ staging' \subseteq staging
        /\ UNCHANGED <<files, saved, handles, daemon, targets, config, now, used, history>>
    BY DEF PruneBatchSelected, RemoveStaging
  <1>2. /\ PruneOp(op') /\ op'.kind = "prune" /\ op'.step = "next" /\ op'.removed = {}
    BY DEF PruneBatchSelected, PruneOp
  <1>3. /\ Types' /\ SavedCurrent' /\ Superseded' /\ HandleSafe' /\ CurrentNeverReturns'
        /\ \A p \in Paths : remains(p)' = remains(p)
    BY <1>1, NothingWritten DEF CatalogInv, Types
  <1>4. OpType'
    BY <1>2 DEF OpType
  <1>5. DaemonState'
    BY <1>1, <1>2 DEF CatalogInv, DaemonState
  <1>6. NewFile' /\ DatabaseFirst' /\ ResetRecorded' /\ OnlySelectedPruned'
    BY <1>2 DEF NewFile, DatabaseFirst, ResetRecorded, OnlySelectedPruned
  <1>7. DoomedIsNamed'
    BY <1>1, <1>2, <1>3 DEF CatalogInv, DoomedIsNamed
  <1> QED BY <1>3, <1>4, <1>5, <1>6, <1>7 DEF CatalogInv

\* A pass goes on, possibly without the database at the head of its list, which
\* was selected and nobody had open.
LEMMA PruneGoesOn ==
    ASSUME CatalogInv, op.kind = "prune", PruneOp(op'), Shrinks,
           UNCHANGED <<staging, saved, handles, daemon, targets, config, now, used, history>>,
           op'.removed \subseteq op.removed \cup {t.id : t \in targets},
           op'.step = "sidecars" /\ op'.path \in Paths => files'[op'.path].db = 0
    PROVE  CatalogInv'
  <1>1. op'.kind = op.kind
    BY DEF PruneOp
  <1>2. /\ Types' /\ DaemonState' /\ SavedCurrent' /\ Superseded' /\ HandleSafe'
        /\ CurrentNeverReturns'
        /\ \A q \in Paths : remains(q)' \subseteq remains(q)
    BY <1>1, FilesShrink
  <1>3. OpType'
    BY DEF OpType
  <1>4. NewFile' /\ DatabaseFirst' /\ ResetRecorded'
    BY <1>1 DEF NewFile, DatabaseFirst, ResetRecorded
  <1>5. OnlySelectedPruned'
    BY <1>1 DEF CatalogInv, OnlySelectedPruned
  <1>6. DoomedIsNamed'
    BY <1>1, <1>2 DEF CatalogInv, DoomedIsNamed
  <1> QED BY <1>2, <1>3, <1>4, <1>5, <1>6 DEF CatalogInv

\* A step that leaves the files.
LEMMA FilesStay == ASSUME CatalogInv, files' = files PROVE Shrinks
  BY DEF CatalogInv, Types, Shrinks

\* The head of a pass's list is done with.
LEMMA ListShortened ==
    ASSUME NEW o, PruneOp(o), NEW t
    PROVE  LET rest == [o EXCEPT !.todo = t]
           IN  PruneOp(rest) /\ rest.step = o.step /\ rest.removed = o.removed
  BY DEF PruneOp

\* A pass notes what it could not free.
LEMMA SizeNoted ==
    ASSUME NEW o, PruneOp(o), NEW b
    PROVE  LET noted == [o EXCEPT !.sizeBlocked = b]
           IN  PruneOp(noted) /\ noted.step = o.step /\ noted.removed = o.removed
  BY DEF PruneOp

\* The file at the head of the list stays, is put off or loses its database.
LEMMA PruneNextStep == ASSUME CatalogInv, PruneNext PROVE CatalogInv'
  <1> DEFINE p == Head(op.todo)
             rest == [op EXCEPT !.todo = Tail(op.todo)]
             blocked == [rest EXCEPT !.sizeBlocked = op.sizeBlocked \/ overSize(op.total)]
  <1>1. /\ op.kind = "prune" /\ op.step = "next"
        /\ UNCHANGED <<staging, saved, handles, daemon, targets, config, now, used, history>>
    BY DEF PruneNext
  <1>2. PruneOp(op)
    BY <1>1 DEF CatalogInv, OpType, NoOp, EnsureOp, ResetOp, PurgeOp
  <1>3. PruneOp(rest) /\ rest.step = "next" /\ rest.removed = op.removed
    BY <1>1, <1>2, ListShortened
  <1>4. PruneOp(blocked) /\ blocked.step = "next" /\ blocked.removed = op.removed
    BY <1>3, SizeNoted
  <1>5. CASE op' \in {rest, blocked} /\ files' = files
    BY <1>1, <1>3, <1>4, <1>5, FilesStay, PruneGoesOn
  <1>6. CASE op' = [blocked EXCEPT !.deferred = op.deferred \cup {p}] /\ files' = files
    <2>1. PruneOp(op') /\ op'.step = "next" /\ op'.removed = op.removed
      BY <1>4, <1>6 DEF PruneOp
    <2> QED BY <1>1, <1>6, <2>1, FilesStay, PruneGoesOn
  <1>7. CASE /\ samePruneTarget(p, targets) /\ ~Pinned(p)
             /\ op' = [rest EXCEPT !.step = "sidecars", !.path = p, !.total = op.total - 1,
                                   !.removed = op.removed \cup {identityOf(p)}]
             /\ files' = removeDatabase(p)
    <2>1. /\ PruneOp(op') /\ op'.step = "sidecars" /\ op'.path = p
          /\ op'.removed = op.removed \cup {identityOf(p)}
      BY <1>1, <1>2, <1>7 DEF PruneOp
    <2>2. identityOf(p) \in {t.id : t \in targets}
      BY <1>7 DEF samePruneTarget
    <2>3. Shrinks
      BY <1>7, NotPinned, DatabaseRemoved DEF Shrinks
    <2>4. op'.path \in Paths => files'[op'.path].db = 0
      BY <1>7, <2>1, DatabaseRemoved
    <2> QED BY <1>1, <2>1, <2>2, <2>3, <2>4, PruneGoesOn
  <1> QED BY <1>5, <1>6, <1>7 DEF PruneNext

\* The sidecars follow, as in a reset.
LEMMA PruneSidecarsStep == ASSUME CatalogInv, PruneSidecars PROVE CatalogInv'
  <1>1. /\ op.kind = "prune" /\ op.step = "sidecars"
        /\ files' = removeSidecars(op.path) /\ handles' = removeLock(op.path)
        /\ op' = [op EXCEPT !.step = "next"]
        /\ UNCHANGED <<staging, saved, daemon, targets, config, now, used, history>>
    BY DEF PruneSidecars
  <1>2. PruneOp(op)
    BY <1>1 DEF CatalogInv, OpType, NoOp, EnsureOp, ResetOp, PurgeOp
  <1>3. PruneOp(op') /\ op'.step = "next" /\ op'.removed = op.removed
    BY <1>1, <1>2 DEF PruneOp
  <1>4. handles' = handles
    BY <1>1, LocksStay DEF CatalogInv
  <1>5. Shrinks
    BY <1>1, SidecarsRemoved DEF Shrinks
  <1> QED BY <1>1, <1>3, <1>4, <1>5, PruneGoesOn

\* The pass is over; the state file changes in deferred_files alone.
LEMMA PruneSaveStep == ASSUME CatalogInv, PruneSave PROVE CatalogInv'
  <1> DEFINE S == {p \in Family(daemon.policy.base) :
                      p \in op.deferred \/ (expired(p, daemon.at) /\ Pinned(p))}
  <1>1. /\ op.kind = "prune" /\ op' = NoOp
        /\ saved' = [saved EXCEPT !.deferred = S]
        /\ daemon' = [daemon EXCEPT !.mode = "ensure", !.free = {}]
        /\ UNCHANGED <<files, staging, handles, config, now, used, history>>
    BY DEF PruneSave, Return
  <1>2. op'.kind = "none" /\ op'.step = "none"
    BY <1>1 DEF NoOp
  <1>3. S \subseteq Paths
    BY DEF Family
  <1> HIDE DEF S
  <1>4. saved # NoState => /\ saved' \in SavedState
                           /\ saved'.current = saved.current /\ saved'.seq = saved.seq
                           /\ saved'.pending = saved.pending /\ saved'.bases = saved.bases
    BY <1>1, <1>3 DEF CatalogInv, Types, SavedState
  <1>5. saved # NoState /\ daemon.up /\ daemon.mode = "prune" /\ daemon.want = NoPath
    BY <1>1 DEF CatalogInv, DaemonState
  <1>6. saved' # NoState
    <2>1. saved'.policy.base # "none"
      BY <1>4, <1>5, CatalogAssumption DEF SavedState, Policies
    <2> QED BY <2>1 DEF NoState, NoPolicy
  <1>7. Types' /\ OpType'
    <2>1. daemon' \in Daemon
      BY <1>1 DEF CatalogInv, Types, Daemon
    <2> QED BY <1>1, <1>4, <1>5, <2>1 DEF CatalogInv, Types, OpType, history
  <1>8. DaemonState'
    <2>1. daemon'.up /\ daemon'.mode = "ensure" /\ daemon'.want = NoPath
          /\ daemon'.policy = daemon.policy
      BY <1>1, <1>5 DEF CatalogInv, Types, Daemon
    <2> QED BY <1>2, <1>5, <2>1 DEF CatalogInv, DaemonState
  <1>9. SavedCurrent' /\ CurrentNeverReturns'
    BY <1>1, <1>4, <1>5 DEF CatalogInv, SavedCurrent, CurrentNeverReturns, currentIdentity, history
  <1>10. NewFile' /\ DatabaseFirst' /\ ResetRecorded' /\ OnlySelectedPruned'
    BY <1>2 DEF NewFile, DatabaseFirst, ResetRecorded, OnlySelectedPruned
  <1>11. DoomedIsNamed'
    BY <1>1, <1>2, <1>4, <1>5, <1>6 DEF CatalogInv, DoomedIsNamed, remains, identitiesOf, history
  <1>12. Superseded' /\ HandleSafe'
    BY <1>1, <1>6 DEF CatalogInv, Superseded, identitiesOf, HandleSafe, history
  <1> QED BY <1>7, <1>8, <1>9, <1>10, <1>11, <1>12 DEF CatalogInv

-----------------------------------------------------------------------------
(* The invariant, and what it says. *)

\* Every step of every process, and every failure, keeps the invariant.
THEOREM CatalogInvariance == Spec => []CatalogInv
  <1>1. CatalogInv /\ [Next]_vars => CatalogInv'
    <2> SUFFICES ASSUME CatalogInv, [Next]_vars PROVE CatalogInv'
      OBVIOUS
    <2>1. CASE DaemonStep
      BY <2>1, EnsureCurrentStep, DaemonSteps, StageStep, PublishStep, SaveCurrentStep, ResetStep,
         DeleteMemberStep, DeleteBusyStep, DeleteSidecarsStep, FamiliesDeletedStep,
         RemoveStateStep, OpenCurrentStep DEF DaemonStep
    <2>2. CASE Pruning
      BY <2>2, PruneBatchCandidatesStep, PruneBatchSelectedStep, PruneNextStep,
         PruneSidecarsStep, PruneSaveStep DEF Pruning
    <2>3. CASE Purge \/ Grow \/ Reload \/ Stop \/ Crash \/ Fail \/ Tick \/ ClockBack
      BY <2>3, PurgeStep, GrowStep, DaemonSteps, StopStep, FailureSteps, ClockSteps
    <2>4. CASE \E p \in Paths : OpenHistorical(p) \/ Finalize(p)
      BY <2>4, OpenHistoricalStep, FinalizeStep
    <2>5. CASE \E r \in Readers : Read(r)
      BY <2>5, ReadStep
    <2>6. CASE \E h \in handles : CloseHandle(h)
      BY <2>6, CloseHandleStep
    <2>7. CASE \E policy \in Policies : EditConfig(policy)
      BY <2>7, ClockSteps
    <2>8. CASE UNCHANGED vars
      BY <2>8 DEF vars, history, CatalogInv, Types, OpType, PruneOp, DaemonState, SavedCurrent,
         NewFile, DatabaseFirst, ResetRecorded, DoomedIsNamed, remains, identitiesOf, Superseded,
         HandleSafe, OnlySelectedPruned, CurrentNeverReturns, currentIdentity
    <2> QED BY <2>1, <2>2, <2>3, <2>4, <2>5, <2>6, <2>7, <2>8 DEF Next
  <1> QED BY <1>1, InitInv, PTL DEF Spec

\* The invariant implies what the run checks.
LEMMA InvImpliesInOrder == ASSUME CatalogInv PROVE CatalogInOrder
  <1>1. CatalogTypeOK
    <2>1. \A p \in Paths : files[p].db \in 0..MaxFiles /\ files[p].side \in 0..MaxFiles
      <3>1. 0..used \subseteq 0..MaxFiles
        BY CatalogAssumption DEF CatalogInv, Types
      <3> QED BY <3>1 DEF CatalogInv, Types, FileRecord
    <2>2. saved = NoState \/ /\ saved.policy \in Policies /\ saved.bases \subseteq Bases
                             /\ saved.current \in Paths \cup {NoPath}
                             /\ saved.seq \in saved.current.seq..MaxSeq
                             /\ saved.deferred \subseteq Paths
      <3>1. saved.current.seq \in Int
        BY CurrentIsPath DEF Paths, NoPath
      <3> QED BY <3>1, CatalogAssumption DEF CatalogInv, Types, SavedState, SavedCurrent, Current
    <2>3. /\ daemon.mode \in {"ensure", "reset", "prune"}
          /\ daemon.bucket \in Paths \cup {NoPath} /\ daemon.want \in Paths \cup {NoPath}
      BY DEF CatalogInv, Types, Daemon, Current
    <2> QED BY <2>1, <2>2, <2>3 DEF CatalogInv, Types, CatalogTypeOK
  <1>2. ResetForgets
    <2>1. ASSUME saved # NoState, ~saved.pending, NEW i \in identities(Paths) \cap doomed
          PROVE  i \in lost
      <3>1. PICK p \in Paths : i \in identitiesOf(p)
        BY <2>1 DEF identities, identitiesOf
      <3>2. remains(p) = {}
        BY <2>1 DEF CatalogInv, DoomedIsNamed
      <3> QED BY <2>1, <3>1, <3>2 DEF remains
    <2> QED BY <2>1 DEF ResetForgets
  <1> QED BY <1>1, <1>2 DEF CatalogInv, CatalogInOrder

\* CatalogInOrder: no file is deleted, replaced or finalized under an open handle, a
\* pass deletes only what was chosen, a finished reset has forgotten what it had to,
\* and a superseded file is not current again, whatever crashed (catalog.go).
THEOREM CatalogKeepsOrder == Spec => []CatalogInOrder
  BY CatalogInvariance, InvImpliesInOrder, PTL
=============================================================================
