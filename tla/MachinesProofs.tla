--------------------------- MODULE MachinesProofs ---------------------------
(* Calls, jobs and snapshots are counted, and reload, rotation and shutdown  *)
(* keep their order, for every number of calls, jobs, edits and rotations.   *)
(* The second part is about the audit logger, the last about the validator   *)
(* and inference gates, for every set of events and plan and every number of *)
(* targets and retries.                                                      *)
EXTENDS ServerLifecycle, AuditLogger, Gates, FiniteSetTheorems, Lemmas

----------------------------------------------------------------------------
Inferences == Snapshots \cup {Nil}
Configurations == Configs \cup {NoConfig}
CallPcs == {"idle", "loaded", "waiting", "evaluating", "answered"}
WatcherPcs == {"idle", "want", "replace", "drainDetail", "drainStorage",
               "withdraw", "closeWithdrawn", "reset", "publish", "restart",
               "closeOld", "startAudit", "exited"}
AuditPcs == {"absent", "loop", "reconcile", "publish", "closeOld", "exited"}
MainPcs == {"init", "publish", "failed", "created", "serving", "ready",
            "close", "waitAudit", "swap", "stopWorkers", "done"}
SnapshotRecord == [st : {"none", "open", "closed"}, cfg : Configurations,
                   bucket : Nat, slots : Nat, generation : Nat,
                   inf : Inferences]

StoreType ==
    /\ runtime \in Snapshots \cup {Nil}
    /\ snap \in [Snapshots -> SnapshotRecord]
    /\ inference \in [Snapshots -> [references : Nat, closed : BOOLEAN]]
    /\ generation \in Nat
    /\ job \in [Jobs -> Inferences]
    /\ call \in [Calls -> [pc : CallPcs, by : Snapshots \cup {Nil},
                           reason : Reasons \cup {"none"}]]

WatcherRecord == [pc : WatcherPcs, cfg : Configurations,
                  new : Snapshots \cup {Nil}, old : Snapshots \cup {Nil}]
AuditRecord == [pc : AuditPcs, parent : {"none", "run", "reload"},
                new : Snapshots \cup {Nil}, canceled : BOOLEAN,
                rotations : 0 .. MaxRotations]
UpdatesRecord == [live : SUBSET Nat, cancel : Nat, next : Nat,
                  requested : BOOLEAN]

ControlType ==
    /\ file \in Configs /\ pending \in BOOLEAN /\ paused \in BOOLEAN
    /\ watcher \in WatcherRecord /\ audit \in AuditRecord
    /\ updates \in UpdatesRecord
    /\ auditRequested \in BOOLEAN
    /\ main \in MainPcs
    /\ signal \in BOOLEAN /\ shutdown \in BOOLEAN /\ closing \in BOOLEAN
    /\ stopping \in BOOLEAN
    /\ edits \in 0 .. MaxEdits

----------------------------------------------------------------------------
(* Control: which steps of main, the watcher and the scheduler exclude each  *)
(* other.                                                                    *)
Starting == main \in {"init", "publish", "failed"}
Stopped == main \in {"swap", "stopWorkers", "done"}
Stopping == Stopped \/ main = "waitAudit"

\* lifecycleMu has one holder; Close leaves nothing to hold it again.
OneHolder ==
    /\ ~(WatcherHolds /\ AuditHolds)
    /\ Stopped => ~WatcherHolds

\* Nothing runs before the server is created.
QuietStart ==
    Starting => /\ ~pending /\ watcher.pc = "idle" /\ audit.pc = "absent"
                /\ runtime = Nil
                /\ \A c \in Calls : call[c].pc = "idle"

\* From waitAudit on no scheduler starts, from swap on no reload does.
Closing ==
    /\ closing <=> Stopped
    /\ Stopping => shutdown
    /\ Stopped => audit.pc \in {"absent", "exited"}
    /\ main \in {"stopWorkers", "done"} => runtime = Nil /\ updates.live = {}
    /\ main = "done" => Drained

\* The scheduler begins with a usable snapshot.
Reconciles == audit.pc = "reconcile" => usable(runtime)

\* A live update scheduler is the one that the server can cancel.
Cancellable == updates.live \subseteq {updates.cancel}

Control == /\ OneHolder /\ QuietStart /\ Closing /\ Reconciles /\ Cancellable
           /\ WithdrawnOnlyForReset

----------------------------------------------------------------------------
(* The store: snapshots and what counts them.                                *)

\* The snapshot, beside the published one, that somebody has still to publish
\* or to close.
Kept ==
    IF watcher.pc \in {"drainDetail", "publish"} THEN watcher.new
    ELSE IF watcher.pc \in {"closeWithdrawn", "restart", "closeOld"}
         THEN watcher.old
    ELSE IF audit.pc \in {"publish", "closeOld"} \/ main = "stopWorkers"
         THEN audit.new
    ELSE IF main = "publish" THEN 1 ELSE Nil

Unpublished == watcher.pc \in {"drainDetail", "publish"}
               \/ audit.pc = "publish" \/ main = "publish"

\* Snapshots are made in their order, an edit and a rotation make one each.
Owed == (IF pending THEN 1 ELSE 0)
        + (IF watcher.pc \in {"want", "replace", "drainStorage", "withdraw",
                              "closeWithdrawn", "reset"} THEN 1 ELSE 0)
Born(s) == snap[s].st # "none"
BornInOrder ==
    /\ \A s \in Snapshots : Born(s) =>
         /\ \A t \in 1 .. (s - 1) : Born(t)
         /\ s + Owed <= 1 + edits + audit.rotations
    /\ ~Born(1) <=> main \in {"init", "failed"}

OpenIsHeld ==
    /\ Kept \in Snapshots \cup {Nil}
    /\ \A s \in Snapshots : snap[s].st = "open" <=> s \in {runtime, Kept}
    /\ runtime = Nil \/ runtime # Kept
    /\ Unpublished => Kept # Nil

\* A good snapshot has an inference runtime.
Equipped ==
    \A s \in Snapshots :
        /\ snap[s].cfg.kind = "good" => snap[s].inf # Nil
        /\ snap[s].inf # Nil => Born(s) /\ Born(snap[s].inf)

Reading(c) == call[c].pc \in {"loaded", "waiting", "evaluating"}
ReadersSeeRuntime ==
    \A c \in Calls : Reading(c) => call[c].by = runtime /\ usable(runtime)

OpenOn(i) == {s \in Snapshots : snap[s].st = "open" /\ snap[s].inf = i}
JobsOn(i) == {j \in Jobs : job[j] = i}
References ==
    \A i \in Snapshots :
        /\ IsFiniteSet(JobsOn(i))
        /\ inference[i].references = Cardinality(OpenOn(i)) + Cardinality(JobsOn(i))
        /\ inference[i].closed => inference[i].references = 0
        /\ ~Born(i) => ~inference[i].closed /\ JobsOn(i) = {}

Evaluating(s) == {c \in Calls : call[c].pc = "evaluating" /\ call[c].by = s}
Slots ==
    \A s \in Snapshots :
        /\ IsFiniteSet(Evaluating(s))
        /\ snap[s].slots = Cardinality(Evaluating(s))
        /\ snap[s].slots <= HotConcurrency

Buckets == {snap[s].bucket : s \in Snapshots} \ {Nil}
BucketsDense ==
    /\ IsFiniteSet(Buckets)
    /\ \A b \in Buckets : b <= Cardinality(Buckets)
    /\ \A s \in Snapshots : ~Born(s) => snap[s].bucket = Nil

Generations ==
    /\ GenerationsFollowFiles
    /\ \A s \in Snapshots : snap[s].generation <= generation
    /\ runtime # Nil => snap[runtime].generation = generation /\ generation > 0
    \* A snapshot to publish is on the published file or on one of its own.
    /\ Unpublished =>
         \/ runtime # Nil /\ snap[Kept].bucket = snap[runtime].bucket
         \/ \A t \in Snapshots \ {Kept} :
              snap[t].bucket # Nil => snap[t].bucket # snap[Kept].bucket

StoreInv == /\ StoreType /\ OpenIsHeld /\ Equipped /\ ReadersSeeRuntime
            /\ References /\ Slots /\ BucketsDense /\ Generations
ServerInv == ControlType /\ Control /\ BornInOrder /\ StoreInv

----------------------------------------------------------------------------
(* The next snapshot to make is one that does not exist, after all that do.  *)
LEMMA NextIsFresh ==
    ASSUME NEW n \in Snapshots, ~Born(n)
    PROVE  /\ NextSnapshot \in Snapshots /\ ~Born(NextSnapshot)
           /\ \A t \in 1 .. (NextSnapshot - 1) : Born(t)
  <1> DEFINE free == {s \in Snapshots : ~Born(s)}
  <1>1. free \subseteq Nat /\ free # {}
    BY ServerAssumption DEF Snapshots
  <1> HIDE DEF free
  <1>2. PICK s \in free : \A t \in free : s <= t
    BY <1>1, LeastNatural
  <1>3. /\ s \in Snapshots /\ ~Born(s)
        /\ \A t \in Snapshots : ~Born(t) => s <= t
    BY <1>2 DEF free
  <1>4. \A t \in 1 .. (s - 1) : Born(t)
    BY <1>3, ServerAssumption DEF Snapshots
  <1>5. snap[s].st = "none" /\ \A t \in 1 .. (s - 1) : snap[t].st # "none"
    BY <1>3, <1>4 DEF Born
  <1> QED BY <1>3, <1>5 DEF NextSnapshot, Born

(* Every edit and every rotation leaves room for the snapshot it makes.      *)
LEMMA RoomLeft ==
    ASSUME ControlType, BornInOrder,
           Owed > 0 \/ audit.rotations < MaxRotations
    PROVE  \E n \in Snapshots : ~Born(n)
  <1> DEFINE n == 1 + MaxEdits + MaxRotations
  <1>1. n \in Snapshots
    BY ServerAssumption DEF Snapshots
  <1>2. edits <= MaxEdits /\ audit.rotations <= MaxRotations
        /\ edits \in Nat /\ audit.rotations \in Nat
    BY ServerAssumption DEF ControlType, AuditRecord
  <1>3. Owed \in Nat
    BY DEF Owed
  <1>4. Born(n) => n + Owed <= 1 + edits + audit.rotations
    BY <1>1 DEF BornInOrder
  <1>5. ~Born(n)
    BY <1>2, <1>3, <1>4, ServerAssumption
  <1> QED BY <1>1, <1>5

(* A step that leaves the store alone, and what is kept of it.               *)
LEMMA IdleKeepsStore ==
    ASSUME StoreInv, Kept' = Kept, Unpublished' = Unpublished,
           UNCHANGED <<runtime, snap, inference, generation, call, job>>
    PROVE  StoreInv'
  <1>1. StoreType' /\ Equipped' /\ ReadersSeeRuntime'
    BY DEF StoreInv, StoreType, Equipped, Born, ReadersSeeRuntime, Reading,
           usable
  <1>4. /\ \A i \in Snapshots : OpenOn(i)' = OpenOn(i) /\ JobsOn(i)' = JobsOn(i)
                                 /\ Evaluating(i)' = Evaluating(i)
                                 /\ Born(i)' = Born(i)
        /\ Buckets' = Buckets
    BY DEF OpenOn, JobsOn, Evaluating, Buckets, Born
  <1>5. References' /\ Slots' /\ BucketsDense'
    BY <1>4 DEF StoreInv, References, Slots, BucketsDense
  <1>2. OpenIsHeld'
    BY DEF StoreInv, OpenIsHeld
  <1>3. Generations'
    BY DEF StoreInv, Generations, GenerationsFollowFiles
  <1> QED BY <1>1, <1>2, <1>3, <1>5 DEF StoreInv

----------------------------------------------------------------------------
(* What the operations on the store do to it.                                *)

\* Snapshots are numbered from one, and there are finitely many.
LEMMA SnapshotNumbers ==
    /\ Snapshots \subseteq Nat /\ Nil \notin Snapshots /\ 1 \in Snapshots
    /\ IsFiniteSet(Snapshots)
  <1>1. 1 + MaxEdits + MaxRotations \in Nat
    BY ServerAssumption
  <1>2. IsFiniteSet(Snapshots)
    BY <1>1, FS_Interval DEF Snapshots
  <1> QED BY <1>2, ServerAssumption DEF Snapshots, Nil

\* The users of an inference runtime are counted by finite sets.
LEMMA UsersFinite ==
    ASSUME NEW i PROVE IsFiniteSet(OpenOn(i)) /\ Cardinality(OpenOn(i)) \in Nat
  <1>1. OpenOn(i) \in SUBSET Snapshots
    BY DEF OpenOn
  <1> HIDE DEF OpenOn
  <1>2. IsFiniteSet(OpenOn(i))
    BY <1>1, SnapshotNumbers, FS_Subset
  <1> QED BY <1>2, FS_CardinalityType

\* The number of the next bucket is that of none.
LEMMA NewBucketFresh ==
    ASSUME StoreType, BucketsDense
    PROVE  NewBucket \in Nat \ {0} /\ NewBucket \notin Buckets
  <1>1. Cardinality(Buckets) \in Nat
    BY FS_CardinalityType DEF BucketsDense
  <1>2. NewBucket = 1 + Cardinality(Buckets)
    BY DEF NewBucket, Buckets
  <1>3. \A b \in Buckets : b \in Nat
    BY DEF Buckets, StoreType, SnapshotRecord
  <1> QED BY <1>1, <1>2, <1>3 DEF BucketsDense

\* The record of a snapshot when it is made.
Made(new, cfg, bucket, i) ==
    /\ new \in SnapshotRecord /\ new.st = "open" /\ new.cfg = cfg
    /\ new.bucket = bucket /\ new.inf = i
    /\ new.slots = 0 /\ new.generation = 0

\* A snapshot is made: on the published file or a new one, with its own
\* inference runtime, that of another open snapshot, or none.
LEMMA NewKeepsStore ==
    ASSUME StoreInv, NEW s \in Snapshots, ~Born(s),
           NEW cfg \in Configurations, NEW i \in Inferences,
           NEW bucket \in Buckets \cup {Nil, NewBucket},
           NEW new, Made(new, cfg, bucket, i),
           cfg.kind = "good" => i # Nil,
           i = Nil \/ i = s \/ OpenOn(i) # {},
           snap' = [snap EXCEPT ![s] = new],
           inference' = IF i = Nil THEN inference ELSE retain(i),
           UNCHANGED <<runtime, generation, call, job>>,
           Kept = Nil, Kept' = s, Unpublished',
           \/ runtime # Nil /\ bucket = snap[runtime].bucket
           \/ bucket \notin Buckets
    PROVE  StoreInv'
  <1> USE DEF StoreInv
  <1>n. Snapshots \subseteq Nat /\ Nil \notin Snapshots
    BY SnapshotNumbers
  <1>1. /\ new.st = "open" /\ new.cfg = cfg /\ new.bucket = bucket
        /\ new.inf = i /\ new.slots = 0 /\ new.generation = 0
        /\ new \in SnapshotRecord
    BY DEF Made
  <1>2. snap' = [snap EXCEPT ![s] = new]
    OBVIOUS
  <1>3. /\ snap'[s] = new
        /\ \A t \in Snapshots \ {s} : snap'[t] = snap[t]
    BY <1>2 DEF StoreType
  <1>4. inference[i].references \in Nat \/ i = Nil
    BY DEF StoreType, Inferences
  <1>5. i # Nil => inference' = retain(i)
    OBVIOUS
  <1>6. /\ inference' \in [Snapshots -> [references : Nat, closed : BOOLEAN]]
        /\ \A k \in Snapshots :
             /\ inference'[k].closed = inference[k].closed
             /\ inference'[k].references =
                  IF k = i THEN inference[k].references + 1
                  ELSE inference[k].references
    <2>1. CASE i = Nil
      BY <2>1, <1>n DEF StoreType
    <2>2. CASE i # Nil
      BY <2>2, <1>5 DEF StoreType, Inferences, retain
    <2> QED BY <2>1, <2>2
  <1>7. StoreType'
    BY <1>1, <1>2, <1>6 DEF StoreType
  <1>8. runtime # s /\ (runtime # Nil => snap'[runtime] = snap[runtime]
                                        /\ snap[runtime].st = "open")
    BY <1>n, <1>3 DEF StoreType, OpenIsHeld, Born
  <1>9. OpenIsHeld'
    BY <1>n, <1>1, <1>3, <1>8 DEF OpenIsHeld, StoreType
  <1>10. \A t \in Snapshots : Born(t)' <=> Born(t) \/ t = s
    BY <1>1, <1>3 DEF Born
  <1>11. i # Nil /\ i # s => Born(i)
    <2>1. ASSUME NEW t \in OpenOn(i), i # Nil PROVE Born(i)
      BY <2>1 DEF OpenOn, Equipped
    <2> QED BY <2>1
  <1>12. Equipped'
    <2>1. /\ snap'[s].cfg.kind = "good" => snap'[s].inf # Nil
          /\ snap'[s].inf # Nil =>
               snap'[s].st # "none" /\ snap'[snap'[s].inf].st # "none"
      BY <1>1, <1>3, <1>10, <1>11 DEF Inferences, Born
    <2>2. ASSUME NEW t \in Snapshots \ {s}
          PROVE  /\ snap'[t].cfg.kind = "good" => snap'[t].inf # Nil
                 /\ snap'[t].inf # Nil =>
                      snap'[t].st # "none" /\ snap'[snap'[t].inf].st # "none"
      <3>1. snap[t].inf \in Inferences
        BY DEF StoreType, SnapshotRecord
      <3>2. snap[t].inf # Nil => Born(t) /\ Born(snap[t].inf)
        BY DEF Equipped
      <3>3. snap'[t] = snap[t]
        BY <1>3
      <3> QED BY <3>1, <3>2, <3>3, <1>10 DEF Equipped, Born, Inferences
    <2> QED BY <2>1, <2>2 DEF Equipped, Born
  <1>13. ReadersSeeRuntime'
    BY <1>8 DEF ReadersSeeRuntime, Reading, usable
  <1>14. References'
    <2> SUFFICES ASSUME NEW k \in Snapshots
                 PROVE  /\ IsFiniteSet(JobsOn(k)')
                        /\ inference'[k].references =
                             Cardinality(OpenOn(k)') + Cardinality(JobsOn(k)')
                        /\ inference'[k].closed => inference'[k].references = 0
                        /\ ~Born(k)' => ~inference'[k].closed /\ JobsOn(k)' = {}
      BY DEF References
    <2>1. JobsOn(k)' = JobsOn(k)
      BY DEF JobsOn
    <2>2. s \notin OpenOn(k)
      BY DEF OpenOn, Born
    <2>3. OpenOn(k)' = IF k = i THEN OpenOn(k) \cup {s} ELSE OpenOn(k)
      BY <1>1, <1>3 DEF OpenOn, Born
    <2>4. /\ IsFiniteSet(JobsOn(k))
          /\ inference[k].references = Cardinality(OpenOn(k)) + Cardinality(JobsOn(k))
          /\ inference[k].closed => inference[k].references = 0
          /\ ~Born(k) => ~inference[k].closed /\ JobsOn(k) = {}
      BY DEF References
    <2>5. IsFiniteSet(OpenOn(k)) /\ Cardinality(OpenOn(k)) \in Nat
          /\ Cardinality(JobsOn(k)) \in Nat
      BY <2>4, UsersFinite, FS_CardinalityType
    <2>6. CASE k # i
      BY <2>6, <2>1, <2>3, <2>4, <1>6, <1>10
    <2>7. CASE k = i
      <3>1. Cardinality(OpenOn(k)') = Cardinality(OpenOn(k)) + 1
        BY <2>7, <2>2, <2>3, <2>5, FS_AddElement
      <3>2. ~inference[k].closed
        <4>1. CASE k = s
          BY <4>1, <2>4
        <4>2. CASE OpenOn(k) # {}
          <5>1. Cardinality(OpenOn(k)) # 0
            BY <4>2, <2>5, FS_EmptySet
          <5> QED BY <5>1, <2>4, <2>5
        <4> QED BY <4>1, <4>2, <2>7, <1>n
      <3> QED BY <3>1, <3>2, <2>1, <2>4, <2>5, <2>7, <1>6, <1>10
    <2> QED BY <2>6, <2>7
  <1>15. Slots'
    <2>1. \A t \in Snapshots : Evaluating(t)' = Evaluating(t)
      BY DEF Evaluating
    <2>2. Evaluating(s) = {}
      BY <1>8 DEF Evaluating, ReadersSeeRuntime, Reading
    <2> QED BY <2>1, <2>2, <1>1, <1>3, FS_EmptySet, ServerAssumption DEF Slots
  <1>16. Buckets' = Buckets \cup ({bucket} \ {Nil})
    <2>1. snap[s].bucket = Nil
      BY DEF BucketsDense
    <2> QED BY <2>1, <1>1, <1>3 DEF Buckets
  <1>17. BucketsDense'
    <2>1. IsFiniteSet(Buckets) /\ Cardinality(Buckets) \in Nat
      BY FS_CardinalityType DEF BucketsDense
    <2>2. \A t \in Snapshots : ~Born(t)' => snap'[t].bucket = Nil
      BY <1>3, <1>10 DEF BucketsDense
    <2>3. CASE bucket \in Buckets \cup {Nil}
      <3>1. Buckets' = Buckets
        BY <2>3, <1>16 DEF Buckets
      <3> QED BY <3>1, <2>1, <2>2 DEF BucketsDense
    <2>4. CASE bucket = NewBucket /\ bucket \notin Buckets \cup {Nil}
      <3>1. Buckets' = Buckets \cup {bucket}
        BY <2>4, <1>16
      <3>2. /\ IsFiniteSet(Buckets')
            /\ Cardinality(Buckets') = Cardinality(Buckets) + 1
        BY <3>1, <2>1, <2>4, FS_AddElement
      <3>3. bucket = Cardinality(Buckets) + 1
        BY <2>1, <2>4 DEF NewBucket, Buckets
      <3>4. \A b \in Buckets : b \in Nat /\ b <= Cardinality(Buckets)
        BY DEF BucketsDense, Buckets, StoreType, SnapshotRecord
      <3>5. \A b \in Buckets' : b <= Cardinality(Buckets')
        BY <3>1, <3>2, <3>3, <3>4, <2>1
      <3> QED BY <3>2, <3>5, <2>2 DEF BucketsDense
    <2> QED BY <2>3, <2>4
  <1>18. Generations'
    <2>1. GenerationsFollowFiles'
      <3>1. \A t \in Snapshots : snap'[t].generation # 0 =>
              snap'[t].generation = snap[t].generation
              /\ snap'[t].bucket = snap[t].bucket
        BY <1>1, <1>3
      <3>2. GenerationsFollowFiles
        BY DEF Generations
      <3> QED BY <3>1, <3>2 DEF GenerationsFollowFiles
    <2>2. \A t \in Snapshots : snap'[t].generation <= generation'
      <3>1. \A t \in Snapshots : snap[t].generation <= generation
        BY DEF Generations
      <3>2. 0 <= generation
        BY DEF StoreType
      <3> QED BY <1>1, <1>3, <3>1, <3>2
    <2>3. runtime' # Nil => snap'[runtime'].generation = generation'
                            /\ generation' > 0
      BY <1>8 DEF Generations
    <2>4. \/ runtime' # Nil /\ snap'[Kept'].bucket = snap'[runtime'].bucket
          \/ \A t \in Snapshots \ {Kept'} :
               snap'[t].bucket # Nil => snap'[t].bucket # snap'[Kept'].bucket
      BY <1>1, <1>3, <1>8 DEF Buckets
    <2> QED BY <2>1, <2>2, <2>3, <2>4 DEF Generations
  <1> QED BY <1>7, <1>9, <1>12, <1>13, <1>14, <1>15, <1>17, <1>18

\* Steps that leave numbers, files and users alone keep their accounts.
LEMMA AccountsKept ==
    ASSUME StoreInv,
           \A s \in Snapshots : /\ snap'[s].slots = snap[s].slots
                               /\ snap'[s].bucket = snap[s].bucket
                               /\ Born(s)' = Born(s),
           UNCHANGED call
    PROVE  Slots' /\ BucketsDense'
  <1>1. \A t \in Snapshots : Evaluating(t)' = Evaluating(t)
    BY DEF Evaluating
  <1>2. Buckets' = Buckets
    BY DEF Buckets
  <1> QED BY <1>1, <1>2 DEF StoreInv, Slots, BucketsDense

\* runtimeSnapshot.close of the snapshot that is kept for it.
LEMMA CloseKeepsStore ==
    ASSUME StoreInv, closeSnapshot(Kept),
           UNCHANGED <<runtime, generation, call, job>>,
           Kept' = Nil, ~Unpublished'
    PROVE  StoreInv'
  <1> USE DEF StoreInv
  <1>n. Snapshots \subseteq Nat /\ Nil \notin Snapshots
    BY SnapshotNumbers
  <1>1. CASE Kept = Nil
    <2>1. snap' = snap /\ inference' = inference
      BY <1>1 DEF closeSnapshot, closed
    <2>2. StoreType' /\ Equipped' /\ ReadersSeeRuntime'
      BY <2>1 DEF StoreType, Equipped, Born, ReadersSeeRuntime, Reading, usable
    <2>3. OpenIsHeld'
      BY <2>1, <1>1 DEF OpenIsHeld
    <2>4. Generations'
      BY <2>1 DEF Generations, GenerationsFollowFiles
    <2>5. Slots' /\ BucketsDense'
      BY <2>1, AccountsKept DEF Born
    <2>6. \A i \in Snapshots : OpenOn(i)' = OpenOn(i) /\ JobsOn(i)' = JobsOn(i)
                              /\ Born(i)' = Born(i)
      BY <2>1 DEF OpenOn, JobsOn, Born
    <2>7. References'
      BY <2>1, <2>6 DEF References
    <2> QED BY <2>2, <2>3, <2>4, <2>5, <2>7
  <1>2. CASE Kept \in Snapshots
    <2> DEFINE s == Kept
               i == snap[s].inf
    <2>1. snap[s].st = "open" /\ i \in Inferences /\ s # runtime
      BY <1>2, <1>n DEF StoreType, SnapshotRecord, OpenIsHeld
    <2>2. snap' = [snap EXCEPT ![s].st = "closed"] /\ inference' = release(i)
      BY <1>2, <1>n DEF closeSnapshot, closed
    <2>3. i # Nil => Born(i)
      BY <1>2 DEF Equipped
    <2> HIDE DEF i
    <2>k. Kept = s /\ s \in Snapshots
      BY <1>2
    <2> HIDE DEF s
    <2>4. /\ snap' \in [Snapshots -> SnapshotRecord]
          /\ \A t \in Snapshots \ {s} : snap'[t] = snap[t]
          /\ snap'[s].st = "closed" /\ snap'[s].inf = snap[s].inf
          /\ snap'[s].cfg = snap[s].cfg /\ snap'[s].bucket = snap[s].bucket
          /\ snap'[s].slots = snap[s].slots
          /\ snap'[s].generation = snap[s].generation
      BY <2>k, <2>2 DEF StoreType, SnapshotRecord
    <2>5. \A t \in Snapshots : Born(t)' = Born(t)
      BY <2>1, <2>4, <2>k DEF Born
    <2>6. runtime # Nil => runtime \in Snapshots /\ snap'[runtime] = snap[runtime]
      BY <2>1, <2>4 DEF StoreType
    <2>7. OpenIsHeld'
      BY <2>1, <2>k, <2>4, <1>n DEF OpenIsHeld
    <2>8. ReadersSeeRuntime'
      BY <2>6 DEF ReadersSeeRuntime, Reading, usable
    <2>9. Equipped'
      <3>1. \A t \in Snapshots : snap'[t].cfg = snap[t].cfg
                                /\ snap'[t].inf = snap[t].inf
                                /\ snap[t].inf \in Inferences
        BY <2>k, <2>4 DEF StoreType, SnapshotRecord
      <3> QED BY <3>1, <2>5, <1>n DEF Equipped, Inferences, Born
    <2>10. Slots' /\ BucketsDense'
      BY <2>4, <2>5, <2>k, AccountsKept
    <2>11. Generations'
      <3>1. \A t \in Snapshots : snap'[t].generation = snap[t].generation
                                /\ snap'[t].bucket = snap[t].bucket
        BY <2>k, <2>4
      <3> QED BY <3>1, <2>6 DEF Generations, GenerationsFollowFiles
    <2>12. i # Nil => s \in OpenOn(i)
      BY <2>1, <2>k DEF OpenOn, i
    <2>13. \A k \in Snapshots :
             OpenOn(k)' = (IF k = i THEN OpenOn(k) \ {s} ELSE OpenOn(k))
      BY <2>4, <2>k, <2>1 DEF OpenOn, i
    <2>14. \A k \in Snapshots :
             /\ IsFiniteSet(JobsOn(k)) /\ Cardinality(JobsOn(k)) \in Nat
             /\ IsFiniteSet(OpenOn(k)) /\ Cardinality(OpenOn(k)) \in Nat
      BY UsersFinite, FS_CardinalityType DEF References
    <2>15. i # Nil => /\ Cardinality(OpenOn(i) \ {s}) = Cardinality(OpenOn(i)) - 1
                      /\ Cardinality(OpenOn(i) \ {s}) \in Nat
      <3>1. i # Nil => IsFiniteSet(OpenOn(i))
        BY UsersFinite
      <3> QED BY <3>1, <2>12, FS_RemoveElement, FS_CardinalityType
    <2>16. \A k \in Snapshots :
             /\ inference'[k].references =
                  IF k = i THEN inference[k].references - 1
                  ELSE inference[k].references
             /\ inference'[k].closed =
                  IF k = i THEN inference[k].closed \/ inference[k].references = 1
                  ELSE inference[k].closed
      BY <2>1, <2>2, <1>n DEF release, StoreType, Inferences
    <2>17. \A k \in Snapshots : JobsOn(k)' = JobsOn(k)
      BY DEF JobsOn
    <2>18. ASSUME NEW k \in Snapshots
           PROVE  /\ IsFiniteSet(JobsOn(k)')
                  /\ inference'[k].references =
                       Cardinality(OpenOn(k)') + Cardinality(JobsOn(k)')
                  /\ inference'[k].references \in Nat
                  /\ inference'[k].closed => inference'[k].references = 0
                  /\ ~Born(k)' => ~inference'[k].closed /\ JobsOn(k)' = {}
      <3>1. /\ inference[k].references = Cardinality(OpenOn(k)) + Cardinality(JobsOn(k))
            /\ inference[k].closed => inference[k].references = 0
            /\ ~Born(k) => ~inference[k].closed /\ JobsOn(k) = {}
        BY DEF References
      <3>2. CASE k # i
        BY <3>1, <3>2, <2>5, <2>13, <2>14, <2>16, <2>17
      <3>3. CASE k = i
        <4>1. Born(k)' /\ k # Nil
          BY <3>3, <2>3, <2>5, <1>n
        <4>2. Cardinality(OpenOn(k)') = Cardinality(OpenOn(k)) - 1
              /\ Cardinality(OpenOn(k)') \in Nat
          BY <3>3, <4>1, <2>13, <2>15
        <4>3. inference'[k].references =
                Cardinality(OpenOn(k)') + Cardinality(JobsOn(k)')
          BY <3>1, <3>3, <4>2, <2>14, <2>16, <2>17
        <4>4. inference'[k].closed => inference'[k].references = 0
          <5>1. inference'[k].closed =>
                  inference[k].closed \/ inference[k].references = 1
            BY <3>3, <2>16
          <5>2. inference[k].references # 0
            BY <3>1, <4>2, <2>14
          <5>3. inference'[k].closed => inference[k].references = 1
            BY <5>1, <5>2, <3>1
          <5> QED BY <5>3, <3>3, <2>16
        <4> QED BY <4>1, <4>2, <4>3, <4>4, <2>14, <2>17
      <3> QED BY <3>2, <3>3
    <2>19. References'
      BY <2>18 DEF References
    <2>20. inference' \in [Snapshots -> [references : Nat, closed : BOOLEAN]]
      <3>1. ASSUME NEW k \in Snapshots PROVE inference'[k].references \in Nat
        BY <2>18
      <3>2. i # Nil => inference' = [inference EXCEPT
              ![i].references = inference'[i].references,
              ![i].closed = inference'[i].closed]
        BY <2>1, <2>2, <2>16 DEF release, StoreType, Inferences
      <3>3. i # Nil => inference'[i].closed \in BOOLEAN
        BY <2>1, <2>16 DEF StoreType, Inferences
      <3>4. i = Nil => inference' = inference
        BY <2>2 DEF release
      <3> QED BY <3>1, <3>2, <3>3, <3>4, <2>1 DEF StoreType, Inferences
    <2>21. StoreType'
      BY <2>4, <2>20 DEF StoreType
    <2> QED BY <2>7, <2>8, <2>9, <2>10, <2>11, <2>19, <2>21
  <1> QED BY <1>1, <1>2 DEF OpenIsHeld

\* publishRuntimeLocked of the kept snapshot, with no call reading.
LEMMA PublishKeepsStore ==
    ASSUME StoreInv, Kept \in Snapshots, Unpublished,
           publishRuntimeLocked(Kept), \A c \in Calls : ~Reading(c),
           UNCHANGED <<inference, job, call>>,
           Kept' = runtime, ~Unpublished'
    PROVE  StoreInv'
  <1> USE DEF StoreInv
  <1>n. Snapshots \subseteq Nat /\ Nil \notin Snapshots
    BY SnapshotNumbers
  <1> DEFINE s == Kept
             same == runtime # Nil /\ snap[runtime].bucket # Nil
                     /\ snap[runtime].bucket = snap[s].bucket
  <1>1. s \in Snapshots /\ s # runtime /\ runtime' = s /\ s # Nil
        /\ snap[s].st = "open"
    BY <1>n DEF publishRuntimeLocked, OpenIsHeld
  <1>2. /\ runtime # Nil => runtime \in Snapshots
                            /\ snap[runtime].generation = generation
        /\ generation \in Nat
    BY DEF StoreType, Generations
  <1>3. /\ same => generation' = generation /\ generation > 0
        /\ ~same => generation' = generation + 1
        /\ snap' = [snap EXCEPT ![s].generation = generation']
    BY <1>2 DEF publishRuntimeLocked, Generations
  <1>4. \/ runtime # Nil /\ snap[s].bucket = snap[runtime].bucket
        \/ \A t \in Snapshots \ {s} :
             snap[t].bucket # Nil => snap[t].bucket # snap[s].bucket
    BY DEF Generations
  <1>5. Kept' = runtime
    OBVIOUS
  <1> HIDE DEF s
  <1>6. generation' \in Nat /\ generation' > 0 /\ generation <= generation'
    BY <1>2, <1>3
  <1> HIDE DEF same
  <1>7. /\ snap' \in [Snapshots -> SnapshotRecord]
        /\ \A t \in Snapshots \ {s} : snap'[t] = snap[t]
        /\ snap'[s].generation = generation'
        /\ \A t \in Snapshots : /\ snap'[t].st = snap[t].st
                                /\ snap'[t].cfg = snap[t].cfg
                                /\ snap'[t].bucket = snap[t].bucket
                                /\ snap'[t].slots = snap[t].slots
                                /\ snap'[t].inf = snap[t].inf
    BY <1>1, <1>3, <1>6 DEF StoreType, SnapshotRecord
  <1>8. StoreType'
    BY <1>1, <1>6, <1>7 DEF StoreType
  <1>9. \A t \in Snapshots : Born(t)' = Born(t)
    BY <1>7 DEF Born
  <1>10. OpenIsHeld'
    <2>1. Kept = s
      BY DEF s
    <2> QED BY <2>1, <1>1, <1>5, <1>7 DEF OpenIsHeld, StoreType
  <1>11. Equipped'
    <2>1. \A t \in Snapshots : snap'[t].cfg = snap[t].cfg
                              /\ snap'[t].inf = snap[t].inf
                              /\ snap[t].inf \in Inferences
      BY <1>7 DEF StoreType, SnapshotRecord
    <2> QED BY <2>1, <1>9, <1>n DEF Equipped, Inferences, Born
  <1>12. ReadersSeeRuntime'
    BY DEF ReadersSeeRuntime, Reading
  <1>13. Slots' /\ BucketsDense'
    BY <1>7, <1>9, AccountsKept
  <1>14. References'
    <2>1. \A k \in Snapshots : OpenOn(k)' = OpenOn(k) /\ JobsOn(k)' = JobsOn(k)
      BY <1>7 DEF OpenOn, JobsOn
    <2> QED BY <2>1, <1>9 DEF References
  <1>15. Generations'
    <2>1. \A t \in Snapshots : snap[t].generation <= generation
                              /\ snap[t].generation \in Nat
      BY DEF Generations, StoreType, SnapshotRecord
    <2>2. \A t \in Snapshots : snap'[t].generation <= generation'
      BY <1>2, <1>6, <1>7, <2>1
    <2>3. ASSUME NEW t \in Snapshots \ {s},
                 snap[t].generation # 0, snap[t].bucket # Nil,
                 snap[s].bucket # Nil
          PROVE  snap[t].generation = generation' <=> snap[t].bucket = snap[s].bucket
      <3>1. CASE same
        <4>1. /\ runtime # Nil /\ runtime \in Snapshots
              /\ snap[runtime].bucket = snap[s].bucket
              /\ snap[runtime].generation = generation
              /\ generation' = generation /\ generation # 0
          BY <3>1, <1>2, <1>3 DEF same
        <4>2. snap[t].generation = snap[runtime].generation
                <=> snap[t].bucket = snap[runtime].bucket
          BY <4>1, <2>3 DEF Generations, GenerationsFollowFiles
        <4> QED BY <4>1, <4>2
      <3>2. CASE ~same
        <4>1. snap[t].generation # generation'
          BY <3>2, <2>1, <1>2, <1>3
        <4>2. snap[t].bucket # snap[s].bucket
          BY <3>2, <2>3, <1>4 DEF same
        <4> QED BY <4>1, <4>2
      <3> QED BY <3>1, <3>2
    <2>4. GenerationsFollowFiles'
      <3>1. \A t \in Snapshots \ {s} : snap'[t].generation = snap[t].generation
        BY <1>7
      <3>2. GenerationsFollowFiles
        BY DEF Generations
      <3>3. ASSUME NEW t \in Snapshots, NEW u \in Snapshots,
                   snap'[t].generation # 0, snap'[u].generation # 0,
                   snap'[t].bucket # Nil, snap'[u].bucket # Nil
            PROVE  snap'[t].generation = snap'[u].generation
                     <=> snap'[t].bucket = snap'[u].bucket
        <4>1. CASE t # s /\ u # s
          BY <4>1, <3>1, <3>2, <3>3, <1>7 DEF GenerationsFollowFiles
        <4>2. CASE t = s /\ u # s
          BY <4>2, <3>1, <3>3, <2>3, <1>7
        <4>3. CASE t # s /\ u = s
          BY <4>3, <3>1, <3>3, <2>3, <1>7
        <4> QED BY <4>1, <4>2, <4>3
      <3> QED BY <3>3 DEF GenerationsFollowFiles
    <2> QED BY <2>2, <2>4, <1>1, <1>6, <1>7 DEF Generations
  <1> QED BY <1>8, <1>10, <1>11, <1>12, <1>13, <1>14, <1>15

\* runtime.Swap(nil), with no call reading.
LEMMA WithdrawKeepsStore ==
    ASSUME StoreInv, Kept = Nil, \A c \in Calls : ~Reading(c), runtime' = Nil,
           UNCHANGED <<snap, inference, generation, job, call>>,
           Kept' = runtime, ~Unpublished'
    PROVE  StoreInv'
  <1> USE DEF StoreInv
  <1>1. StoreType' /\ Equipped' /\ ReadersSeeRuntime'
    BY DEF StoreType, Equipped, Born, ReadersSeeRuntime, Reading
  <1>2. OpenIsHeld'
    BY DEF OpenIsHeld, StoreType
  <1>3. Generations'
    BY DEF Generations, GenerationsFollowFiles
  <1>4. Slots' /\ BucketsDense'
    BY AccountsKept DEF Born
  <1>5. \A k \in Snapshots : OpenOn(k)' = OpenOn(k) /\ JobsOn(k)' = JobsOn(k)
                            /\ Born(k)' = Born(k)
    BY DEF OpenOn, JobsOn, Born
  <1>6. References'
    BY <1>5 DEF References
  <1> QED BY <1>1, <1>2, <1>3, <1>4, <1>6

----------------------------------------------------------------------------
(* Calls and jobs.                                                           *)

CallRecord == [pc : CallPcs, by : Snapshots \cup {Nil},
               reason : Reasons \cup {"none"}]

\* A step of a call that neither takes nor frees a slot.
LEMMA CallKeepsStore ==
    ASSUME StoreInv, NEW c \in Calls, NEW r \in CallRecord,
           call' = [call EXCEPT ![c] = r],
           call[c].pc # "evaluating", r.pc # "evaluating",
           r.pc \in {"loaded", "waiting"} => r.by = runtime /\ usable(runtime),
           UNCHANGED <<runtime, snap, inference, generation, job>>,
           Kept' = Kept, Unpublished' = Unpublished
    PROVE  StoreInv'
  <1> USE DEF StoreInv
  <1>1. /\ call' \in [Calls -> CallRecord] /\ call'[c] = r
        /\ \A d \in Calls \ {c} : call'[d] = call[d]
    BY DEF StoreType, CallRecord
  <1>2. StoreType'
    BY <1>1 DEF StoreType, CallRecord
  <1>3. Equipped' /\ OpenIsHeld'
    BY DEF Equipped, Born, OpenIsHeld
  <1>4. ReadersSeeRuntime'
    BY <1>1 DEF ReadersSeeRuntime, Reading, usable
  <1>5. Generations'
    BY DEF Generations, GenerationsFollowFiles
  <1>6. \A k \in Snapshots : /\ OpenOn(k)' = OpenOn(k) /\ JobsOn(k)' = JobsOn(k)
                            /\ Born(k)' = Born(k)
    BY DEF OpenOn, JobsOn, Born
  <1>7. References'
    BY <1>6 DEF References
  <1>8. \A k \in Snapshots : Evaluating(k)' = Evaluating(k)
    BY <1>1 DEF Evaluating
  <1>9. Slots'
    BY <1>8 DEF Slots
  <1>10. Buckets' = Buckets
    BY DEF Buckets
  <1>11. BucketsDense'
    BY <1>6, <1>10 DEF BucketsDense
  <1> QED BY <1>2, <1>3, <1>4, <1>5, <1>7, <1>9, <1>11

\* A call that takes or frees a slot of the snapshot it is evaluated by.
LEMMA SlotKeepsStore ==
    ASSUME StoreInv, NEW c \in Calls, NEW r \in CallRecord, NEW n \in Nat,
           n <= HotConcurrency, Reading(c), r.by = call[c].by,
           call' = [call EXCEPT ![c] = r],
           snap' = [snap EXCEPT ![call[c].by].slots = n],
           \/ call[c].pc # "evaluating" /\ r.pc = "evaluating"
              /\ n = snap[call[c].by].slots + 1
           \/ call[c].pc = "evaluating" /\ r.pc = "answered"
              /\ n = snap[call[c].by].slots - 1,
           UNCHANGED <<runtime, inference, generation, job>>,
           Kept' = Kept, Unpublished' = Unpublished
    PROVE  StoreInv'
  <1> USE DEF StoreInv
  <1>n. Snapshots \subseteq Nat /\ Nil \notin Snapshots
    BY SnapshotNumbers
  <1>0. call[c].by = runtime /\ runtime \in Snapshots /\ usable(runtime)
    BY <1>n DEF ReadersSeeRuntime, StoreType, usable
  <1>s. PICK s \in Snapshots : s = call[c].by
    BY <1>0
  <1>1. s = runtime /\ usable(runtime)
    BY <1>0, <1>s
  <1>2. /\ call' \in [Calls -> CallRecord] /\ call'[c] = r /\ r.by = s
        /\ \A d \in Calls \ {c} : call'[d] = call[d]
    BY <1>s DEF StoreType, CallRecord
  <1>3. snap' = [snap EXCEPT ![s].slots = n]
    BY <1>s
  <1>4. \/ call[c].pc # "evaluating" /\ r.pc = "evaluating" /\ n = snap[s].slots + 1
        \/ call[c].pc = "evaluating" /\ r.pc = "answered" /\ n = snap[s].slots - 1
    BY <1>s
  <1>k. c \in Evaluating(s) <=> call[c].pc = "evaluating"
    BY <1>s DEF Evaluating
  <1>5. /\ snap' \in [Snapshots -> SnapshotRecord]
        /\ \A t \in Snapshots :
             /\ snap'[t].slots = IF t = s THEN n ELSE snap[t].slots
             /\ snap'[t].st = snap[t].st /\ snap'[t].cfg = snap[t].cfg
             /\ snap'[t].bucket = snap[t].bucket /\ snap'[t].inf = snap[t].inf
             /\ snap'[t].generation = snap[t].generation
    <2>1. snap[s] \in SnapshotRecord
      BY DEF StoreType
    <2>2. /\ [snap[s] EXCEPT !.slots = n] \in SnapshotRecord
          /\ [snap[s] EXCEPT !.slots = n].slots = n
          /\ [snap[s] EXCEPT !.slots = n].st = snap[s].st
          /\ [snap[s] EXCEPT !.slots = n].cfg = snap[s].cfg
          /\ [snap[s] EXCEPT !.slots = n].bucket = snap[s].bucket
          /\ [snap[s] EXCEPT !.slots = n].inf = snap[s].inf
          /\ [snap[s] EXCEPT !.slots = n].generation = snap[s].generation
      BY <2>1 DEF SnapshotRecord
    <2> DEFINE new == [snap[s] EXCEPT !.slots = n]
    <2>3. snap' = [snap EXCEPT ![s] = new]
      BY <1>3
    <2> HIDE DEF new
    <2>4. snap' \in [Snapshots -> SnapshotRecord] /\ snap'[s] = new
          /\ \A t \in Snapshots \ {s} : snap'[t] = snap[t]
      <3>1. new \in SnapshotRecord
        BY <2>2 DEF new
      <3> QED BY <3>1, <2>3 DEF StoreType
    <2>5. /\ snap'[s].st = snap[s].st /\ snap'[s].cfg = snap[s].cfg
          /\ snap'[s].bucket = snap[s].bucket /\ snap'[s].inf = snap[s].inf
          /\ snap'[s].generation = snap[s].generation /\ snap'[s].slots = n
      BY <2>2, <2>4 DEF new
    <2>6. ASSUME NEW t \in Snapshots
          PROVE  /\ snap'[t].slots = IF t = s THEN n ELSE snap[t].slots
                 /\ snap'[t].st = snap[t].st /\ snap'[t].cfg = snap[t].cfg
                 /\ snap'[t].bucket = snap[t].bucket /\ snap'[t].inf = snap[t].inf
                 /\ snap'[t].generation = snap[t].generation
      <3>1. CASE t = s
        BY <3>1, <2>5
      <3>2. CASE t # s
        <4>1. snap'[t] = snap[t]
          BY <3>2, <2>4
        <4>2. snap'[t].slots = snap[t].slots
          BY <4>1
        <4>3. (IF t = s THEN n ELSE snap[t].slots) = snap[t].slots
          BY <3>2
        <4> QED BY <4>1, <4>2, <4>3
      <3> QED BY <3>1, <3>2
    <2> QED BY <2>4, <2>6
  <1>6. StoreType'
    BY <1>2, <1>5 DEF StoreType, CallRecord
  <1>7. \A t \in Snapshots : Born(t)' = Born(t)
    BY <1>5 DEF Born
  <1>8. Equipped'
    <2>1. \A t \in Snapshots : snap'[t].cfg = snap[t].cfg
                              /\ snap'[t].inf = snap[t].inf
                              /\ snap[t].inf \in Inferences
      BY <1>5 DEF StoreType, SnapshotRecord
    <2> QED BY <2>1, <1>7, <1>n DEF Equipped, Inferences, Born
  <1>9. OpenIsHeld'
    BY <1>5 DEF OpenIsHeld
  <1>10. ReadersSeeRuntime'
    <2>1. usable(runtime)'
      BY <1>1, <1>5 DEF usable
    <2> QED BY <2>1, <1>1, <1>2 DEF ReadersSeeRuntime, Reading
  <1>11. Generations'
    <2>1. /\ runtime' # Nil => runtime' \in Snapshots
          /\ Kept' = Kept /\ (Unpublished => Kept # Nil)
      BY DEF StoreType, OpenIsHeld
    <2>2. GenerationsFollowFiles'
      BY <1>5 DEF Generations, GenerationsFollowFiles
    <2>3. Unpublished => Kept \in Snapshots
      BY <2>1, <1>n DEF OpenIsHeld
    <2> QED BY <1>5, <2>1, <2>2, <2>3 DEF Generations
  <1>12. References'
    <2>1. \A k \in Snapshots : OpenOn(k)' = OpenOn(k) /\ JobsOn(k)' = JobsOn(k)
      BY <1>5 DEF OpenOn, JobsOn
    <2> QED BY <2>1, <1>7 DEF References
  <1>13. BucketsDense'
    <2>1. Buckets' = Buckets
      BY <1>5 DEF Buckets
    <2> QED BY <2>1, <1>5, <1>7 DEF BucketsDense
  <1>14. Slots'
    <2>1. \A t \in Snapshots : IsFiniteSet(Evaluating(t))
                              /\ snap[t].slots = Cardinality(Evaluating(t))
      BY DEF Slots
    <2>2. \A t \in Snapshots \ {s} : Evaluating(t)' = Evaluating(t)
      BY <1>2, <1>s DEF Evaluating
    <2>3. IsFiniteSet(Evaluating(s)') /\ Cardinality(Evaluating(s)') = n
      <3>1. CASE call[c].pc # "evaluating" /\ r.pc = "evaluating"
                 /\ n = snap[s].slots + 1
        <4>1. Evaluating(s)' = Evaluating(s) \cup {c}
          BY <3>1, <1>2 DEF Evaluating
        <4> QED BY <4>1, <3>1, <2>1, <1>k, <1>1, FS_AddElement
      <3>2. CASE call[c].pc = "evaluating" /\ r.pc = "answered"
                 /\ n = snap[s].slots - 1
        <4>1. Evaluating(s)' = Evaluating(s) \ {c}
          BY <3>2, <1>2 DEF Evaluating
        <4> QED BY <4>1, <3>2, <2>1, <1>k, <1>1, FS_RemoveElement
      <3> QED BY <1>4, <3>1, <3>2
    <2> QED BY <2>1, <2>2, <2>3, <1>5, <1>1 DEF Slots
  <1> QED BY <1>6, <1>8, <1>9, <1>10, <1>11, <1>12, <1>13, <1>14

\* A job borrows the inference runtime of the published snapshot.
LEMMA BorrowKeepsStore ==
    ASSUME StoreInv, NEW j \in Jobs, prepareDeferredJob(j),
           Kept' = Kept, Unpublished' = Unpublished
    PROVE  StoreInv'
  <1> USE DEF StoreInv
  <1>n. Snapshots \subseteq Nat /\ Nil \notin Snapshots
    BY SnapshotNumbers
  <1>0. /\ UNCHANGED <<runtime, snap, generation, call>>
        /\ job[j] = Nil /\ usable(runtime)
        /\ runtime \in Snapshots /\ snap[runtime].st = "open"
        /\ snap[runtime].inf \in Snapshots
    BY <1>n DEF prepareDeferredJob, jobRest, usable, StoreType, SnapshotRecord,
                OpenIsHeld, Equipped, Inferences
  <1>1. PICK i \in Snapshots : i = snap[runtime].inf
    BY <1>0
  <1>2. /\ job' = [job EXCEPT ![j] = i]
        /\ inference' = [inference EXCEPT ![i].references = @ + 1]
    BY <1>1 DEF prepareDeferredJob, borrowInference, retain
  <1>3. /\ inference' \in [Snapshots -> [references : Nat, closed : BOOLEAN]]
        /\ \A k \in Snapshots :
             /\ inference'[k].closed = inference[k].closed
             /\ inference'[k].references =
                  IF k = i THEN inference[k].references + 1
                  ELSE inference[k].references
    BY <1>2 DEF StoreType
  <1>4. StoreType'
    BY <1>0, <1>2, <1>3 DEF StoreType, Inferences
  <1>5. Equipped' /\ ReadersSeeRuntime'
    BY <1>0 DEF Equipped, Born, ReadersSeeRuntime, Reading, usable
  <1>6. OpenIsHeld'
    BY <1>0 DEF OpenIsHeld
  <1>7. Generations'
    BY <1>0 DEF Generations, GenerationsFollowFiles
  <1>8. Slots' /\ BucketsDense'
    BY <1>0, AccountsKept DEF Born
  <1>9. References'
    <2> SUFFICES ASSUME NEW k \in Snapshots
                 PROVE  /\ IsFiniteSet(JobsOn(k)')
                        /\ inference'[k].references =
                             Cardinality(OpenOn(k)') + Cardinality(JobsOn(k)')
                        /\ inference'[k].closed => inference'[k].references = 0
                        /\ ~Born(k)' => ~inference'[k].closed /\ JobsOn(k)' = {}
      BY DEF References
    <2>1. OpenOn(k)' = OpenOn(k) /\ Born(k)' = Born(k)
      BY <1>0 DEF OpenOn, Born
    <2>2. /\ IsFiniteSet(JobsOn(k))
          /\ inference[k].references = Cardinality(OpenOn(k)) + Cardinality(JobsOn(k))
          /\ inference[k].closed => inference[k].references = 0
          /\ ~Born(k) => ~inference[k].closed /\ JobsOn(k) = {}
      BY DEF References
    <2>3. JobsOn(k)' = IF k = i THEN JobsOn(k) \cup {j} ELSE JobsOn(k)
      BY <1>0, <1>2, <1>n DEF JobsOn, StoreType
    <2>4. j \notin JobsOn(k)
      BY <1>0, <1>n DEF JobsOn
    <2>5. IsFiniteSet(OpenOn(k)) /\ Cardinality(OpenOn(k)) \in Nat
          /\ Cardinality(JobsOn(k)) \in Nat
      BY <2>2, UsersFinite, FS_CardinalityType
    <2>6. CASE k # i
      BY <2>6, <2>1, <2>2, <2>3, <1>3
    <2>7. CASE k = i
      <3>1. /\ IsFiniteSet(JobsOn(k)')
            /\ Cardinality(JobsOn(k)') = Cardinality(JobsOn(k)) + 1
        BY <2>7, <2>2, <2>3, <2>4, FS_AddElement
      <3>2. runtime \in OpenOn(k)
        BY <2>7, <1>0, <1>1 DEF OpenOn
      <3>3. Cardinality(OpenOn(k)) # 0
        BY <3>2, <2>5, FS_EmptySet
      <3>4. ~inference[k].closed
        BY <3>3, <2>2, <2>5
      <3>5. Born(k)
        BY <2>7, <1>0, <1>1, <1>n DEF Equipped
      <3> QED BY <3>1, <3>4, <3>5, <2>1, <2>2, <2>5, <2>7, <1>3
    <2> QED BY <2>6, <2>7
  <1> QED BY <1>4, <1>5, <1>6, <1>7, <1>8, <1>9

\* A job gives back what it borrowed.
LEMMA ReturnKeepsStore ==
    ASSUME StoreInv, NEW j \in Jobs, releaseDeferredJob(j),
           Kept' = Kept, Unpublished' = Unpublished
    PROVE  StoreInv'
  <1> USE DEF StoreInv
  <1>n. Snapshots \subseteq Nat /\ Nil \notin Snapshots
    BY SnapshotNumbers
  <1>0. UNCHANGED <<runtime, snap, generation, call>> /\ job[j] \in Snapshots
    BY DEF releaseDeferredJob, jobRest, StoreType, Inferences
  <1>1. PICK i \in Snapshots : i = job[j]
    BY <1>0
  <1>2. job' = [job EXCEPT ![j] = Nil] /\ inference' = release(i)
    BY <1>1 DEF releaseDeferredJob
  <1>3. \A k \in Snapshots :
             /\ inference'[k].references =
                  IF k = i THEN inference[k].references - 1
                  ELSE inference[k].references
             /\ inference'[k].closed =
                  IF k = i THEN inference[k].closed \/ inference[k].references = 1
                  ELSE inference[k].closed
    BY <1>1, <1>2, <1>n DEF StoreType, release, Nil
  <1>4. ASSUME NEW k \in Snapshots
        PROVE  /\ IsFiniteSet(JobsOn(k)')
               /\ inference'[k].references =
                    Cardinality(OpenOn(k)') + Cardinality(JobsOn(k)')
               /\ inference'[k].references \in Nat
               /\ inference'[k].closed => inference'[k].references = 0
               /\ ~Born(k)' => ~inference'[k].closed /\ JobsOn(k)' = {}
    <2>1. OpenOn(k)' = OpenOn(k) /\ Born(k)' = Born(k)
      BY <1>0 DEF OpenOn, Born
    <2>2. /\ IsFiniteSet(JobsOn(k))
          /\ inference[k].references = Cardinality(OpenOn(k)) + Cardinality(JobsOn(k))
          /\ inference[k].closed => inference[k].references = 0
          /\ ~Born(k) => ~inference[k].closed /\ JobsOn(k) = {}
      BY DEF References
    <2>3. JobsOn(k)' = IF k = i THEN JobsOn(k) \ {j} ELSE JobsOn(k)
      BY <1>0, <1>1, <1>2, <1>n DEF JobsOn, StoreType
    <2>4. j \in JobsOn(k) <=> k = i
      BY <1>1 DEF JobsOn
    <2>5. IsFiniteSet(OpenOn(k)) /\ Cardinality(OpenOn(k)) \in Nat
          /\ Cardinality(JobsOn(k)) \in Nat
      BY <2>2, UsersFinite, FS_CardinalityType
    <2>6. CASE k # i
      BY <2>6, <2>1, <2>2, <2>3, <2>5, <1>3
    <2>7. CASE k = i
      <3>1. /\ IsFiniteSet(JobsOn(k)')
            /\ Cardinality(JobsOn(k)') = Cardinality(JobsOn(k)) - 1
            /\ Cardinality(JobsOn(k)') \in Nat
        BY <2>7, <2>2, <2>3, <2>4, FS_RemoveElement, FS_CardinalityType
      <3>2. Born(k)
        BY <2>7, <2>2, <2>4
      <3>3. inference[k].references # 0
        BY <3>1, <2>2, <2>5
      <3>4. inference'[k].closed => inference[k].references = 1
        <4>1. inference'[k].closed =>
                inference[k].closed \/ inference[k].references = 1
          BY <2>7, <1>3
        <4> QED BY <4>1, <3>3, <2>2
      <3>5. inference'[k].references = inference[k].references - 1
        BY <2>7, <1>3
      <3> QED BY <3>1, <3>2, <3>4, <3>5, <2>1, <2>2, <2>5
    <2> QED BY <2>6, <2>7
  <1>5. References'
    BY <1>4 DEF References
  <1>6. StoreType'
    <2>1. job' \in [Jobs -> Inferences]
      BY <1>2 DEF StoreType, Inferences
    <2>2. inference' = [inference EXCEPT ![i].references = inference'[i].references,
                                         ![i].closed = inference'[i].closed]
      BY <1>1, <1>2, <1>3, <1>n DEF release, StoreType, Nil
    <2>3. inference'[i].references \in Nat /\ inference'[i].closed \in BOOLEAN
      BY <1>3, <1>4 DEF StoreType
    <2>4. inference' \in [Snapshots -> [references : Nat, closed : BOOLEAN]]
      BY <2>2, <2>3 DEF StoreType
    <2> QED BY <2>1, <2>4, <1>0 DEF StoreType
  <1>7. Equipped' /\ ReadersSeeRuntime'
    BY <1>0 DEF Equipped, Born, ReadersSeeRuntime, Reading, usable
  <1>8. OpenIsHeld'
    BY <1>0 DEF OpenIsHeld
  <1>9. Generations'
    BY <1>0 DEF Generations, GenerationsFollowFiles
  <1>10. Slots' /\ BucketsDense'
    BY <1>0, AccountsKept DEF Born
  <1> QED BY <1>5, <1>6, <1>7, <1>8, <1>9, <1>10

\* Calls and jobs leave the control of the server alone.
LEMMA ControlKept ==
    ASSUME ServerInv,
           UNCHANGED <<file, pending, runtime, paused, watcher, audit,
                       auditRequested, main, signal, shutdown, closing,
                       stopping, updates, edits>>,
           \A s \in Snapshots : snap'[s].cfg = snap[s].cfg /\ Born(s)' = Born(s),
           Starting => UNCHANGED call, main = "done" => Drained'
    PROVE  /\ ControlType' /\ Control' /\ BornInOrder'
           /\ Kept' = Kept /\ Unpublished' = Unpublished
  <1>1. Kept' = Kept /\ Unpublished' = Unpublished /\ Owed' = Owed
    BY DEF Kept, Unpublished, Owed
  <1>2. ControlType'
    BY DEF ServerInv, ControlType
  <1>3. BornInOrder'
    <2>1. ASSUME NEW s \in Snapshots, Born(s)'
          PROVE  /\ \A t \in 1 .. (s - 1) : Born(t)'
                 /\ s + Owed' <= 1 + edits' + audit'.rotations
      <3>1. /\ \A t \in 1 .. (s - 1) : Born(t)
            /\ s + Owed <= 1 + edits + audit.rotations
        BY <2>1 DEF ServerInv, BornInOrder
      <3>2. 1 .. (s - 1) \subseteq Snapshots
        BY ServerAssumption DEF Snapshots
      <3> QED BY <3>1, <3>2, <1>1
    <2>2. Born(1)' = Born(1)
      BY SnapshotNumbers
    <2> QED BY <2>1, <2>2 DEF ServerInv, BornInOrder
  <1>4. usable(runtime)' = usable(runtime)
    BY DEF ServerInv, StoreInv, StoreType, usable
  <1>5. OneHolder' /\ QuietStart' /\ Closing'
    BY DEF ServerInv, Control, OneHolder, WatcherHolds, AuditHolds, QuietStart,
           Starting, Closing, Stopping, Stopped
  <1>6. Reconciles' /\ Cancellable' /\ WithdrawnOnlyForReset'
    BY <1>4 DEF ServerInv, Control, Reconciles, Cancellable, WithdrawnOnlyForReset
  <1> QED BY <1>1, <1>2, <1>3, <1>5, <1>6 DEF Control

\* Every step of a hook call keeps the invariant.
LEMMA CallKeeps ==
    ASSUME ServerInv, NEW c \in Calls, CallStep(c)
    PROVE  ServerInv'
  <1>1. StoreInv /\ StoreType /\ Control
    BY DEF ServerInv, StoreInv
  <1>n. Snapshots \subseteq Nat /\ Nil \notin Snapshots
    BY SnapshotNumbers
  <1>2. call[c] \in CallRecord
    BY <1>1 DEF StoreType, CallRecord
  <1>3. UNCHANGED serverVars /\ (main = "done" => Drained') /\ ~Starting
    <2>1. UNCHANGED serverVars
      BY DEF CallStep, EvaluateHook, acquireEvaluateSlot, queueForSlot,
             logEvaluateOverload, evaluated
    <2>2. ~Starting
      BY <1>1 DEF CallStep, EvaluateHook, acquireEvaluateSlot, queueForSlot,
             logEvaluateOverload, evaluated, Control, QuietStart, Starting
    <2>3. main = "done" => Drained'
      BY <1>1, <2>1 DEF Control, Closing, Drained, serverVars
    <2> QED BY <2>1, <2>2, <2>3
  <1>4. \A s \in Snapshots : snap'[s].cfg = snap[s].cfg /\ Born(s)' = Born(s)
    <2>1. CASE UNCHANGED snap
      BY <2>1 DEF Born
    <2>2. ASSUME NEW n, snap' = [snap EXCEPT ![call[c].by].slots = n]
          PROVE  \A s \in Snapshots : snap'[s].cfg = snap[s].cfg /\ Born(s)' = Born(s)
      BY <1>1, <2>2 DEF StoreType, SnapshotRecord, Born
    <2> QED BY <2>1, <2>2 DEF CallStep, EvaluateHook, acquireEvaluateSlot,
              queueForSlot, logEvaluateOverload, evaluated, freedSlot
  <1>5. /\ ControlType' /\ Control' /\ BornInOrder'
        /\ Kept' = Kept /\ Unpublished' = Unpublished
    BY <1>3, <1>4, ControlKept DEF serverVars
  <1>6. UNCHANGED <<runtime, inference, generation, job>>
    BY <1>3 DEF serverVars
  <1>7. StoreInv'
    <2>1. CASE EvaluateHook(c)
      <3>1. PICK r \in CallRecord :
               /\ call' = [call EXCEPT ![c] = r]
               /\ r.pc \in {"answered", "loaded"}
               /\ r.pc = "loaded" => r.by = runtime /\ usable(runtime)
        <4>1. CASE ~usable(runtime)
          <5> DEFINE p == [call[c] EXCEPT !.pc = "answered", !.reason = "DaemonNotReady"]
                     q == [call[c] EXCEPT !.pc = "answered", !.reason = "ConfigUnusable"]
          <5>1. p \in CallRecord /\ p.pc = "answered" /\ q \in CallRecord
                /\ q.pc = "answered"
            BY <1>2 DEF CallRecord, CallPcs, Reasons
          <5>2. call' = [call EXCEPT ![c] = p] \/ call' = [call EXCEPT ![c] = q]
            BY <2>1, <4>1 DEF EvaluateHook, finish
          <5> HIDE DEF p, q
          <5> QED BY <5>1, <5>2
        <4>2. CASE usable(runtime)
          <5> DEFINE p == [call[c] EXCEPT !.pc = "loaded", !.by = runtime]
          <5>1. p \in CallRecord /\ p.pc = "loaded" /\ p.by = runtime
            BY <1>1, <1>2 DEF CallRecord, CallPcs, StoreType
          <5>2. call' = [call EXCEPT ![c] = p]
            BY <2>1, <4>2 DEF EvaluateHook, usable
          <5> HIDE DEF p
          <5> QED BY <4>2, <5>1, <5>2
        <4> QED BY <4>1, <4>2
      <3>2. UNCHANGED snap /\ call[c].pc # "evaluating"
        BY <2>1 DEF EvaluateHook
      <3>3. r.pc # "evaluating"
            /\ (r.pc \in {"loaded", "waiting"} => r.by = runtime /\ usable(runtime))
        BY <3>1
      <3>4. call' = [call EXCEPT ![c] = r]
        BY <3>1
      <3> QED BY <3>2, <3>3, <3>4, <1>1, <1>5, <1>6, CallKeepsStore
    <2>2. CASE queueForSlot(c)
      <3> DEFINE r == [call[c] EXCEPT !.pc = "waiting"]
      <3>1. r \in CallRecord /\ r.pc = "waiting" /\ r.by = call[c].by
        BY <1>2 DEF CallRecord, CallPcs
      <3>2. call' = [call EXCEPT ![c] = r] /\ UNCHANGED snap
            /\ call[c].pc = "loaded"
        BY <2>2 DEF queueForSlot
      <3> HIDE DEF r
      <3>3. r.by = runtime /\ usable(runtime)
        BY <3>1, <3>2, <1>1 DEF StoreInv, ReadersSeeRuntime, Reading
      <3> QED BY <3>1, <3>2, <3>3, <1>1, <1>5, <1>6, CallKeepsStore
    <2>3. CASE logEvaluateOverload(c)
      <3> DEFINE r == [call[c] EXCEPT !.pc = "answered", !.reason = "Overloaded"]
      <3>1. r \in CallRecord /\ r.pc = "answered"
        BY <1>2 DEF CallRecord, CallPcs, Reasons
      <3>2. call' = [call EXCEPT ![c] = r] /\ UNCHANGED snap
            /\ call[c].pc = "waiting"
        BY <2>3 DEF logEvaluateOverload, finish
      <3> HIDE DEF r
      <3> QED BY <3>1, <3>2, <1>1, <1>5, <1>6, CallKeepsStore
    <2>4. CASE acquireEvaluateSlot(c)
      <3> DEFINE r == [call[c] EXCEPT !.pc = "evaluating"]
                 n == snap[call[c].by].slots + 1
      <3>1. r \in CallRecord /\ r.pc = "evaluating" /\ r.by = call[c].by
        BY <1>2 DEF CallRecord, CallPcs
      <3>2. /\ call' = [call EXCEPT ![c] = r] /\ Reading(c)
            /\ call[c].pc # "evaluating" /\ snap[call[c].by].slots < HotConcurrency
            /\ snap' = [snap EXCEPT ![call[c].by].slots = n]
        BY <2>4, <1>1 DEF acquireEvaluateSlot, Reading, StoreType
      <3>3. call[c].by \in Snapshots
        BY <3>2, <1>1 DEF StoreInv, ReadersSeeRuntime, usable, StoreType
      <3>4. n \in Nat /\ n <= HotConcurrency
        BY <3>2, <3>3, <1>1, ServerAssumption DEF StoreType, SnapshotRecord
      <3>5. n = snap[call[c].by].slots + 1
        OBVIOUS
      <3> HIDE DEF r, n
      <3> QED BY <3>1, <3>2, <3>4, <3>5, <1>1, <1>5, <1>6, SlotKeepsStore
    <2>5. CASE evaluated(c)
      <3>0. Reading(c) /\ call[c].pc = "evaluating"
        BY <2>5 DEF evaluated, Reading
      <3>1. PICK r \in CallRecord :
               /\ call' = [call EXCEPT ![c] = r]
               /\ r.pc = "answered" /\ r.by = call[c].by
        <4> DEFINE p == [call[c] EXCEPT !.pc = "answered", !.reason = "none"]
                   q == [call[c] EXCEPT !.pc = "answered", !.reason = "IntakeWriteFailed"]
        <4>1. p \in CallRecord /\ p.pc = "answered" /\ q \in CallRecord
              /\ q.pc = "answered" /\ p.by = call[c].by /\ q.by = call[c].by
          BY <1>2 DEF CallRecord, CallPcs, Reasons
        <4>2. call' = [call EXCEPT ![c] = p] \/ call' = [call EXCEPT ![c] = q]
          BY <2>5 DEF evaluated, finish
        <4> HIDE DEF p, q
        <4> QED BY <4>1, <4>2
      <3>2. call[c].by \in Snapshots
        BY <3>0, <1>1 DEF StoreInv, ReadersSeeRuntime, usable, StoreType
      <3>3. PICK s \in Snapshots : s = call[c].by
        BY <3>2
      <3>4. c \in Evaluating(s)
        BY <3>0, <3>3 DEF Evaluating
      <3>5. IsFiniteSet(Evaluating(s)) /\ snap[s].slots = Cardinality(Evaluating(s))
            /\ snap[s].slots <= HotConcurrency /\ snap[s].slots \in Nat
        BY <1>1 DEF StoreInv, Slots, StoreType, SnapshotRecord
      <3>6. snap[s].slots # 0
        BY <3>4, <3>5, FS_EmptySet
      <3> DEFINE n == snap[call[c].by].slots - 1
      <3>7. n \in Nat /\ n <= HotConcurrency
        BY <3>3, <3>5, <3>6, ServerAssumption
      <3>8. snap' = [snap EXCEPT ![call[c].by].slots = n]
        BY <2>5, <1>1 DEF evaluated, freedSlot, StoreType
      <3>9. n = snap[call[c].by].slots - 1
        OBVIOUS
      <3> HIDE DEF n
      <3> QED BY <3>0, <3>1, <3>7, <3>8, <3>9, <1>1, <1>5, <1>6, SlotKeepsStore
    <2> QED BY <2>1, <2>2, <2>3, <2>4, <2>5 DEF CallStep
  <1> QED BY <1>5, <1>7 DEF ServerInv

\* Every step of a deferred job keeps the invariant.
LEMMA JobKeeps ==
    ASSUME ServerInv, NEW j \in Jobs, JobStep(j)
    PROVE  ServerInv'
  <1>1. StoreInv /\ Control
    BY DEF ServerInv
  <1>2. /\ UNCHANGED <<file, pending, runtime, snap, paused, watcher, audit,
                       auditRequested, main, signal, shutdown, closing,
                       stopping, updates, edits, call>>
    BY DEF JobStep, prepareDeferredJob, releaseDeferredJob, jobRest
  <1>3. main = "done" => Drained'
    <2>1. CASE prepareDeferredJob(j)
      BY <2>1, <1>1 DEF prepareDeferredJob, usable, Control, Closing
    <2>2. CASE releaseDeferredJob(j)
      BY <2>2, <1>1 DEF releaseDeferredJob, Control, Closing, Drained
    <2> QED BY <2>1, <2>2 DEF JobStep
  <1>4. /\ ControlType' /\ Control' /\ BornInOrder'
        /\ Kept' = Kept /\ Unpublished' = Unpublished
    <2>1. \A s \in Snapshots : snap'[s].cfg = snap[s].cfg /\ Born(s)' = Born(s)
      BY <1>2 DEF Born
    <2> QED BY <1>2, <1>3, <2>1, ControlKept
  <1>5. StoreInv'
    BY <1>1, <1>4, BorrowKeepsStore, ReturnKeepsStore DEF JobStep
  <1> QED BY <1>4, <1>5 DEF ServerInv

----------------------------------------------------------------------------
(* What the steps of the watcher, the scheduler and main share.              *)

\* No snapshot is made: the order of births needs room for what is owed only.
LEMMA NoBirth ==
    ASSUME BornInOrder, \A s \in Snapshots : Born(s)' = Born(s),
           Owed' + edits + audit.rotations <= Owed + edits' + audit'.rotations,
           edits \in Nat, audit.rotations \in Nat,
           edits' \in Nat, audit'.rotations \in Nat,
           main' \in {"init", "failed"} <=> main \in {"init", "failed"}
    PROVE  BornInOrder'
  <1>1. Owed \in Nat /\ Owed' \in Nat
    BY DEF Owed
  <1>2. ASSUME NEW s \in Snapshots, Born(s)'
        PROVE  /\ \A t \in 1 .. (s - 1) : Born(t)'
               /\ s + Owed' <= 1 + edits' + audit'.rotations
    <2>1. /\ \A t \in 1 .. (s - 1) : Born(t)
          /\ s + Owed <= 1 + edits + audit.rotations
      BY <1>2 DEF BornInOrder
    <2>2. 1 .. (s - 1) \subseteq Snapshots /\ s \in Nat
      BY ServerAssumption DEF Snapshots
    <2> QED BY <2>1, <2>2, <1>1
  <1>3. Born(1)' = Born(1)
    BY SnapshotNumbers
  <1> QED BY <1>2, <1>3 DEF BornInOrder

\* A snapshot is made: the first, or one that an edit or a rotation pays for.
LEMMA OneBirth ==
    ASSUME BornInOrder, NEW s \in Snapshots, ~Born(s),
           \A t \in 1 .. (s - 1) : Born(t),
           \A t \in Snapshots : Born(t)' <=> (Born(t) \/ t = s),
           \/ main = "init" /\ Owed' <= edits' + audit'.rotations
           \/ main \notin {"init", "failed"}
              /\ Owed' + 1 + edits + audit.rotations
                   <= Owed + edits' + audit'.rotations,
           edits \in Nat, audit.rotations \in Nat,
           edits' \in Nat, audit'.rotations \in Nat,
           main' \notin {"init", "failed"}
    PROVE  BornInOrder'
  <1>1. Owed \in Nat /\ Owed' \in Nat
    BY DEF Owed
  <1>2. \A t \in Snapshots : 1 .. (t - 1) \subseteq Snapshots /\ t \in Nat /\ t >= 1
    BY ServerAssumption DEF Snapshots
  <1>3. main = "init" => s = 1
    BY <1>2, SnapshotNumbers DEF BornInOrder
  <1>4. s # 1 => Born(s - 1) /\ s - 1 \in Snapshots
    BY <1>2
  <1>5. main # "init" => s # 1
    BY DEF BornInOrder
  <1>6. s + Owed' <= 1 + edits' + audit'.rotations
    <2>1. CASE main = "init"
      BY <2>1, <1>1, <1>3
    <2>2. CASE main # "init"
      <3>1. (s - 1) + Owed <= 1 + edits + audit.rotations
        BY <2>2, <1>4, <1>5 DEF BornInOrder
      <3> QED BY <3>1, <2>2, <1>1, <1>2
    <2> QED BY <2>1, <2>2
  <1>7. ASSUME NEW t \in Snapshots, Born(t)'
        PROVE  /\ \A u \in 1 .. (t - 1) : Born(u)'
               /\ t + Owed' <= 1 + edits' + audit'.rotations
    <2>1. CASE t = s
      BY <2>1, <1>2, <1>6
    <2>2. CASE t # s
      <3>1. Born(t)
        BY <2>2, <1>7
      <3>2. \A u \in 1 .. (t - 1) : Born(u)
        BY <3>1 DEF BornInOrder
      <3>3. t < s
        <4>1. ASSUME t > s PROVE FALSE
          BY <4>1, <3>2, <1>2
        <4> QED BY <4>1, <2>2, <1>2
      <3> QED BY <3>2, <3>3, <1>1, <1>2, <1>6
    <2> QED BY <2>1, <2>2
  <1>8. Born(1)'
    BY <1>2, <1>4, SnapshotNumbers DEF BornInOrder
  <1> QED BY <1>7, <1>8 DEF BornInOrder

\* newRuntimeSnapshot, whoever calls it.
LEMMA SnapshotMade ==
    ASSUME StoreInv, NEW cfg \in Configurations,
           NEW bucket \in Buckets \cup {Nil, NewBucket}, NEW shared \in Inferences,
           NextSnapshot \in Snapshots, ~Born(NextSnapshot),
           newRuntimeSnapshot(cfg, bucket, shared),
           shared = Nil \/ OpenOn(shared) # {},
           UNCHANGED <<runtime, generation, call, job>>,
           Kept = Nil, Kept' = NextSnapshot, Unpublished',
           \/ runtime # Nil /\ bucket = snap[runtime].bucket
           \/ bucket \notin Buckets
    PROVE  /\ StoreInv'
           /\ \A t \in Snapshots : Born(t)' <=> (Born(t) \/ t = NextSnapshot)
  <1>1. PICK s \in Snapshots : s = NextSnapshot
    OBVIOUS
  <1>2. PICK i \in Inferences : i = IF shared = Nil THEN s ELSE shared
    BY <1>1 DEF Inferences
  <1>3. i # Nil /\ (i = s \/ OpenOn(i) # {})
    BY <1>1, <1>2, SnapshotNumbers
  <1> DEFINE new == [Unborn EXCEPT !.st = "open", !.cfg = cfg,
                                   !.bucket = bucket, !.inf = i]
  <1>4. snap' = [snap EXCEPT ![s] = new] /\ inference' = retain(i)
    BY <1>1, <1>2 DEF newRuntimeSnapshot
  <1>5. bucket \in Nat
    BY NewBucketFresh DEF Buckets, StoreInv, StoreType, SnapshotRecord, Nil
  <1>6. Made(new, cfg, bucket, i)
    BY <1>5 DEF Made, Unborn, SnapshotRecord
  <1> HIDE DEF new
  <1>7. StoreInv'
    BY <1>1, <1>3, <1>4, <1>6, NewKeepsStore
  <1>8. \A t \in Snapshots : Born(t)' <=> (Born(t) \/ t = s)
    BY <1>1, <1>4, <1>6 DEF Born, StoreInv, StoreType, Made
  <1> QED BY <1>1, <1>7, <1>8

\* A snapshot that is open, published or withdrawn stays born.
LEMMA CloseKeepsBorn ==
    ASSUME StoreInv, NEW k \in Snapshots \cup {Nil}, closeSnapshot(k),
           k = Nil \/ Born(k)
    PROVE  \A s \in Snapshots : /\ snap'[s].cfg = snap[s].cfg
                               /\ Born(s)' = Born(s)
  <1>1. CASE k = Nil
    BY <1>1 DEF closeSnapshot, closed, Born
  <1>2. CASE k # Nil
    BY <1>2 DEF closeSnapshot, closed, Born, StoreInv, StoreType, SnapshotRecord
  <1> QED BY <1>1, <1>2

\* Publishing a snapshot changes neither configurations nor births.
LEMMA PublishKeepsBorn ==
    ASSUME StoreInv, NEW k \in Snapshots, publishRuntimeLocked(k)
    PROVE  \A s \in Snapshots : /\ snap'[s].cfg = snap[s].cfg
                               /\ Born(s)' = Born(s)
  BY DEF publishRuntimeLocked, Born, StoreInv, StoreType, SnapshotRecord

----------------------------------------------------------------------------
(* The watcher.                                                              *)

\* A reload that holds the lifecycle is alone in it.
LEMMA ReloadAlone ==
    ASSUME ServerInv, WatcherHolds
    PROVE  /\ ~AuditHolds /\ ~Stopped /\ ~Starting
           /\ main # "stopWorkers" /\ main # "publish"
  BY DEF ServerInv, Control, OneHolder, QuietStart, Starting, Stopped,
         WatcherHolds

\* The file that a reload has read gives it a snapshot to make.
LEMMA ReloadMakes ==
    ASSUME ServerInv, watcher.pc \in {"replace", "reset"}
    PROVE  /\ NextSnapshot \in Snapshots /\ ~Born(NextSnapshot)
           /\ \A t \in 1 .. (NextSnapshot - 1) : Born(t)
           /\ NewBucket \in Nat \ {0} /\ NewBucket \notin Buckets
  <1>1. Owed > 0
    BY DEF Owed
  <1>2. PICK n \in Snapshots : ~Born(n)
    BY <1>1, RoomLeft DEF ServerInv
  <1> QED BY <1>2, NextIsFresh, NewBucketFresh DEF ServerInv, StoreInv

\* The steps of the watcher keep the types.
LEMMA WatcherTyped ==
    ASSUME ServerInv, WatcherStep
    PROVE  ControlType'
  <1> USE DEF watcherRest, stepTo, idle
  <1>1. ControlType /\ NoConfig \in Configurations /\ file \in Configurations
    BY DEF ServerInv, ControlType, Configurations
  <1>2. runtime \in Snapshots \cup {Nil}
    BY DEF ServerInv, StoreInv, StoreType
  <1>3. watcher' \in WatcherRecord
    <2> USE <1>1, <1>2 DEF WatcherRecord, WatcherPcs, ControlType
    <2>1. CASE fireReload \/ watcherExits
      BY <2>1 DEF fireReload, watcherExits
    <2>2. CASE reloadConfig
      <3>1. \/ watcher' = idle
            \/ watcher' = [pc |-> "replace", cfg |-> file, new |-> Nil, old |-> Nil]
        BY <2>2 DEF reloadConfig
      <3> QED BY <3>1
    <2>3. CASE replaceSameStorage \/ replaceUnusable \/ resetStorage
      <3>1. NextSnapshot \in Snapshots
        BY <2>3, ReloadMakes DEF replaceSameStorage, replaceUnusable, resetStorage
      <3>2. PICK n \in Snapshots : n = NextSnapshot
        BY <3>1
      <3>3. \/ watcher' = [watcher EXCEPT !.pc = "publish", !.new = n]
            \/ watcher' = [watcher EXCEPT !.pc = "drainDetail", !.new = n]
        BY <2>3, <3>2 DEF replaceSameStorage, replaceUnusable, resetStorage
      <3> QED BY <3>3
    <2>4. CASE replaceFails \/ reloadCanceled \/ endReload
      BY <2>4 DEF replaceFails, reloadCanceled, endReload
    <2>5. CASE replaceStorage \/ drainedReload
      <3>1. PICK pc \in WatcherPcs : watcher' = [watcher EXCEPT !.pc = pc]
        BY <2>5 DEF replaceStorage, drainedReload
      <3> QED BY <3>1
    <2>6. CASE resetFails
      BY <2>6 DEF resetFails
    <2>7. CASE withdraw
      BY <2>7 DEF withdraw
    <2>8. CASE closeWithdrawn
      BY <2>8 DEF closeWithdrawn
    <2>9. CASE publishReload
      BY <2>9 DEF publishReload
    <2>10. CASE restartUpdates \/ closeOldSnapshot
      BY <2>10 DEF restartUpdates, closeOldSnapshot
    <2> QED BY <2>1, <2>2, <2>3, <2>4, <2>5, <2>6, <2>7, <2>8, <2>9, <2>10
            DEF WatcherStep, ReloadStep
  <1>4. audit' \in AuditRecord /\ auditRequested' \in BOOLEAN
    <2>1. CASE endReload
      <3>1. \/ audit' = audit
            \/ audit' = [audit EXCEPT !.pc = "loop", !.parent = "reload"]
        BY <2>1 DEF endReload, StartAuditScheduler
      <3>2. auditRequested' = auditRequested \/ auditRequested' = TRUE
        BY <2>1 DEF endReload, StartAuditScheduler
      <3> QED BY <3>1, <3>2, <1>1 DEF ControlType, AuditRecord, AuditPcs
    <2>2. CASE ~endReload
      <3>1. UNCHANGED <<audit, auditRequested>>
        BY <2>2 DEF WatcherStep, ReloadStep, fireReload, reloadConfig,
             replaceSameStorage, replaceFails, replaceUnusable, replaceStorage,
             drainedReload, withdraw, closeWithdrawn, resetStorage, resetFails,
             reloadCanceled, publishReload, restartUpdates, closeOldSnapshot,
             watcherExits
      <3> QED BY <3>1, <1>1 DEF ControlType
    <2> QED BY <2>1, <2>2
  <1>5. updates' \in UpdatesRecord
    <2>1. \/ updates' = updates
          \/ updates' = [updates EXCEPT !.live = @ \ {updates.cancel}]
          \/ updates' = startUpdates
      BY DEF WatcherStep, ReloadStep, fireReload, reloadConfig,
             replaceSameStorage, replaceFails, replaceUnusable, replaceStorage,
             drainedReload, withdraw, closeWithdrawn, resetStorage, resetFails,
             reloadCanceled, publishReload, restartUpdates, closeOldSnapshot,
             endReload, watcherExits
    <2>2. updates \in UpdatesRecord
      BY <1>1 DEF ControlType
    <2>3. CASE updates' = [updates EXCEPT !.live = @ \ {updates.cancel}]
      <3>1. updates.live \ {updates.cancel} \in SUBSET Nat
        BY <2>2 DEF UpdatesRecord
      <3> QED BY <3>1, <2>2, <2>3 DEF UpdatesRecord
    <2>4. CASE updates' = startUpdates
      <3>1. PICK alive \in SUBSET Nat :
              alive = (updates.live \ {updates.cancel}) \cup {updates.next}
        BY <2>2 DEF UpdatesRecord
      <3>2. PICK n \in Nat, m \in Nat : n = updates.next /\ m = updates.next + 1
        BY <2>2 DEF UpdatesRecord
      <3>3. updates' = [updates EXCEPT !.live = alive, !.cancel = n, !.next = m]
        BY <3>1, <3>2, <2>4, Zenon DEF startUpdates
      <3> QED BY <3>3, <2>2 DEF UpdatesRecord
    <2> QED BY <2>1, <2>2, <2>3, <2>4
  <1>6. /\ UNCHANGED <<file, main, signal, shutdown, closing, stopping, edits>>
        /\ pending' \in {pending, FALSE} /\ paused' \in {paused, TRUE, FALSE}
    BY DEF WatcherStep, ReloadStep, fireReload, reloadConfig,
             replaceSameStorage, replaceFails, replaceUnusable, replaceStorage,
             drainedReload, withdraw, closeWithdrawn, resetStorage, resetFails,
             reloadCanceled, publishReload, restartUpdates, closeOldSnapshot,
             endReload, watcherExits
  <1> QED BY <1>1, <1>3, <1>4, <1>5, <1>6 DEF ControlType

\* The steps of the watcher keep the exclusions between the goroutines.
LEMMA WatcherControlled ==
    ASSUME ServerInv, WatcherStep
    PROVE  Control'
  <1> USE DEF Control, OneHolder, QuietStart, Closing, Cancellable,
              WithdrawnOnlyForReset, WatcherHolds, AuditHolds, Starting,
              Stopped, Stopping, watcherRest, stepTo, idle, ControlType,
              WatcherRecord
  <1>1. ControlType /\ Control
    BY DEF ServerInv
  <1>2. Reconciles'
    <2>1. audit'.pc = "reconcile" => audit.pc = "reconcile"
      <3>1. \/ audit' = audit
            \/ audit' = [audit EXCEPT !.pc = "loop", !.parent = "reload"]
        BY DEF WatcherStep, ReloadStep, fireReload, reloadConfig,
             replaceSameStorage, replaceFails, replaceUnusable, replaceStorage,
             drainedReload, withdraw, closeWithdrawn, resetStorage, resetFails,
             reloadCanceled, publishReload, restartUpdates, closeOldSnapshot,
             endReload, StartAuditScheduler, watcherExits
      <3> QED BY <1>1, <3>1 DEF AuditRecord, AuditPcs
    <2>2. audit.pc = "reconcile" => ~WatcherHolds /\ main \notin {"stopWorkers", "done"}
      BY <1>1
    <2>3. ~WatcherHolds => UNCHANGED <<runtime, snap>>
      BY DEF WatcherStep, ReloadStep, fireReload, reloadConfig,
             replaceSameStorage, replaceFails, replaceUnusable, replaceStorage,
             drainedReload, withdraw, closeWithdrawn, resetStorage, resetFails,
             reloadCanceled, publishReload, restartUpdates, closeOldSnapshot,
             endReload, watcherExits
    <2> QED BY <1>1, <2>1, <2>2, <2>3 DEF Reconciles, usable
  <1>3. CASE fireReload \/ watcherExits
    BY <1>1, <1>2, <1>3 DEF fireReload, watcherExits, Drained
  <1>4. CASE reloadConfig
    BY <1>1, <1>2, <1>4 DEF reloadConfig, LifecycleFree, Drained
  <1>5. CASE replaceSameStorage
    BY <1>1, <1>2, <1>5 DEF replaceSameStorage, KeepsStorage, usable
  <1>6. CASE replaceUnusable
    BY <1>1, <1>2, <1>6 DEF replaceUnusable
  <1>7. CASE resetStorage \/ resetFails
    <2>1. watcher'.pc \in {"reset", "publish"} /\ WatcherHolds'
          /\ ~AuditHolds' /\ ~Stopped' /\ ~Starting'
      BY <1>1, <1>7 DEF resetStorage, resetFails
    <2> QED BY <1>1, <1>2, <1>7, <2>1 DEF resetStorage, resetFails
  <1>8. CASE replaceFails
    BY <1>1, <1>2, <1>8 DEF replaceFails, KeepsStorage, usable
  <1>9. CASE reloadCanceled
    BY <1>1, <1>2, <1>9 DEF reloadCanceled
  <1>10. CASE replaceStorage \/ drainedReload
    BY <1>1, <1>2, <1>10 DEF replaceStorage, drainedReload, KeepsStorage, usable
  <1>11. CASE withdraw \/ closeWithdrawn
    <2>1. watcher'.pc \in {"closeWithdrawn", "reset"} /\ WatcherHolds'
          /\ ~AuditHolds' /\ ~Stopped' /\ ~Starting'
      BY <1>1, <1>11 DEF withdraw, closeWithdrawn
    <2> QED BY <1>1, <1>2, <1>11, <2>1 DEF withdraw, closeWithdrawn
  <1>12. CASE publishReload
    <2>1. watcher.new # Nil
      BY <1>12 DEF publishReload, ServerInv, StoreInv, OpenIsHeld, Unpublished,
                   Kept
    <2>2. runtime' # Nil
      BY <1>12, <2>1 DEF publishReload, publishRuntimeLocked
    <2> QED BY <1>1, <1>2, <1>12, <2>2 DEF publishReload
  <1>13. CASE restartUpdates
    BY <1>1, <1>2, <1>13 DEF restartUpdates, startUpdates
  <1>14. CASE closeOldSnapshot
    BY <1>1, <1>2, <1>14 DEF closeOldSnapshot
  <1>15. CASE endReload
    BY <1>1, <1>2, <1>15 DEF endReload, StartAuditScheduler
  <1> QED BY <1>3, <1>4, <1>5, <1>6, <1>7, <1>8, <1>9, <1>10, <1>11, <1>12,
             <1>13, <1>14, <1>15 DEF WatcherStep, ReloadStep

\* The reload makes a snapshot and has it to publish.
LEMMA ReloadBears ==
    ASSUME ServerInv, ControlType',
           replaceSameStorage \/ replaceUnusable \/ resetStorage
    PROVE  BornInOrder' /\ StoreInv'
  <1> USE DEF watcherRest
  <1>1. watcher.pc \in {"replace", "reset"} /\ WatcherHolds
    BY DEF replaceSameStorage, replaceUnusable, resetStorage, WatcherHolds
  <1>2. /\ NextSnapshot \in Snapshots /\ ~Born(NextSnapshot)
        /\ \A t \in 1 .. (NextSnapshot - 1) : Born(t)
        /\ NewBucket \in Nat \ {0} /\ NewBucket \notin Buckets
    BY <1>1, ReloadMakes
  <1>3. /\ ~AuditHolds /\ ~Stopped /\ ~Starting
        /\ main # "stopWorkers" /\ main # "publish"
    BY <1>1, ReloadAlone
  <1>4. /\ watcher'.pc \in {"drainDetail", "publish"}
        /\ watcher'.new = NextSnapshot
    BY DEF replaceSameStorage, replaceUnusable, resetStorage, ServerInv,
           ControlType, WatcherRecord
  <1>5. UNCHANGED <<file, pending, runtime, generation, call, job, audit, main,
                    edits>>
    BY DEF replaceSameStorage, replaceUnusable, resetStorage
  <1>6. Kept = Nil /\ Kept' = NextSnapshot /\ Unpublished'
    BY <1>1, <1>3, <1>4, <1>5 DEF Kept, Unpublished, AuditHolds
  <1>7. PICK bucket \in Buckets \cup {Nil, NewBucket} :
          /\ newRuntimeSnapshot(watcher.cfg, bucket, Nil)
          /\ \/ runtime # Nil /\ bucket = snap[runtime].bucket
             \/ bucket \notin Buckets
    <2>1. CASE replaceSameStorage
      <3>1. runtime \in Snapshots
        BY <2>1 DEF replaceSameStorage, KeepsStorage, usable, ServerInv,
                    StoreInv, StoreType
      <3>2. snap[runtime].bucket \in Buckets \cup {Nil} /\ runtime # Nil
        BY <3>1, SnapshotNumbers DEF Buckets
      <3> QED BY <2>1, <3>2, <1>2 DEF replaceSameStorage
    <2>2. CASE replaceUnusable \/ resetStorage
      BY <2>2, <1>2 DEF replaceUnusable, resetStorage
    <2> QED BY <2>1, <2>2
  <1>8. watcher.cfg \in Configurations /\ Nil \in Inferences
    BY DEF ServerInv, ControlType, WatcherRecord, Inferences
  <1>9. /\ StoreInv'
        /\ \A t \in Snapshots : Born(t)' <=> (Born(t) \/ t = NextSnapshot)
    BY <1>2, <1>5, <1>6, <1>7, <1>8, SnapshotMade DEF ServerInv
  <1>10. Owed = Owed' + 1 /\ Owed \in Nat /\ Owed' \in Nat
    BY <1>1, <1>4, <1>5 DEF Owed
  <1>11. edits \in Nat /\ audit.rotations \in Nat
    BY ServerAssumption DEF ServerInv, ControlType, AuditRecord
  <1>12. Owed' + 1 + edits + audit.rotations <= Owed + edits' + audit'.rotations
    BY <1>5, <1>10, <1>11
  <1>13. BornInOrder'
    BY <1>2, <1>3, <1>5, <1>9, <1>11, <1>12, OneBirth DEF ServerInv, Starting
  <1> QED BY <1>9, <1>13

\* The other steps of the watcher bring no snapshot about.
LEMMA WatcherKeeps ==
    ASSUME ServerInv, WatcherStep, ControlType'
    PROVE  BornInOrder' /\ StoreInv'
  <1> USE DEF watcherRest, stepTo
  <1>1. StoreInv /\ StoreType /\ watcher \in WatcherRecord
    BY DEF ServerInv, StoreInv, ControlType
  <1>2. CASE replaceSameStorage \/ replaceUnusable \/ resetStorage
    BY <1>2, ReloadBears
  <1>3. CASE ~(replaceSameStorage \/ replaceUnusable \/ resetStorage)
    <2>1. UNCHANGED <<file, call, job, main, edits>>
          /\ audit'.rotations = audit.rotations
      <3>1. UNCHANGED <<file, call, job, main, edits>>
        BY <1>3 DEF WatcherStep, ReloadStep, fireReload, reloadConfig,
             replaceFails, replaceStorage, drainedReload, withdraw,
             closeWithdrawn, resetFails, reloadCanceled, publishReload,
             restartUpdates, closeOldSnapshot, endReload, watcherExits
      <3>2. \/ audit' = audit
            \/ audit' = [audit EXCEPT !.pc = "loop", !.parent = "reload"]
        BY <1>3 DEF WatcherStep, ReloadStep, fireReload, reloadConfig,
             replaceFails, replaceStorage, drainedReload, withdraw,
             closeWithdrawn, resetFails, reloadCanceled, publishReload,
             restartUpdates, closeOldSnapshot, endReload, StartAuditScheduler,
             watcherExits
      <3> QED BY <3>1, <3>2 DEF ServerInv, ControlType, AuditRecord
    <2>2. Owed' <= Owed /\ Owed' \in Nat /\ Owed \in Nat
      <3> USE DEF Owed, WatcherRecord, idle
      <3>1. CASE fireReload \/ watcherExits
        BY <1>1, <3>1 DEF fireReload, watcherExits
      <3>2. CASE reloadConfig \/ replaceFails \/ reloadCanceled
        BY <1>1, <3>2 DEF reloadConfig, replaceFails, reloadCanceled
      <3>3. CASE replaceStorage \/ drainedReload \/ resetFails
        BY <1>1, <3>3 DEF replaceStorage, drainedReload, resetFails
      <3>4. CASE withdraw \/ closeWithdrawn \/ publishReload
        <4>1. /\ watcher.pc \in {"withdraw", "closeWithdrawn", "publish"}
              /\ watcher.pc # "publish" => watcher'.pc \in {"closeWithdrawn", "reset"}
              /\ watcher.pc = "publish" => watcher'.pc = "restart"
          <5>1. CASE withdraw
            BY <1>1, <5>1 DEF withdraw
          <5>2. CASE closeWithdrawn
            BY <1>1, <5>2 DEF closeWithdrawn
          <5>3. CASE publishReload
            BY <1>1, <5>3 DEF publishReload
          <5> QED BY <3>4, <5>1, <5>2, <5>3
        <4>2. UNCHANGED pending
          BY <3>4 DEF withdraw, closeWithdrawn, publishReload
        <4> QED BY <4>1, <4>2
      <3>5. CASE restartUpdates \/ closeOldSnapshot \/ endReload
        BY <1>1, <3>5 DEF restartUpdates, closeOldSnapshot, endReload
      <3> QED BY <1>3, <3>1, <3>2, <3>3, <3>4, <3>5 DEF WatcherStep, ReloadStep
    <2>3. edits \in Nat /\ audit.rotations \in Nat
      BY ServerAssumption DEF ServerInv, ControlType, AuditRecord
    <2>4. Owed' + edits + audit.rotations <= Owed + edits' + audit'.rotations
      BY <2>1, <2>2, <2>3
    <2>5. /\ StoreInv'
          /\ \A s \in Snapshots : snap'[s].cfg = snap[s].cfg /\ Born(s)' = Born(s)
      <3>0. \A s \in Snapshots : UNCHANGED snap => Born(s)' = Born(s)
        BY DEF Born
      <3>1. CASE withdraw
        <4>1. Kept = Nil /\ Kept' = runtime /\ ~Unpublished'
          <5>1. /\ ~AuditHolds /\ main # "stopWorkers" /\ main # "publish"
            BY <3>1, ReloadAlone DEF withdraw, WatcherHolds
          <5>2. watcher.pc = "withdraw" /\ watcher'.pc = "closeWithdrawn"
                /\ watcher'.old = runtime /\ UNCHANGED audit
            BY <3>1, <1>1 DEF withdraw, WatcherRecord
          <5> QED BY <2>1, <5>1, <5>2 DEF Kept, Unpublished, AuditHolds
        <4>2. \A c \in Calls : ~Reading(c)
          BY <3>1 DEF withdraw, CanWrite, Readers, Reading
        <4>3. StoreInv'
          BY <1>1, <2>1, <3>1, <4>1, <4>2, WithdrawKeepsStore DEF withdraw
        <4> QED BY <4>3, <3>1, <3>0 DEF withdraw
      <3>2. CASE closeWithdrawn \/ closeOldSnapshot
        <4>1. /\ Kept = watcher.old /\ Kept' = Nil /\ ~Unpublished'
          <5>1. ~AuditHolds /\ main # "stopWorkers" /\ main # "publish"
            BY <3>2, ReloadAlone DEF closeWithdrawn, closeOldSnapshot, WatcherHolds
          <5>2. watcher.pc \in {"closeWithdrawn", "closeOld"}
                /\ watcher'.pc \in {"reset", "startAudit"} /\ UNCHANGED audit
            BY <3>2, <1>1 DEF closeWithdrawn, closeOldSnapshot, WatcherRecord
          <5> QED BY <2>1, <5>1, <5>2 DEF Kept, Unpublished, AuditHolds
        <4>2. closeSnapshot(Kept)
              /\ UNCHANGED <<runtime, generation, call, job>>
          BY <2>1, <3>2, <4>1 DEF closeWithdrawn, closeOldSnapshot
        <4>3. StoreInv'
          BY <1>1, <4>1, <4>2, CloseKeepsStore
        <4>4. Kept \in Snapshots \cup {Nil} /\ (Kept = Nil \/ Born(Kept))
          BY <1>1 DEF StoreInv, OpenIsHeld, Born
        <4> QED BY <1>1, <4>2, <4>3, <4>4, CloseKeepsBorn
      <3>3. CASE publishReload
        <4>1. /\ Kept = watcher.new /\ Unpublished
              /\ Kept' = runtime /\ ~Unpublished'
          <5>1. ~AuditHolds /\ main # "stopWorkers" /\ main # "publish"
            BY <3>3, ReloadAlone DEF publishReload, WatcherHolds
          <5>2. watcher.pc = "publish" /\ watcher'.pc = "restart"
                /\ watcher'.old = runtime /\ UNCHANGED audit
            BY <3>3, <1>1 DEF publishReload, WatcherRecord
          <5> QED BY <2>1, <5>1, <5>2 DEF Kept, Unpublished, AuditHolds
        <4>2. Kept \in Snapshots
          BY <1>1, <4>1 DEF StoreInv, OpenIsHeld
        <4>3. /\ publishRuntimeLocked(Kept) /\ \A c \in Calls : ~Reading(c)
              /\ UNCHANGED <<inference, job, call>>
          BY <2>1, <3>3, <4>1 DEF publishReload, CanWrite, Readers, Reading
        <4>4. StoreInv'
          BY <1>1, <4>1, <4>2, <4>3, PublishKeepsStore
        <4> QED BY <1>1, <4>2, <4>3, <4>4, PublishKeepsBorn
      <3>4. CASE ~(withdraw \/ closeWithdrawn \/ closeOldSnapshot \/ publishReload)
        <4>1. UNCHANGED <<runtime, snap, inference, generation, call, job>>
          BY <1>3, <2>1, <3>4 DEF WatcherStep, ReloadStep, fireReload,
             reloadConfig, replaceFails, replaceStorage, drainedReload,
             resetFails, reloadCanceled, restartUpdates, endReload, watcherExits
        <4>2. Kept' = Kept /\ Unpublished' = Unpublished
          <5>1. CASE WatcherHolds
            <6>1. ~AuditHolds /\ main # "stopWorkers" /\ main # "publish"
              BY <5>1, ReloadAlone
            <6>2. audit' = audit \/ audit'.pc = "loop"
              BY <1>3, <3>4 DEF WatcherStep, ReloadStep, fireReload,
                 reloadConfig, replaceFails, replaceStorage, drainedReload,
                 resetFails, reloadCanceled, restartUpdates, endReload,
                 StartAuditScheduler, watcherExits, ServerInv, ControlType,
                 AuditRecord
            <6>3. \/ /\ watcher.pc \notin {"drainDetail", "publish",
                              "closeWithdrawn", "restart", "closeOld"}
                     /\ watcher'.pc \notin {"drainDetail", "publish",
                              "closeWithdrawn", "restart", "closeOld"}
                  \/ /\ watcher.pc = "drainDetail" /\ watcher'.pc = "publish"
                     /\ watcher'.new = watcher.new
                  \/ /\ watcher.pc = "restart" /\ watcher'.pc = "closeOld"
                     /\ watcher'.old = watcher.old
              BY <1>1, <1>3, <3>4, <5>1 DEF WatcherStep, ReloadStep, fireReload,
                 reloadConfig, replaceFails, replaceStorage, drainedReload,
                 resetFails, reloadCanceled, restartUpdates, endReload,
                 watcherExits, WatcherRecord, idle, WatcherHolds
            <6> QED BY <2>1, <6>1, <6>2, <6>3 DEF Kept, Unpublished, AuditHolds
          <5>2. CASE ~WatcherHolds
            <6>1. CASE fireReload \/ watcherExits \/ reloadConfig
              <7>1. /\ watcher'.pc \in {"idle", "want", "replace", "exited"}
                    /\ watcher.pc \in {"idle", "want", "exited"}
                    /\ UNCHANGED audit
                <8>1. CASE fireReload
                  BY <1>1, <8>1 DEF fireReload, WatcherRecord
                <8>2. CASE watcherExits
                  BY <1>1, <8>2 DEF watcherExits, WatcherRecord
                <8>3. CASE reloadConfig
                  BY <8>3 DEF reloadConfig, idle
                <8> QED BY <6>1, <8>1, <8>2, <8>3
              <7> QED BY <2>1, <7>1 DEF Kept, Unpublished
            <6> QED BY <1>3, <3>4, <5>2, <6>1 DEF WatcherStep, ReloadStep,
                 replaceFails, replaceStorage, drainedReload, resetFails,
                 reloadCanceled, restartUpdates, endReload, WatcherHolds
          <5> QED BY <5>1, <5>2
        <4> QED BY <1>1, <3>0, <4>1, <4>2, IdleKeepsStore
      <3> QED BY <3>1, <3>2, <3>3, <3>4
    <2> QED BY <2>1, <2>3, <2>4, <2>5, NoBirth DEF ServerInv
  <1> QED BY <1>2, <1>3

\* Every step of the watcher keeps the invariant.
LEMMA WatcherKeepsAll ==
    ASSUME ServerInv, WatcherStep PROVE ServerInv'
  BY WatcherTyped, WatcherControlled, WatcherKeeps DEF ServerInv

----------------------------------------------------------------------------
(* The audit scheduler.                                                      *)

\* The steps of the scheduler keep the types.
LEMMA AuditTyped ==
    ASSUME ServerInv, AuditStep
    PROVE  ControlType'
  <1> USE DEF auditRest
  <1>1. ControlType /\ audit \in AuditRecord /\ runtime \in Snapshots \cup {Nil}
    BY DEF ServerInv, ControlType, StoreInv, StoreType
  <1>2. UNCHANGED auditRest
    BY DEF AuditStep, lockForReconcile, rotate, endReconcile, publishRotation,
           closeRotated, endAudit
  <1>3. audit' \in AuditRecord
    <2> USE DEF AuditRecord, AuditPcs
    <2>1. CASE lockForReconcile
      BY <1>1, <2>1 DEF lockForReconcile
    <2>2. CASE rotate
      <3>1. audit.rotations < MaxRotations
        BY <2>2 DEF rotate
      <3>2. NextSnapshot \in Snapshots
        BY <3>1, RoomLeft, NextIsFresh DEF ServerInv
      <3>3. PICK n \in 0 .. MaxRotations : n = audit.rotations + 1
        BY <1>1, <3>1, ServerAssumption
      <3>4. audit' = [audit EXCEPT !.pc = "publish", !.new = NextSnapshot,
                                   !.rotations = n]
        BY <2>2, <3>3 DEF rotate
      <3> QED BY <1>1, <2>2, <3>2, <3>4 DEF rotate
    <2>3. CASE endReconcile
      BY <1>1, <2>3 DEF endReconcile
    <2>4. CASE publishRotation
      BY <1>1, <2>4 DEF publishRotation
    <2>5. CASE closeRotated
      BY <1>1, <2>5 DEF closeRotated
    <2>6. CASE endAudit
      BY <1>1, <2>6 DEF endAudit
    <2> QED BY <2>1, <2>2, <2>3, <2>4, <2>5, <2>6 DEF AuditStep
  <1> QED BY <1>1, <1>2, <1>3 DEF ControlType

\* The scheduler at work is alone, and not while the server starts or stops.
LEMMA SchedulerAlone ==
    ASSUME ServerInv, audit.pc \notin {"absent", "exited"}
    PROVE  /\ AuditHolds => ~WatcherHolds
           /\ ~Stopped /\ ~Starting
           /\ main # "stopWorkers" /\ main # "publish"
  BY DEF ServerInv, Control, OneHolder, QuietStart, Closing, Starting, Stopped

\* The steps of the scheduler keep the exclusions between the goroutines.
LEMMA AuditControlled ==
    ASSUME ServerInv, AuditStep
    PROVE  Control'
  <1> USE DEF auditRest
  <1>1. ControlType /\ Control /\ audit \in AuditRecord
    BY DEF ServerInv, ControlType
  <1>2. UNCHANGED auditRest /\ audit.pc \notin {"absent", "exited"}
    BY DEF AuditStep, lockForReconcile, rotate, endReconcile, publishRotation,
           closeRotated, endAudit
  <1>3. ~Stopped /\ ~Starting /\ (AuditHolds => ~WatcherHolds)
    BY <1>2, SchedulerAlone
  <1>4. Drained' = Drained /\ WatcherHolds' = WatcherHolds
        /\ Stopped' = Stopped /\ Starting' = Starting /\ Stopping' = Stopping
    BY <1>2 DEF Drained, WatcherHolds, Stopped, Starting, Stopping
  <1>5. AuditHolds' => AuditHolds \/ ~WatcherHolds
    BY <1>1 DEF AuditStep, lockForReconcile, rotate, endReconcile,
           publishRotation, closeRotated, endAudit, AuditHolds, LifecycleFree,
           AuditRecord
  <1>6. OneHolder' /\ QuietStart' /\ Closing' /\ Cancellable'
    BY <1>1, <1>2, <1>3, <1>4, <1>5 DEF Control, OneHolder, QuietStart, Closing,
       Cancellable, Stopped
  <1>7. runtime' = runtime \/ runtime' # Nil
    <2>1. CASE publishRotation
      <3>1. audit.pc = "publish" /\ ~WatcherHolds
        BY <1>3, <2>1 DEF publishRotation, AuditHolds
      <3>2. Kept = audit.new /\ Unpublished
        BY <3>1 DEF Kept, Unpublished, WatcherHolds
      <3>3. audit.new # Nil
        BY <3>2 DEF ServerInv, StoreInv, OpenIsHeld
      <3> QED BY <2>1, <3>3 DEF publishRotation, publishRuntimeLocked
    <2>2. CASE ~publishRotation
      BY <2>2 DEF AuditStep, lockForReconcile, rotate, endReconcile,
             closeRotated, endAudit
    <2> QED BY <2>1, <2>2
  <1>8. WithdrawnOnlyForReset'
    BY <1>1, <1>2, <1>7 DEF Control, WithdrawnOnlyForReset
  <1>9. Reconciles'
    <2>1. CASE lockForReconcile
      BY <2>1 DEF lockForReconcile, Reconciles, usable
    <2>2. CASE ~lockForReconcile
      <3>1. audit'.pc # "reconcile"
        BY <1>1, <2>2 DEF AuditStep, rotate, endReconcile, publishRotation,
           closeRotated, endAudit, AuditRecord
      <3> QED BY <3>1 DEF Reconciles
    <2> QED BY <2>1, <2>2
  <1> QED BY <1>6, <1>8, <1>9 DEF Control

\* A rotation makes, publishes and closes snapshots as they are owed.
LEMMA AuditKeeps ==
    ASSUME ServerInv, AuditStep, ControlType'
    PROVE  BornInOrder' /\ StoreInv'
  <1> USE DEF auditRest
  <1>1. /\ StoreInv /\ StoreType /\ audit \in AuditRecord
        /\ edits \in Nat /\ audit.rotations \in Nat /\ audit'.rotations \in Nat
    BY ServerAssumption DEF ServerInv, StoreInv, ControlType, AuditRecord
  <1>2. UNCHANGED auditRest /\ audit.pc \notin {"absent", "exited"}
    BY DEF AuditStep, lockForReconcile, rotate, endReconcile, publishRotation,
           closeRotated, endAudit
  <1>3. /\ ~Stopped /\ ~Starting /\ (AuditHolds => ~WatcherHolds)
        /\ main # "stopWorkers" /\ main # "publish"
    BY <1>2, SchedulerAlone
  <1>4. Owed' = Owed /\ Owed \in Nat
    BY <1>2 DEF Owed
  <1>5. \A s \in Snapshots : UNCHANGED snap => Born(s)' = Born(s)
    BY DEF Born
  <1>6. CASE rotate
    <2>1. /\ audit.pc = "reconcile" /\ audit'.pc = "publish"
          /\ audit'.new = NextSnapshot
          /\ audit'.rotations = audit.rotations + 1
          /\ audit.rotations < MaxRotations
          /\ newRuntimeSnapshot(snap[runtime].cfg, NewBucket, snap[runtime].inf)
          /\ UNCHANGED <<runtime, generation>>
      BY <1>1, <1>6 DEF rotate, AuditRecord
    <2>2. ~WatcherHolds
      BY <1>3, <2>1 DEF AuditHolds
    <2>3. /\ NextSnapshot \in Snapshots /\ ~Born(NextSnapshot)
          /\ \A t \in 1 .. (NextSnapshot - 1) : Born(t)
      BY <2>1, RoomLeft, NextIsFresh DEF ServerInv
    <2>4. NewBucket \notin Buckets
      BY <1>1, NewBucketFresh DEF StoreInv
    <2>5. Kept = Nil /\ Kept' = NextSnapshot /\ Unpublished'
      BY <1>2, <1>3, <2>1, <2>2 DEF Kept, Unpublished, WatcherHolds
    <2>6. runtime \in Snapshots /\ runtime # Nil /\ snap[runtime].st = "open"
      <3>1. usable(runtime)
        BY <2>1 DEF ServerInv, Control, Reconciles
      <3> QED BY <1>1, <3>1 DEF usable, StoreInv, StoreType, OpenIsHeld
    <2>7. /\ snap[runtime].cfg \in Configurations
          /\ snap[runtime].inf \in Inferences
          /\ runtime \in OpenOn(snap[runtime].inf)
      BY <1>1, <2>6 DEF StoreType, SnapshotRecord, OpenOn
    <2>8. /\ StoreInv'
          /\ \A t \in Snapshots : Born(t)' <=> (Born(t) \/ t = NextSnapshot)
      BY <1>1, <1>2, <2>1, <2>3, <2>4, <2>5, <2>7, SnapshotMade
    <2>9. Owed' + 1 + edits + audit.rotations <= Owed + edits' + audit'.rotations
      BY <1>1, <1>2, <1>4, <2>1
    <2>10. BornInOrder'
      BY <1>1, <1>2, <1>3, <2>3, <2>8, <2>9, OneBirth DEF ServerInv, Starting
    <2> QED BY <2>8, <2>10
  <1>7. CASE ~rotate
    <2>1. audit'.rotations = audit.rotations
      BY <1>1, <1>7 DEF AuditStep, lockForReconcile, endReconcile,
         publishRotation, closeRotated, endAudit, AuditRecord
    <2>2. /\ StoreInv'
          /\ \A s \in Snapshots : snap'[s].cfg = snap[s].cfg /\ Born(s)' = Born(s)
      <3>1. CASE publishRotation
        <4>1. /\ audit.pc = "publish" /\ audit'.pc = "closeOld"
              /\ audit'.new = runtime /\ publishRuntimeLocked(audit.new)
              /\ UNCHANGED inference
          BY <1>1, <3>1 DEF publishRotation, AuditRecord
        <4>2. ~WatcherHolds
          BY <1>3, <4>1 DEF AuditHolds
        <4>3. Kept = audit.new /\ Unpublished /\ Kept' = runtime /\ ~Unpublished'
          BY <1>2, <1>3, <4>1, <4>2 DEF Kept, Unpublished, WatcherHolds
        <4>4. Kept \in Snapshots
          BY <1>1, <4>3 DEF StoreInv, OpenIsHeld
        <4>5. \A c \in Calls : ~Reading(c)
          BY <3>1 DEF publishRotation, CanWrite, Readers, Reading
        <4>6. StoreInv'
          BY <1>1, <1>2, <4>1, <4>3, <4>4, <4>5, PublishKeepsStore
        <4> QED BY <1>1, <4>1, <4>3, <4>4, <4>6, PublishKeepsBorn
      <3>2. CASE closeRotated
        <4>1. /\ audit.pc = "closeOld" /\ audit'.pc = "loop"
              /\ closeSnapshot(audit.new) /\ UNCHANGED <<runtime, generation>>
          BY <1>1, <3>2 DEF closeRotated, AuditRecord
        <4>2. ~WatcherHolds
          BY <1>3, <4>1 DEF AuditHolds
        <4>3. Kept = audit.new /\ Kept' = Nil /\ ~Unpublished'
          BY <1>2, <1>3, <4>1, <4>2 DEF Kept, Unpublished, WatcherHolds
        <4>4. StoreInv'
          BY <1>1, <1>2, <4>1, <4>3, CloseKeepsStore
        <4>5. Kept \in Snapshots \cup {Nil} /\ (Kept = Nil \/ Born(Kept))
          BY <1>1 DEF StoreInv, OpenIsHeld, Born
        <4> QED BY <1>1, <4>1, <4>3, <4>4, <4>5, CloseKeepsBorn
      <3>3. CASE lockForReconcile \/ endReconcile \/ endAudit
        <4>1. /\ audit.pc \in {"loop", "reconcile"}
              /\ audit'.pc \in {"loop", "reconcile", "exited"}
              /\ UNCHANGED <<runtime, snap, inference, generation>>
          BY <1>1, <3>3 DEF lockForReconcile, endReconcile, endAudit, AuditRecord
        <4>2. Kept' = Kept /\ Unpublished' = Unpublished
          BY <1>2, <1>3, <4>1 DEF Kept, Unpublished
        <4> QED BY <1>1, <1>2, <1>5, <4>1, <4>2, IdleKeepsStore
      <3> QED BY <1>7, <3>1, <3>2, <3>3 DEF AuditStep
    <2> QED BY <1>1, <1>2, <1>4, <2>1, <2>2, NoBirth DEF ServerInv
  <1> QED BY <1>6, <1>7

\* Every step of the scheduler keeps the invariant.
LEMMA AuditKeepsAll ==
    ASSUME ServerInv, AuditStep PROVE ServerInv'
  BY AuditTyped, AuditControlled, AuditKeeps DEF ServerInv

----------------------------------------------------------------------------
(* Run, Close and what happens around them.                                  *)

MainStep == Starts \/ serveReturns \/ Closes \/ Environment

\* The steps of main and around it keep the types.
LEMMA MainTyped ==
    ASSUME ServerInv, MainStep
    PROVE  ControlType' /\ audit'.rotations = audit.rotations
  <1> USE DEF mainRest
  <1>1. ControlType /\ audit \in AuditRecord /\ updates \in UpdatesRecord
        /\ runtime \in Snapshots \cup {Nil}
    BY DEF ServerInv, ControlType, StoreInv, StoreType
  <1>2. audit' \in AuditRecord /\ audit'.rotations = audit.rotations
        /\ auditRequested' \in BOOLEAN
    <2>1. \/ audit' = audit
          \/ audit' = [audit EXCEPT !.pc = "loop", !.parent = "run"]
          \/ audit' = [audit EXCEPT !.canceled = (audit.pc # "absent")]
          \/ audit' = [audit EXCEPT !.new = runtime]
      BY DEF MainStep, Starts, Closes, Environment, newServer, publishFirst,
             StartUpdateScheduler, serveAfterReadiness, serveReturns,
             cancelLifetime, lockForClose, swapForClose, closeLast,
             startStorageFails, newServerFails, Signal, StopForRelaunch,
             serveFails, EditConfig, StartAuditScheduler
    <2>2. auditRequested' = auditRequested \/ auditRequested' = TRUE
      BY DEF MainStep, Starts, Closes, Environment, newServer, publishFirst,
             StartUpdateScheduler, serveAfterReadiness, serveReturns,
             cancelLifetime, lockForClose, swapForClose, closeLast,
             startStorageFails, newServerFails, Signal, StopForRelaunch,
             serveFails, EditConfig, StartAuditScheduler
    <2> QED BY <1>1, <2>1, <2>2 DEF AuditRecord, AuditPcs, ControlType
  <1>3. updates' \in UpdatesRecord
    <2>1. CASE StartUpdateScheduler
      <3>1. PICK alive \in SUBSET Nat :
              alive = (updates.live \ {updates.cancel}) \cup {updates.next}
        BY <1>1 DEF UpdatesRecord
      <3>2. PICK n \in Nat, m \in Nat : n = updates.next /\ m = updates.next + 1
        BY <1>1 DEF UpdatesRecord
      <3>3. startUpdates = [updates EXCEPT !.live = alive, !.cancel = n, !.next = m]
        BY <3>1, <3>2, Zenon DEF startUpdates
      <3>4. updates' = [startUpdates EXCEPT !.requested = TRUE]
        BY <2>1 DEF StartUpdateScheduler
      <3>5. startUpdates \in UpdatesRecord
        BY <1>1, <3>3 DEF UpdatesRecord
      <3> QED BY <3>4, <3>5 DEF UpdatesRecord
    <2>2. CASE swapForClose
      <3>1. PICK alive \in SUBSET Nat : alive = updates.live \ {updates.cancel}
        BY <1>1 DEF UpdatesRecord
      <3>2. updates' = [updates EXCEPT !.live = alive, !.cancel = Nil]
        BY <2>2, <3>1, Zenon DEF swapForClose
      <3> QED BY <1>1, <3>2 DEF UpdatesRecord, Nil
    <2>3. CASE ~StartUpdateScheduler /\ ~swapForClose
      <3>1. UNCHANGED updates
        BY <2>3 DEF MainStep, Starts, Closes, Environment, newServer,
             publishFirst, serveAfterReadiness, serveReturns, cancelLifetime,
             lockForClose, closeLast, startStorageFails, newServerFails,
             Signal, StopForRelaunch, serveFails, EditConfig
      <3> QED BY <1>1, <3>1
    <2> QED BY <2>1, <2>2, <2>3
  <1>4. /\ watcher' = watcher /\ file' \in Configs
        /\ pending' \in BOOLEAN /\ paused' \in BOOLEAN
        /\ signal' \in BOOLEAN /\ shutdown' \in BOOLEAN /\ closing' \in BOOLEAN
        /\ stopping' \in BOOLEAN /\ main' \in MainPcs
        /\ edits' \in 0 .. MaxEdits
    <2> USE <1>1 DEF ControlType, MainPcs
    <2>1. CASE Starts
      BY <2>1 DEF Starts, newServer, publishFirst, StartUpdateScheduler,
                  serveAfterReadiness
    <2>2. CASE serveReturns \/ Closes
      BY <2>2 DEF serveReturns, Closes, cancelLifetime, lockForClose,
                  swapForClose, closeLast
    <2>3. CASE Environment
      <3>1. CASE startStorageFails \/ newServerFails \/ serveFails
        BY <3>1 DEF startStorageFails, newServerFails, serveFails
      <3>2. CASE Signal \/ StopForRelaunch
        BY <3>2 DEF Signal, StopForRelaunch
      <3>3. ASSUME NEW c \in Configs, EditConfig(c)
            PROVE  <1>4!:
        BY <3>3, ServerAssumption DEF EditConfig, Watching
      <3> QED BY <2>3, <3>1, <3>2, <3>3 DEF Environment
    <2> QED BY <2>1, <2>2, <2>3 DEF MainStep
  <1> QED BY <1>1, <1>2, <1>3, <1>4 DEF ControlType

\* The steps of main keep the exclusions between the goroutines.
LEMMA MainControlled ==
    ASSUME ServerInv, MainStep
    PROVE  Control'
  <1>0. audit \in AuditRecord
    BY DEF ServerInv, ControlType
  <1> USE DEF mainRest, WatcherHolds, AuditHolds, LifecycleFree, Control
  <1>1. ControlType /\ Control /\ audit \in AuditRecord /\ updates \in UpdatesRecord
    BY DEF ServerInv, ControlType
  <1>2. UNCHANGED <<watcher, call, job>> /\ Drained' = Drained
    BY DEF MainStep, Starts, Closes, Environment, newServer, publishFirst,
           StartUpdateScheduler, serveAfterReadiness, serveReturns,
           cancelLifetime, lockForClose, swapForClose, closeLast,
           startStorageFails, newServerFails, Signal, StopForRelaunch,
           serveFails, EditConfig, Drained
  <1> USE DEF OneHolder, QuietStart, Closing, Reconciles, Cancellable,
              WithdrawnOnlyForReset, Starting, Stopped, Stopping, usable
  <1>3. CASE newServer
    BY <1>1, <1>2, <1>3 DEF newServer
  <1>4. CASE publishFirst
    BY <1>1, <1>2, <1>4, SnapshotNumbers DEF publishFirst, publishRuntimeLocked
  <1>5. CASE StartUpdateScheduler
    <2>1. updates'.live \subseteq {updates'.cancel}
      BY <1>1, <1>5 DEF StartUpdateScheduler, startUpdates, UpdatesRecord
    <2> QED BY <1>1, <1>2, <1>5, <2>1 DEF StartUpdateScheduler
  <1>6. CASE serveAfterReadiness
    <2>1. audit' = audit \/ (audit'.pc = "loop" /\ audit.pc = "absent")
      <3>1. \/ audit' = audit
            \/ audit' = [audit EXCEPT !.pc = "loop", !.parent = "run"]
               /\ audit.pc = "absent"
        BY <1>6 DEF serveAfterReadiness, StartAuditScheduler
      <3> QED BY <1>0, <3>1 DEF AuditRecord, AuditPcs
    <2> QED BY <1>1, <1>2, <1>6, <2>1 DEF serveAfterReadiness
  <1>7. CASE serveReturns \/ serveFails \/ StopForRelaunch
    BY <1>1, <1>2, <1>7 DEF serveReturns, serveFails, StopForRelaunch
  <1>8. CASE startStorageFails \/ newServerFails
    BY <1>1, <1>2, <1>8 DEF startStorageFails, newServerFails
  <1>9. CASE Signal
    BY <1>1, <1>2, <1>9 DEF Signal
  <1>10. CASE cancelLifetime
    <2>1. audit'.pc = audit.pc
      BY <1>1, <1>10 DEF cancelLifetime, AuditRecord
    <2> QED BY <1>1, <1>2, <1>10, <2>1 DEF cancelLifetime
  <1>11. CASE lockForClose
    BY <1>1, <1>2, <1>11 DEF lockForClose
  <1>12. CASE swapForClose
    <2>1. audit'.pc = audit.pc /\ updates'.live = {}
      BY <1>1, <1>12 DEF swapForClose, AuditRecord, UpdatesRecord
    <2> QED BY <1>1, <1>2, <1>12, <2>1 DEF swapForClose
  <1>13. CASE closeLast
    BY <1>1, <1>2, <1>13 DEF closeLast
  <1>14. ASSUME NEW c \in Configs, EditConfig(c) PROVE Control'
    BY <1>1, <1>2, <1>14 DEF EditConfig, Watching
  <1> QED BY <1>3, <1>4, <1>5, <1>6, <1>7, <1>8, <1>9, <1>10, <1>11, <1>12,
             <1>13, <1>14 DEF MainStep, Starts, Closes, Environment

\* The first snapshot, with or without storage.
LEMMA FirstBorn ==
    ASSUME ServerInv, newServer, ControlType'
    PROVE  BornInOrder' /\ StoreInv'
  <1> USE DEF mainRest
  <1>1. /\ StoreInv /\ ControlType /\ edits \in Nat /\ audit.rotations \in Nat
        /\ edits' = edits /\ audit' = audit /\ watcher' = watcher
        /\ main = "init" /\ main' = "publish"
        /\ UNCHANGED <<runtime, generation, call, job, pending>>
    BY ServerAssumption DEF newServer, ServerInv, ControlType, AuditRecord
  <1>2. /\ ~pending /\ watcher.pc = "idle" /\ audit.pc = "absent"
        /\ runtime = Nil
    BY <1>1 DEF ServerInv, Control, QuietStart, Starting
  <1>3. ~Born(1) /\ 1 \in Snapshots
    BY <1>1, SnapshotNumbers DEF ServerInv, BornInOrder
  <1>4. /\ NextSnapshot \in Snapshots /\ ~Born(NextSnapshot)
        /\ \A t \in 1 .. (NextSnapshot - 1) : Born(t)
    BY <1>3, NextIsFresh
  <1>5. NextSnapshot = 1
    <2>1. NextSnapshot \in Nat /\ NextSnapshot >= 1
      BY <1>4, ServerAssumption DEF Snapshots
    <2> QED BY <1>3, <1>4, <2>1
  <1>6. Kept = Nil /\ Kept' = 1 /\ Unpublished' /\ Owed' = 0
    BY <1>1, <1>2 DEF Kept, Unpublished, Owed
  <1>7. file \in Configurations /\ Nil \in Inferences
    BY <1>1 DEF ControlType, Configurations, Inferences
  <1>8. /\ StoreInv'
        /\ \A t \in Snapshots : Born(t)' <=> (Born(t) \/ t = 1)
    <2>1. CASE file.kind = "good"
      <3>1. newRuntimeSnapshot(file, NewBucket, Nil)
        BY <2>1 DEF newServer
      <3>2. NewBucket \notin Buckets
        BY <1>1, NewBucketFresh DEF StoreInv
      <3> QED BY <1>1, <1>4, <1>5, <1>6, <1>7, <3>1, <3>2, SnapshotMade
    <2>2. CASE file.kind # "good"
      <3> DEFINE new == [Unborn EXCEPT !.st = "open", !.cfg = file]
      <3>1. snap' = [snap EXCEPT ![1] = new]
        BY <2>2 DEF newServer
      <3>6. Made(new, file, Nil, Nil)
        BY <1>7 DEF Made, Unborn, SnapshotRecord, Nil
      <3> HIDE DEF new
      <3>2. inference' = IF Nil = Nil THEN inference ELSE retain(Nil)
        BY <2>2 DEF newServer
      <3>3. Nil \notin Buckets
        BY DEF Buckets
      <3>4. StoreInv'
        BY <1>1, <1>3, <1>6, <1>7, <2>2, <3>1, <3>2, <3>3, <3>6,
           NewKeepsStore
      <3>5. \A t \in Snapshots : Born(t)' <=> (Born(t) \/ t = 1)
        BY <1>1, <1>3, <3>1, <3>6 DEF Born, StoreInv, StoreType, Made
      <3> QED BY <3>4, <3>5
    <2> QED BY <2>1, <2>2
  <1>9. \A t \in 1 .. (1 - 1) : Born(t)
    OBVIOUS
  <1>10. Owed' <= edits' + audit'.rotations
    BY <1>1, <1>6
  <1>11. BornInOrder'
    BY <1>1, <1>3, <1>8, <1>9, <1>10, OneBirth DEF ServerInv
  <1> QED BY <1>8, <1>11

\* The other steps of main and around it bring no snapshot about.
LEMMA MainKeeps ==
    ASSUME ServerInv, MainStep, ControlType'
    PROVE  BornInOrder' /\ StoreInv'
  <1> USE DEF mainRest
  <1>0. edits \in Nat /\ audit.rotations \in Nat /\ edits' \in Nat
    BY ServerAssumption DEF ServerInv, ControlType, AuditRecord
  <1>1. /\ StoreInv /\ StoreType /\ Control /\ audit \in AuditRecord
    BY ServerAssumption DEF ServerInv, StoreInv, ControlType, AuditRecord
  <1>2. CASE newServer
    BY <1>2, FirstBorn
  <1>3. CASE ~newServer
    <2>1. UNCHANGED <<watcher, call, job>>
      BY <1>3 DEF MainStep, Starts, Closes, Environment, publishFirst,
           StartUpdateScheduler, serveAfterReadiness, serveReturns,
           cancelLifetime, lockForClose, swapForClose, closeLast,
           startStorageFails, newServerFails, Signal, StopForRelaunch,
           serveFails, EditConfig
    <2>2. PICK o \in Nat, p \in Nat :
            o = Owed /\ p = Owed' /\ p + edits <= o + edits'
      <3>1. ASSUME NEW c \in Configs, EditConfig(c) PROVE edits' = edits + 1
        BY <3>1 DEF EditConfig
      <3>2. (\A c \in Configs : ~EditConfig(c)) => UNCHANGED <<pending, edits>>
        BY <1>3 DEF MainStep, Starts, Closes, Environment, publishFirst,
           StartUpdateScheduler, serveAfterReadiness, serveReturns,
           cancelLifetime, lockForClose, swapForClose, closeLast,
           startStorageFails, newServerFails, Signal, StopForRelaunch,
           serveFails
      <3>3. PICK o \in Nat, p \in Nat :
              /\ o = Owed /\ p = Owed' /\ p <= o + 1
              /\ UNCHANGED pending => p = o
        BY <2>1 DEF Owed
      <3>4. p + edits <= o + edits'
        <4>1. CASE \E c \in Configs : EditConfig(c)
          <5>1. edits' = edits + 1 /\ edits \in Nat
            BY <1>0, <3>1, <4>1
          <5>2. p <= o + 1
            BY <3>3
          <5> QED BY <5>1, <5>2
        <4>2. CASE \A c \in Configs : ~EditConfig(c)
          <5>1. edits' = edits /\ p = o
            BY <3>2, <3>3, <4>2
          <5> QED BY <5>1, <1>0
        <4> QED BY <4>1, <4>2
      <3> QED BY <3>3, <3>4
    <2>3. main' \in {"init", "failed"} <=> main \in {"init", "failed"}
      BY <1>3 DEF MainStep, Starts, Closes, Environment, publishFirst,
           StartUpdateScheduler, serveAfterReadiness, serveReturns,
           cancelLifetime, lockForClose, swapForClose, closeLast,
           startStorageFails, newServerFails, Signal, StopForRelaunch,
           serveFails, EditConfig
    <2>4. /\ StoreInv'
          /\ \A s \in Snapshots : snap'[s].cfg = snap[s].cfg /\ Born(s)' = Born(s)
      <3>1. CASE publishFirst
        <4>1. /\ watcher.pc = "idle" /\ audit.pc = "absent" /\ runtime = Nil
              /\ \A c \in Calls : ~Reading(c)
          BY <1>1, <3>1 DEF publishFirst, Control, QuietStart, Starting, Reading
        <4>2. /\ publishRuntimeLocked(1) /\ UNCHANGED <<inference, audit>>
              /\ main = "publish" /\ main' = "created"
          BY <3>1 DEF publishFirst
        <4>3. Kept = 1 /\ Unpublished /\ Kept' = runtime /\ ~Unpublished'
          BY <2>1, <4>1, <4>2 DEF Kept, Unpublished
        <4>4. StoreInv'
          BY <1>1, <2>1, <4>1, <4>2, <4>3, SnapshotNumbers, PublishKeepsStore
        <4> QED BY <1>1, <4>2, <4>4, SnapshotNumbers, PublishKeepsBorn
      <3>2. CASE swapForClose
        <4>1. /\ ~WatcherHolds /\ audit.pc \in {"absent", "exited"}
          BY <1>1, <3>2 DEF swapForClose, Control, OneHolder, Closing, Stopped
        <4>2. /\ audit'.pc = audit.pc /\ audit'.new = runtime
              /\ main = "swap" /\ main' = "stopWorkers" /\ runtime' = Nil
              /\ UNCHANGED <<snap, inference, generation>>
              /\ \A c \in Calls : ~Reading(c)
          BY <1>1, <3>2 DEF swapForClose, AuditRecord, CanWrite, Readers, Reading
        <4>3. Kept = Nil /\ Kept' = runtime /\ ~Unpublished'
          BY <2>1, <4>1, <4>2 DEF Kept, Unpublished, WatcherHolds
        <4>4. StoreInv'
          BY <1>1, <2>1, <4>2, <4>3, WithdrawKeepsStore
        <4> QED BY <4>2, <4>4 DEF Born
      <3>3. CASE closeLast
        <4>1. /\ ~WatcherHolds /\ audit.pc \in {"absent", "exited"}
          BY <1>1, <3>3 DEF closeLast, Control, OneHolder, Closing, Stopped
        <4>2. /\ main = "stopWorkers" /\ main' = "done"
              /\ closeSnapshot(audit.new)
              /\ UNCHANGED <<runtime, generation, audit>>
          BY <3>3 DEF closeLast
        <4>3. Kept = audit.new /\ Kept' = Nil /\ ~Unpublished'
          BY <2>1, <4>1, <4>2 DEF Kept, Unpublished, WatcherHolds
        <4>4. StoreInv'
          BY <1>1, <2>1, <4>2, <4>3, CloseKeepsStore
        <4>5. Kept \in Snapshots \cup {Nil} /\ (Kept = Nil \/ Born(Kept))
          BY <1>1 DEF StoreInv, OpenIsHeld, Born
        <4> QED BY <1>1, <4>2, <4>3, <4>4, <4>5, CloseKeepsBorn
      <3>4. CASE ~publishFirst /\ ~swapForClose /\ ~closeLast
        <4>1. /\ UNCHANGED <<runtime, snap, inference, generation>>
              /\ main # "publish" => main' # "publish"
              /\ main # "stopWorkers" => main' # "stopWorkers"
              /\ main \in {"publish", "stopWorkers"} => main' = main
          BY <1>3, <3>4 DEF MainStep, Starts, Closes, Environment,
             StartUpdateScheduler, serveAfterReadiness, serveReturns,
             cancelLifetime, lockForClose, startStorageFails, newServerFails,
             Signal, StopForRelaunch, serveFails, EditConfig
        <4>2. \/ audit' = audit
              \/ /\ audit'.new = audit.new
                 /\ \/ audit'.pc = audit.pc
                    \/ audit.pc = "absent" /\ audit'.pc = "loop"
          <5>1. \/ audit' = audit
                \/ audit' = [audit EXCEPT !.pc = "loop", !.parent = "run"]
                   /\ audit.pc = "absent"
                \/ audit' = [audit EXCEPT !.canceled = (audit.pc # "absent")]
            BY <1>3, <3>4 DEF MainStep, Starts, Closes, Environment,
             StartUpdateScheduler, serveAfterReadiness, serveReturns,
             cancelLifetime, lockForClose, startStorageFails, newServerFails,
             Signal, StopForRelaunch, serveFails, EditConfig,
             StartAuditScheduler
          <5>2. audit \in AuditRecord
            BY <1>1
          <5>3. PICK b \in BOOLEAN : b = (audit.pc # "absent")
            OBVIOUS
          <5>4. CASE audit' = [audit EXCEPT !.canceled = b]
            BY <5>2, <5>4 DEF AuditRecord, AuditPcs
          <5>5. CASE /\ audit' = [audit EXCEPT !.pc = "loop", !.parent = "run"]
                     /\ audit.pc = "absent"
            BY <5>2, <5>5 DEF AuditRecord, AuditPcs
          <5> QED BY <5>1, <5>3, <5>4, <5>5
        <4>3. Kept' = Kept /\ Unpublished' = Unpublished
          BY <2>1, <4>1, <4>2 DEF Kept, Unpublished
        <4>4. StoreInv'
          BY <1>1, <2>1, <4>1, <4>3, IdleKeepsStore
        <4> QED BY <4>1, <4>4 DEF Born
      <3> QED BY <3>1, <3>2, <3>3, <3>4
    <2>5. PICK r \in Nat : r = audit.rotations /\ r = audit'.rotations
      BY <1>0, MainTyped
    <2>6. Owed' + edits + audit.rotations <= Owed + edits' + audit'.rotations
      <3>1. PICK e \in Nat, f \in Nat : e = edits /\ f = edits'
        BY <1>0
      <3>2. p + e <= o + f
        BY <2>2, <3>1
      <3>3. p + e + r <= o + f + r
        BY <3>2
      <3> QED BY <2>2, <2>5, <3>1, <3>3
    <2> QED BY <1>0, <2>3, <2>4, <2>6, <2>5, NoBirth DEF ServerInv
  <1> QED BY <1>2, <1>3

\* Every step of main and around it keeps the invariant.
LEMMA MainKeepsAll ==
    ASSUME ServerInv, MainStep PROVE ServerInv'
  BY MainTyped, MainControlled, MainKeeps DEF ServerInv

----------------------------------------------------------------------------
(* The invariant and what it says.                                           *)

\* The invariant holds at the start.
LEMMA ServerStarts == ServerInit => ServerInv
  <1> SUFFICES ASSUME ServerInit PROVE ServerInv
    OBVIOUS
  <1> USE DEF ServerInit
  <1>1. ControlType
    <2>1. watcher \in WatcherRecord
      BY DEF WatcherRecord, WatcherPcs, idle, Configurations
    <2>2. audit \in AuditRecord
      BY ServerAssumption DEF AuditRecord, AuditPcs
    <2>3. updates \in UpdatesRecord
      BY DEF UpdatesRecord, Nil
    <2>4. edits \in 0 .. MaxEdits
      BY ServerAssumption
    <2> QED BY <2>1, <2>2, <2>3, <2>4 DEF ControlType, MainPcs
  <1>2. Control
    BY DEF Control, OneHolder, QuietStart, Closing, Reconciles, Cancellable,
       WithdrawnOnlyForReset, WatcherHolds, AuditHolds, Stopped, Stopping,
       Starting, idle, IdleCall, Drained
  <1>3. \A s \in Snapshots : ~Born(s) /\ snap[s] = Unborn
    BY DEF Born, Unborn
  <1>4. BornInOrder
    BY <1>3, SnapshotNumbers DEF BornInOrder
  <1>5. StoreType
    BY ServerAssumption DEF StoreType, SnapshotRecord, Configurations, Unborn,
       NoConfig, Inferences, CallPcs, IdleCall, Nil
  <1>6. Kept = Nil /\ ~Unpublished
    BY DEF Kept, Unpublished, idle
  <1>7. OpenIsHeld /\ Equipped /\ ReadersSeeRuntime
    BY <1>3, <1>6, SnapshotNumbers DEF OpenIsHeld, Equipped, ReadersSeeRuntime, Reading,
       IdleCall, Unborn, NoConfig, Born
  <1>8. \A s \in Snapshots : OpenOn(s) = {} /\ JobsOn(s) = {} /\ Evaluating(s) = {}
    BY <1>3, SnapshotNumbers DEF OpenOn, JobsOn, Evaluating, IdleCall, Unborn
  <1>9. IsFiniteSet({}) /\ Cardinality({}) = 0
    BY FS_EmptySet
  <1>10. References
    <2>1. \A i \in Snapshots : inference[i].references = 0 /\ ~inference[i].closed
      OBVIOUS
    <2> HIDE DEF ServerInit
    <2>2. 0 = 0 + 0
      OBVIOUS
    <2> QED BY <1>8, <1>9, <2>1, <2>2 DEF References
  <1>11. Slots
    <2>1. \A s \in Snapshots : snap[s].slots = 0
      BY <1>3 DEF Unborn
    <2> HIDE DEF ServerInit
    <2> QED BY <1>8, <1>9, <2>1, ServerAssumption DEF Slots
  <1>12. Buckets = {}
    BY <1>3 DEF Buckets, Unborn
  <1>13. BucketsDense
    BY <1>3, <1>9, <1>12 DEF BucketsDense, Unborn
  <1>14. Generations
    BY <1>3, <1>6, SnapshotNumbers DEF Generations, GenerationsFollowFiles, Unborn
  <1> QED BY <1>1, <1>2, <1>4, <1>5, <1>7, <1>10, <1>11, <1>13, <1>14
          DEF ServerInv, StoreInv

\* Every step keeps the invariant.
LEMMA ServerKeeps == ServerInv /\ [ServerNext]_daemonVars => ServerInv'
  <1> SUFFICES ASSUME ServerInv, [ServerNext]_daemonVars PROVE ServerInv'
    OBVIOUS
  <1>1. CASE UNCHANGED daemonVars
    <2>1. UNCHANGED <<file, pending, runtime, snap, inference, generation, call,
                      job, paused, watcher, audit, auditRequested, main, signal,
                      shutdown, closing, stopping, updates, edits>>
      BY <1>1 DEF daemonVars
    <2>2. \A s \in Snapshots : snap'[s].cfg = snap[s].cfg /\ Born(s)' = Born(s)
      BY <2>1 DEF Born
    <2>3. main = "done" => Drained'
      BY <2>1 DEF ServerInv, Control, Closing, Drained
    <2>4. /\ ControlType' /\ Control' /\ BornInOrder'
          /\ Kept' = Kept /\ Unpublished' = Unpublished
      BY <2>1, <2>2, <2>3, ControlKept
    <2> QED BY <2>1, <2>4, IdleKeepsStore DEF ServerInv
  <1>2. CASE \E c \in Calls : CallStep(c)
    BY <1>2, CallKeeps
  <1>3. CASE \E j \in Jobs : JobStep(j)
    BY <1>3, JobKeeps
  <1>4. CASE WatcherStep
    BY <1>4, WatcherKeepsAll
  <1>5. CASE AuditStep
    BY <1>5, AuditKeepsAll
  <1>6. CASE MainStep
    BY <1>6, MainKeepsAll
  <1> QED BY <1>1, <1>2, <1>3, <1>4, <1>5, <1>6 DEF ServerNext, MainStep

\* The invariant holds in every state.
LEMMA ServerInvariant == ServerSpec => []ServerInv
  BY ServerStarts, ServerKeeps, PTL DEF ServerSpec

\* What holds in every state of the invariant.
LEMMA InUse == ServerInv => SnapshotsInUse
  <1> SUFFICES ASSUME ServerInv PROVE SnapshotsInUse
    OBVIOUS
  <1>1. StoreInv /\ StoreType /\ ControlType
    BY DEF ServerInv, StoreInv
  <1>2. ServerTypeOK
    <2>1. file \in Configs /\ runtime \in Snapshots \cup {Nil}
          /\ job \in [Jobs -> Snapshots \cup {Nil}]
      BY <1>1 DEF ControlType, StoreType, Inferences
    <2>2. \A s \in Snapshots : /\ snap[s].st \in {"none", "open", "closed"}
                               /\ inference[s].references \in Nat
      BY <1>1 DEF StoreType, SnapshotRecord
    <2>3. \A s \in Snapshots : snap[s].slots \in 0 .. HotConcurrency
      BY <1>1, ServerAssumption DEF StoreInv, Slots, StoreType, SnapshotRecord
    <2>4. \A c \in Calls : call[c].by \in Snapshots \cup {Nil}
                           /\ call[c].reason \in Reasons \cup {"none"}
      BY <1>1 DEF StoreType
    <2>5. runtime # Nil => snap[runtime].st = "open"
      BY <1>1, <2>1 DEF StoreInv, OpenIsHeld
    <2> QED BY <2>1, <2>2, <2>3, <2>4, <2>5 DEF ServerTypeOK
  <1>3. CallsSeeOneSnapshot
    <2> SUFFICES ASSUME NEW c \in Calls, Reading(c)
                 PROVE  /\ call[c].by = runtime
                        /\ snap[runtime].st = "open"
                        /\ ~inference[snap[runtime].inf].closed
      BY DEF CallsSeeOneSnapshot, Reading
    <2>1. call[c].by = runtime /\ usable(runtime)
      BY <1>1 DEF StoreInv, ReadersSeeRuntime
    <2>2. runtime \in Snapshots /\ snap[runtime].st = "open"
      BY <1>1, <2>1 DEF usable, StoreInv, StoreType, OpenIsHeld
    <2>3. PICK i \in Snapshots : i = snap[runtime].inf
      BY <1>1, <2>1, <2>2 DEF usable, StoreInv, Equipped, StoreType,
         SnapshotRecord, Inferences
    <2>4. runtime \in OpenOn(i)
      BY <2>2, <2>3 DEF OpenOn
    <2>5. Cardinality(OpenOn(i)) # 0 /\ Cardinality(OpenOn(i)) \in Nat
      BY <2>4, UsersFinite, FS_EmptySet
    <2>6. inference[i].references # 0
      BY <1>1, <2>5, FS_CardinalityType DEF StoreInv, References
    <2> QED BY <1>1, <2>1, <2>2, <2>3, <2>6 DEF StoreInv, References
  <1>4. InferenceCounted
    <2> SUFFICES ASSUME NEW i \in Snapshots
                 PROVE  /\ inference[i].references =
                             Cardinality(OpenOn(i)) + Cardinality(JobsOn(i))
                        /\ inference[i].closed => JobsOn(i) = {}
      BY DEF InferenceCounted, OpenOn, JobsOn
    <2>1. /\ inference[i].references = Cardinality(OpenOn(i)) + Cardinality(JobsOn(i))
          /\ inference[i].closed => inference[i].references = 0
          /\ IsFiniteSet(JobsOn(i))
      BY <1>1 DEF StoreInv, References
    <2>2. Cardinality(OpenOn(i)) \in Nat /\ Cardinality(JobsOn(i)) \in Nat
      BY <2>1, UsersFinite, FS_CardinalityType
    <2>3. inference[i].closed => Cardinality(JobsOn(i)) = 0
      BY <2>1, <2>2
    <2> QED BY <2>1, <2>3, FS_EmptySet
  <1>5. SlotsHeld
    BY <1>1 DEF StoreInv, Slots, SlotsHeld, Evaluating
  <1> QED BY <1>2, <1>3, <1>4, <1>5 DEF SnapshotsInUse

\* Withdrawal, updaters, files and Close are in order in every such state.
LEMMA InOrder == ServerInv => LifecycleInOrder
  <1> SUFFICES ASSUME ServerInv PROVE LifecycleInOrder
    OBVIOUS
  <1>1. StoreInv /\ StoreType /\ Control /\ ControlType
    BY DEF ServerInv, StoreInv
  <1>2. WithdrawnOnlyForReset /\ GenerationsFollowFiles
    BY <1>1 DEF Control, StoreInv, Generations
  <1>3. OneUpdater
    <2>1. updates.live \subseteq {updates.cancel}
      BY <1>1 DEF Control, Cancellable
    <2>2. IsFiniteSet({updates.cancel}) /\ Cardinality({updates.cancel}) = 1
      BY FS_Singleton
    <2> QED BY <2>1, <2>2, FS_Subset DEF OneUpdater
  <1>4. NothingAfterClose
    <2> SUFFICES ASSUME main = "done"
                 PROVE  /\ \A s \in Snapshots : snap[s].st # "open"
                        /\ \A i \in Snapshots : inference[i].references = 0
                        /\ audit.pc \in {"absent", "exited"} /\ updates.live = {}
                        /\ Drained /\ watcher.pc \in {"idle", "want", "exited"}
      BY DEF NothingAfterClose
    <2>1. /\ audit.pc \in {"absent", "exited"} /\ updates.live = {} /\ Drained
          /\ watcher.pc \in {"idle", "want", "exited"} /\ runtime = Nil
      BY <1>1 DEF Control, Closing, OneHolder, Stopped, WatcherHolds
    <2>2. Kept = Nil
      BY <2>1 DEF Kept
    <2>3. \A s \in Snapshots : snap[s].st # "open"
      BY <1>1, <2>1, <2>2, SnapshotNumbers DEF StoreInv, OpenIsHeld
    <2>4. ASSUME NEW i \in Snapshots PROVE inference[i].references = 0
      <3>1. OpenOn(i) = {} /\ JobsOn(i) = {}
        BY <2>1, <2>3, SnapshotNumbers DEF OpenOn, JobsOn, Drained
      <3> QED BY <1>1, <3>1, FS_EmptySet DEF StoreInv, References
    <2> QED BY <2>1, <2>3, <2>4
  <1> QED BY <1>2, <1>3, <1>4 DEF LifecycleInOrder

(* Whoever uses a snapshot, its inference runtime or one of its slots is     *)
(* counted and finds it open, whatever reloads, rotations and the shutdown   *)
(* do meanwhile (server.go: EvaluateHook, replaceRuntime; inferenceOwner).   *)
THEOREM SnapshotsCounted == ServerSpec => []SnapshotsInUse
  BY ServerInvariant, InUse, PTL

(* Enforcement is withdrawn for a change of storage only, at most one update *)
(* scheduler is live, generations order the files, and Close leaves nothing  *)
(* open (server.go: replaceAuditSnapshot, StartUpdateScheduler, close).       *)
THEOREM LifecycleCorrect == ServerSpec => []LifecycleInOrder
  BY ServerInvariant, InOrder, PTL
----------------------------------------------------------------------------
(* The audit logger.  CloseContext joins every writer, durable writes are    *)
(* stored and suppressed ones are of events that were accepted, for every    *)
(* set of events, callers and closers, every limit and every failure.        *)
LoggerSpec == LoggerInit /\ [][LoggerNext]_loggerVars

----------------------------------------------------------------------------
Ids == {0} \cup {e.id : e \in AuditEventSet}
DurablePcs == {"idle", "refused", "seen", "writing", "written", "failed", "done"}

Entries == Nat \X AuditEventSet

LoggerType ==
    /\ accepted \in Nat
    /\ queue \in Seq(Entries) /\ lost \in Seq(Entries)
    /\ worker.batch \in Seq(Entries)
    /\ durable \in [Durables -> [pc : DurablePcs, id : Ids]]
    /\ closer \in [Closers -> {"idle", "joins", "waits", "returned"}]
    /\ draining \in BOOLEAN /\ closeDone \in BOOLEAN
    /\ DOMAIN worker = {"pc", "batch"}

\* Every caller of CloseContext finds the logger draining, or makes it so.
ClosersDrain == \A k \in Closers : closer[k] # "idle" => draining

\* A caller returns only when some caller has joined the writers.
ReturnedMeansJoined == \A k \in Closers : closer[k] = "returned" => closeDone

\* The worker ends on a queue that is empty and takes no more.
ExitedIsDrained == worker.pc = "exited" => draining /\ queue = <<>>

\* Joining is for good: nobody starts to write once the writers are joined.
JoinedForGood ==
    closeDone => draining /\ worker.pc = "exited" /\ ~DurableWrites

\* The events that are in the database, or that Log accepted.
Known == rows \cup eventIDs(queue) \cup eventIDs(worker.batch) \cup eventIDs(lost)

\* Only such events are remembered, so only such events are suppressed.
RememberedIsKnown == recency \in Seq(Known)

\* The worker takes a batch when it has none in hand.
TakesAnew == worker.pc = "take" => worker.batch = <<>>

CloserInv == /\ LoggerType /\ ClosersDrain /\ ReturnedMeansJoined
             /\ ExitedIsDrained /\ JoinedForGood /\ TakesAnew
LoggerInv == CloserInv /\ RememberedIsKnown /\ DurableMeansStored

----------------------------------------------------------------------------
\* Elements of a sequence and of its extensions.
LEMMA SeqGrows ==
    ASSUME NEW S, NEW T, S \subseteq T, NEW list \in Seq(S)
    PROVE  list \in Seq(T)
  OBVIOUS

(* What is left of a list without some of its elements is a list of its      *)
(* elements: the loop over the first n of them has this as its invariant.    *)
LEMMA WithoutType ==
    ASSUME NEW S, NEW list \in Seq(S), NEW ids
    PROVE  without(list, ids) \in Seq(S)
  <1> DEFINE
        N == 0 .. Len(list)
        elements(f, i) == IF i = 0 THEN <<>>
                          ELSE IF list[i] \in ids THEN f[i - 1]
                          ELSE Append(f[i - 1], list[i])
        loops(f, n) == \A i \in 0 .. n : f[i] = elements(f, i)
        reach == {n \in Nat : \E f \in [0 .. n -> Seq(S)] : loops(f, n)}
        good == {n \in Nat : n <= Len(list) => n \in reach}
  <1>1. 0 \in good
    <2>1. [i \in 0 .. 0 |-> <<>>] \in [0 .. 0 -> Seq(S)]
      OBVIOUS
    <2>2. loops([i \in 0 .. 0 |-> <<>>], 0)
      OBVIOUS
    <2> QED BY <2>1, <2>2
  <1>2. ASSUME NEW n \in Nat, n \in good PROVE n + 1 \in good
    <2> HIDE DEF reach
    <2> SUFFICES ASSUME n + 1 <= Len(list) PROVE n + 1 \in reach
      OBVIOUS
    <2>0. n \in reach
      BY <1>2
    <2> USE DEF reach
    <2>1. PICK f \in [0 .. n -> Seq(S)] : loops(f, n)
      BY <2>0
    <2> DEFINE next == IF list[n + 1] \in ids THEN f[n]
                       ELSE Append(f[n], list[n + 1])
               g == [i \in 0 .. (n + 1) |-> IF i = n + 1 THEN next ELSE f[i]]
    <2>2. f[n] \in Seq(S) /\ list[n + 1] \in S
      OBVIOUS
    <2>3. next \in Seq(S)
      BY <2>2
    <2> HIDE DEF next
    <2>4. g \in [0 .. (n + 1) -> Seq(S)]
      BY <2>3
    <2>5. ASSUME NEW i \in 0 .. (n + 1) PROVE g[i] = elements(g, i)
      <3>1. CASE i = n + 1
        <4>1. g[i] = next /\ g[i - 1] = f[n] /\ i # 0
          BY <3>1
        <4> HIDE DEF g
        <4> QED BY <3>1, <4>1 DEF next
      <3>2. CASE i # n + 1 /\ i # 0
        <4>1. g[i] = f[i] /\ g[i - 1] = f[i - 1] /\ i \in 0 .. n
          BY <3>2
        <4>2. f[i] = elements(f, i)
          BY <2>1, <4>1
        <4> HIDE DEF g
        <4> QED BY <3>2, <4>1, <4>2
      <3>3. CASE i = 0
        <4>1. g[i] = f[0] /\ 0 \in 0 .. n
          BY <3>3
        <4>2. f[0] = elements(f, 0)
          BY <2>1, <4>1
        <4> HIDE DEF g
        <4> QED BY <3>3, <4>1, <4>2
      <3> QED BY <3>1, <3>2, <3>3
    <2> HIDE DEF g
    <2>6. loops(g, n + 1)
      BY <2>5
    <2> HIDE DEF loops
    <2>7. \E h \in [0 .. (n + 1) -> Seq(S)] : loops(h, n + 1)
      BY <2>4, <2>6
    <2> QED BY <2>7
  <1> HIDE DEF good
  <1>3. \A n \in Nat : n \in good
    BY <1>1, <1>2, SetInduction
  <1>4. Len(list) \in good /\ Len(list) \in Nat
    BY <1>3
  <1>5. PICK f \in [N -> Seq(S)] : loops(f, Len(list))
    BY <1>4 DEF good
  <1> DEFINE whole(h) == h = [i \in N |-> elements(h, i)]
  <1>6. \E h : whole(h)
    <2>1. f = [i \in N |-> elements(f, i)]
      BY <1>5
    <2> QED BY <2>1
  <1> DEFINE kept == CHOOSE h : whole(h)
  <1>7. without(list, ids) = kept[Len(list)]
    BY DEF without
  <1>8. kept = [i \in N |-> elements(kept, i)]
    <2> HIDE DEF whole
    <2>1. whole(kept)
      BY <1>6
    <2> HIDE DEF kept
    <2> QED BY <2>1 DEF whole
  <1> HIDE DEF kept
  <1> DEFINE typed == {n \in Nat : n <= Len(list) => kept[n] \in Seq(S)}
  <1>9. ASSUME NEW i \in N PROVE kept[i] = elements(kept, i)
    BY <1>8
  <1>10. 0 \in typed
    <2>1. kept[0] = <<>>
      BY <1>4, <1>9
    <2>2. kept[0] \in Seq(S)
      BY <2>1
    <2> QED BY <2>2
  <1>11. ASSUME NEW n \in Nat, n \in typed PROVE n + 1 \in typed
    <2> SUFFICES ASSUME n + 1 <= Len(list) PROVE kept[n + 1] \in Seq(S)
      OBVIOUS
    <2>1. kept[n] \in Seq(S) /\ list[n + 1] \in S /\ n + 1 \in N
      BY <1>11
    <2>2. kept[n + 1] = IF list[n + 1] \in ids THEN kept[n]
                        ELSE Append(kept[n], list[n + 1])
      BY <1>9, <2>1
    <2> QED BY <2>1, <2>2
  <1> HIDE DEF typed
  <1>12. Len(list) \in typed
    BY <1>4, <1>10, <1>11, SetInduction
  <1> QED BY <1>4, <1>7, <1>12 DEF typed

(* What is remembered stays within what was, and the event remembered.       *)
LEMMA DedupType ==
    ASSUME NEW S, recency \in Seq(S), NEW id
    PROVE  /\ live[1] \in Seq(S)
           /\ touched(id) \in Seq(S \cup {id})
           /\ remember(id)[1] \in Seq(S \cup {id})
           /\ seen(id) => id \in S
  <1>1. live[1] \in Seq(S)
    BY WithoutType DEF live
  <1>2. touched(id) \in Seq(S \cup {id}) /\ touched(id) # <<>>
    <2>1. without(live[1], {id}) \in Seq(S)
      BY <1>1, WithoutType
    <2> DEFINE left == without(live[1], {id})
    <2>2. left \in Seq(S \cup {id}) /\ touched(id) = Append(left, id)
      BY <2>1, SeqGrows DEF touched
    <2> HIDE DEF left
    <2>3. Len(Append(left, id)) = Len(left) + 1 /\ Len(left) \in Nat
          /\ Append(left, id) \in Seq(S \cup {id})
      BY <2>2
    <2>4. Append(left, id) # <<>>
      BY <2>3
    <2> QED BY <2>2, <2>3, <2>4
  <1>3. remember(id)[1] \in Seq(S \cup {id})
    <2>1. Tail(touched(id)) \in Seq(S \cup {id})
      BY <1>2
    <2> QED BY <1>2, <2>1 DEF remember
  <1>4. seen(id) => id \in S
    <2> DEFINE left == live[1]
    <2>1. seen(id) => \E i \in DOMAIN left : id = left[i]
      BY DEF seen, ToSet
    <2> HIDE DEF left
    <2> QED BY <1>1, <2>1 DEF left
  <1> QED BY <1>1, <1>2, <1>3, <1>4

(* What a step adds to the events known keeps what is remembered and what    *)
(* the durable callers were told.                                            *)
LEMMA KnownGrows ==
    ASSUME LoggerInv, CloserInv', Known \subseteq Known', rows \subseteq rows',
           recency' \in Seq(Known'), durable' = durable
    PROVE  LoggerInv'
  BY DEF LoggerInv, RememberedIsKnown, DurableMeansStored, Known

\* Nobody has logged or closed.
LEMMA LoggerInitInv == LoggerInit => LoggerInv
  <1> SUFFICES ASSUME LoggerInit PROVE LoggerInv
    OBVIOUS
  <1> USE DEF LoggerInit
  <1>1. durable \in [Durables -> [pc : DurablePcs, id : Ids]]
    BY DEF Ids, DurablePcs
  <1>2. LoggerType
    <2>1. queue \in Seq(Entries) /\ lost \in Seq(Entries)
      OBVIOUS
    <2>2. worker.batch \in Seq(Entries) /\ DOMAIN worker = {"pc", "batch"}
      OBVIOUS
    <2> QED BY <1>1, <2>1, <2>2 DEF LoggerType
  <1>3. /\ ClosersDrain /\ ReturnedMeansJoined /\ ExitedIsDrained
        /\ JoinedForGood /\ TakesAnew
    BY DEF ClosersDrain, ReturnedMeansJoined, ExitedIsDrained, JoinedForGood,
           TakesAnew
  <1>4. DurableMeansStored /\ RememberedIsKnown
    BY DEF DurableMeansStored, RememberedIsKnown
  <1> QED BY <1>2, <1>3, <1>4 DEF LoggerInv, CloserInv

(* The parts of the invariant that speak of the queue, the worker and the    *)
(* closers stand when a step leaves all of these alone (Log's suppression,   *)
(* the clock, a drop), and remembers nothing that is not known.              *)
LEMMA IdleKeeps ==
    ASSUME LoggerInv, recency' \in Seq(Known),
           UNCHANGED <<queue, worker, draining, durable, closer, closeDone, rows,
                       lost, accepted>>
    PROVE  LoggerInv'
  <1>1. CloserInv'
    BY DEF LoggerInv, CloserInv, LoggerType, ClosersDrain, ReturnedMeansJoined,
           ExitedIsDrained, JoinedForGood, DurableWrites, TakesAnew
  <1>2. Known' = Known
    BY DEF Known
  <1> QED BY <1>1, <1>2, KnownGrows

\* Log adds to the queue only before the logger drains.
LEMMA LogKeeps ==
    ASSUME LoggerInv, NEW e \in AuditEventSet, Log(e)
    PROVE  LoggerInv'
  <1> DEFINE entry == <<accepted', e>>
  <1>1. entry \in Entries /\ queue' = Append(queue, entry) /\ queue \in Seq(Entries)
    BY DEF Log, LoggerInv, CloserInv, LoggerType, Entries
  <1>2. CloserInv'
    BY <1>1 DEF Log, notQueue, LoggerInv, CloserInv, LoggerType, ClosersDrain,
       ReturnedMeansJoined, ExitedIsDrained, JoinedForGood, DurableWrites,
       TakesAnew
  <1>3. eventIDs(queue') = eventIDs(queue) \cup {e.id}
    <2> HIDE DEF entry
    <2>1. /\ DOMAIN queue' = DOMAIN queue \cup {Len(queue) + 1}
          /\ queue'[Len(queue) + 1] = entry
          /\ \A i \in DOMAIN queue : queue'[i] = queue[i]
      BY <1>1
    <2>2. entry[2] = e
      BY DEF entry
    <2> QED BY <2>1, <2>2 DEF eventIDs
  <1>4. Known' = Known \cup {e.id}
    BY <1>3 DEF Log, notQueue, Known
  <1>5. recency' \in Seq(Known')
    BY <1>4, DedupType DEF Log, LoggerInv, RememberedIsKnown
  <1> QED BY <1>2, <1>4, <1>5, KnownGrows DEF Log, notQueue

\* The batch the worker takes is one part of the queue, the rest the other.
LEMMA TakesPart ==
    ASSUME queue \in Seq(Entries), NEW n \in 0 .. Len(queue)
    PROVE  LET batch == SubSeq(queue, 1, n)
               left == SubSeq(queue, n + 1, Len(queue))
           IN  /\ batch \in Seq(Entries) /\ left \in Seq(Entries)
               /\ eventIDs(queue) \subseteq eventIDs(batch) \cup eventIDs(left)
  <1> DEFINE batch == SubSeq(queue, 1, n)
             left == SubSeq(queue, n + 1, Len(queue))
  <1>1. batch \in Seq(Entries) /\ Len(batch) = n
        /\ \A i \in 1 .. n : batch[i] = queue[i]
    OBVIOUS
  <1>2. left \in Seq(Entries) /\ Len(left) = Len(queue) - n
        /\ \A i \in 1 .. (Len(queue) - n) : left[i] = queue[n + i]
    OBVIOUS
  <1> HIDE DEF batch, left
  <1>3. ASSUME NEW i \in DOMAIN queue
        PROVE  queue[i][2].id \in eventIDs(batch) \cup eventIDs(left)
    <2>1. CASE i <= n
      BY <1>1, <2>1 DEF eventIDs
    <2>2. CASE i > n
      <3>1. i - n \in DOMAIN left /\ left[i - n] = queue[i]
        BY <1>2, <2>2
      <3> QED BY <3>1 DEF eventIDs
    <2> QED BY <2>1, <2>2
  <1>4. eventIDs(queue) \subseteq eventIDs(batch) \cup eventIDs(left)
    BY <1>3 DEF eventIDs
  <1> QED BY <1>1, <1>2, <1>4 DEF batch, left

\* The length of a batch is within the queue.
LEMMA BatchLengthType ==
    ASSUME queue \in Seq(Entries)
    PROVE  batchLength \in 0 .. Len(queue)
  <1>1. batchLengths \subseteq 0 .. Len(queue) /\ batchLengths # {}
        /\ Len(queue) \in Nat
    BY DEF batchLengths
  <1>2. \E n \in batchLengths : \A m \in batchLengths : n >= m
    BY <1>1, GreatestBelow
  <1>3. \E n \in batchLengths : \A m \in batchLengths : m <= n
    BY <1>1, <1>2
  <1> QED BY <1>1, <1>3 DEF batchLength

\* A batch that is given up is added to what was.
LEMMA GivesUp ==
    ASSUME LoggerInv, giveUp
    PROVE  /\ lost' \in Seq(Entries)
           /\ eventIDs(lost') = eventIDs(lost) \cup eventIDs(worker.batch)
           /\ worker'.batch = <<>> /\ worker'.pc = "take" /\ rows' = rows
           /\ DOMAIN worker' = {"pc", "batch"}
  <1>1. lost \in Seq(Entries) /\ worker.batch \in Seq(Entries)
    BY DEF LoggerInv, CloserInv, LoggerType
  <1> DEFINE batch == worker.batch
  <1>2. /\ lost' = lost \o batch /\ batch \in Seq(Entries)
    BY <1>1 DEF giveUp
  <1> HIDE DEF batch
  <1>3. /\ \A i \in DOMAIN lost : i \in DOMAIN lost' /\ lost'[i] = lost[i]
        /\ \A i \in DOMAIN batch : /\ Len(lost) + i \in DOMAIN lost'
                                   /\ lost'[Len(lost) + i] = batch[i]
        /\ \A i \in DOMAIN lost' :
             \/ i \in DOMAIN lost
             \/ i - Len(lost) \in DOMAIN batch /\ lost'[i] = batch[i - Len(lost)]
    BY <1>1, <1>2
  <1>4. eventIDs(lost') = eventIDs(lost) \cup eventIDs(batch)
    BY <1>3 DEF eventIDs
  <1> QED BY <1>1, <1>2, <1>4 DEF giveUp, batch

(* The worker moves only until it has ended; an event it takes is in its     *)
(* batch, and one of its batch is stored or given up.                        *)
LEMMA WorkerKeeps ==
    ASSUME LoggerInv, WorkerNext
    PROVE  LoggerInv'
  <1> DEFINE quiet == UNCHANGED <<draining, durable, closer, closeDone, accepted>>
             moved == /\ quiet /\ queue' \in Seq(Entries) /\ lost' \in Seq(Entries)
                      /\ worker'.batch \in Seq(Entries)
                      /\ DOMAIN worker' = {"pc", "batch"}
                      /\ worker.pc # "exited"
                      /\ worker'.pc = "exited" => draining /\ queue' = <<>>
                      /\ worker'.pc = "take" => worker'.batch = <<>>
  <1>0. ASSUME moved PROVE CloserInv'
    <2>1. quiet
      BY <1>0
    <2>2. LoggerType'
      BY <1>0 DEF LoggerInv, CloserInv, LoggerType
    <2>3. ClosersDrain' /\ ReturnedMeansJoined'
      BY <2>1 DEF LoggerInv, CloserInv, ClosersDrain, ReturnedMeansJoined
    <2>4. ExitedIsDrained' /\ JoinedForGood'
      BY <1>0 DEF LoggerInv, CloserInv, ExitedIsDrained, JoinedForGood
    <2>5. TakesAnew'
      BY <1>0 DEF TakesAnew
    <2> QED BY <2>2, <2>3, <2>4, <2>5 DEF CloserInv
  <1>1. /\ queue \in Seq(Entries) /\ lost \in Seq(Entries)
        /\ worker.batch \in Seq(Entries) /\ DOMAIN worker = {"pc", "batch"}
        /\ recency \in Seq(Known) /\ TakesAnew
    BY DEF LoggerInv, CloserInv, LoggerType, RememberedIsKnown
  <1>2. ASSUME moved, Known \subseteq Known', rows \subseteq rows', recency' = recency
        PROVE  LoggerInv'
    <2>1. recency' \in Seq(Known')
      BY <1>1, <1>2, SeqGrows
    <2>2. durable' = durable
      BY <1>2
    <2> QED BY <1>0, <1>2, <2>1, <2>2, KnownGrows
  <1>3. CASE takeBatch
    <2>1. batchLength \in 0 .. Len(queue)
      BY <1>1, BatchLengthType
    <2>2. /\ worker' = [pc |-> "begin", batch |-> SubSeq(queue, 1, batchLength)]
          /\ queue' = SubSeq(queue, batchLength + 1, Len(queue))
          /\ worker.pc = "take" /\ quiet /\ UNCHANGED <<lost, rows, recency>>
      BY <1>3 DEF takeBatch, notWorker, dedup
    <2>3. /\ worker'.batch \in Seq(Entries) /\ queue' \in Seq(Entries)
          /\ eventIDs(queue) \subseteq eventIDs(worker'.batch) \cup eventIDs(queue')
      BY <1>1, <2>1, <2>2, TakesPart
    <2>4. eventIDs(worker.batch) = {}
      BY <1>1, <2>2 DEF TakesAnew, eventIDs
    <2>5. Known \subseteq Known'
      BY <2>2, <2>3, <2>4 DEF Known
    <2>6. moved
      BY <1>1, <2>2, <2>3
    <2> QED BY <1>2, <2>2, <2>5, <2>6
  <1>4. ASSUME giveUp, quiet, worker.pc # "exited", UNCHANGED <<queue, recency>>
        PROVE  LoggerInv'
    <2>1. /\ lost' \in Seq(Entries) /\ rows' = rows
          /\ eventIDs(lost') = eventIDs(lost) \cup eventIDs(worker.batch)
          /\ worker'.batch = <<>> /\ worker'.pc = "take"
          /\ DOMAIN worker' = {"pc", "batch"}
      BY <1>4, GivesUp
    <2>2. Known \subseteq Known'
      BY <1>4, <2>1 DEF Known
    <2>3. worker'.batch \in Seq(Entries)
      BY <2>1
    <2>4. moved
      BY <1>1, <1>4, <2>1, <2>3
    <2> QED BY <1>2, <1>4, <2>1, <2>2, <2>4
  <1>5. CASE beginBatch
    <2>1. CASE canceled
      BY <1>4, <1>5, <2>1 DEF beginBatch, notWorker, dedup
    <2>2. CASE ~canceled
      <3>1. /\ worker' = [worker EXCEPT !.pc = "commit"] /\ worker.pc = "begin"
            /\ quiet /\ UNCHANGED <<queue, lost, rows, recency>>
        BY <1>5, <2>2 DEF beginBatch, notWorker, dedup
      <3>2. /\ worker'.pc = "commit" /\ worker'.batch = worker.batch
            /\ DOMAIN worker' = {"pc", "batch"}
        BY <1>1, <3>1
      <3>3. Known' = Known
        BY <3>1, <3>2 DEF Known
      <3>4. moved
        BY <1>1, <3>1, <3>2
      <3> QED BY <1>2, <3>1, <3>3, <3>4
    <2> QED BY <2>1, <2>2
  <1>6. CASE commitBatch
    <2>1. /\ worker' = [pc |-> "take", batch |-> <<>>] /\ worker.pc = "commit"
          /\ rows' = rows \cup eventIDs(worker.batch)
          /\ quiet /\ UNCHANGED <<queue, lost, recency>>
      BY <1>6 DEF commitBatch, notWorker, dedup
    <2>2. Known \subseteq Known'
      BY <2>1 DEF Known
    <2>3. worker'.batch = <<>> /\ worker'.batch \in Seq(Entries)
      BY <2>1
    <2>4. moved
      BY <1>1, <2>1, <2>3
    <2> QED BY <1>2, <2>1, <2>2, <2>4
  <1>7. CASE commitFails
    BY <1>4, <1>7 DEF commitFails, notWorker, dedup
  <1>8. CASE workerExits
    <2>1. /\ worker' = [worker EXCEPT !.pc = "exited"] /\ worker.pc = "take"
          /\ draining /\ queue = <<>>
          /\ quiet /\ UNCHANGED <<queue, lost, rows, recency>>
      BY <1>8 DEF workerExits, notWorker, dedup
    <2>2. /\ worker'.pc = "exited" /\ worker'.batch = worker.batch
          /\ DOMAIN worker' = {"pc", "batch"}
      BY <1>1, <2>1
    <2>3. Known' = Known
      BY <2>1, <2>2 DEF Known
    <2>4. moved
      BY <1>1, <2>1, <2>2
    <2> QED BY <1>2, <2>1, <2>3, <2>4
  <1> QED BY <1>3, <1>5, <1>6, <1>7, <1>8 DEF WorkerNext

(* What one durable caller does changes its own record only.                 *)
LEMMA DurableMoves ==
    ASSUME LoggerInv, NEW d \in Durables,
           NEW r \in [pc : DurablePcs, id : Ids],
           durable' = [durable EXCEPT ![d] = r],
           r.pc \in {"writing", "written"} => ~closeDone,
           r.pc \in {"written", "done"} => r.id \in rows',
           r.pc = "seen" => r.id \in Known,
           rows \subseteq rows', recency' \in Seq(Known'),
           UNCHANGED <<queue, worker, draining, closer, closeDone, lost, accepted>>
    PROVE  LoggerInv'
  <1>1. /\ durable' \in [Durables -> [pc : DurablePcs, id : Ids]]
        /\ durable'[d] = r
        /\ \A x \in Durables \ {d} : durable'[x] = durable[x]
    BY DEF LoggerInv, CloserInv, LoggerType
  <1>2. LoggerType' /\ ClosersDrain' /\ ReturnedMeansJoined' /\ ExitedIsDrained'
        /\ TakesAnew'
    BY <1>1 DEF LoggerInv, CloserInv, LoggerType, ClosersDrain,
                ReturnedMeansJoined, ExitedIsDrained, TakesAnew
  <1>3. JoinedForGood'
    BY <1>1 DEF LoggerInv, CloserInv, JoinedForGood, DurableWrites
  <1>4. Known \subseteq Known'
    BY DEF Known
  <1>5. DurableMeansStored'
    <2> SUFFICES ASSUME NEW x \in Durables
                 PROVE  /\ durable'[x].pc \in {"written", "done"} =>
                             durable'[x].id \in rows'
                        /\ durable'[x].pc = "seen" => durable'[x].id \in Known'
      BY DEF DurableMeansStored, Known
    <2>1. CASE x = d
      BY <1>1, <1>4, <2>1
    <2>2. CASE x # d
      BY <1>1, <1>4, <2>2 DEF LoggerInv, DurableMeansStored, Known
    <2> QED BY <2>1, <2>2
  <1>6. RememberedIsKnown'
    BY DEF RememberedIsKnown
  <1> QED BY <1>2, <1>3, <1>5, <1>6 DEF LoggerInv, CloserInv

\* The writers of durable events.
LEMMA DurableKeeps ==
    ASSUME LoggerInv, NEW d \in Durables,
           DurableNext(d) \/ \E e \in AuditEventSet : logDurable(d, e)
    PROVE  LoggerInv'
  <1> DEFINE r == durable[d]
             moved(pc) == [r EXCEPT !.pc = pc]
  <1>0. /\ r \in [pc : DurablePcs, id : Ids]
        /\ \A pc \in DurablePcs :
             /\ moved(pc) \in [pc : DurablePcs, id : Ids]
             /\ moved(pc).pc = pc /\ moved(pc).id = r.id
             /\ durableAt(d, pc) =>
                  durable' = [durable EXCEPT ![d] = moved(pc)]
        /\ r.pc \in {"writing", "written"} => ~closeDone
        /\ r.pc = "written" => r.id \in rows
    BY DEF LoggerInv, CloserInv, LoggerType, durableAt, JoinedForGood,
           DurableWrites, DurableMeansStored
  <1>k. recency \in Seq(Known)
    BY DEF LoggerInv, RememberedIsKnown
  <1>g. ASSUME rows \subseteq rows', UNCHANGED <<queue, worker, lost>>
        PROVE  Known \subseteq Known'
    BY <1>g DEF Known
  <1> HIDE DEF r, moved
  <1>1. CASE durableCommits(d)
    <2>1. recency' \in Seq(Known')
      BY <1>1, <1>k, <1>g, SeqGrows DEF durableCommits, notDurable, dedup
    <2> QED BY <1>0, <1>1, <2>1, DurableMoves
            DEF durableCommits, notDurable, DurablePcs, r
  <1>2. CASE durableFails(d)
    <2>1. recency' \in Seq(Known')
      BY <1>2, <1>k, <1>g, SeqGrows DEF durableFails, notDurable, dedup
    <2> QED BY <1>0, <1>2, <2>1, DurableMoves
            DEF durableFails, notDurable, DurablePcs, r
  <1>3. CASE durableRemembers(d)
    <2>1. r.id \in Known
      BY <1>0, <1>3 DEF durableRemembers, Known, r
    <2>2. Known \cup {r.id} \subseteq Known'
      BY <1>3, <1>g, <2>1 DEF durableRemembers, notDurable
    <2>3. recency' \in Seq(Known \cup {r.id})
      BY <1>3, <1>k, DedupType DEF durableRemembers, r
    <2>4. recency' \in Seq(Known')
      BY <2>2, <2>3, SeqGrows
    <2> QED BY <1>0, <1>3, <2>4, DurableMoves
            DEF durableRemembers, notDurable, DurablePcs, r
  <1>4. ASSUME NEW e \in AuditEventSet, logDurable(d, e) PROVE LoggerInv'
    <2>0. /\ UNCHANGED <<queue, worker, draining, closer, closeDone, rows, lost,
                          accepted>>
          /\ Known' = Known
      BY <1>4 DEF logDurable, notDurable, Known
    <2>1. CASE draining
      <3>1. recency' \in Seq(Known')
        BY <1>4, <1>k, <2>0, <2>1 DEF logDurable, dedup
      <3> QED BY <1>0, <1>4, <2>0, <2>1, <3>1, DurableMoves
              DEF logDurable, DurablePcs
    <2>2. CASE ~draining
      <3> DEFINE pc == IF seen(e.id) THEN "seen" ELSE "writing"
                 q == [pc |-> pc, id |-> e.id]
      <3>1. pc \in {"seen", "writing"} /\ e.id \in Ids
        BY DEF Ids
      <3>2. durable' = [durable EXCEPT ![d] = q]
        BY <1>4, <2>2 DEF logDurable
      <3>3. pc = "seen" => e.id \in Known
        BY <1>k, DedupType
      <3>4. recency' \in Seq(Known')
        <4>1. CASE seen(e.id)
          <5>1. Known \cup {e.id} = Known
            BY <1>k, <4>1, DedupType
          <5> QED BY <1>4, <1>k, <2>0, <2>2, <4>1, <5>1, DedupType
                  DEF logDurable
        <4>2. CASE ~seen(e.id)
          <5>1. recency' = live[1]
            BY <1>4, <2>2, <4>2 DEF logDurable
          <5>2. live[1] \in Seq(Known)
            BY <1>k, DedupType
          <5> QED BY <2>0, <5>1, <5>2
        <4> QED BY <4>1, <4>2
      <3> HIDE DEF pc
      <3>5. q \in [pc : DurablePcs, id : Ids] /\ q.pc = pc /\ q.id = e.id
        BY <3>1 DEF DurablePcs
      <3>6. ~closeDone
        BY <2>2 DEF LoggerInv, CloserInv, JoinedForGood
      <3> HIDE DEF q
      <3> QED BY <2>0, <3>1, <3>2, <3>3, <3>4, <3>5, <3>6, DurableMoves
    <2> QED BY <2>1, <2>2
  <1> QED BY <1>1, <1>2, <1>3, <1>4 DEF DurableNext

(* Callers of CloseContext only stop the logger, and one that joins finds    *)
(* nobody writing.                                                           *)
LEMMA CloserKeeps ==
    ASSUME LoggerInv, NEW k \in Closers,
           CloseContext(k) \/ deadline(k) \/ CloserNext(k)
    PROVE  LoggerInv'
  <1>1. CloserInv'
    <2> USE DEF LoggerInv, CloserInv, LoggerType, ClosersDrain,
                ReturnedMeansJoined, ExitedIsDrained, JoinedForGood,
                DurableWrites, TakesAnew, notCloser
    <2>1. CASE CloseContext(k)
      BY <2>1 DEF CloseContext
    <2>2. CASE deadline(k)
      BY <2>2 DEF deadline
    <2>3. CASE join(k)
      BY <2>3 DEF join
    <2>4. CASE waitClosed(k)
      BY <2>4 DEF waitClosed
    <2> QED BY <2>1, <2>2, <2>3, <2>4 DEF CloserNext
  <1>2. UNCHANGED <<queue, worker, durable, rows, lost>>
    BY DEF CloseContext, deadline, CloserNext, join, waitClosed, notCloser
  <1>3. Known' = Known
    BY <1>2 DEF Known
  <1>4. recency' = recency \/ recency' = <<>>
    BY DEF CloseContext, deadline, CloserNext, join, waitClosed, dedup
  <1>5. recency' \in Seq(Known')
    <2>1. recency \in Seq(Known) /\ <<>> \in Seq(Known)
      BY DEF LoggerInv, RememberedIsKnown
    <2> QED BY <1>3, <1>4, <2>1
  <1> QED BY <1>1, <1>2, <1>3, <1>5, KnownGrows

\* Every step keeps the invariant.
LEMMA LoggerStep == LoggerInv /\ [LoggerNext]_loggerVars => LoggerInv'
  <1> SUFFICES ASSUME LoggerInv, [LoggerNext]_loggerVars PROVE LoggerInv'
    OBVIOUS
  <1>0. recency \in Seq(Known)
    BY DEF LoggerInv, RememberedIsKnown
  <1>1. CASE UNCHANGED loggerVars
    BY <1>0, <1>1, IdleKeeps DEF loggerVars
  <1>2. ASSUME NEW e \in AuditEventSet, Log(e) \/ recordDrop(e) \/ suppress(e)
        PROVE  LoggerInv'
    <2>1. CASE Log(e)
      BY <2>1, LogKeeps
    <2>2. CASE recordDrop(e)
      BY <1>0, <2>2, IdleKeeps DEF recordDrop, notQueue, dedup
    <2>3. CASE suppress(e)
      <3>1. e.id \in Known /\ touched(e.id) \in Seq(Known \cup {e.id})
        BY <1>0, <2>3, DedupType DEF suppress
      <3>2. Known \cup {e.id} = Known
        BY <3>1
      <3>3. recency' \in Seq(Known)
        BY <2>3, <3>1, <3>2 DEF suppress
      <3> QED BY <2>3, <3>3, IdleKeeps DEF suppress, notQueue
    <2> QED BY <1>2, <2>1, <2>2, <2>3
  <1>3. CASE WorkerNext
    BY <1>3, WorkerKeeps
  <1>4. ASSUME NEW d \in Durables,
               DurableNext(d) \/ \E e \in AuditEventSet : logDurable(d, e)
        PROVE  LoggerInv'
    BY <1>4, DurableKeeps
  <1>5. ASSUME NEW k \in Closers,
               CloseContext(k) \/ deadline(k) \/ CloserNext(k)
        PROVE  LoggerInv'
    BY <1>5, CloserKeeps
  <1>6. CASE tickLogger
    BY <1>0, <1>6, IdleKeeps DEF tickLogger, dedup
  <1> QED BY <1>1, <1>2, <1>3, <1>4, <1>5, <1>6 DEF LoggerNext

----------------------------------------------------------------------------
(* When a caller's CloseContext has returned, whoever closed first and       *)
(* whatever deadline passed, the worker has ended on an empty queue and no   *)
(* durable writer is under way, so the borrowed database may close.  What    *)
(* LogNormalizedDurable wrote and returned is in the database; an event that *)
(* it took for one seen before was stored, or accepted by Log, which may     *)
(* still lose it with a failing batch.                                       *)
THEOREM CloseCorrect == LoggerSpec => []ClosedMeansWritten
  <1>1. LoggerInv => ClosedMeansWritten
    BY DEF LoggerInv, CloserInv, ReturnedMeansJoined, JoinedForGood,
           ExitedIsDrained, ClosedMeansWritten, WritersJoined
  <1> QED BY <1>1, LoggerInitInv, LoggerStep, PTL DEF LoggerSpec

-----------------------------------------------------------------------------
(* The validator and inference gates. *)

Verdicts == [block : BOOLEAN, errored : BOOLEAN, partial : BOOLEAN]
OutcomeSet == {"block", "allow", "error"}
Phases == {"none", "recheck", "running", "ran", "stored", "closed", "gone"}
Flights == [phase : Phases, verdict : Verdicts, outcomes : Seq(OutcomeSet)]

GatesSpec == GatesInit /\ [][GatesNext]_gateVars

----------------------------------------------------------------------------
(* What one target answers, whatever its command or its model did, is a      *)
(* block, an allow or an error (Interpret in exec_gate.go, call in            *)
(* infer_gate.go).                                                           *)
LEMMA AnswersType ==
    ASSUME NEW c \in Conditions
    PROVE  Answers(c) \subseteq OutcomeSet
  <1>1. ASSUME NEW r \in Results PROVE Interpret(c, r) \in OutcomeSet
    BY GatesAssumption DEF Interpret, Results, OutcomeSet
  <1>2. ASSUME NEW r \in Replies PROVE answered(c, r) \in OutcomeSet
    BY DEF answered, OutcomeSet
  <1> QED BY <1>1, <1>2 DEF Answers

(* The retries of one target give the answer of one attempt, or an error     *)
(* (runExpandedCommandWithRetry).                                            *)
LEMMA AttemptedType ==
    ASSUME NEW n \in Nat, NEW attempts \in [1 .. n -> OutcomeSet]
    PROVE  attempted(attempts) \in OutcomeSet
  <1> DEFINE S == {i \in DOMAIN attempts : attempts[i] # "error"}
  <1>1. CASE S = {}
    BY <1>1 DEF attempted, OutcomeSet
  <1>2. CASE S # {}
    <2>1. S \subseteq Nat
      OBVIOUS
    <2> HIDE DEF S
    <2>2. PICK x \in S : \A y \in S : x <= y
      BY <1>2, <2>1, LeastNatural
    <2> USE DEF S
    <2>3. x \in 1 .. n /\ attempts[x] # "error"
      OBVIOUS
    <2>4. \A j \in 1 .. (x - 1) : attempts[j] = "error"
      BY <2>2, <2>3
    <2> DEFINE first == CHOOSE i \in DOMAIN attempts :
                          attempts[i] # "error"
                          /\ \A j \in 1 .. (i - 1) : attempts[j] = "error"
    <2>5. first \in DOMAIN attempts
      BY <2>3, <2>4
    <2>6. attempted(attempts) = attempts[first]
      BY <2>3 DEF attempted
    <2> HIDE DEF first
    <2> QED BY <2>5, <2>6
  <1> QED BY <1>1, <1>2

\* The outcomes that a run of a condition may give are sequences of outcomes.
LEMMA OutcomesType ==
    ASSUME NEW c \in Conditions, NEW outcomes \in Outcomes(c)
    PROVE  outcomes \in Seq(OutcomeSet)
  <1>1. c.targets \in Nat /\ c.retries \in Nat
    BY GatesAssumption
  <1>2. PICK runs \in [1 .. c.targets -> [1 .. (c.retries + 1) -> Answers(c)]] :
          outcomes = [i \in 1 .. c.targets |-> attempted(runs[i])]
    BY DEF Outcomes
  <1>3. ASSUME NEW i \in 1 .. c.targets
        PROVE  attempted(runs[i]) \in OutcomeSet
    <2>1. runs[i] \in [1 .. (c.retries + 1) -> OutcomeSet]
      BY <1>2, AnswersType
    <2>2. c.retries + 1 \in Nat
      BY <1>1
    <2> QED BY <2>1, <2>2, AttemptedType
  <1>4. outcomes \in [1 .. c.targets -> OutcomeSet]
    BY <1>2, <1>3
  <1> QED BY <1>1, <1>4

----------------------------------------------------------------------------
(* What the loop over the targets may say of what they answered.             *)
Decides(c, outcomes, verdict) ==
    LET o == ToSet(outcomes)
    IN  c.each # "" =>
          /\ c.each = "any" => /\ "block" \in o => verdict.block
                               /\ "block" \in o => ~verdict.errored
          /\ c.each = "all" /\ ~verdict.errored =>
               (verdict.block <=> (o \subseteq {"block"} /\ o # {}))
          /\ verdict.partial => "error" \in o /\ verdict.block
          /\ verdict.errored => "error" \in o

(* The target that ends the loop over the targets (runExpandedCommands), or  *)
(* the end of the loop when there is none, decides as it should.             *)
LEMMA ExpandedDecides ==
    ASSUME NEW c \in Conditions, NEW outcomes \in Seq(OutcomeSet)
    PROVE  /\ runExpandedCommands(c, outcomes) \in Verdicts
           /\ Decides(c, outcomes, runExpandedCommands(c, outcomes))
  <1> DEFINE
        returns == {i \in DOMAIN outcomes :
                      \/ c.each = ""
                      \/ c.each = "any" /\ outcomes[i] = "block"
                      \/ c.each = "all" /\ outcomes[i] # "block"}
        sawErrored(n) == c.each = "any"
                         /\ \E i \in 1 .. n : outcomes[i] = "error"
        first == CHOOSE i \in returns : \A j \in returns : i <= j
        verdict == runExpandedCommands(c, outcomes)
  <1> HIDE DEF returns, first, verdict
  <1>1. c.each \in {"", "any", "all"} /\ c.closed \in BOOLEAN
    BY GatesAssumption
  <1>2. /\ DOMAIN outcomes = 1 .. Len(outcomes) /\ Len(outcomes) \in Nat
        /\ \A i \in DOMAIN outcomes : outcomes[i] \in OutcomeSet
    OBVIOUS
  <1>3. CASE returns # {}
    <2>1. returns \subseteq Nat
      <3>1. returns \subseteq DOMAIN outcomes
        BY DEF returns
      <3> QED BY <1>2, <3>1
    <2>2. \E i \in returns : \A j \in returns : i <= j
      BY <1>3, <2>1, LeastNatural
    <2>3. first \in returns
      BY <2>2 DEF first
    <2>4. verdict = [verdictOf(c, outcomes[first])
                       EXCEPT !.partial = sawErrored(first - 1)]
      BY <1>3 DEF runExpandedCommands, returns, first, verdict
    <2>5. outcomes[first] \in OutcomeSet /\ first \in 1 .. Len(outcomes)
      BY <2>3, <1>2 DEF returns
    <2> DEFINE saw == sawErrored(first - 1)
    <2>6. saw \in BOOLEAN
      OBVIOUS
    <2>7. saw => c.each = "any" /\ "error" \in ToSet(outcomes)
      BY <1>2, <2>5 DEF ToSet
    <2> HIDE DEF saw
    <2>8. verdictOf(c, outcomes[first]) \in {Block, Allow, Failed(c)}
      BY <2>5 DEF verdictOf, OutcomeSet
    <2>9. verdict \in Verdicts
      <3>1. verdict = [verdictOf(c, outcomes[first]) EXCEPT !.partial = saw]
        BY <2>4 DEF saw
      <3>2. verdictOf(c, outcomes[first]) \in Verdicts
        <4>1. Block \in Verdicts /\ Allow \in Verdicts
          BY DEF Block, Allow, Verdict, Verdicts
        <4>2. Failed(c) \in Verdicts
          BY <1>1 DEF Failed, Verdict, Verdicts
        <4> QED BY <2>8, <4>1, <4>2
      <3> QED BY <2>6, <3>1, <3>2 DEF Verdicts
    <2>10. CASE c.each = "any"
      <3>1. outcomes[first] = "block"
        BY <2>3, <2>10 DEF returns
      <3>2. verdict = [block |-> TRUE, errored |-> FALSE, partial |-> saw]
        BY <2>4, <3>1 DEF saw, verdictOf, Block, Verdict
      <3> QED BY <2>7, <2>9, <2>10, <3>2 DEF Decides, verdict
    <2>11. CASE c.each = "all"
      <3>1. outcomes[first] \in {"allow", "error"}
        BY <2>3, <2>11, <2>5 DEF returns, OutcomeSet
      <3>2. outcomes[first] \in ToSet(outcomes)
        BY <2>5, <1>2 DEF ToSet
      <3>3. saw = FALSE
        BY <2>7, <2>11, <2>6
      <3>4. CASE outcomes[first] = "allow"
        <4>1. verdict = [block |-> FALSE, errored |-> FALSE, partial |-> FALSE]
          BY <2>4, <3>3, <3>4 DEF saw, verdictOf, Allow, Verdict
        <4> QED BY <2>9, <2>11, <3>2, <3>4, <4>1 DEF Decides, verdict
      <3>5. CASE outcomes[first] = "error"
        <4>1. verdict = [block |-> c.closed, errored |-> TRUE, partial |-> FALSE]
          BY <2>4, <3>3, <3>5 DEF saw, verdictOf, Failed, Verdict
        <4> QED BY <2>9, <2>11, <3>2, <3>5, <4>1 DEF Decides, verdict
      <3> QED BY <3>1, <3>4, <3>5
    <2> QED BY <1>1, <2>9, <2>10, <2>11 DEF Decides, verdict
  <1>4. CASE returns = {}
    <2> DEFINE saw == sawErrored(Len(outcomes))
               every == outcomes # <<>> /\ c.each = "all"
    <2>1. verdict = IF saw THEN Failed(c) ELSE Verdict(every, FALSE)
      BY <1>4 DEF runExpandedCommands, returns, verdict
    <2>2. saw \in BOOLEAN /\ every \in BOOLEAN
      OBVIOUS
    <2>3. saw => c.each = "any" /\ "error" \in ToSet(outcomes)
      BY <1>2 DEF ToSet
    <2>4. every <=> ToSet(outcomes) # {} /\ c.each = "all"
      BY <1>2 DEF ToSet
    <2> HIDE DEF saw, every
    <2>5. verdict \in Verdicts
      BY <1>1, <2>1, <2>2 DEF Failed, Verdict, Verdicts
    <2>6. CASE c.each = "any"
      <3>1. "block" \notin ToSet(outcomes)
        BY <1>4, <2>6 DEF ToSet, returns
      <3>2. ~verdict.partial
        BY <2>1 DEF Failed, Verdict
      <3>3. verdict.errored => saw
        BY <2>1 DEF Failed, Verdict
      <3> QED BY <2>3, <2>5, <2>6, <3>1, <3>2, <3>3 DEF Decides, verdict
    <2>7. CASE c.each = "all"
      <3>1. ToSet(outcomes) \subseteq {"block"}
        BY <1>4, <2>7 DEF ToSet, returns
      <3>2. verdict = [block |-> every, errored |-> FALSE, partial |-> FALSE]
        BY <2>1, <2>3, <2>7 DEF Verdict
      <3> QED BY <2>4, <2>5, <2>7, <3>1, <3>2 DEF Decides, verdict
    <2> QED BY <1>1, <2>5, <2>6, <2>7 DEF Decides, verdict
  <1> QED BY <1>3, <1>4 DEF verdict

----------------------------------------------------------------------------
(* The inductive invariant.                                                  *)

Shared(c) == c.kind = "infer" \/ c.cached
Owners == Events \cup {Nobody}

GatesType ==
    /\ plan \in [Events -> Seq(Conditions)]
    /\ at \in [Events -> Nat \ {0}]
    /\ step \in [Events -> {"lookup", "missed", "joined", "owns"}]
    /\ waitsFor \in [Events -> Owners]
    /\ memo \in [Events -> Seq(Verdicts)]
    /\ inflight \in [Conditions -> Owners]
    /\ flight \in [Events -> [Conditions -> Flights]]
    /\ hot \in [Conditions -> SUBSET Verdicts]

\* An event remembers one verdict for each condition it is past.
MemoFollowsPlan == \A e \in Events : Len(memo[e]) = at[e] - 1

\* An event that looks no further has not decided the condition before.
UndecidedBeyondLookup ==
    \A e \in Events : step[e] # "lookup" => Evaluates(e) /\ remembered(e) = {}

\* A joined event waits for the flight of an event.
JoinsFlight == \A e \in Events : step[e] = "joined" => waitsFor[e] \in Events

\* An event flies for a condition once: it owns the flight or has the verdict.
FlightsOnce ==
    \A e \in Events, c \in Conditions : flight[e][c].phase # "none" =>
        \/ \E i \in DOMAIN memo[e] : plan[e][i] = c
        \/ step[e] = "owns" /\ Evaluates(e) /\ cond(e) = c

\* What a validator's run came to is what the loop makes of its outcomes.
RanDecides ==
    \A e \in Events, c \in Conditions :
        c.kind = "exec" /\ flight[e][c].phase = "ran" =>
            Decides(c, flight[e][c].outcomes, flight[e][c].verdict)

GatesInv == /\ GatesType /\ MemoFollowsPlan /\ UndecidedBeyondLookup
            /\ JoinsFlight /\ FlightsOnce /\ RanDecides
            /\ OneFlightPerKey /\ CachedIsAnswered /\ OneVerdictPerEvent

----------------------------------------------------------------------------
(* The verdicts that the code makes up itself: on_error, allow and block.    *)
LEMMA VerdictTypes ==
    /\ Allow \in Verdicts /\ Block \in Verdicts
    /\ \A c \in Conditions : Failed(c) \in Verdicts
  <1>1. Allow \in Verdicts /\ Block \in Verdicts
    BY DEF Allow, Block, Verdict, Verdicts
  <1>2. ASSUME NEW c \in Conditions PROVE Failed(c) \in Verdicts
    <2>1. c.closed \in BOOLEAN
      BY GatesAssumption
    <2> QED BY <2>1 DEF Failed, Verdict, Verdicts
  <1> QED BY <1>1, <1>2

(* The condition an event is at is one of the plans' conditions.             *)
LEMMA CondType ==
    ASSUME GatesType, NEW e \in Events, Evaluates(e)
    PROVE  cond(e) \in Conditions
  BY DEF GatesType, Evaluates, cond

\* No event has begun and no flight is under way.
LEMMA GatesInitInv == GatesInit => GatesInv
  <1> SUFFICES ASSUME GatesInit PROVE GatesInv
    OBVIOUS
  <1>1. NoFlight \in Flights /\ NoFlight.phase = "none"
    BY VerdictTypes DEF NoFlight, Flights, Phases
  <1>2. GatesType
    <2>1. plan \in [Events -> Seq(Conditions)]
      <3>1. Plans \subseteq [Events -> Seq(Conditions)]
        BY GatesAssumption
      <3> QED BY <3>1 DEF GatesInit
    <2>2. memo \in [Events -> Seq(Verdicts)]
      <3>1. <<>> \in Seq(Verdicts)
        OBVIOUS
      <3> QED BY <3>1 DEF GatesInit
    <2>3. waitsFor \in [Events -> Owners] /\ inflight \in [Conditions -> Owners]
      BY DEF GatesInit, Owners
    <2>6. /\ at \in [Events -> Nat \ {0}]
          /\ step \in [Events -> {"lookup", "missed", "joined", "owns"}]
      BY DEF GatesInit
    <2>4. flight \in [Events -> [Conditions -> Flights]]
      BY <1>1 DEF GatesInit
    <2>5. hot \in [Conditions -> SUBSET Verdicts]
      BY DEF GatesInit
    <2> QED BY <2>1, <2>2, <2>3, <2>4, <2>5, <2>6 DEF GatesType
  <1>3. MemoFollowsPlan /\ UndecidedBeyondLookup /\ JoinsFlight
    BY DEF GatesInit, MemoFollowsPlan, UndecidedBeyondLookup, JoinsFlight
  <1>4. FlightsOnce /\ RanDecides
    BY <1>1 DEF GatesInit, FlightsOnce, RanDecides
  <1>5. OneFlightPerKey
    BY <1>1 DEF GatesInit, OneFlightPerKey, Running
  <1>6. CachedIsAnswered /\ OneVerdictPerEvent
    BY DEF GatesInit, CachedIsAnswered, OneVerdictPerEvent
  <1> QED BY <1>2, <1>3, <1>4, <1>5, <1>6 DEF GatesInv

(* However an event comes by a verdict, taking it keeps the invariant when   *)
(* the event had none for the condition, or had this one (finishes).         *)
LEMMA FinishKeeps ==
    ASSUME GatesInv, NEW e \in Events, NEW v \in Verdicts,
           Evaluates(e), finishes(e, v),
           remembered(e) = {} \/ \E i \in remembered(e) : v = memo[e][i],
           UNCHANGED <<plan, waitsFor, inflight, flight, hot>>
    PROVE  GatesInv'
  <1> USE DEF finishes
  <1>1. /\ at[e] \in Nat \ {0} /\ memo[e] \in Seq(Verdicts)
        /\ Len(memo[e]) = at[e] - 1
    BY DEF GatesInv, GatesType, MemoFollowsPlan
  <1>2. /\ memo'[e] = Append(memo[e], v) /\ at'[e] = at[e] + 1
        /\ step'[e] = "lookup"
        /\ \A x \in Events \ {e} : /\ memo'[x] = memo[x] /\ at'[x] = at[x]
                                   /\ step'[x] = step[x]
    BY DEF GatesInv, GatesType
  <1>3. GatesType'
    <2>1. memo' \in [Events -> Seq(Verdicts)]
      BY <1>1 DEF GatesInv, GatesType
    <2> QED BY <1>1, <2>1 DEF GatesInv, GatesType
  <1>4. /\ DOMAIN memo'[e] = DOMAIN memo[e] \cup {at[e]}
        /\ \A i \in DOMAIN memo[e] : memo'[e][i] = memo[e][i] /\ i # at[e]
        /\ memo'[e][at[e]] = v
    BY <1>1, <1>2
  <1>5. MemoFollowsPlan'
    BY <1>1, <1>2 DEF GatesInv, MemoFollowsPlan
  <1>6. UndecidedBeyondLookup'
    BY <1>2 DEF GatesInv, UndecidedBeyondLookup, Evaluates, remembered, cond
  <1>7. JoinsFlight'
    BY <1>2 DEF GatesInv, JoinsFlight
  <1>8. FlightsOnce'
    BY <1>2, <1>4 DEF GatesInv, FlightsOnce, Evaluates, cond
  <1>9. RanDecides' /\ OneFlightPerKey' /\ CachedIsAnswered'
    BY DEF GatesInv, RanDecides, OneFlightPerKey, CachedIsAnswered, Running
  <1>10. OneVerdictPerEvent'
    <2> SUFFICES ASSUME NEW x \in Events, NEW i \in DOMAIN memo'[x],
                        NEW j \in DOMAIN memo'[x], plan[x][i] = plan[x][j]
                 PROVE  memo'[x][i] = memo'[x][j]
      BY DEF OneVerdictPerEvent
    <2>1. CASE x # e
      BY <1>2, <2>1 DEF GatesInv, OneVerdictPerEvent
    <2>2. CASE x = e
      <3>1. \A k \in DOMAIN memo[e] : plan[e][k] = plan[e][at[e]] =>
                memo[e][k] = v
        BY DEF GatesInv, OneVerdictPerEvent, remembered, cond
      <3> QED BY <1>4, <2>2, <3>1 DEF GatesInv, OneVerdictPerEvent
    <2> QED BY <2>1, <2>2
  <1> QED BY <1>3, <1>5, <1>6, <1>7, <1>8, <1>9, <1>10 DEF GatesInv

(* Whatever moves a flight on that has begun keeps the event's side of the   *)
(* invariant (cacheStore, finishFlight, deleteFlight and the runs).          *)
LEMMA FlightMoves ==
    ASSUME GatesInv, NEW e \in Events, NEW c \in Conditions, NEW f \in Flights,
           flight[e][c].phase # "none", f.phase # "none",
           flight' = [flight EXCEPT ![e][c] = f],
           UNCHANGED notFlight
    PROVE  /\ flight' \in [Events -> [Conditions -> Flights]]
           /\ flight'[e][c] = f
           /\ \A x \in Events, d \in Conditions :
                x # e \/ d # c => flight'[x][d] = flight[x][d]
           /\ MemoFollowsPlan' /\ UndecidedBeyondLookup' /\ JoinsFlight'
           /\ FlightsOnce' /\ OneVerdictPerEvent'
  <1> USE DEF notFlight
  <1>1. /\ flight' \in [Events -> [Conditions -> Flights]]
        /\ flight'[e][c] = f
        /\ \A x \in Events, d \in Conditions :
             x # e \/ d # c => flight'[x][d] = flight[x][d]
    BY DEF GatesInv, GatesType
  <1>2. MemoFollowsPlan' /\ UndecidedBeyondLookup' /\ JoinsFlight'
    BY DEF GatesInv, MemoFollowsPlan, UndecidedBeyondLookup, JoinsFlight,
           Evaluates, remembered, cond
  <1>3. FlightsOnce'
    BY <1>1 DEF GatesInv, FlightsOnce, Evaluates, cond
  <1>4. OneVerdictPerEvent'
    BY DEF GatesInv, OneVerdictPerEvent
  <1> QED BY <1>1, <1>2, <1>3, <1>4

(* A flight that is under way before and after a step keeps its place.       *)
LEMMA FlightStaysRegistered ==
    ASSUME OneFlightPerKey, NEW e \in Events, NEW c \in Conditions,
           Running(e, c), Running(e, c)', UNCHANGED inflight,
           \A x \in Events, d \in Conditions :
             x # e \/ d # c => flight'[x][d] = flight[x][d]
    PROVE  OneFlightPerKey'
  <1>1. \A x \in Events, d \in Conditions : Running(x, d)' <=> Running(x, d)
    BY DEF Running
  <1> QED BY <1>1 DEF OneFlightPerKey

(* An answer that was cached stays one that a flight gave, as long as no      *)
(* flight that ran is forgotten and nothing else is cached.                  *)
LEMMA AnswersKept ==
    ASSUME CachedIsAnswered,
           \A c \in Conditions : hot'[c] \subseteq hot[c],
           \A x \in Events, c \in Conditions :
             flight[x][c].phase \in {"stored", "closed", "gone"} =>
               /\ flight'[x][c].phase \in {"stored", "closed", "gone"}
               /\ flight'[x][c].verdict = flight[x][c].verdict
    PROVE  CachedIsAnswered'
  BY DEF CachedIsAnswered

----------------------------------------------------------------------------
(* Every action keeps the invariant.                                         *)

\* The steps of an event.
LEMMA EventKeeps ==
    ASSUME GatesInv, NEW e \in Events, EventNext(e)
    PROVE  GatesInv'
  <1>0. /\ GatesType /\ UndecidedBeyondLookup /\ JoinsFlight
        /\ step[e] \in {"missed", "joined", "owns"} => remembered(e) = {}
    BY DEF GatesInv, UndecidedBeyondLookup
  <1>1. CASE recall(e)
    <2>1. PICK i \in remembered(e) : finishes(e, memo[e][i])
      BY <1>1 DEF recall
    <2>2. memo[e][i] \in Verdicts
      BY <1>0 DEF GatesType, remembered
    <2> QED BY <1>1, <2>1, <2>2, FinishKeeps DEF recall, others
  <1>2. CASE cacheLookup(e)
    <2>1. cond(e) \in Conditions
      BY <1>0, <1>2, CondType DEF cacheLookup
    <2>2. CASE \E v \in hot[cond(e)] : finishes(e, v)
      <3>1. PICK v \in hot[cond(e)] : finishes(e, v)
        BY <2>2
      <3>2. v \in Verdicts
        BY <1>0, <2>1 DEF GatesType
      <3> QED BY <1>2, <3>1, <3>2, FinishKeeps DEF cacheLookup, others
    <2>3. CASE /\ step' = [step EXCEPT ![e] = "missed"]
               /\ UNCHANGED <<at, memo>>
      <3> USE DEF cacheLookup, others
      <3>1. GatesType'
        BY <1>0, <1>2, <2>3 DEF GatesType
      <3>2. UndecidedBeyondLookup' /\ JoinsFlight'
        BY <1>0, <1>2, <2>3 DEF GatesType, UndecidedBeyondLookup, JoinsFlight,
           Evaluates, remembered, cond
      <3>3. FlightsOnce'
        BY <1>2, <2>3
           DEF GatesInv, GatesType, FlightsOnce, Evaluates, cond
      <3>4. MemoFollowsPlan' /\ RanDecides' /\ OneFlightPerKey'
            /\ CachedIsAnswered' /\ OneVerdictPerEvent'
        BY <1>2, <2>3
           DEF GatesInv, MemoFollowsPlan, RanDecides, OneFlightPerKey, Running,
               CachedIsAnswered, OneVerdictPerEvent
      <3> QED BY <3>1, <3>2, <3>3, <3>4 DEF GatesInv
    <2> QED BY <1>2, <2>2, <2>3 DEF cacheLookup
  <1>3. CASE joinDone(e)
    <2>1. cond(e) \in Conditions /\ waitsFor[e] \in Events
      BY <1>0, <1>3, CondType DEF joinDone, JoinsFlight
    <2>2. flight[waitsFor[e]][cond(e)].verdict \in Verdicts
      BY <1>0, <2>1 DEF GatesType, Flights
    <2> QED BY <1>0, <1>3, <2>2, FinishKeeps DEF joinDone, others
  <1>4. CASE joinEnded(e)
    <2>1. Failed(cond(e)) \in Verdicts
      BY <1>0, <1>4, CondType, VerdictTypes DEF joinEnded
    <2> QED BY <1>0, <1>4, <2>1, FinishKeeps DEF joinEnded, others
  <1>5. CASE ownerTakes(e)
    <2>1. cond(e) \in Conditions
      BY <1>0, <1>5, CondType DEF ownerTakes
    <2>2. flight[e][cond(e)].verdict \in Verdicts
      BY <1>0, <2>1 DEF GatesType, Flights
    <2> QED BY <1>0, <1>5, <2>2, FinishKeeps DEF ownerTakes, others
  <1>6. CASE budgetEnds(e)
    <2>1. Failed(cond(e)) \in Verdicts
      BY <1>0, <1>6, CondType, VerdictTypes DEF budgetEnds
    <2> QED BY <1>0, <1>6, <2>1, FinishKeeps DEF budgetEnds, others
  <1>7. CASE fly(e)
    <2> DEFINE c == cond(e)
               shared == c.kind = "infer" \/ c.cached
    <2>1. c \in Conditions /\ Evaluates(e) /\ step[e] = "missed"
      BY <1>0, <1>7, CondType DEF fly
    <2>2. remembered(e) = {}
      BY <1>0, <2>1
    <2>3. CASE shared /\ inflight[c] # Nobody
      <3>1. /\ step' = [step EXCEPT ![e] = "joined"]
            /\ waitsFor' = [waitsFor EXCEPT ![e] = inflight[c]]
            /\ UNCHANGED <<plan, at, memo, hot, inflight, flight>>
        BY <1>7, <2>3 DEF fly, others
      <3>2. inflight[c] \in Events
        BY <1>0, <2>1, <2>3 DEF GatesType, Owners
      <3>3. GatesType'
        BY <1>0, <3>1, <3>2 DEF GatesType, Owners
      <3>4. UndecidedBeyondLookup'
        BY <1>0, <2>1, <2>2, <3>1
           DEF GatesType, UndecidedBeyondLookup, Evaluates, remembered, cond
      <3>5. JoinsFlight'
        BY <1>0, <3>1, <3>2 DEF GatesType, JoinsFlight
      <3>6. FlightsOnce'
        BY <2>1, <3>1 DEF GatesInv, GatesType, FlightsOnce, Evaluates, cond
      <3>7. MemoFollowsPlan' /\ RanDecides' /\ OneFlightPerKey'
            /\ CachedIsAnswered' /\ OneVerdictPerEvent'
        BY <3>1 DEF GatesInv, MemoFollowsPlan, RanDecides, OneFlightPerKey,
           Running, CachedIsAnswered, OneVerdictPerEvent
      <3> QED BY <3>3, <3>4, <3>5, <3>6, <3>7 DEF GatesInv
    <2>4. CASE ~(shared /\ inflight[c] # Nobody)
      <3> DEFINE f == [NoFlight EXCEPT !.phase = firstPhase(c)]
      <3>1. /\ step' = [step EXCEPT ![e] = "owns"]
            /\ flight' = [flight EXCEPT ![e][c] = f]
            /\ inflight' = IF shared THEN [inflight EXCEPT ![c] = e]
                           ELSE inflight
            /\ UNCHANGED <<plan, at, memo, hot, waitsFor>>
        BY <1>7, <2>4 DEF fly, others
      <3>2. f \in Flights /\ f.phase \in {"recheck", "running"}
        <4>1. firstPhase(c) \in {"recheck", "running"}
          BY DEF firstPhase
        <4>2. f = [phase |-> firstPhase(c), verdict |-> Allow,
                   outcomes |-> <<>>]
          BY DEF NoFlight
        <4>3. Allow \in Verdicts /\ <<>> \in Seq(OutcomeSet)
          BY VerdictTypes
        <4> HIDE DEF f
        <4> QED BY <4>1, <4>2, <4>3 DEF Flights, Phases
      <3> HIDE DEF f
      <3>3. flight[e][c].phase = "none"
        BY <2>1, <2>2 DEF GatesInv, FlightsOnce, remembered
      <3>4. /\ flight'[e][c] = f
            /\ \A x \in Events, d \in Conditions :
                 x # e \/ d # c => flight'[x][d] = flight[x][d]
        BY <1>0, <2>1, <3>1 DEF GatesType
      <3>5. GatesType'
        <4>1. flight' \in [Events -> [Conditions -> Flights]]
          BY <1>0, <2>1, <3>1, <3>2 DEF GatesType
        <4> QED BY <1>0, <2>1, <3>1, <4>1 DEF GatesType, Owners
      <3>6. UndecidedBeyondLookup' /\ JoinsFlight'
        BY <1>0, <2>1, <2>2, <3>1
           DEF GatesType, UndecidedBeyondLookup, JoinsFlight, Evaluates,
               remembered, cond
      <3>7. FlightsOnce'
        BY <1>0, <2>1, <3>1, <3>4
           DEF GatesInv, GatesType, FlightsOnce, Evaluates, cond
      <3>8. MemoFollowsPlan' /\ OneVerdictPerEvent'
        BY <3>1 DEF GatesInv, MemoFollowsPlan, OneVerdictPerEvent
      <3>9. RanDecides'
        BY <3>2, <3>4 DEF GatesInv, RanDecides
      <3>10. OneFlightPerKey'
        <4> SUFFICES ASSUME NEW d \in Conditions,
                            d.cached \/ d.kind = "infer"
                     PROVE  {x \in Events : Running(x, d)'}
                              = {inflight'[d]} \ {Nobody}
          BY DEF OneFlightPerKey
        <4>1. {x \in Events : Running(x, d)} = {inflight[d]} \ {Nobody}
          BY DEF GatesInv, OneFlightPerKey
        <4>2. CASE d # c
          BY <1>0, <2>1, <3>1, <3>4, <4>1, <4>2 DEF Running, GatesType
        <4>3. CASE d = c
          <5>1. inflight[c] = Nobody /\ inflight'[c] = e
            BY <1>0, <2>1, <2>4, <3>1, <4>3 DEF GatesType
          <5>2. \A x \in Events : ~Running(x, d)
            BY <4>1, <4>3, <5>1
          <5>3. \A x \in Events : Running(x, d)' <=> x = e
            BY <3>2, <3>4, <4>3, <5>2 DEF Running
          <5>4. e # Nobody
            BY GatesAssumption
          <5> QED BY <4>3, <5>1, <5>3, <5>4
        <4> QED BY <4>2, <4>3
      <3>11. CachedIsAnswered'
        <4>1. \A x \in Events, d \in Conditions :
                flight[x][d].phase \in {"stored", "closed", "gone"} =>
                  /\ flight'[x][d].phase \in {"stored", "closed", "gone"}
                  /\ flight'[x][d].verdict = flight[x][d].verdict
          BY <3>3, <3>4
        <4> QED BY <3>1, <4>1, AnswersKept DEF GatesInv
      <3> QED BY <3>5, <3>6, <3>7, <3>8, <3>9, <3>10, <3>11 DEF GatesInv
    <2> QED BY <2>3, <2>4
  <1> QED BY <1>1, <1>2, <1>3, <1>4, <1>5, <1>6, <1>7 DEF EventNext

\* The steps of a flight.
LEMMA FlightKeeps ==
    ASSUME GatesInv, NEW e \in Events, NEW c \in Conditions, FlightNext(e, c)
    PROVE  GatesInv'
  <1> DEFINE f == flight[e][c]
             f1 == flight'[e][c]
  <1>0. /\ GatesType /\ OneFlightPerKey /\ CachedIsAnswered
        /\ f \in Flights
    BY DEF GatesInv, GatesType
  \* What is left to show of a step that moves the flight on.
  <1>1. ASSUME NEW g \in Flights, f.phase # "none", g.phase # "none",
               flight' = [flight EXCEPT ![e][c] = g], UNCHANGED notFlight,
               inflight' \in [Conditions -> Owners],
               hot' \in [Conditions -> SUBSET Verdicts],
               c.kind = "exec" /\ g.phase = "ran" =>
                 Decides(c, g.outcomes, g.verdict),
               OneFlightPerKey', CachedIsAnswered'
        PROVE  GatesInv'
    <2>1. /\ flight' \in [Events -> [Conditions -> Flights]] /\ f1 = g
          /\ \A x \in Events, d \in Conditions :
               x # e \/ d # c => flight'[x][d] = flight[x][d]
          /\ MemoFollowsPlan' /\ UndecidedBeyondLookup' /\ JoinsFlight'
          /\ FlightsOnce' /\ OneVerdictPerEvent'
      <3>1. flight[e][c].phase # "none" /\ GatesInv
        BY <1>1
      <3> HIDE DEF f
      <3> QED BY <1>1, <3>1, FlightMoves, ZenonT(60) DEF f1
    <2>2. GatesType'
      BY <1>0, <1>1, <2>1 DEF GatesType, notFlight
    <2>3. RanDecides'
      BY <1>1, <2>1 DEF GatesInv, RanDecides
    <2> QED BY <1>1, <2>1, <2>2, <2>3 DEF GatesInv
  <1>2. ASSUME NEW g \in Flights, f.phase \in {"recheck", "running"},
               g.phase \in {"running", "ran", "stored"},
               flight' = [flight EXCEPT ![e][c] = g],
               UNCHANGED <<notFlight, inflight, hot>>,
               c.kind = "exec" /\ g.phase = "ran" =>
                 Decides(c, g.outcomes, g.verdict)
        PROVE  GatesInv'
    <2>1. /\ f1 = g
          /\ \A x \in Events, d \in Conditions :
               x # e \/ d # c => flight'[x][d] = flight[x][d]
      BY <1>2, <1>0 DEF GatesType
    <2>2. OneFlightPerKey'
      BY <1>0, <1>2, <2>1, FlightStaysRegistered DEF Running
    <2>3. CachedIsAnswered'
      BY <1>0, <1>2, <2>1, AnswersKept
    <2> QED BY <1>0, <1>1, <1>2, <2>2, <2>3 DEF GatesType
  <1>3. CASE recheck(e, c)
    <2>1. CASE \E v \in hot[c] : flight' = [flight EXCEPT ![e][c] =
                 [phase |-> "stored", verdict |-> v, outcomes |-> <<>>]]
      <3>1. PICK v \in hot[c] : flight' = [flight EXCEPT ![e][c] =
                 [phase |-> "stored", verdict |-> v, outcomes |-> <<>>]]
        BY <2>1
      <3> DEFINE g == [phase |-> "stored", verdict |-> v, outcomes |-> <<>>]
      <3>3. v \in Verdicts /\ <<>> \in Seq(OutcomeSet)
        BY <1>0 DEF GatesType
      <3>4. g \in Flights /\ g.phase = "stored"
        BY <3>3 DEF Flights, Phases
      <3>5. flight' = [flight EXCEPT ![e][c] = g]
        BY <3>1
      <3> HIDE DEF g
      <3> QED BY <1>2, <1>3, <3>4, <3>5 DEF recheck
    <2>2. CASE hot[c] = {} /\ phaseTo(e, c, "running")
      <3> DEFINE g == [f EXCEPT !.phase = "running"]
      <3>1. flight' = [flight EXCEPT ![e][c] = g]
        BY <2>2, <1>0 DEF phaseTo, GatesType
      <3>2. g \in Flights /\ g.phase = "running"
        BY <1>0 DEF Flights, Phases
      <3> HIDE DEF g
      <3> QED BY <1>2, <1>3, <3>1, <3>2 DEF recheck
    <2> QED BY <1>3, <2>1, <2>2 DEF recheck
  <1>4. CASE runValidator(e, c)
    <2>1. PICK outcomes \in Outcomes(c) : flight' = [flight EXCEPT ![e][c] =
                      [phase |-> "ran", outcomes |-> outcomes,
                       verdict |-> runExpandedCommands(c, outcomes)]]
      BY <1>4 DEF runValidator
    <2> DEFINE g == [phase |-> "ran", outcomes |-> outcomes,
                     verdict |-> runExpandedCommands(c, outcomes)]
    <2>2. outcomes \in Seq(OutcomeSet)
      BY <2>1, OutcomesType
    <2>3. /\ runExpandedCommands(c, outcomes) \in Verdicts
          /\ Decides(c, outcomes, runExpandedCommands(c, outcomes))
      BY <2>2, ExpandedDecides
    <2>4. g \in Flights /\ Decides(c, g.outcomes, g.verdict) /\ g.phase = "ran"
      BY <2>2, <2>3 DEF Flights, Phases
    <2>5. flight' = [flight EXCEPT ![e][c] = g]
      BY <2>1
    <2> HIDE DEF g
    <2> QED BY <1>2, <1>4, <2>4, <2>5 DEF runValidator
  <1>5. CASE inferCall(e, c)
    <2>1. PICK outcome \in IF ended[e] THEN {"error"} ELSE Answers(c) :
            flight' = [flight EXCEPT ![e][c] =
                      [phase |-> "ran", outcomes |-> <<outcome>>,
                       verdict |-> verdictOf(c, outcome)]]
      BY <1>5 DEF inferCall
    <2> DEFINE g == [phase |-> "ran", outcomes |-> <<outcome>>,
                     verdict |-> verdictOf(c, outcome)]
    <2>2. outcome \in OutcomeSet
      BY <2>1, AnswersType DEF OutcomeSet
    <2>3. verdictOf(c, outcome) \in Verdicts
      BY <2>2, VerdictTypes DEF verdictOf, OutcomeSet
    <2>4. g \in Flights /\ g.phase = "ran"
      BY <2>2, <2>3 DEF Flights, Phases
    <2>5. flight' = [flight EXCEPT ![e][c] = g] /\ c.kind # "exec"
      BY <1>5, <2>1 DEF inferCall
    <2> HIDE DEF g
    <2> QED BY <1>2, <1>5, <2>4, <2>5 DEF inferCall
  <1>6. CASE cacheStore(e, c)
    <2> DEFINE g == [phase |-> "stored", verdict |-> f.verdict,
                     outcomes |-> <<>>]
               v == [f.verdict EXCEPT !.partial = FALSE]
    <2>1. /\ f.phase = "ran" /\ flight' = [flight EXCEPT ![e][c] = g]
          /\ UNCHANGED <<notFlight, inflight>>
      BY <1>0, <1>6 DEF cacheStore, toStored, GatesType
    <2>2. g.phase = "stored" /\ g.verdict = f.verdict
      OBVIOUS
    <2>3. g \in Flights
      <3>1. <<>> \in Seq(OutcomeSet) /\ f.verdict \in Verdicts
        BY <1>0 DEF Flights
      <3> HIDE DEF f
      <3> QED BY <3>1 DEF Flights, Phases
    <2>4. /\ v \in Verdicts
          /\ v.block = f.verdict.block /\ v.errored = f.verdict.errored
      <3>1. f.verdict \in Verdicts
        BY <1>0 DEF Flights
      <3> HIDE DEF f
      <3> QED BY <3>1 DEF Verdicts
    <2>5. hot' = IF c.cached /\ ~f.verdict.errored
                 THEN [hot EXCEPT ![c] = {v}] ELSE hot
      BY <1>6 DEF cacheStore
    <2> HIDE DEF g, v
    <2>6. /\ f1 = g
          /\ \A x \in Events, d \in Conditions :
               x # e \/ d # c => flight'[x][d] = flight[x][d]
      BY <1>0, <2>1 DEF GatesType
    <2>7. OneFlightPerKey'
      BY <1>0, <2>1, <2>2, <2>6, FlightStaysRegistered DEF Running
    <2>8. CachedIsAnswered'
      <3> SUFFICES ASSUME NEW d \in Conditions, NEW u \in hot'[d]
                   PROVE  /\ ~u.errored
                          /\ \E x \in Events :
                               /\ flight'[x][d].phase \in
                                    {"stored", "closed", "gone"}
                               /\ flight'[x][d].verdict.block = u.block
        BY DEF CachedIsAnswered
      <3>1. CASE d = c /\ c.cached /\ ~f.verdict.errored
        <4>1. u = v
          BY <1>0, <2>5, <3>1 DEF GatesType
        <4>2. f1.phase = "stored" /\ f1.verdict = f.verdict
          BY <2>2, <2>6
        <4> QED BY <2>4, <3>1, <4>1, <4>2
      <3>2. CASE ~(d = c /\ c.cached /\ ~f.verdict.errored)
        <4>1. u \in hot[d]
          BY <1>0, <2>5, <3>2 DEF GatesType
        <4>2. /\ ~u.errored
              /\ \E x \in Events :
                   /\ flight[x][d].phase \in {"stored", "closed", "gone"}
                   /\ flight[x][d].verdict.block = u.block
          BY <1>0, <4>1 DEF CachedIsAnswered
        <4>3. PICK x \in Events :
                   /\ flight[x][d].phase \in {"stored", "closed", "gone"}
                   /\ flight[x][d].verdict.block = u.block
          BY <4>2
        <4>4. flight'[x][d] = flight[x][d]
          BY <2>1, <2>6, <4>3
        <4> QED BY <4>2, <4>3, <4>4
      <3> QED BY <3>1, <3>2
    <2>9. hot' \in [Conditions -> SUBSET Verdicts]
      BY <1>0, <2>4, <2>5 DEF GatesType
    <2>10. inflight' \in [Conditions -> Owners] /\ g.phase = "stored"
      BY <1>0, <2>1, <2>2 DEF GatesType
    <2> QED BY <1>1, <2>1, <2>3, <2>7, <2>8, <2>9, <2>10
  <1>7. ASSUME NEW phase \in {"closed", "gone"}, phaseTo(e, c, phase),
               f.phase \in {"stored", "closed"},
               UNCHANGED <<notFlight, hot>>,
               \/ phase = "closed" /\ UNCHANGED inflight
               \/ phase = "gone" /\ inflight[c] # e /\ UNCHANGED inflight
               \/ phase = "gone" /\ inflight' = [inflight EXCEPT ![c] = Nobody]
        PROVE  GatesInv'
    <2> DEFINE g == [f EXCEPT !.phase = phase]
    <2>1. flight' = [flight EXCEPT ![e][c] = g]
      BY <1>0, <1>7 DEF phaseTo, GatesType
    <2>2. g \in Flights /\ g.phase = phase /\ g.verdict = f.verdict
      BY <1>0 DEF Flights, Phases
    <2> HIDE DEF g
    <2>3. /\ f1 = g
          /\ \A x \in Events, d \in Conditions :
               x # e \/ d # c => flight'[x][d] = flight[x][d]
      BY <1>0, <2>1 DEF GatesType
    <2>4. inflight' \in [Conditions -> Owners]
      BY <1>0, <1>7 DEF GatesType, Owners
    <2>5. CachedIsAnswered'
      BY <1>0, <1>7, <2>2, <2>3, AnswersKept
    <2>6. OneFlightPerKey'
      <3>1. CASE phase = "closed"
        BY <1>0, <1>7, <2>2, <2>3, <3>1, FlightStaysRegistered DEF Running
      <3>2. CASE phase = "gone"
        <4> SUFFICES ASSUME NEW d \in Conditions,
                            d.cached \/ d.kind = "infer"
                     PROVE  {x \in Events : Running(x, d)'}
                              = {inflight'[d]} \ {Nobody}
          BY DEF OneFlightPerKey
        <4>1. {x \in Events : Running(x, d)} = {inflight[d]} \ {Nobody}
          BY <1>0 DEF OneFlightPerKey
        <4>2. CASE d # c
          <5>1. \A x \in Events : Running(x, d)' <=> Running(x, d)
            BY <2>3, <4>2 DEF Running
          <5>2. inflight'[d] = inflight[d]
            BY <1>0, <1>7, <4>2 DEF GatesType
          <5> QED BY <4>1, <5>1, <5>2
        <4>3. CASE d = c
          <5>1. Running(e, c)
            BY <1>7 DEF Running
          <5>2. inflight[c] = e
            BY <4>1, <4>3, <5>1
          <5>3. inflight'[c] = Nobody
            BY <1>0, <1>7, <3>2, <5>2 DEF GatesType
          <5>4. \A x \in Events : x # e => ~Running(x, c)
            BY <4>1, <4>3, <5>2
          <5>5. \A x \in Events : ~Running(x, c)'
            BY <2>2, <2>3, <3>2, <5>4 DEF Running
          <5> QED BY <4>3, <5>3, <5>5
        <4> QED BY <4>2, <4>3
      <3> QED BY <3>1, <3>2
    <2> QED BY <1>0, <1>1, <1>7, <2>1, <2>2, <2>4, <2>5, <2>6 DEF GatesType
  <1>8. CASE finishFlight(e, c)
    BY <1>7, <1>8 DEF finishFlight
  <1>9. CASE deleteFlight(e, c)
    BY <1>7, <1>9 DEF deleteFlight
  <1> QED BY <1>3, <1>4, <1>5, <1>6, <1>8, <1>9 DEF FlightNext

\* Every step keeps the invariant.
LEMMA GatesStep == GatesInv /\ [GatesNext]_gateVars => GatesInv'
  <1> SUFFICES ASSUME GatesInv, [GatesNext]_gateVars PROVE GatesInv'
    OBVIOUS
  <1> USE DEF GatesInv, GatesType, MemoFollowsPlan, UndecidedBeyondLookup,
              JoinsFlight, FlightsOnce, RanDecides, OneFlightPerKey, Running,
              CachedIsAnswered, OneVerdictPerEvent, Evaluates, remembered, cond
  <1>1. CASE UNCHANGED gateVars
    BY <1>1 DEF gateVars
  <1>2. ASSUME NEW e \in Events, contextEnds(e) PROVE GatesInv'
    BY <1>2 DEF contextEnds
  <1>3. ASSUME NEW c \in Conditions, expire(c) PROVE GatesInv'
    <2>1. \A d \in Conditions : hot'[d] \subseteq hot[d]
      BY <1>3 DEF expire
    <2>2. hot' \in [Conditions -> SUBSET Verdicts]
      BY <1>3 DEF expire
    <2> QED BY <1>3, <2>1, <2>2 DEF expire
  <1> HIDE DEF GatesInv
  <1>4. ASSUME NEW e \in Events, EventNext(e) PROVE GatesInv'
    BY <1>4, EventKeeps
  <1>5. ASSUME NEW e \in Events, NEW c \in Conditions, FlightNext(e, c)
        PROVE  GatesInv'
    BY <1>5, FlightKeeps
  <1> QED BY <1>1, <1>2, <1>3, <1>4, <1>5 DEF GatesNext

----------------------------------------------------------------------------
\* The inductive invariant of the gates.
LEMMA GatesInvariant == GatesSpec => []GatesInv
  BY GatesInitInv, GatesStep, PTL DEF GatesSpec

(* However many events want the answer of a condition they share, one run of *)
(* its validator or one model call is under way and the map names it; and    *)
(* what the cache serves to later events is what such a run answered, never  *)
(* the on_error policy of one that failed (runValidatorSingleflight,         *)
(* finishValidatorFlight, cacheStore).                                       *)
THEOREM FlightsCorrect == GatesSpec => []FlightsInOrder
  <1>1. GatesInv => FlightsInOrder
    BY DEF GatesInv, FlightsInOrder
  <1> QED BY <1>1, GatesInvariant, PTL

(* An event has one verdict for a condition, however often it asks and       *)
(* whoever ran it, and the verdict over several targets is the one their     *)
(* outcomes call for, whatever their number (execVerdictMemo,                *)
(* runExpandedCommands).                                                     *)
THEOREM VerdictsCorrect == GatesSpec => []VerdictsAgree
  <1>1. GatesInv => VerdictsAgree
    BY DEF GatesInv, VerdictsAgree, TargetsDecide, RanDecides, Decides
  <1> QED BY <1>1, GatesInvariant, PTL
=============================================================================
