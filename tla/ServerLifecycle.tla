-------------------------- MODULE ServerLifecycle --------------------------
(* The daemon's Server: how runtime snapshots are built, published, used by  *)
(* hook calls and deferred jobs, replaced by a configuration reload or by    *)
(* the audit scheduler's rotation, and closed; and how Run starts and stops  *)
(* the schedulers around it.                                                 *)
(*                                                                           *)
(* Goroutines: the hook calls (EvaluateHook), the deferred jobs, the config  *)
(* watcher, the audit scheduler, the update schedulers, and main (Run, then  *)
(* Close).  Mutexes are not variables: who holds cfgMu, lifecycleMu or       *)
(* runtimeMu follows from the program counters, see CfgFree, LifecycleFree   *)
(* and Readers.  What a snapshot holds on disk is AuditCatalog's and         *)
(* FileOwners' business; the deferred queue is DeferredDispatch's.           *)
EXTENDS Naturals, FiniteSets

CONSTANTS
    Calls,           \* hook calls
    Jobs,            \* deferred jobs
    Configs,         \* configuration files that a user may write
    HotConcurrency,  \* evaluation slots of one snapshot
    MaxEdits,        \* bound on edits of the configuration file
    MaxRotations,    \* bound on rotations by the audit scheduler
    MaxFaults        \* bound on storage errors

ASSUME ServerAssumption ==
    /\ HotConcurrency \in Nat \ {0}
    /\ MaxEdits \in Nat /\ MaxRotations \in Nat /\ MaxFaults \in Nat
    /\ \A c \in Configs :
         /\ c.kind \in {"good", "undecoded", "refused"}
         /\ DOMAIN c = {"kind", "storage", "detail"}

VARIABLES file, pending, runtime, snap, inference, generation, call, job,
          paused, watcher, audit, auditRequested, main, signal, shutdown,
          closing, stopping, updates, edits, faults

daemonVars == <<file, pending, runtime, snap, inference, generation, call, job,
          paused, watcher, audit, auditRequested, main, signal, shutdown,
          closing, stopping, updates, edits, faults>>

----------------------------------------------------------------------------
Nil == 0
Snapshots == 1 .. (1 + MaxEdits + MaxRotations)
Reasons == {"DaemonNotReady", "ConfigUnusable", "Overloaded",
            "IntakeWriteFailed"}

NoConfig == [kind |-> "none", storage |-> Nil, detail |-> Nil]
\* A snapshot that does not exist yet.
Unborn == [st |-> "none", cfg |-> NoConfig, bucket |-> Nil, slots |-> 0,
           generation |-> 0, inf |-> Nil]

IdleCall == [pc |-> "idle", by |-> Nil, reason |-> "none"]

\* runtimeMu: the calls and jobs that hold it for reading, and whether a
\* writer waits for it.  A waiting writer keeps new readers out.
Readers == {c \in Calls : call[c].pc \in {"loaded", "waiting", "evaluating"}}
WriterWaits == \/ watcher.pc \in {"withdraw", "publish"}
               \/ audit.pc = "publish"
               \/ main = "swap"
CanRead == ~WriterWaits
CanWrite == Readers = {}

\* cfgMu is held over the wait for runtimeMu by a publishing reload and by
\* close; its other holders take and release it within one step.
CfgFree == watcher.pc # "publish" /\ main # "swap"

\* lifecycleMu: the pcs between lockLifecycle and Unlock.  storageTransition
\* is set while the watcher drains the deferred workers.
WatcherHolds == watcher.pc \notin {"idle", "want", "exited"}
AuditHolds == audit.pc \in {"reconcile", "publish", "closeOld"}
LifecycleFree == ~WatcherHolds /\ ~AuditHolds /\ main # "swap"

usable(s) == s # Nil /\ snap[s].cfg.kind = "good"
SameStorage(c, d) == c.storage = d.storage

Fault == faults < MaxFaults /\ faults' = faults + 1

\* Contexts: reload derives from the daemon's lifetime and from shutdown; the
\* audit scheduler from the context of whoever started it.
auditCanceled == audit.canceled \/ (audit.parent = "run" /\ signal)

----------------------------------------------------------------------------
\* inferenceOwner: references and whether release has closed the runtime.
retain(i) == [inference EXCEPT ![i].references = @ + 1]
release(i) ==
    IF i = Nil THEN inference
    ELSE [inference EXCEPT
            ![i].references = @ - 1,
            ![i].closed = @ \/ inference[i].references = 1]

NextSnapshot == CHOOSE s \in Snapshots :
    /\ snap[s].st = "none"
    /\ \A t \in 1 .. (s - 1) : snap[t].st # "none"

\* snapshotForBucket: a snapshot for a bucket; a rotation keeps the current
\* snapshot's *Config and with it the inference runtime.
newRuntimeSnapshot(cfg, bucket, shared) ==
    LET s == NextSnapshot
        i == IF shared = Nil THEN s ELSE shared
    IN  /\ snap' = [snap EXCEPT ![s] =
                      [Unborn EXCEPT !.st = "open", !.cfg = cfg,
                                     !.bucket = bucket, !.inf = i]]
        /\ inference' = retain(i)

\* runtimeSnapshot.close: the event logger, the inference reference and the
\* file owner.
closed(s) == IF s = Nil THEN snap ELSE [snap EXCEPT ![s].st = "closed"]
closeSnapshot(s) ==
    /\ snap' = closed(s)
    /\ inference' = IF s = Nil THEN inference ELSE release(snap[s].inf)

\* Mutant: a reload starts a new generation only when it had a predecessor.
publishKeepsGeneration(s) ==
    LET kept == runtime = Nil \/ snap[runtime].bucket = snap[s].bucket
        g == IF kept THEN generation ELSE generation + 1
    IN  /\ snap' = [snap EXCEPT ![s].generation = g]
        /\ generation' = g
        /\ runtime' = s
\* publishRuntimeLocked
publishRuntimeLocked(s) ==
    LET kept == runtime # Nil /\ snap[runtime].bucket # Nil
                /\ snap[runtime].bucket = snap[s].bucket
        g == IF kept THEN snap[runtime].generation ELSE generation + 1
    IN  /\ snap' = [snap EXCEPT ![s].generation = g]
        /\ generation' = IF kept THEN generation ELSE g
        /\ runtime' = s

NewBucket == 1 + Cardinality({snap[s].bucket : s \in Snapshots} \ {Nil})

----------------------------------------------------------------------------
(* EvaluateHook.                                                           *)

finish(c, reason) ==
    call' = [call EXCEPT ![c].pc = "answered", ![c].reason = reason]

serverVars == <<file, pending, runtime, inference, generation, job, paused,
                watcher, audit, auditRequested, main, signal, shutdown,
                closing, stopping, updates, edits>>

\* runtimeMu.RLock and the load of the snapshot.
EvaluateHook(c) ==
    /\ call[c].pc = "idle" /\ CanRead
    /\ main \in {"serving", "ready"} /\ ~stopping
    /\ IF runtime = Nil THEN finish(c, "DaemonNotReady")
       ELSE IF ~usable(runtime) THEN finish(c, "ConfigUnusable")
       ELSE call' = [call EXCEPT ![c].pc = "loaded", ![c].by = runtime]
    /\ UNCHANGED <<serverVars, snap, faults>>

acquireEvaluateSlot(c) ==
    LET s == call[c].by IN
    /\ call[c].pc \in {"loaded", "waiting"}
    /\ snap[s].slots < HotConcurrency
    /\ snap' = [snap EXCEPT ![s].slots = @ + 1]
    /\ call' = [call EXCEPT ![c].pc = "evaluating"]
    /\ UNCHANGED <<serverVars, faults>>

queueForSlot(c) ==
    /\ call[c].pc = "loaded" /\ snap[call[c].by].slots = HotConcurrency
    /\ call' = [call EXCEPT ![c].pc = "waiting"]
    /\ UNCHANGED <<serverVars, snap, faults>>

\* The queue deadline or the caller's context passes first.
logEvaluateOverload(c) ==
    /\ call[c].pc = "waiting"
    /\ finish(c, "Overloaded")
    /\ UNCHANGED <<serverVars, snap, faults>>

\* releaseEvaluateSlot
freedSlot(c) == [snap EXCEPT ![call[c].by].slots = @ - 1]

\* Intake append, evaluation and commit; or the append fails.
evaluated(c) ==
    /\ call[c].pc = "evaluating"
    /\ \/ finish(c, "none") /\ UNCHANGED faults
       \/ finish(c, "IntakeWriteFailed") /\ Fault
    /\ snap' = freedSlot(c)
    /\ UNCHANGED serverVars

----------------------------------------------------------------------------
(* Deferred jobs: prepareDeferredJob and the release of what it borrowed.   *)

jobRest == <<file, pending, runtime, snap, generation, call, paused, watcher,
             audit, auditRequested, main, signal, shutdown, closing,
             stopping, updates, edits, faults>>

\* Mutant: the worker uses the snapshot's inference runtime uncounted.
borrowUncounted(i) == inference
borrowInference(i) == retain(i)

prepareDeferredJob(j) ==
    /\ job[j] = Nil /\ ~paused /\ CanRead
    /\ usable(runtime)
    /\ job' = [job EXCEPT ![j] = snap[runtime].inf]
    /\ inference' = borrowInference(snap[runtime].inf)
    /\ UNCHANGED jobRest

releaseDeferredJob(j) ==
    /\ job[j] # Nil
    /\ job' = [job EXCEPT ![j] = Nil]
    /\ inference' = release(job[j])
    /\ UNCHANGED jobRest

Drained == \A j \in Jobs : job[j] = Nil

----------------------------------------------------------------------------
(* The config watcher: watchConfigFile and reloadConfig.                    *)

idle == [pc |-> "idle", cfg |-> NoConfig, new |-> Nil, old |-> Nil]
stepTo(pc) == watcher' = [watcher EXCEPT !.pc = pc]

watcherRest == <<file, call, job, audit, main, signal, shutdown, closing,
                 stopping>>

Watching == main \notin {"init", "publish", "failed"} /\ watcher.pc # "exited"

\* An editor writes the file; fsnotify reports it while the watcher runs.
EditConfig(c) ==
    /\ edits < MaxEdits /\ c # file
    /\ file' = c /\ edits' = edits + 1
    /\ pending' = Watching
    /\ UNCHANGED <<runtime, snap, inference, generation, call, job, paused,
                   watcher, audit, auditRequested, main, signal, shutdown,
                   closing, stopping, updates, faults>>

\* The debounce timer fires.
fireReload ==
    /\ watcher.pc = "idle" /\ pending
    /\ pending' = FALSE
    /\ stepTo("want")
    /\ UNCHANGED <<watcherRest, runtime, snap, inference, generation, paused,
                   auditRequested, updates, edits, faults>>

\* Mutant: a reload that finds the lifecycle busy gives up.
reloadTryLock ==
    /\ watcher.pc = "want"
    /\ watcher' = IF closing \/ file.kind # "good" \/ ~LifecycleFree THEN idle
                  ELSE [idle EXCEPT !.pc = "replace", !.cfg = file]
    /\ UNCHANGED <<watcherRest, pending, runtime, snap, inference, generation,
                   paused, auditRequested, updates, edits, faults>>
\* reloadConfig up to replaceAuditSnapshot: lock, load, validate.
reloadConfig ==
    /\ watcher.pc = "want" /\ LifecycleFree
    /\ watcher' = IF closing \/ file.kind # "good" THEN idle
                  ELSE [idle EXCEPT !.pc = "replace", !.cfg = file]
    /\ UNCHANGED <<watcherRest, pending, runtime, snap, inference, generation,
                   paused, auditRequested, updates, edits, faults>>

KeepsStorage ==
    /\ usable(runtime)
    /\ SameStorage(snap[runtime].cfg, watcher.cfg)

\* replaceAuditSnapshot, same storage: EnsureCurrent returns the current file
\* or a newer one; a change of the detail first drains the workers.
replaceSameStorage ==
    /\ watcher.pc = "replace" /\ KeepsStorage
    /\ \E bucket \in {snap[runtime].bucket, NewBucket} :
         newRuntimeSnapshot(watcher.cfg, bucket, Nil)
    /\ IF snap[runtime].cfg.detail = watcher.cfg.detail
       THEN /\ watcher' = [watcher EXCEPT !.pc = "publish", !.new = NextSnapshot]
            /\ UNCHANGED paused
       ELSE /\ watcher' = [watcher EXCEPT !.pc = "drainDetail",
                                          !.new = NextSnapshot]
            /\ paused' = TRUE
    /\ UNCHANGED <<watcherRest, pending, runtime, generation, auditRequested,
                   updates, edits, faults>>

\* EnsureCurrent or the snapshot fails: the previous configuration stays.
replaceFails ==
    /\ watcher.pc = "replace" /\ KeepsStorage /\ Fault
    /\ watcher' = idle
    /\ UNCHANGED <<watcherRest, pending, runtime, snap, inference, generation,
                   paused, auditRequested, updates, edits>>

\* From an unusable configuration: initializeAuditStorage, with the unusable
\* snapshot still published.
replaceUnusable ==
    /\ watcher.pc = "replace" /\ runtime # Nil /\ ~usable(runtime)
    /\ ~shutdown
    /\ newRuntimeSnapshot(watcher.cfg, NewBucket, Nil)
    /\ watcher' = [watcher EXCEPT !.pc = "publish", !.new = NextSnapshot]
    /\ UNCHANGED <<watcherRest, pending, runtime, generation, paused,
                   auditRequested, updates, edits, faults>>

\* A change of storage: admission stops, then the old snapshot is withdrawn.
replaceStorage ==
    /\ watcher.pc = "replace" /\ ~KeepsStorage
    /\ runtime = Nil \/ usable(runtime)
    /\ paused' = TRUE
    /\ stepTo("drainStorage")
    /\ UNCHANGED <<watcherRest, pending, runtime, snap, inference, generation,
                   auditRequested, updates, edits, faults>>

\* pauseAndDrain returns.
drainedReload ==
    /\ watcher.pc \in {"drainDetail", "drainStorage"} /\ Drained
    /\ stepTo(IF watcher.pc = "drainDetail" THEN "publish" ELSE "withdraw")
    /\ UNCHANGED <<watcherRest, pending, runtime, snap, inference, generation,
                   paused, auditRequested, updates, edits, faults>>

\* Mutant: the swap does not wait for the calls that read the snapshot.
withdrawUnlocked ==
    /\ watcher.pc = "withdraw"
    /\ runtime' = Nil
    /\ watcher' = [watcher EXCEPT !.pc = "closeWithdrawn", !.old = runtime]
    /\ UNCHANGED <<watcherRest, pending, snap, inference, generation, paused,
                   auditRequested, updates, edits, faults>>
\* runtimeMu.Lock; runtime.Swap(nil)
withdraw ==
    /\ watcher.pc = "withdraw" /\ CanWrite
    /\ runtime' = Nil
    /\ watcher' = [watcher EXCEPT !.pc = "closeWithdrawn", !.old = runtime]
    /\ UNCHANGED <<watcherRest, pending, snap, inference, generation, paused,
                   auditRequested, updates, edits, faults>>

closeWithdrawn ==
    /\ watcher.pc = "closeWithdrawn"
    /\ closeSnapshot(watcher.old)
    /\ watcher' = [watcher EXCEPT !.pc = "reset", !.old = Nil]
    /\ UNCHANGED <<watcherRest, pending, runtime, generation, paused,
                   auditRequested, updates, edits, faults>>

\* retryAuditStorage: Reset and the new snapshot, retried on error.
resetStorage ==
    /\ watcher.pc = "reset" /\ ~shutdown
    /\ newRuntimeSnapshot(watcher.cfg, NewBucket, Nil)
    /\ watcher' = [watcher EXCEPT !.pc = "publish", !.new = NextSnapshot]
    /\ UNCHANGED <<watcherRest, pending, runtime, generation, paused,
                   auditRequested, updates, edits, faults>>

resetFails ==
    /\ watcher.pc = "reset" /\ Fault
    /\ UNCHANGED <<watcherRest, pending, runtime, snap, inference, generation,
                   paused, watcher, auditRequested, updates, edits>>

\* Mutant: the retries of a reload do not watch for shutdown.
reloadNotCanceled == FALSE /\ UNCHANGED daemonVars
\* Shutdown ends the retries; the reload returns its error.
reloadCanceled ==
    /\ \/ watcher.pc = "reset"
       \/ watcher.pc = "replace" /\ runtime # Nil /\ ~usable(runtime)
    /\ shutdown
    /\ watcher' = idle
    /\ UNCHANGED <<watcherRest, pending, runtime, snap, inference, generation,
                   paused, auditRequested, updates, edits, faults>>

\* Under cfgMu and runtimeMu: publish, configure the processor, and stop the
\* update scheduler.
publishReload ==
    /\ watcher.pc = "publish" /\ CanWrite
    /\ publishRuntimeLocked(watcher.new)
    /\ paused' = FALSE
    /\ watcher' = [watcher EXCEPT !.pc = "restart", !.old = runtime]
    /\ updates' = [updates EXCEPT !.live = @ \ {updates.cancel}]
    /\ UNCHANGED <<watcherRest, pending, inference, auditRequested, edits,
                   faults>>

\* StartUpdateScheduler
startUpdates ==
    [updates EXCEPT !.live = (@ \ {updates.cancel}) \cup {updates.next},
                    !.cancel = updates.next, !.next = @ + 1]

restartUpdates ==
    /\ watcher.pc = "restart" /\ CfgFree
    /\ updates' = IF updates.requested THEN startUpdates ELSE updates
    /\ stepTo("closeOld")
    /\ UNCHANGED <<watcherRest, pending, runtime, snap, inference, generation,
                   paused, auditRequested, edits, faults>>

closeOldSnapshot ==
    /\ watcher.pc = "closeOld"
    /\ closeSnapshot(watcher.old)
    /\ stepTo("startAudit")
    /\ UNCHANGED <<watcherRest, pending, runtime, generation, paused,
                   auditRequested, updates, edits, faults>>

\* Mutant: the scheduler starts once only, when Run asks for it.
StartAuditOnce(parent) ==
    /\ CfgFree
    /\ IF closing \/ shutdown
       THEN UNCHANGED <<audit, auditRequested>>
       ELSE /\ auditRequested' = usable(runtime)
            /\ audit' = IF usable(runtime) /\ audit.pc = "absent"
                        THEN [audit EXCEPT !.pc = "loop", !.parent = parent]
                        ELSE audit
\* StartAuditScheduler, from Run (parent "run") or from a reload.
StartAuditScheduler(parent) ==
    /\ CfgFree
    /\ IF closing \/ shutdown
       THEN UNCHANGED <<audit, auditRequested>>
       ELSE /\ auditRequested' = TRUE
            /\ audit' = IF usable(runtime) /\ audit.pc = "absent"
                        THEN [audit EXCEPT !.pc = "loop", !.parent = parent]
                        ELSE audit

endReload ==
    /\ watcher.pc = "startAudit"
    /\ IF auditRequested THEN StartAuditScheduler("reload")
       ELSE UNCHANGED <<audit, auditRequested>>
    /\ watcher' = idle
    /\ UNCHANGED <<file, pending, runtime, snap, inference, generation, call,
                   job, paused, main, signal, shutdown, closing, stopping,
                   updates, edits, faults>>

----------------------------------------------------------------------------
(* The audit scheduler: auditScheduler and reconcileAuditStorage.           *)

auditRest == <<file, pending, call, job, paused, watcher, auditRequested,
               main, signal, shutdown, closing, stopping, updates, edits>>

\* reconcileAuditStorage takes the lifecycle; it returns at once when the
\* context is done or there is nothing to reconcile.
lockForReconcile ==
    /\ audit.pc = "loop" /\ ~auditCanceled /\ LifecycleFree
    /\ usable(runtime) /\ ~closing
    /\ audit' = [audit EXCEPT !.pc = "reconcile"]
    /\ UNCHANGED <<auditRest, runtime, snap, inference, generation, faults>>

\* A new file is due: EnsureCurrent and a snapshot that shares the inference
\* runtime of the current one.
rotate ==
    /\ audit.pc = "reconcile" /\ audit.rotations < MaxRotations
    /\ newRuntimeSnapshot(snap[runtime].cfg, NewBucket, snap[runtime].inf)
    /\ audit' = [audit EXCEPT !.pc = "publish", !.new = NextSnapshot,
                              !.rotations = @ + 1]
    /\ UNCHANGED <<auditRest, runtime, generation, faults>>

\* No rotation is due, or it fails before a snapshot exists; pruning follows.
endReconcile ==
    /\ audit.pc = "reconcile"
    /\ audit' = [audit EXCEPT !.pc = "loop"]
    /\ UNCHANGED <<auditRest, runtime, snap, inference, generation, faults>>

publishRotation ==
    /\ audit.pc = "publish" /\ CanWrite
    /\ publishRuntimeLocked(audit.new)
    /\ audit' = [audit EXCEPT !.pc = "closeOld", !.new = runtime]
    /\ UNCHANGED <<auditRest, inference, faults>>

closeRotated ==
    /\ audit.pc = "closeOld"
    /\ closeSnapshot(audit.new)
    /\ audit' = [audit EXCEPT !.pc = "loop", !.new = Nil]
    /\ UNCHANGED <<auditRest, runtime, generation, faults>>

endAudit ==
    /\ audit.pc = "loop" /\ auditCanceled
    /\ audit' = [audit EXCEPT !.pc = "exited"]
    /\ UNCHANGED <<auditRest, runtime, snap, inference, generation, faults>>

----------------------------------------------------------------------------
(* Run and Close.                                                           *)

mainRest == <<file, pending, call, job, edits>>

\* New: initializeAuditStorage retries until a snapshot exists; then publish,
\* configure the processor and watch the configuration file.
newServer ==
    /\ main = "init" /\ ~signal
    /\ IF file.kind = "good"
       THEN newRuntimeSnapshot(file, NewBucket, Nil)
       ELSE /\ snap' = [snap EXCEPT ![1] = [Unborn EXCEPT !.st = "open",
                                                          !.cfg = file]]
            /\ UNCHANGED inference
    /\ main' = "publish"
    /\ UNCHANGED <<mainRest, runtime, generation, paused, watcher, audit,
                   auditRequested, signal, shutdown, closing, stopping,
                   updates, faults>>

startStorageFails ==
    /\ main = "init" /\ Fault
    /\ UNCHANGED <<mainRest, runtime, snap, inference, generation, paused,
                   watcher, audit, auditRequested, main, signal, shutdown,
                   closing, stopping, updates>>

publishFirst ==
    /\ main = "publish"
    /\ publishRuntimeLocked(1)
    /\ paused' = FALSE
    /\ main' = "created"
    /\ UNCHANGED <<mainRest, inference, watcher, audit, auditRequested,
                   signal, shutdown, closing, stopping, updates, faults>>

\* The context ends, or the configuration does not validate.
newServerFails ==
    /\ main = "init" /\ (signal \/ file.kind = "refused")
    /\ main' = "failed"
    /\ UNCHANGED <<mainRest, runtime, snap, inference, generation, paused,
                   watcher, audit, auditRequested, signal, shutdown, closing,
                   stopping, updates, faults>>

StartUpdateScheduler ==
    /\ main = "created" /\ CfgFree
    /\ updates' = [startUpdates EXCEPT !.requested = TRUE]
    /\ main' = "serving"
    /\ UNCHANGED <<mainRest, runtime, snap, inference, generation, paused,
                   watcher, audit, auditRequested, signal, shutdown, closing,
                   stopping, faults>>

serveAfterReadiness ==
    /\ main = "serving"
    /\ StartAuditScheduler("run")
    /\ main' = "ready"
    /\ UNCHANGED <<mainRest, runtime, snap, inference, generation, paused,
                   watcher, signal, shutdown, closing, stopping, updates,
                   faults>>

\* SIGTERM: the context ends and with it the daemon's lifetime.
Signal ==
    /\ ~signal /\ main \notin {"failed", "done"}
    /\ signal' = TRUE
    /\ shutdown' = (shutdown \/ main # "init")
    /\ stopping' = (main \notin {"init", "publish", "created"} \/ stopping)
    /\ UNCHANGED <<mainRest, runtime, snap, inference, generation, paused,
                   watcher, audit, auditRequested, main, closing, updates,
                   faults>>

\* An update scheduler installed a new version: StopForRelaunch.
StopForRelaunch ==
    /\ updates.live # {} /\ main \in {"serving", "ready"} /\ ~stopping
    /\ stopping' = TRUE
    /\ UNCHANGED <<mainRest, runtime, snap, inference, generation, paused,
                   watcher, audit, auditRequested, main, signal, shutdown,
                   closing, updates, faults>>

\* Serve returns: GracefulStop has waited for the calls.
serveReturns ==
    /\ main \in {"serving", "ready"} /\ (stopping \/ signal)
    /\ \A c \in Calls : call[c].pc \in {"idle", "answered"}
    /\ main' = "close"
    /\ UNCHANGED <<mainRest, runtime, snap, inference, generation, paused,
                   watcher, audit, auditRequested, signal, shutdown, closing,
                   stopping, updates, faults>>

\* The listener fails: Serve returns with calls still running.
serveFails ==
    /\ main \in {"serving", "ready"} /\ Fault
    /\ main' = "close"
    /\ UNCHANGED <<mainRest, runtime, snap, inference, generation, paused,
                   watcher, audit, auditRequested, signal, shutdown, closing,
                   stopping, updates>>

\* close: cancel the lifetime and the audit scheduler.
cancelLifetime ==
    /\ main = "close" /\ CfgFree
    /\ shutdown' = TRUE
    /\ audit' = [audit EXCEPT !.canceled = (audit.pc # "absent")]
    /\ main' = "waitAudit"
    /\ UNCHANGED <<mainRest, runtime, snap, inference, generation, paused,
                   watcher, auditRequested, signal, closing, stopping,
                   updates, faults>>

\* Mutant: close takes the lifecycle without waiting for a transition.
lockIgnoresTransition ==
    /\ main = "waitAudit" /\ audit.pc \in {"absent", "exited"}
    /\ LifecycleFree \/ watcher.pc \in {"drainDetail", "drainStorage"}
    /\ main' = "swap"
    /\ closing' = TRUE
    /\ UNCHANGED <<mainRest, runtime, snap, inference, generation, paused,
                   watcher, audit, auditRequested, signal, shutdown, stopping,
                   updates, faults>>
\* auditWG.Wait, lockLifecycle, cfgMu.Lock
lockForClose ==
    /\ main = "waitAudit" /\ audit.pc \in {"absent", "exited"}
    /\ LifecycleFree
    /\ main' = "swap"
    /\ closing' = TRUE
    /\ UNCHANGED <<mainRest, runtime, snap, inference, generation, paused,
                   watcher, audit, auditRequested, signal, shutdown, stopping,
                   updates, faults>>

\* The runtime is withdrawn, the watcher and the update scheduler stopped;
\* deferredProcessor.Close keeps new jobs out.
swapForClose ==
    /\ main = "swap" /\ CanWrite
    /\ runtime' = Nil
    /\ main' = "stopWorkers"
    /\ updates' = [updates EXCEPT !.live = @ \ {updates.cancel}, !.cancel = Nil]
    /\ paused' = TRUE
    /\ audit' = [audit EXCEPT !.new = runtime]
    /\ UNCHANGED <<mainRest, snap, inference, generation, watcher,
                   auditRequested, signal, shutdown, closing, stopping,
                   faults>>

\* The workers have ended; the last snapshot is closed.
closeLast ==
    /\ main = "stopWorkers" /\ Drained
    /\ closeSnapshot(audit.new)
    /\ main' = "done"
    /\ UNCHANGED <<mainRest, runtime, generation, paused, watcher, audit,
                   auditRequested, signal, shutdown, closing, stopping,
                   updates, faults>>

\* configWatcher.Close ends the watcher's loop.
watcherExits ==
    /\ main \in {"stopWorkers", "done"} /\ watcher.pc = "idle"
    /\ stepTo("exited")
    /\ pending' = FALSE
    /\ UNCHANGED <<watcherRest, runtime, snap, inference, generation, paused,
                   auditRequested, updates, edits, faults>>

----------------------------------------------------------------------------
ServerInit ==
    /\ file \in Configs
    /\ pending = FALSE /\ runtime = Nil
    /\ snap = [s \in Snapshots |-> Unborn]
    /\ inference = [s \in Snapshots |-> [references |-> 0, closed |-> FALSE]]
    /\ generation = 0
    /\ call = [c \in Calls |-> IdleCall]
    /\ job = [j \in Jobs |-> Nil]
    /\ paused = TRUE
    /\ watcher = idle
    /\ audit = [pc |-> "absent", parent |-> "none", new |-> Nil,
                canceled |-> FALSE, rotations |-> 0]
    /\ auditRequested = FALSE /\ main = "init"
    /\ signal = FALSE /\ shutdown = FALSE /\ closing = FALSE
    /\ stopping = FALSE
    /\ updates = [live |-> {}, cancel |-> Nil, next |-> 1, requested |-> FALSE]
    /\ edits = 0 /\ faults = 0

CallStep(c) == EvaluateHook(c) \/ acquireEvaluateSlot(c) \/ queueForSlot(c)
               \/ logEvaluateOverload(c) \/ evaluated(c)
JobStep(j) == prepareDeferredJob(j) \/ releaseDeferredJob(j)
ReloadStep == reloadConfig \/ replaceSameStorage \/ replaceUnusable
              \/ replaceStorage \/ drainedReload \/ withdraw
              \/ closeWithdrawn \/ resetStorage \/ reloadCanceled
              \/ publishReload \/ restartUpdates \/ closeOldSnapshot
              \/ endReload
WatcherStep == fireReload \/ ReloadStep \/ replaceFails \/ resetFails
               \/ watcherExits
AuditStep == lockForReconcile \/ rotate \/ endReconcile \/ publishRotation
             \/ closeRotated \/ endAudit
Starts == newServer \/ publishFirst \/ StartUpdateScheduler
          \/ serveAfterReadiness
Closes == cancelLifetime \/ lockForClose \/ swapForClose \/ closeLast
Environment == startStorageFails \/ newServerFails \/ Signal
               \/ StopForRelaunch \/ serveFails
               \/ \E c \in Configs : EditConfig(c)

ServerNext ==
    \/ \E c \in Calls : CallStep(c)
    \/ \E j \in Jobs : JobStep(j)
    \/ WatcherStep \/ AuditStep \/ Starts \/ serveReturns \/ Closes
    \/ Environment

\* Every goroutine that can run does so; calls and jobs end (their contexts
\* have deadlines).  The lifecycle mutex is fair to its waiters (Go hands a
\* mutex over to a waiter that has starved).
FairCall(c) == acquireEvaluateSlot(c) \/ queueForSlot(c)
               \/ logEvaluateOverload(c) \/ evaluated(c)
ServerFairness ==
    /\ \A c \in Calls : WF_daemonVars(FairCall(c))
    /\ \A j \in Jobs : WF_daemonVars(releaseDeferredJob(j))
    /\ WF_daemonVars(fireReload) /\ SF_daemonVars(ReloadStep)
    /\ WF_daemonVars(rotate \/ endReconcile) /\ WF_daemonVars(publishRotation)
    /\ WF_daemonVars(closeRotated) /\ WF_daemonVars(endAudit)
    /\ WF_daemonVars(Starts) /\ WF_daemonVars(serveReturns)
    /\ SF_daemonVars(Closes)

ServerSpec == ServerInit /\ [][ServerNext]_daemonVars /\ ServerFairness

----------------------------------------------------------------------------
ServerTypeOK ==
    /\ file \in Configs /\ runtime \in Snapshots \cup {Nil}
    /\ \A s \in Snapshots :
         /\ snap[s].st \in {"none", "open", "closed"}
         /\ snap[s].slots \in 0 .. HotConcurrency
         /\ inference[s].references \in Nat
    /\ \A c \in Calls : call[c].by \in Snapshots \cup {Nil}
                        /\ call[c].reason \in Reasons \cup {"none"}
    /\ job \in [Jobs -> Snapshots \cup {Nil}]
    /\ runtime # Nil => snap[runtime].st = "open"

(* A call is evaluated by the snapshot that is published during the whole  *)
(* of the call, with its files, logger and inference runtime open: a       *)
(* reload, a rotation or a shutdown in between waits for it.                *)
CallsSeeOneSnapshot ==
    \A c \in Calls :
        call[c].pc \in {"loaded", "waiting", "evaluating"} =>
            /\ call[c].by = runtime
            /\ snap[runtime].st = "open"
            /\ ~inference[snap[runtime].inf].closed

(* An inference runtime is referenced once by every snapshot and job that  *)
(* uses it, and is closed exactly when the last of them is gone.            *)
InferenceCounted ==
    \A i \in Snapshots :
        /\ inference[i].references =
             Cardinality({s \in Snapshots : snap[s].st = "open" /\ snap[s].inf = i})
             + Cardinality({j \in Jobs : job[j] = i})
        /\ inference[i].closed =>
             \A j \in Jobs : job[j] # i

(* The slots of a snapshot are exactly those its calls hold, so a snapshot *)
(* never runs out of slots by calls that failed or were overtaken.          *)
SlotsHeld ==
    \A s \in Snapshots :
        snap[s].slots = Cardinality({c \in Calls : call[c].pc = "evaluating"
                                                   /\ call[c].by = s})

(* Outside start-up and shutdown the daemon is without a snapshot only      *)
(* while a reload that changes the storage is on its way: a refused or      *)
(* failed reload never withdraws enforcement.                               *)
WithdrawnOnlyForReset ==
    runtime = Nil =>
        \/ main \in {"init", "publish", "failed"} \/ shutdown \/ closing
        \/ watcher.pc \in {"closeWithdrawn", "reset"}
        \/ watcher.pc = "publish"

(* At most one update scheduler is live at any time.                        *)
OneUpdater == Cardinality(updates.live) <= 1

(* When Close has returned, nothing of the daemon is left: every snapshot   *)
(* and inference runtime is closed, and no scheduler, job or reload runs.   *)
NothingAfterClose ==
    main = "done" =>
        /\ \A s \in Snapshots : snap[s].st # "open"
        /\ \A i \in Snapshots : inference[i].references = 0
        /\ audit.pc \in {"absent", "exited"} /\ updates.live = {}
        /\ Drained /\ watcher.pc \in {"idle", "want", "exited"}

(* Generations order the files: a published snapshot has the generation of *)
(* its predecessor when it writes to the same file and a larger one when    *)
(* the file changed, also over a withdrawal.                                *)
GenerationsFollowFiles ==
    \A s, t \in Snapshots :
        /\ snap[s].generation # 0 /\ snap[t].generation # 0
        /\ snap[s].bucket # Nil /\ snap[t].bucket # Nil
        => (snap[s].generation = snap[t].generation
              <=> snap[s].bucket = snap[t].bucket)

(* Whoever uses a snapshot, its inference runtime or one of its slots is     *)
(* counted, and finds it open (server.go: EvaluateHook, replaceRuntime).     *)
SnapshotsInUse == ServerTypeOK /\ CallsSeeOneSnapshot /\ InferenceCounted /\ SlotsHeld

(* Reload, rotation and shutdown, in whatever order they meet: service is    *)
(* withdrawn for a reset only, one scheduler runs, and nothing is left.      *)
LifecycleInOrder ==
    WithdrawnOnlyForReset /\ OneUpdater /\ NothingAfterClose /\ GenerationsFollowFiles

(* Close comes to an end whatever a reload, a rotation, a job or a call is  *)
(* doing when it begins.                                                    *)
CloseReturns == (main = "close") ~> (main = "done")

(* A reload ends: it publishes, is refused or gives up at shutdown.         *)
ReloadReturns == (watcher.pc = "want") ~> (watcher.pc \in {"idle", "exited"})

(* A good configuration that an editor wrote while the daemon watches the   *)
(* file comes to be the published one, however often the storage has to be  *)
(* reset; only a storage error that refuses a reload loses the edit.         *)
EditIsServed ==
    (pending /\ file.kind = "good")
      ~> \/ runtime # Nil /\ snap[runtime].cfg = file
         \/ shutdown \/ faults > 0 \/ file.kind # "good"

(* Once Run has asked for it, the audit scheduler runs as soon as there is  *)
(* a usable configuration, whether Run or a reload finds it first.          *)
AuditSchedulerStarts ==
    (main = "ready" /\ usable(runtime)) ~> (audit.pc # "absent" \/ shutdown)

(* An edit of the file is read to its end and served, and the scheduler that *)
(* waits for a usable snapshot is started (server.go: reloadConfig).         *)
EditsServed == ReloadReturns /\ EditIsServed /\ AuditSchedulerStarts
============================================================================
