----------------------------- MODULE FileOwners -----------------------------
(***************************************************************************)
(* Who keeps an audit file open (internal/daemon: file_owner.go,           *)
(* recovery_session.go, and their callers).  A file has one writer handle, *)
(* shared by reference count; the handle is opened and closed outside the  *)
(* registry's mutex, and whoever wants the file meanwhile waits.  A worker *)
(* that recovers historical files keeps one of them open between receipts. *)
(* A retired file with nothing pending is finalized, which needs the file  *)
(* closed by everyone.                                                     *)
(*                                                                         *)
(*   entry, references  the registry: absent, opening, open or closing     *)
(*   handles, complete  database handles open on a file; files finalized   *)
(*   catalogCurrent     the file the catalog assigns receipts to           *)
(*   snapshot           the file of the runtime snapshot                   *)
(*   server             the replacement of the snapshot in progress        *)
(*   transition, cacheVersion   of the deferred service                    *)
(*   probing, due       a worker is probing; files a pass has still to     *)
(*                      visit (DeferredDispatch has the passes in detail)  *)
(*   row, events, revisit   state of each receipt; receipts on the channel;*)
(*                      receipts that a pass found queued or worked on      *)
(*   worker             the slots: pc, active.path, receipt, session.owner *)
(*   drop, closing      references an agent is about to release, by the    *)
(*                      worker whose session held it; the handle it closes *)
(***************************************************************************)
EXTENDS Integers, FiniteSets, FiniteSetsExt

CONSTANTS
    MaxFile,      \* files are 1 .. MaxFile, in the order they become current
    FirstFile,    \* the file that is current when the daemon starts
    Receipt,      \* receipts
    FileOf,       \* FileOf[r]: the file that numbers r
    Worker,       \* worker slots
    Server,       \* the lifecycle operations, one at a time
    MaxFaults,    \* bound on errors of opening, reading, inference
    MaxReloads    \* bound on configuration reloads

ASSUME OwnersAssumption ==
    /\ MaxFile \in Nat /\ FirstFile \in 1 .. MaxFile
    /\ 0 \notin Receipt /\ FileOf \in [Receipt -> 1 .. MaxFile]
    /\ IsFiniteSet(Worker) /\ Server \notin Worker
    /\ MaxFaults \in Nat /\ MaxReloads \in Nat

VARIABLES entry, references, handles, complete, catalogCurrent, snapshot,
          server, transition, cacheVersion, probing, due, row, events, revisit,
          worker, drop, closing, faults, reloads

registry == <<entry, references, handles>>
service == <<transition, cacheVersion>>
durable == <<complete, catalogCurrent, row>>
queue == <<events, revisit>>
releases == <<drop, closing>>
vars == <<registry, durable, snapshot, server, service, probing, due, queue,
          worker, releases, faults, reloads>>

-----------------------------------------------------------------------------
File == 1 .. MaxFile
None == 0
Agent == Worker \cup {Server}

IdleWorker == [pc |-> "idle", path |-> None, receipt |-> None, session |-> None,
               job |-> None, retain |-> FALSE, version |-> 0]

IdleServer == [pc |-> "idle", file |-> None, old |-> None]

currentFile(f) == snapshot = f

Fault == faults < MaxFaults /\ faults' = faults + 1

\* An agent goes on when the references it gave up are released.
Released(a) == closing[a] = None /\ \A w \in Worker : drop[a][w] = None

-----------------------------------------------------------------------------
(* The registry.  A caller of borrow that finds the entry pending waits on *)
(* its channel and tries again: the actions below are then not enabled.    *)

\* The handle is there: count one more.
share(f) ==
    /\ entry[f] = "open"
    /\ references' = [references EXCEPT ![f] = @ + 1]
    /\ UNCHANGED <<entry, handles>>

\* No entry: publish a pending one and open the file outside the mutex.
beginOpen(f) ==
    /\ entry[f] = "absent"
    /\ entry' = [entry EXCEPT ![f] = "opening"]
    /\ references' = [references EXCEPT ![f] = 1]
    /\ UNCHANGED handles

\* OpenWriter refuses a finalized file, unless it is the current one.
openSucceeds(f) ==
    /\ f \notin complete \/ f = catalogCurrent
    /\ handles' = [handles EXCEPT ![f] = @ + 1]
    /\ entry' = [entry EXCEPT ![f] = "open"]
    /\ UNCHANGED <<references, faults>>

\* The entry goes; who waited for it tries for itself.
openFails(f) ==
    /\ entry' = [entry EXCEPT ![f] = "absent"]
    /\ references' = [references EXCEPT ![f] = 0]
    /\ IF f \in complete /\ f # catalogCurrent THEN UNCHANGED faults ELSE Fault
    /\ UNCHANGED handles

\* Slip: the entry stays usable while the handle is being closed.
releaseUnfenced(a, f) ==
    /\ closing[a] = None
    /\ references' = [references EXCEPT ![f] = @ - 1]
    /\ closing' = [closing EXCEPT ![a] = IF references[f] = 1 THEN f ELSE None]
    /\ UNCHANGED <<entry, handles>>

\* release: the last reference makes the entry pending until it is closed.
release(a, f) ==
    /\ closing[a] = None
    /\ references' = [references EXCEPT ![f] = @ - 1]
    /\ entry' = [entry EXCEPT ![f] = IF references[f] = 1 THEN "closing" ELSE @]
    /\ closing' = [closing EXCEPT ![a] = IF references[f] = 1 THEN f ELSE None]
    /\ UNCHANGED handles

\* The handle is closed outside the mutex, then the entry goes.
closeHandle(a) ==
    /\ closing[a] # None
    /\ handles' = [handles EXCEPT ![closing[a]] = @ - 1]
    /\ entry' = [entry EXCEPT ![closing[a]] = "absent"]
    /\ closing' = [closing EXCEPT ![a] = None]
    /\ UNCHANGED <<references, durable, snapshot, server, service, probing, due,
                   queue, worker, drop, faults, reloads>>

\* releaseSessionOwner, once per reference an agent took from a session.
releaseSessionOwner(a, w) ==
    /\ drop[a][w] # None
    /\ release(a, drop[a][w])
    /\ drop' = [drop EXCEPT ![a][w] = None]
    /\ UNCHANGED <<durable, snapshot, server, service, probing, due, queue,
                   worker, faults, reloads>>

\* Agent a takes the session references of the workers in W from them.
TakeSessions(a, W, workers) ==
    /\ worker' = [w \in Worker |->
                    IF w \in W THEN [workers[w] EXCEPT !.session = None] ELSE workers[w]]
    /\ drop' = [drop EXCEPT ![a] = [w \in Worker |->
                    IF w \in W THEN workers[w].session ELSE None]]

-----------------------------------------------------------------------------
(* A worker takes work: a probe, or a receipt of the channel.              *)

\* markDiscoveryLocked, deferDiscovery: a pass over the current file, or over
\* all the files that are not finalized.
mark(f) == IF currentFile(f) THEN {f} ELSE {g \in 1 .. catalogCurrent : g \notin complete}

Owned(r) == \E w \in Worker : worker[w].receipt = r

step(w, pc) == worker' = [worker EXCEPT ![w].pc = pc]

\* takeWorkLocked, the probe.
takeProbe(w) ==
    /\ worker[w].pc \in {"idle", "next"} /\ Released(w)
    /\ ~transition /\ ~probing /\ due # {}
    /\ probing' = TRUE
    /\ worker' = [worker EXCEPT ![w].pc = "probe", ![w].path = None]
    /\ UNCHANGED <<registry, durable, snapshot, server, service, due, queue,
                   releases, faults, reloads>>

\* takeWorkLocked, a receipt: of the current file only during a transition.
takeEvent(w, r) ==
    /\ worker[w].pc \in {"idle", "next"} /\ Released(w)
    /\ r \in events
    /\ transition => currentFile(FileOf[r])
    /\ events' = events \ {r}
    /\ worker' = [worker EXCEPT ![w].pc = "event", ![w].path = FileOf[r],
                                ![w].receipt = r]
    /\ UNCHANGED <<registry, durable, snapshot, server, service, probing, due,
                   revisit, releases, faults, reloads>>

\* runWork ends: nothing to do, or canceled, paused, too many workers.
endWork(w) ==
    /\ worker[w].pc = "next" /\ Released(w)
    /\ LET own == {x \in {w} : worker[x].session # None}
       IN  TakeSessions(w, own, [worker EXCEPT ![w].pc = "idle", ![w].path = None])
    /\ UNCHANGED <<registry, durable, snapshot, server, service, probing, due,
                   queue, closing, faults, reloads>>

-----------------------------------------------------------------------------
(* recoverWork.                                                            *)

\* The pass comes to file f; what is marked from now on needs another visit.
selectFile(w, f) ==
    /\ worker[w].pc = "probe"
    /\ f \in due \ complete
    /\ due' = due \ {f}
    /\ worker' = [worker EXCEPT ![w].pc = "selected", ![w].path = f]
    /\ UNCHANGED <<registry, durable, snapshot, server, service, probing, queue,
                   releases, faults, reloads>>

\* A finalized file is passed over.
skipComplete(w, f) ==
    /\ worker[w].pc = "probe"
    /\ f \in due \cap complete
    /\ due' = due \ {f}
    /\ worker' = [worker EXCEPT ![w].pc = "probeEnd", ![w].path = f]
    /\ UNCHANGED <<registry, durable, snapshot, server, service, probing, queue,
                   releases, faults, reloads>>

\* prepare: the session w gives up before it works on its path.
prepareReleases(w, recoveryPending) ==
    {x \in {w} : /\ worker[x].session # None
                 /\ \/ ~recoveryPending
                    \/ transition
                    \/ ~currentFile(worker[x].path) /\ worker[x].session # worker[x].path}

prepare(w, recoveryPending) ==
    /\ worker[w].pc \in {"selected", "event"}
    /\ LET pc == IF worker[w].pc = "event" THEN "eventPrepared" ELSE "prepared"
       IN  TakeSessions(w, prepareReleases(w, recoveryPending),
                        [worker EXCEPT ![w].pc = pc])
    /\ UNCHANGED <<registry, durable, snapshot, server, service, probing, due,
                   queue, closing, faults, reloads>>

\* errRecoveryTransition: the pass stays at the file, until after the transition.
sessionRefused(w) ==
    /\ worker[w].pc = "prepared" /\ Released(w)
    /\ transition /\ ~currentFile(worker[w].path)
    /\ due' = due \cup {worker[w].path}
    /\ step(w, "probeEnd")
    /\ UNCHANGED <<registry, durable, snapshot, server, service, probing, queue,
                   releases, faults, reloads>>

\* session.borrow: the session has the file, or the registry is asked.
sessionBorrow(w) ==
    LET f == worker[w].path
    IN  /\ worker[w].pc = "prepared" /\ Released(w)
        /\ ~transition \/ currentFile(f)
        /\ IF worker[w].session = f
           THEN /\ share(f)
                /\ worker' = [worker EXCEPT ![w].pc = "reading", ![w].job = f]
           ELSE /\ UNCHANGED registry
                /\ worker' = [worker EXCEPT ![w].pc = "borrowing",
                                ![w].version = cacheVersion,
                                ![w].retain = ~currentFile(f) /\ ~transition]
        /\ UNCHANGED <<durable, snapshot, server, service, probing, due, queue,
                       releases, faults, reloads>>

\* The owner is kept for the session unless a transition began meanwhile.
Keeps(w) ==
    /\ worker[w].retain
    /\ ~transition
    /\ worker[w].version = cacheVersion

keepOwner(w) ==
    LET f == worker[w].path
    IN  /\ worker[w].pc = "borrowed"
        /\ worker' = [worker EXCEPT ![w].pc = "reading", ![w].retain = FALSE,
                        ![w].version = 0, ![w].session = IF Keeps(w) THEN f ELSE @]
        /\ IF Keeps(w) THEN share(f) ELSE UNCHANGED registry
        /\ UNCHANGED <<durable, snapshot, server, service, probing, due, queue,
                       releases, faults, reloads>>

-----------------------------------------------------------------------------
(* A receipt taken from the channel: prepareDeferredJob.                   *)

jobDelayed(w) ==
    /\ worker[w].pc = "eventPrepared" /\ Released(w)
    /\ transition /\ ~currentFile(worker[w].path)
    /\ due' = due \cup mark(worker[w].path)
    /\ step(w, "jobEnd")
    /\ UNCHANGED <<registry, durable, snapshot, server, service, probing, queue,
                   releases, faults, reloads>>

\* The current file is borrowed under the read side of runtimeMu.
jobBorrow(w) ==
    LET f == worker[w].path
    IN  /\ worker[w].pc = "eventPrepared" /\ Released(w)
        /\ ~transition \/ currentFile(f)
        /\ IF currentFile(f)
           THEN share(f) /\ worker' = [worker EXCEPT ![w].pc = "working", ![w].job = f]
           ELSE UNCHANGED registry /\ step(w, "borrowing")
        /\ UNCHANGED <<durable, snapshot, server, service, probing, due, queue,
                       releases, faults, reloads>>

-----------------------------------------------------------------------------
(* A worker borrows a file from the registry.                              *)

AfterBorrow(w) == IF worker[w].receipt = None THEN "borrowed" ELSE "working"

borrowShare(w) ==
    LET f == worker[w].path
    IN  /\ worker[w].pc = "borrowing"
        /\ share(f)
        /\ worker' = [worker EXCEPT ![w].pc = AfterBorrow(w), ![w].job = f]
        /\ UNCHANGED <<durable, snapshot, server, service, probing, due, queue,
                       releases, faults, reloads>>

borrowOpen(w) ==
    /\ worker[w].pc = "borrowing"
    /\ beginOpen(worker[w].path)
    /\ step(w, "opening")
    /\ UNCHANGED <<durable, snapshot, server, service, probing, due, queue,
                   releases, faults, reloads>>

borrowOpened(w) ==
    LET f == worker[w].path
    IN  /\ worker[w].pc = "opening"
        /\ openSucceeds(f)
        /\ worker' = [worker EXCEPT ![w].pc = AfterBorrow(w), ![w].job = f]
        /\ UNCHANGED <<durable, snapshot, server, service, probing, due, queue,
                       releases, reloads>>

\* The header cannot be read, or the context ends while the worker waits.
borrowCanceled(w) ==
    /\ worker[w].pc \in {"selected", "borrowing"}
    /\ Fault
    /\ due' = due \cup mark(worker[w].path)
    /\ worker' = [worker EXCEPT ![w].retain = FALSE, ![w].version = 0,
                    ![w].pc = IF worker[w].receipt = None THEN "probeEnd" ELSE "jobEnd"]
    /\ UNCHANGED <<registry, durable, snapshot, server, service, probing, queue,
                   releases, reloads>>

\* recoveryError, or the deferDiscovery of runSessionWork; a probe is content
\* with a file that has been finalized.
borrowFails(w) ==
    LET f == worker[w].path
    IN  /\ worker[w].pc = "opening"
        /\ openFails(f)
        /\ due' = IF worker[w].receipt = None /\ f \in complete THEN due
                  ELSE due \cup mark(f)
        /\ worker' = [worker EXCEPT ![w].retain = FALSE, ![w].version = 0,
                        ![w].pc = IF worker[w].receipt = None THEN "probeEnd" ELSE "jobEnd"]
        /\ UNCHANGED <<durable, snapshot, server, service, probing, queue,
                       releases, reloads>>

-----------------------------------------------------------------------------
(* A page of the file, and the job on a receipt.                           *)

Pending(f) == {r \in Receipt : FileOf[r] = f /\ row[r] = "pending"}

\* recoverPage admits a receipt that nobody has; the owner goes to the job, the
\* pass stays at the file.
findWork(w, r) ==
    /\ worker[w].pc = "reading"
    /\ r \in Pending(worker[w].path) \ events /\ ~Owned(r)
    /\ probing' = FALSE
    /\ due' = due \cup {worker[w].path}
    /\ worker' = [worker EXCEPT ![w].pc = "working", ![w].receipt = r]
    /\ UNCHANGED <<registry, durable, snapshot, server, service, queue,
                   releases, faults, reloads>>

\* Give back the job's reference, at pc.
ReleaseJob(w, pc) ==
    /\ release(w, worker[w].job)
    /\ worker' = [worker EXCEPT ![w].pc = pc, ![w].job = None]

\* The page is done without work (ownsReceipt notes who has the receipts that
\* are left); finishRecoveredFile.
endFile(w) ==
    LET f == worker[w].path
    IN  /\ worker[w].pc = "reading"
        /\ \A r \in Pending(f) : r \in events \/ Owned(r)
        /\ revisit' = revisit \cup Pending(f)
        /\ ReleaseJob(w, IF currentFile(f) \/ Pending(f) # {} THEN "probeEnd" ELSE "closeFile")
        /\ UNCHANGED <<durable, snapshot, server, service, probing, due, events,
                       drop, faults, reloads>>

readFails(w) ==
    /\ worker[w].pc = "reading"
    /\ Fault
    /\ due' = due \cup mark(worker[w].path)
    /\ ReleaseJob(w, "probeEnd")
    /\ UNCHANGED <<durable, snapshot, server, service, probing, queue, drop, reloads>>

\* processDispatch completes the receipt, or fails.
workDone(w) ==
    /\ worker[w].pc = "working"
    /\ row' = [row EXCEPT ![worker[w].receipt] = "done"]
    /\ step(w, "jobDone")
    /\ UNCHANGED <<registry, complete, catalogCurrent, snapshot, server, service,
                   probing, due, queue, releases, faults, reloads>>

workFails(w) ==
    /\ worker[w].pc = "working"
    /\ Fault
    /\ due' = due \cup mark(worker[w].path)
    /\ ReleaseJob(w, "jobEnd")
    /\ UNCHANGED <<durable, snapshot, server, service, probing, queue, drop, reloads>>

\* finishJob: a retired file without pending receipts is finalized.
finishJob(w) ==
    LET f == worker[w].path
    IN  /\ worker[w].pc = "jobDone"
        /\ ReleaseJob(w, IF currentFile(f) \/ Pending(f) # {} THEN "jobEnd" ELSE "closeFile")
        /\ UNCHANGED <<durable, snapshot, server, service, probing, due, queue,
                       drop, faults, reloads>>

\* closeFile: the worker's own session.
closeFile(w) ==
    /\ worker[w].pc = "closeFile" /\ Released(w)
    /\ TakeSessions(w, {x \in {w} : worker[x].session = worker[x].path},
                    [worker EXCEPT ![w].pc = "idleOwners"])
    /\ UNCHANGED <<registry, durable, snapshot, server, service, probing, due,
                   queue, closing, faults, reloads>>

\* releaseIdleFileOwners: the sessions of workers that are not on the file.
releaseIdleFileOwners(w) ==
    LET f == worker[w].path
    IN  /\ worker[w].pc = "idleOwners" /\ Released(w)
        /\ TakeSessions(w, {x \in Worker : worker[x].session = f /\ worker[x].path # f},
                        [worker EXCEPT ![w].pc = "finalize"])
        /\ UNCHANGED <<registry, durable, snapshot, server, service, probing, due,
                       queue, closing, faults, reloads>>

AfterFinalize(w) == step(w, IF worker[w].receipt = None THEN "probeEnd" ELSE "jobEnd")

\* Slip: other borrowers of the file are not waited for.
FinalizableShared(f) == f # catalogCurrent /\ Pending(f) = {}

\* Catalog.Finalize has the file locked exclusively and nothing pending.
Finalizable(f) == f # catalogCurrent /\ handles[f] = 0 /\ Pending(f) = {}

\* Slip: a file that is still open is given up.
finalizeFileOnce(w) ==
    /\ worker[w].pc = "finalize" /\ Released(w)
    /\ complete' = IF Finalizable(worker[w].path) THEN complete \cup {worker[w].path} ELSE complete
    /\ AfterFinalize(w)
    /\ UNCHANGED <<registry, catalogCurrent, row, snapshot, server, service,
                   probing, due, queue, releases, faults, reloads>>

\* finalizeFile; a file that is still open is tried again later.
finalizeFile(w) ==
    LET f == worker[w].path
    IN  /\ worker[w].pc = "finalize" /\ Released(w)
        /\ complete' = IF Finalizable(f) THEN complete \cup {f} ELSE complete
        /\ due' = IF f # catalogCurrent /\ handles[f] > 0 THEN due \cup mark(f) ELSE due
        /\ AfterFinalize(w)
        /\ UNCHANGED <<registry, catalogCurrent, row, snapshot, server, service,
                       probing, queue, releases, faults, reloads>>

finalizeFails(w) ==
    /\ worker[w].pc = "finalize" /\ Released(w)
    /\ Fault
    /\ due' = due \cup mark(worker[w].path)
    /\ AfterFinalize(w)
    /\ UNCHANGED <<registry, durable, snapshot, server, service, probing, queue,
                   releases, reloads>>

endProbe(w) ==
    /\ worker[w].pc = "probeEnd" /\ Released(w)
    /\ probing' = FALSE
    /\ step(w, "next")
    /\ UNCHANGED <<registry, durable, snapshot, server, service, due, queue,
                   releases, faults, reloads>>

\* finishDispatch: a receipt that a pass saw owned is looked for again.
endJob(w) ==
    LET r == worker[w].receipt
    IN  /\ worker[w].pc = "jobEnd" /\ Released(w)
        /\ due' = IF r \in revisit /\ row[r] = "pending" THEN due \cup mark(worker[w].path)
                  ELSE due
        /\ revisit' = revisit \ {r}
        /\ worker' = [worker EXCEPT ![w].pc = "next", ![w].receipt = None]
        /\ UNCHANGED <<registry, durable, snapshot, server, service, probing, events,
                       releases, faults, reloads>>

-----------------------------------------------------------------------------
(* Hook calls commit receipts to the snapshot's file.                      *)

submit(r, admitted) ==
    /\ row[r] = "absent" /\ FileOf[r] = snapshot
    /\ row' = [row EXCEPT ![r] = "pending"]
    /\ events' = IF admitted THEN events \cup {r} ELSE events
    /\ due' = IF admitted THEN due ELSE due \cup {snapshot}
    /\ UNCHANGED <<registry, complete, catalogCurrent, snapshot, server, service,
                   probing, revisit, worker, releases, faults, reloads>>

-----------------------------------------------------------------------------
(* Replacing the snapshot: a reload on the same file, or a rotation.       *)

reload ==
    /\ server.pc = "idle" /\ catalogCurrent = snapshot
    /\ reloads < MaxReloads /\ reloads' = reloads + 1
    /\ server' = [IdleServer EXCEPT !.pc = "borrowing", !.file = snapshot]
    /\ UNCHANGED <<registry, durable, snapshot, service, probing, due, queue,
                   worker, releases, faults>>

\* The sessions a transition ends: those of files not being worked on.
IdleSessions == {w \in Worker : worker[w].session # None /\ worker[w].session # worker[w].path}

NextFile == IF catalogCurrent # snapshot THEN catalogCurrent ELSE catalogCurrent + 1

beginRecoveryTransition ==
    /\ server.pc = "idle"
    /\ NextFile \in File
    /\ transition' = TRUE /\ cacheVersion' = cacheVersion + 1
    /\ TakeSessions(Server, IdleSessions, worker)
    /\ server' = [IdleServer EXCEPT !.pc = "begun", !.file = NextFile]
    /\ UNCHANGED <<registry, durable, snapshot, probing, due, queue, closing,
                   faults, reloads>>

ensureCurrent ==
    /\ server.pc = "begun" /\ Released(Server)
    /\ catalogCurrent' = server.file
    /\ server' = [server EXCEPT !.pc = "borrowing"]
    /\ UNCHANGED <<registry, complete, row, snapshot, service, probing, due, queue,
                   worker, releases, faults, reloads>>

ensureFails ==
    /\ server.pc = "begun" /\ Released(Server)
    /\ Fault
    /\ server' = [server EXCEPT !.pc = "ending"]
    /\ UNCHANGED <<registry, durable, snapshot, service, probing, due, queue,
                   worker, releases, reloads>>

serverShare ==
    /\ server.pc = "borrowing"
    /\ share(server.file)
    /\ server' = [server EXCEPT !.pc = "borrowed"]
    /\ UNCHANGED <<durable, snapshot, service, probing, due, queue, worker,
                   releases, faults, reloads>>

serverOpen ==
    /\ server.pc = "borrowing"
    /\ beginOpen(server.file)
    /\ server' = [server EXCEPT !.pc = "opening"]
    /\ UNCHANGED <<durable, snapshot, service, probing, due, queue, worker,
                   releases, faults, reloads>>

serverOpened ==
    /\ server.pc = "opening"
    /\ openSucceeds(server.file)
    /\ server' = [server EXCEPT !.pc = "borrowed"]
    /\ UNCHANGED <<durable, snapshot, service, probing, due, queue, worker,
                   releases, reloads>>

serverOpenFails ==
    /\ server.pc = "opening"
    /\ openFails(server.file)
    /\ server' = [server EXCEPT !.pc = "ending"]
    /\ UNCHANGED <<durable, snapshot, service, probing, due, queue, worker,
                   releases, reloads>>

\* newRuntimeSnapshotForBucket fails; its reference is given back.
snapshotFails ==
    /\ server.pc = "borrowed"
    /\ Fault
    /\ release(Server, server.file)
    /\ server' = [server EXCEPT !.pc = "ending"]
    /\ UNCHANGED <<durable, snapshot, service, probing, due, queue, worker, drop,
                   reloads>>

publish ==
    /\ server.pc = "borrowed"
    /\ snapshot' = server.file
    /\ server' = [server EXCEPT !.pc = "published", !.old = snapshot]
    /\ UNCHANGED <<registry, durable, service, probing, due, queue, worker,
                   releases, faults, reloads>>

\* The replaced snapshot's reference.
closeOld ==
    /\ server.pc = "published"
    /\ release(Server, server.old)
    /\ server' = [server EXCEPT !.pc = IF server.old = server.file THEN "ending" ELSE "closed"]
    /\ UNCHANGED <<durable, snapshot, service, probing, due, queue, worker, drop,
                   faults, reloads>>

storageChanged ==
    /\ server.pc = "closed" /\ Released(Server)
    /\ due' = due \cup {snapshot} \cup mark(server.old)
    /\ server' = [server EXCEPT !.pc = "ending"]
    /\ UNCHANGED <<registry, durable, snapshot, service, probing, queue, worker,
                   releases, faults, reloads>>

endRecoveryTransition ==
    /\ server.pc = "ending" /\ Released(Server)
    /\ transition' = FALSE
    /\ server' = IdleServer
    /\ UNCHANGED <<registry, durable, snapshot, cacheVersion, probing, due, queue,
                   worker, releases, faults, reloads>>

-----------------------------------------------------------------------------
\* A daemon just started: its snapshot has the current file, and the files of
\* before may have receipts pending.
Init ==
    /\ snapshot = FirstFile /\ catalogCurrent = FirstFile
    /\ entry = [f \in File |-> IF f = FirstFile THEN "open" ELSE "absent"]
    /\ references = [f \in File |-> IF f = FirstFile THEN 1 ELSE 0]
    /\ handles = references
    /\ complete = {}
    /\ server = IdleServer
    /\ transition = FALSE /\ cacheVersion = 0
    /\ probing = FALSE
    /\ due = 1 .. FirstFile
    /\ row \in [Receipt -> {"absent", "pending"}]
    /\ \A r \in Receipt : FileOf[r] > FirstFile => row[r] = "absent"
    /\ \A r \in Receipt : FileOf[r] < FirstFile => row[r] = "pending"
    /\ events = {} /\ revisit = {}
    /\ worker = [w \in Worker |-> IdleWorker]
    /\ drop = [a \in Agent |-> [w \in Worker |-> None]]
    /\ closing = [a \in Agent |-> None]
    /\ faults = 0 /\ reloads = 0

WorkerStep(w) ==
    \/ takeProbe(w)
    \/ \E r \in Receipt : takeEvent(w, r)
    \/ endWork(w)
    \/ \E f \in File : selectFile(w, f) \/ skipComplete(w, f)
    \/ \E recoveryPending \in BOOLEAN : prepare(w, recoveryPending)
    \/ sessionRefused(w) \/ sessionBorrow(w) \/ keepOwner(w)
    \/ jobDelayed(w) \/ jobBorrow(w)
    \/ borrowShare(w) \/ borrowOpen(w) \/ borrowOpened(w)
    \/ \E r \in Receipt : findWork(w, r)
    \/ endFile(w) \/ workDone(w) \/ finishJob(w)
    \/ closeFile(w) \/ releaseIdleFileOwners(w) \/ finalizeFile(w)
    \/ endProbe(w) \/ endJob(w)

WorkerFault(w) ==
    \/ borrowCanceled(w) \/ borrowFails(w) \/ readFails(w) \/ workFails(w) \/ finalizeFails(w)

ServerStep ==
    \/ ensureCurrent \/ serverShare \/ serverOpen \/ serverOpened
    \/ publish \/ closeOld \/ storageChanged \/ endRecoveryTransition

ServerFault == ensureFails \/ serverOpenFails \/ snapshotFails

ReleaseStep(a) == closeHandle(a) \/ \E w \in Worker : releaseSessionOwner(a, w)

Next ==
    \/ \E w \in Worker : WorkerStep(w) \/ WorkerFault(w)
    \/ \E a \in Agent : ReleaseStep(a)
    \/ ServerStep \/ ServerFault
    \/ reload \/ beginRecoveryTransition
    \/ \E r \in Receipt, admitted \in BOOLEAN : submit(r, admitted)

Spec == Init /\ [][Next]_vars

\* Goroutines run on; whether a reload, a rotation or a hook call begins, and
\* whether something fails, is left open.
FairSpec ==
    /\ Spec
    /\ \A w \in Worker : WF_vars(WorkerStep(w) \/ borrowFails(w))
    /\ \A a \in Agent : WF_vars(ReleaseStep(a))
    /\ WF_vars(ServerStep)

-----------------------------------------------------------------------------
TypeOK ==
    /\ entry \in [File -> {"absent", "opening", "open", "closing"}]
    /\ references \in [File -> Nat] /\ handles \in [File -> Nat]
    /\ complete \subseteq File /\ due \subseteq File
    /\ catalogCurrent \in File /\ snapshot \in File
    /\ server \in [pc : {"idle", "begun", "borrowing", "opening", "borrowed",
                         "published", "closed", "ending"},
                   file : File \cup {None}, old : File \cup {None}]
    /\ transition \in BOOLEAN /\ cacheVersion \in Nat /\ probing \in BOOLEAN
    /\ row \in [Receipt -> {"absent", "pending", "done"}] 
    /\ events \subseteq Receipt /\ revisit \subseteq Receipt
    /\ \A w \in Worker :
         /\ worker[w].path \in File \cup {None} /\ worker[w].session \in File \cup {None}
         /\ worker[w].job \in File \cup {None} /\ worker[w].receipt \in Receipt \cup {None}
    /\ drop \in [Agent -> [Worker -> File \cup {None}]]
    /\ closing \in [Agent -> File \cup {None}]

\* The references to the owner of f that the program holds.
Holders(f) ==
    {<<"session", w, w>> : w \in {x \in Worker : worker[x].session = f}}
      \cup {<<"job", w, w>> : w \in {x \in Worker : worker[x].job = f}}
      \cup (UNION {{<<"drop", a, w>> : w \in {x \in Worker : drop[a][x] = f}} : a \in Agent})
      \cup {<<"snapshot", s, s>> : s \in {x \in {Server} : snapshot = f}}
      \cup {<<"new", s, s>> : s \in {x \in {Server} : server.pc = "borrowed" /\ server.file = f}}
      \cup {<<"old", s, s>> : s \in {x \in {Server} : server.pc = "published" /\ server.old = f}}

\* An owner is never lost and never closed under a holder: as long as somebody
\* holds it the entry is open and counts its holders, and an open entry has a
\* holder.  In particular the file of the published snapshot is always open,
\* so that who borrows it under runtimeMu never waits.
\* (file_owner.go: borrow, release and retain, with every caller of them)
HeldFilesOpen ==
    \A f \in File :
       /\ Holders(f) # {} => entry[f] = "open"
       /\ entry[f] = "open" => references[f] = Cardinality(Holders(f)) /\ references[f] > 0

\* A file never has two writer handles in the daemon, though it is opened and
\* closed outside the mutex.  (file_owner.go: the pending channel)
OneHandle ==
    \A f \in File : handles[f] = IF entry[f] \in {"open", "closing"} THEN 1 ELSE 0

\* A worker holds one historical file at most, its session included, whenever
\* files are rotated meanwhile: the design bounds historical connections by the
\* number of workers.  (recovery_session.go: prepare, borrow, transitions)
OneHistoricalFile ==
    \A w \in Worker : Cardinality({worker[w].session, worker[w].job} \ {None, snapshot}) <= 1

\* A finalized file is retired, has no receipt left to evaluate and nobody has
\* it open.  (completion.go: Finalize; recovery.go: finishJob, finalizeFile)
FinalizedIsFinished ==
    \A f \in complete : f < snapshot /\ handles[f] = 0 /\ Pending(f) = {}

\* The owners, their holders and the handles agree, for as long as anybody
\* needs a file and not longer (file_owner.go, recovery_session.go,
\* completion.go).
OwnersInOrder ==
    TypeOK /\ HeldFilesOpen /\ OneHandle /\ OneHistoricalFile /\ FinalizedIsFinished

\* A retired file is finalized in the end: its last receipt, its last pass or
\* a retry after it was found busy leads there.
\* (recovery.go: finishRecoveredFile, finishJob, finalizeFile)
EventuallyFinalized ==
    \A f \in File : f < snapshot ~> f \in complete
=============================================================================
