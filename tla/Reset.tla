------------------------------- MODULE Reset -------------------------------
(***************************************************************************)
(* agent-gate reset: one installation is inspected, its daemons are        *)
(* stopped, the selected artifacts are removed, the executable is restored *)
(* from a staged copy and the service is installed again                   *)
(* (internal/install: reset.go, reset_executable.go, reset_paths.go,       *)
(* service_control.go, service_plan.go, process_identity.go;               *)
(* cmd/agent-gate: reset.go, install.go).  Meanwhile processes exit, the   *)
(* kernel gives their PIDs to others, the service manager and the operator *)
(* start daemons, and the reset itself may be killed.                      *)
(*                                                                         *)
(* The file system is a set of cells; the layout says which cells lie      *)
(* under the path of an artifact, so two paths overlap when they share a   *)
(* cell (resetPathContains resolves links and compares inodes).            *)
(*                                                                         *)
(* The system is Linux with systemd.  The image of a process is "gate" when *)
(* it runs the executable that is at its path now, "deleted" when it runs  *)
(* one that was there and has been unlinked or replaced since, and "other".*)
(***************************************************************************)
EXTENDS Integers, Sequences, FiniteSets, SequencesExt

CONSTANTS ResetPids,       \* the PIDs the kernel hands out
          ResetLayouts,    \* artifact -> the cells under its path
          ResetTargetSets, \* what a reset may select
          MaxBirths,       \* bound on the processes ever started
          MaxResets,       \* bound on the resets
          MaxKills         \* bound on the resets killed half way

VARIABLES cells,           \* what exists
          layout,
          proc,            \* PID -> {} or {the process: its start and its image}
          service,         \* the service manager's job: its state and its daemon's PID
          births,          \* processes started so far, the clock of process starts
          reset,           \* the reset and how far it has come
          signalled,       \* the signals sent: who got one, and what had been inspected
          killed

resetVars == <<cells, layout, proc, service, births, reset, signalled, killed>>
World == <<cells, layout, proc, service, births, signalled, killed>>

Artifacts == {"database", "state", "logs", "cache", "sockets", "service",
              "binary", "config", "hooks"}
Cells == Artifacts \cup {"lock", "coordination", "stage"}
DefaultResetTargets == Artifacts \ {"config", "hooks"}

\* PIDs are positive, and a reset takes one target, or the default ones.
ASSUME ResetAssumption ==
    /\ 0 \notin ResetPids
    /\ \A targets \in ResetTargetSets :
           targets = DefaultResetTargets \/ \E target \in Artifacts : targets = {target}

NoReset == [pc |-> "idle", targets |-> {}, frozen |-> {}, level |-> 0,
            seenAt |-> 0, todo |-> <<>>, checkedAt |-> 0, teardown |-> FALSE,
            outcome |-> "none", resets |-> 0, victims |-> {}]

AtStep(pc) == reset.pc = pc
Go(pc) == reset' = [reset EXCEPT !.pc = pc]
selects(target) == target \in reset.targets
requiresServiceStop == reset.targets \cap DefaultResetTargets # {}
StageReady == "stage" \in cells

(* A failure of ApplyReset runs the deferred clean-up of the stage; one    *)
(* before or after it ends the command.                                    *)
Fail(stage) ==
    reset' = [reset EXCEPT !.pc = IF StageReady THEN "cleaning" ELSE "idle",
                           !.outcome = stage]
Return(outcome) == reset' = [reset EXCEPT !.pc = "idle", !.outcome = outcome]

Process(image) == [start |-> births + 1, image |-> image]

(* The link to the executable of a process reads "... (deleted)" when the  *)
(* file is unlinked or replaced.  No such path exists, and to Inspect the  *)
(* process then does not either; lsof goes by the file at the path, pgrep  *)
(* by the command line.                                                    *)
Unlinked(processes) ==
    {[p EXCEPT !.image = IF @ = "gate" THEN "deleted" ELSE @] : p \in processes}
AllUnlinked == [pid \in ResetPids |-> Unlinked(proc[pid])]
inspectProcess(pid) == {p \in proc[pid] : p.image # "deleted"}
WithImage(images) == {pid \in ResetPids : \E p \in proc[pid] : p.image \in images}
daemonPIDs == WithImage({"gate"})
Identity(pid) == [pid |-> pid, start |-> (CHOOSE p \in proc[pid] : TRUE).start]

-----------------------------------------------------------------------------
\* Preparing.

(* parseResetCommand takes one target, or the default ones; the reset lock *)
(* admits one reset at a time and goes with its process.                   *)
BeginReset(targets) ==
    /\ AtStep("idle") /\ reset.resets < MaxResets
    /\ reset' = [NoReset EXCEPT !.pc = "preparing", !.targets = targets,
                                !.resets = reset.resets + 1]
    /\ UNCHANGED World

(* PrepareReset: a job of another executable is refused, and the daemons   *)
(* that run the file at the path are frozen with their identities.         *)
PrepareReset ==
    /\ AtStep("preparing") /\ reset.targets # {"hooks"}
    /\ \/ /\ service.state # "foreign"
          /\ reset' = [reset EXCEPT !.pc = "prepared",
                                    !.frozen = {Identity(pid) : pid \in daemonPIDs}]
       \/ Return("prepare")
    /\ UNCHANGED World

(* reset hooks: only the registrations go (see HookFiles).                 *)
applyHookReset ==
    /\ AtStep("preparing") /\ reset.targets = {"hooks"}
    /\ \/ cells' = cells \ {"hooks"} /\ Return("done")
       \/ Return("remove hooks") /\ UNCHANGED cells
    /\ UNCHANGED <<layout, proc, service, births, signalled, killed>>

removalPaths ==
    LET Chosen(target) == IF selects(target) THEN <<target>> ELSE <<>>
    IN  (IF selects("state") THEN <<"state">> ELSE Chosen("logs"))
          \o Chosen("cache") \o Chosen("sockets") \o Chosen("service")
          \o Chosen("binary") \o Chosen("config")

(* No removal overlaps what is kept: the hooks, the configuration unless   *)
(* it is the target, the coordination path and the reset lock.             *)
Protected == {"hooks", "coordination", "lock"}
               \cup (IF selects("config") THEN {} ELSE {"config"})
ValidateNothing(paths) == TRUE
validatePaths(paths) == \A path \in paths : layout[path] \cap Protected = {}

ApplyPreflight ==
    /\ AtStep("prepared")
    /\ IF validatePaths(Range(removalPaths))
       THEN reset' = [reset EXCEPT !.pc = "staging", !.todo = removalPaths]
       ELSE Return("preflight")
    /\ UNCHANGED World

(* The executable is copied beside the runtime directory, outside what     *)
(* will be removed, and the copy is verified and run.                      *)
prepareResetStage ==
    /\ AtStep("staging")
    /\ CASE ~selects("binary") -> Go("stopping") /\ UNCHANGED cells
         [] selects("binary") /\ \E i \in DOMAIN reset.todo : "stage" \in layout[reset.todo[i]] ->
               Return("stage") /\ UNCHANGED cells
         [] OTHER -> \/ Go("stopping") /\ cells' = cells \cup {"stage"}
                     \/ Return("stage") /\ UNCHANGED cells
    /\ UNCHANGED <<layout, proc, service, births, signalled, killed>>

-----------------------------------------------------------------------------
\* Stopping every daemon.

(* The manager stops the job, which ends its daemon, and disables it; what *)
(* it then reports must say so.                                            *)
Job(state, pid) == [state |-> state, pid |-> pid]
WithoutJob(p) == IF service.pid = 0 THEN p ELSE [p EXCEPT ![service.pid] = {}]
StopService ==
    /\ AtStep("stopping")
    /\ CASE ~requiresServiceStop -> Go("purging") /\ UNCHANGED <<service, proc>>
         [] requiresServiceStop /\ service.state = "absent" ->
               Go("awaiting") /\ UNCHANGED <<service, proc>>
         [] requiresServiceStop /\ service.state = "foreign" ->
               Fail("stop service") /\ UNCHANGED <<service, proc>>
         [] OTHER -> \/ /\ Go("awaiting")
                        /\ service' = Job("stopped", 0)
                        /\ proc' = WithoutJob(proc)
                     \/ Fail("stop service") /\ UNCHANGED <<service, proc>>
    /\ UNCHANGED <<cells, layout, births, signalled, killed>>

(* stopResetProcess: await the exit of the next frozen daemon, then TERM   *)
(* it and await again, then KILL it and await again.  A live daemon whose  *)
(* executable has been unlinked or replaced passes for one that exited.    *)
Current == CHOOSE identity \in reset.frozen : TRUE
Gone(identity) == inspectProcess(identity.pid) = {}
Same(identity) == \E p \in inspectProcess(identity.pid) : p.start = identity.start
Reused(identity) == ~Gone(identity) /\ ~Same(identity)
awaitProcessExit ==
    /\ AtStep("awaiting") /\ reset.frozen # {}
    /\ CASE Gone(Current) -> reset' = [reset EXCEPT !.frozen = @ \ {Current}, !.level = 0]
         [] Reused(Current) -> Fail("stop daemon")
         [] Same(Current) /\ reset.level = 2 -> Fail("stop daemon")
         [] OTHER -> reset' = [reset EXCEPT !.pc = "inspecting", !.level = @ + 1]
    /\ UNCHANGED World

(* Signal inspects the identity again and then kills the PID.              *)
InspectPidOnly ==
    /\ AtStep("inspecting")
    /\ reset' = [reset EXCEPT !.pc = IF Gone(Current) THEN "awaiting" ELSE "signalling",
                              !.seenAt = births]
    /\ UNCHANGED World
SignalInspect ==
    /\ AtStep("inspecting")
    /\ CASE Gone(Current) -> Go("awaiting")
         [] Reused(Current) -> Fail("stop daemon")
         [] OTHER -> reset' = [reset EXCEPT !.pc = "signalling", !.seenAt = births]
    /\ UNCHANGED World

(* TERM may be resisted, KILL may not.                                     *)
Signal(pid, expected) ==
    signalled' = signalled \cup {[start |-> p.start, expected |-> expected,
                                  seenAt |-> reset.seenAt] : p \in proc[pid]}
SignalKill ==
    /\ AtStep("signalling")
    /\ Go("awaiting")
    /\ Signal(Current.pid, {Current.start})
    /\ \/ proc' = [proc EXCEPT ![Current.pid] = {}]
       \/ reset.level = 1 /\ UNCHANGED proc
    /\ UNCHANGED <<cells, layout, service, births, killed>>

(* After the last one the daemons of the file at the path are listed again: *)
(* there must be none.                                                     *)
SkipRemaining ==
    /\ AtStep("awaiting") /\ reset.frozen = {}
    /\ reset' = [reset EXCEPT !.pc = "purging", !.checkedAt = births]
    /\ UNCHANGED World
CheckRemaining ==
    /\ AtStep("awaiting") /\ reset.frozen = {}
    /\ IF daemonPIDs = {}
       THEN reset' = [reset EXCEPT !.pc = "purging", !.checkedAt = births]
       ELSE Fail("stop daemon")
    /\ UNCHANGED World

-----------------------------------------------------------------------------
\* Removing and restoring.

(* The catalog's Purge (see AuditCatalog) validates what it removes.       *)
Purge ==
    /\ AtStep("purging")
    /\ CASE ~selects("database") ->
               /\ reset' = [reset EXCEPT !.pc = "removing", !.teardown = StageReady]
               /\ UNCHANGED cells
         [] selects("database") /\ ~validatePaths({"database"}) ->
               Fail("purge") /\ UNCHANGED cells
         [] OTHER ->
               \/ /\ reset' = [reset EXCEPT !.pc = "removing", !.teardown = StageReady]
                  /\ cells' = cells \ layout["database"]
               \/ Fail("purge") /\ UNCHANGED cells
    /\ UNCHANGED <<layout, proc, service, births, signalled, killed>>

(* The context may end, or a removal fail, between two paths.              *)
RemovePath ==
    /\ AtStep("removing") /\ reset.todo # <<>>
    /\ \/ /\ cells' = cells \ layout[Head(reset.todo)]
          /\ reset' = [reset EXCEPT !.todo = Tail(@)]
          /\ proc' = IF "binary" \in layout[Head(reset.todo)] THEN AllUnlinked ELSE proc
       \/ Fail("remove") /\ UNCHANGED <<cells, proc>>
    /\ UNCHANGED <<layout, service, births, signalled, killed>>

(* A file of its own comes to the path.                                    *)
copyResetExecutable == StageReady /\ cells' = cells \cup {"binary"} /\ proc' = AllUnlinked
RestoreExecutable ==
    /\ AtStep("removing") /\ reset.todo = <<>>
    /\ IF ~reset.teardown THEN Go("removed") /\ UNCHANGED <<cells, proc>>
       ELSE \/ /\ copyResetExecutable
               /\ reset' = [reset EXCEPT !.pc = "cleaning", !.teardown = FALSE,
                                         !.outcome = "removed"]
            \/ Fail("restore") /\ UNCHANGED <<cells, proc>>
    /\ UNCHANGED <<layout, service, births, signalled, killed>>

(* Once removal has begun the executable is restored before the stage      *)
(* goes; the stage stays when that fails.                                  *)
AfterCleaning == IF reset.outcome = "removed" THEN Go("removed") ELSE Go("idle")
CleanupForgetsStage ==
    /\ AtStep("cleaning")
    /\ cells' = IF reset.teardown THEN cells \cup {"binary"} ELSE cells
    /\ proc' = IF reset.teardown THEN AllUnlinked ELSE proc
    /\ AfterCleaning
    /\ UNCHANGED <<layout, service, births, signalled, killed>>
cleanupStage ==
    /\ AtStep("cleaning")
    /\ IF reset.teardown
       THEN \/ /\ cells' = (cells \cup {"binary"}) \ {"stage"} /\ proc' = AllUnlinked
               /\ AfterCleaning
            \/ UNCHANGED <<cells, proc>> /\ Return("restore")
       ELSE \/ cells' = cells \ {"stage"} /\ UNCHANGED proc /\ AfterCleaning
            \/ UNCHANGED <<cells, proc>> /\ Return("stage cleanup")
    /\ UNCHANGED <<layout, service, births, signalled, killed>>

-----------------------------------------------------------------------------
\* Installing the service again.

resetNeedsServiceReinstall == reset.targets # {"config"}
ReinstallPrepare ==
    /\ AtStep("removed")
    /\ CASE ~resetNeedsServiceReinstall -> Return("done")
         [] resetNeedsServiceReinstall /\ "binary" \notin cells -> Return("reinstall")
         [] OTHER -> Go("writing") \/ Return("reinstall")
    /\ UNCHANGED World

(* The unit file is written, the manager reloads and stops its job.        *)
applySystemdService ==
    /\ AtStep("writing")
    /\ \/ /\ cells' = cells \cup {"service"}
          /\ service' = Job("stopped", 0)
          /\ proc' = WithoutJob(proc)
          /\ Go("listing")
       \/ Return("reinstall") /\ UNCHANGED <<cells, service, proc>>
    /\ UNCHANGED <<layout, births, signalled, killed>>

(* pgrep lists the daemons by their command line; each PID is sent TERM.   *)
stopUnmanagedDaemons ==
    /\ AtStep("listing")
    /\ reset' = [reset EXCEPT !.pc = "terminating", !.seenAt = births,
                              !.victims = {Identity(pid) : pid \in WithImage({"gate", "deleted"})}]
    /\ UNCHANGED World
TerminateUnmanaged ==
    /\ AtStep("terminating") /\ reset.victims # {}
    /\ LET next == CHOOSE identity \in reset.victims : TRUE
       IN  /\ Signal(next.pid, {next.start})
           /\ reset' = [reset EXCEPT !.victims = @ \ {next}]
           /\ proc' \in {proc, [proc EXCEPT ![next.pid] = {}]}
    /\ UNCHANGED <<cells, layout, service, births, killed>>

StartJob(pid) ==
    /\ proc[pid] = {} /\ births < MaxBirths
    /\ births' = births + 1
    /\ proc' = [proc EXCEPT ![pid] = {Process("gate")}]
    /\ service' = Job("running", pid)
EnableService ==
    /\ AtStep("terminating") /\ reset.victims = {}
    /\ \/ "binary" \in cells /\ Go("readying") /\ \E pid \in ResetPids : StartJob(pid)
       \/ Return("reinstall") /\ UNCHANGED <<proc, service, births>>
    /\ UNCHANGED <<cells, layout, signalled, killed>>

(* waitForDaemonReady polls until a daemon answers with this path and build; *)
(* one of the same build whose executable was replaced reports both too.   *)
waitForDaemonReady ==
    /\ AtStep("readying")
    /\ \/ WithImage({"gate", "deleted"}) # {} /\ Return("done")
       \/ Return("reinstall")
    /\ UNCHANGED World

-----------------------------------------------------------------------------
\* Everyone else.

ProcessExits(pid) ==
    /\ proc[pid] # {}
    /\ proc' = [proc EXCEPT ![pid] = {}]
    /\ service' = IF service.pid = pid THEN Job("restarting", 0) ELSE service
    /\ UNCHANGED <<cells, layout, births, reset, signalled, killed>>

(* The operator starts a daemon, or some other program gets the PID.       *)
ProcessStarts(pid, image) ==
    /\ proc[pid] = {} /\ births < MaxBirths
    /\ image = "gate" => "binary" \in cells
    /\ births' = births + 1
    /\ proc' = [proc EXCEPT ![pid] = {Process(image)}]
    /\ UNCHANGED <<cells, layout, service, reset, signalled, killed>>

(* The operator's build or package manager renames a new file to the path. *)
ExecutableReplaced ==
    /\ "binary" \in cells /\ daemonPIDs # {}
    /\ proc' = AllUnlinked
    /\ UNCHANGED <<cells, layout, service, births, reset, signalled, killed>>

ManagerRestarts(pid) ==
    /\ service.state = "restarting" /\ "binary" \in cells
    /\ StartJob(pid)
    /\ UNCHANGED <<cells, layout, reset, signalled, killed>>

ResetKilled ==
    /\ reset.pc # "idle" /\ killed < MaxKills
    /\ killed' = killed + 1
    /\ Return("killed")
    /\ UNCHANGED <<cells, layout, proc, service, births, signalled>>

ResetInit ==
    /\ cells = Cells \ {"stage"}
    /\ layout \in ResetLayouts
    /\ births = 2
    /\ \E s \in {"absent", "running", "foreign"} : \E stray \in BOOLEAN :
          /\ service = Job(s, IF s = "running" THEN 1 ELSE 0)
          /\ proc = [pid \in ResetPids |->
                IF pid = 1 /\ s = "running" THEN {[start |-> 1, image |-> "gate"]}
                ELSE IF pid = 2 /\ stray THEN {[start |-> 2, image |-> "gate"]} ELSE {}]
    /\ reset = NoReset
    /\ signalled = {} /\ killed = 0

ResetNext ==
    \/ \E targets \in ResetTargetSets : BeginReset(targets)
    \/ PrepareReset \/ applyHookReset \/ ApplyPreflight \/ prepareResetStage
    \/ StopService \/ awaitProcessExit \/ SignalInspect \/ SignalKill \/ CheckRemaining
    \/ Purge \/ RemovePath \/ RestoreExecutable \/ cleanupStage
    \/ ReinstallPrepare \/ applySystemdService \/ stopUnmanagedDaemons
    \/ TerminateUnmanaged \/ EnableService \/ waitForDaemonReady
    \/ \E pid \in ResetPids :
          \/ ProcessExits(pid) \/ ManagerRestarts(pid)
          \/ \E image \in {"gate", "other"} : ProcessStarts(pid, image)
    \/ ExecutableReplaced \/ ResetKilled

ResetSpec == ResetInit /\ [][ResetNext]_resetVars

-----------------------------------------------------------------------------
(* The executable is never lost, whatever fails and whenever the reset is  *)
(* killed: it is at its path or its verified copy is staged                *)
(* (prepareResetStage, cleanupStage).                                      *)
ExecutableSurvives == {"binary", "stage"} \cap cells # {}

(* A reset that ended by itself leaves the executable at its path, and a   *)
(* staging directory only when it says so: restoring failed and the copy   *)
(* is retained, or removing the directory failed.                          *)
EndsWhole ==
    reset.pc = "idle" /\ killed = 0 =>
        /\ "binary" \in cells \/ reset.outcome = "restore"
        /\ "stage" \in cells =>
              reset.outcome \in {"restore", "stage cleanup"}

(* A reset that stops the service removes data only when the manager's job  *)
(* is down, in a state from which the manager does not start it again, and  *)
(* no daemon runs that the check had to find: one that runs the executable  *)
(* at the path started after the check.  The check cannot see a daemon      *)
(* whose executable was unlinked or replaced, as an upgrade or an earlier   *)
(* reset does, nor one that starts later: data goes under those             *)
(* (stopManagedReset, "proves shutdown").                                   *)
RemovedAfterShutdown ==
    [][(cells \ cells') \cap {"database", "state", "logs", "cache", "sockets"} # {}
       /\ requiresServiceStop
       => /\ service.state \in {"absent", "stopped"}
          /\ \A pid \in ResetPids : \A p \in proc[pid] :
                p.image = "gate" => p.start > reset.checkedAt
      ]_resetVars

(* What a reset must keep is still there, for every layout of the paths:   *)
(* the hooks and the configuration unless they are the target, the         *)
(* coordination path and the lock (validatePaths).                         *)
KeptIsKept ==
    [][\A kept \in {"hooks", "config", "coordination", "lock"} :
           kept \in cells \ cells' => reset.targets = {kept}]_resetVars

(* A signal reaches the process that was inspected, or one that got its    *)
(* PID after the inspection: a PID that was reused earlier is not          *)
(* signalled (Signal, stopUnmanagedDaemons).                               *)
OnlyInspectedSignalled ==
    \A s \in signalled : s.start \in s.expected \/ s.start > s.seenAt

(* Whatever fails or is killed, a reset leaves an executable to run it again *)
(* with, and no signal reaches a stranger that took over a process number    *)
(* before the reset inspected it.                                            *)
ResetSafe == ExecutableSurvives /\ EndsWhole /\ OnlyInspectedSignalled

(* Nothing is removed under the service's job or a daemon that the check     *)
(* finds, nor what was not asked for.                                        *)
RemovalsSafe == RemovedAfterShutdown /\ KeptIsKept
=============================================================================
