------------------------------- MODULE Setup -------------------------------
(***************************************************************************)
(* agent-gate setup and agent-gate install: every stage is prepared before *)
(* the first is written, the stages are applied in order, and setup then   *)
(* runs each installed hook and waits until the daemon has recorded it     *)
(* (cmd/agent-gate: setup.go, setup_prompt.go, install.go; internal/setup; *)
(* internal/install/plan.go).  ConfigReplace, HookFiles and Reset hold the *)
(* detail of the stages.                                                   *)
(***************************************************************************)
EXTENDS Integers, Sequences, FiniteSets, SequencesExt

CONSTANTS SetupProviders,    \* the providers, in canonical order
          MaxSetups,         \* bound on the commands
          MaxDaemonFailures  \* bound on the crashes of the daemon

VARIABLES setup,             \* the command that runs
          disk,              \* stage -> "old" or "new"; hooks per provider
          answering,         \* the daemon that answers: "old", "new" or "none"
          ran,               \* whether the installed executable has served yet
          pending,           \* probe hooks the daemon has not finished
          store,             \* the durable records of the probes
          failures

setupVars == <<setup, disk, answering, ran, pending, store, failures>>

Stages == <<"config", "service", "hooks">>
NoSetup == [pc |-> "idle", kind |-> "none", stages |-> <<>>, todo |-> <<>>,
            providers |-> <<>>, found |-> {}, outcome |-> "none",
            session |-> 0]

(* install hooks and install service apply one stage, install all may skip *)
(* two, setup has them all and verifies.                                   *)
Kinds == {[kind |-> "setup", stages |-> Stages],
          [kind |-> "install", stages |-> Stages],
          [kind |-> "install", stages |-> <<"config", "hooks">>],
          [kind |-> "install", stages |-> <<"service", "hooks">>],
          [kind |-> "install", stages |-> <<"hooks">>],
          [kind |-> "install", stages |-> <<"service">>]}

Step(pc) == setup' = [setup EXCEPT !.pc = pc]
End(outcome) == setup' = [setup EXCEPT !.pc = "idle", !.outcome = outcome]
Running(pc) == setup.pc = pc
Machine == <<disk, answering, ran, pending, store, failures>>

-----------------------------------------------------------------------------
(* ParseProviders and resolveProviderSelection keep the canonical order;   *)
(* setup refuses an empty selection.                                       *)
ParseProviders(chosen) == SelectSeq(SetupProviders, LAMBDA p : p \in chosen)
BeginSetup(command, chosen) ==
    /\ Running("idle") /\ setup.session < MaxSetups
    /\ command.kind = "setup" => chosen # {}
    /\ setup' = [NoSetup EXCEPT !.pc = "preparing", !.kind = command.kind,
                                !.stages = command.stages,
                                !.providers = ParseProviders(chosen),
                                !.session = setup.session + 1]
    /\ UNCHANGED Machine

(* PrepareInstallation validates every selected layer, and closes the      *)
(* configuration plan when a later layer is refused.                       *)
PrepareInstallation ==
    /\ Running("preparing")
    /\ \/ setup' = [setup EXCEPT !.pc = IF setup.kind = "setup" THEN "confirming"
                                        ELSE "applying",
                                 !.todo = setup.stages]
       \/ End("preflight")
    /\ UNCHANGED Machine

(* The operator confirms or cancels, which closes the plan; setup without  *)
(* prompts goes on.                                                        *)
Confirm ==
    /\ Running("confirming")
    /\ Step("applying") \/ End("cancelled")
    /\ UNCHANGED Machine

NextStage(stage) == Running("applying") /\ setup.todo # <<>> /\ Head(setup.todo) = stage
StageDone == setup' = [setup EXCEPT !.pc = "applying", !.todo = Tail(@)]

(* A stage that fails ends the command; the stages before it stay applied. *)
ApplyConfig ==
    /\ NextStage("config")
    /\ \/ StageDone /\ disk' = [disk EXCEPT !.config = "new"]
       \/ End("config") /\ UNCHANGED disk
    /\ UNCHANGED <<answering, ran, pending, store, failures>>

(* The unit is written, the old job stopped and the new one started; an    *)
(* unmanaged daemon that was sent TERM may still hold the process lock.    *)
ApplyService ==
    /\ NextStage("service")
    /\ \/ /\ Step("waiting")
          /\ disk' = [disk EXCEPT !.service = "new"]
          /\ answering' \in {"new", "none", answering}
          /\ ran' = (ran \/ answering' = "new")
       \/ End("service") /\ UNCHANGED <<disk, answering, ran>>
    /\ UNCHANGED <<pending, store, failures>>

(* waitForDaemonReady: the daemon that answers must run this executable.   *)
ReadyWhoeverAnswers ==
    /\ Running("waiting")
    /\ \/ /\ answering # "none"
          /\ setup' = [setup EXCEPT !.pc = "applying", !.todo = Tail(@)]
       \/ End("service")
    /\ UNCHANGED Machine
WaitReady ==
    /\ Running("waiting")
    /\ \/ /\ answering = "new"
          /\ setup' = [setup EXCEPT !.pc = "applying", !.todo = Tail(@)]
       \/ End("service")
    /\ UNCHANGED Machine

(* ApplyHookInstallation writes one provider after the other.              *)
ApplyHooks ==
    /\ NextStage("hooks")
    /\ LET left == SelectSeq(setup.providers, LAMBDA p : disk.hooks[p] # "new")
       IN  IF left = <<>> THEN StageDone /\ UNCHANGED disk
           ELSE \/ /\ disk' = [disk EXCEPT !.hooks[Head(left)] = "new"]
                   /\ UNCHANGED setup
                \/ End("hooks") /\ UNCHANGED disk
    /\ UNCHANGED <<answering, ran, pending, store, failures>>

ApplyDone ==
    /\ Running("applying") /\ setup.todo = <<>>
    /\ IF setup.kind = "setup" THEN Step("probing") ELSE End("complete")
    /\ UNCHANGED Machine

-----------------------------------------------------------------------------
\* The probes.

Probed == Head(setup.providers)
RecordsOfAnySession(kind) == {r \in store : r.kind = kind /\ r.p = Probed}
Records(kind) == {r \in store : r.kind = kind /\ r.p = Probed
                                /\ r.session = setup.session}

(* The installed command is read back and run.  A hook that cannot reach   *)
(* the daemon fails open: it exits 0 and nothing is recorded.              *)
RunProbe ==
    /\ Running("probing") /\ setup.providers # <<>>
    /\ \/ /\ disk.hooks[Probed] = "new" /\ Step("polling")
          /\ \/ answering # "none" /\ pending' = pending \cup {<<Probed, setup.session, "intake">>}
             \/ UNCHANGED pending
       \/ End("probe") /\ UNCHANGED pending
    /\ UNCHANGED <<disk, answering, ran, store, failures>>

(* readDurableProbe: intake first, then the evaluation, in whichever mode  *)
(* it was recorded, and allowed, then the audit record.  Each must be the  *)
(* only one.  (Evaluations are recorded when they are complete.)           *)
ProbeIntake ==
    /\ Running("polling") /\ setup.found = {}
    /\ Records("intake") # {}
    /\ IF Cardinality(Records("intake")) # 1 THEN End("probe")
       ELSE setup' = [setup EXCEPT !.found = {"intake"}]
    /\ UNCHANGED Machine

ModeOrder == <<"hot", "deferred", "deferred_replay">>
FirstMode(records) ==
    LET modes == SelectSeq(ModeOrder, LAMBDA m : \E r \in records : r.mode = m)
    IN  {r \in records : r.mode = Head(modes)}
ProbeEvaluation ==
    /\ Running("polling") /\ setup.found = {"intake"}
    /\ Records("evaluation") # {}
    /\ LET first == FirstMode(Records("evaluation"))
       IN  CASE Cardinality(first) # 1 -> End("probe")
             [] \E r \in first : r.verdict # "allow" -> End("probe")
             [] OTHER -> setup' = [setup EXCEPT !.found = {"intake", "evaluation"}]
    /\ UNCHANGED Machine

ProbeAudit ==
    /\ Running("polling") /\ setup.found = {"intake", "evaluation"}
    /\ Records("audit") # {}
    /\ IF Cardinality(Records("audit")) # 1 \/ \E r \in Records("audit") : r.verdict # "allow"
       THEN End("probe")
       ELSE setup' = [setup EXCEPT !.pc = "probing", !.found = {},
                                   !.providers = Tail(@)]
    /\ UNCHANGED Machine

(* The timeout names the record that did not appear.                       *)
ProbeTimeout ==
    /\ Running("polling")
    /\ End("probe")
    /\ UNCHANGED Machine

SetupComplete ==
    /\ Running("probing") /\ setup.providers = <<>>
    /\ End("complete")
    /\ UNCHANGED Machine

-----------------------------------------------------------------------------
\* The daemon.

Record(p, session, kind, mode, verdict) ==
    [p |-> p, session |-> session, kind |-> kind, mode |-> mode, verdict |-> verdict]
AdvanceSetup(job, next, records) ==
    /\ store' = store \cup records
    /\ pending' = (pending \ {job}) \cup next
    /\ UNCHANGED <<setup, disk, answering, ran, failures>>

(* Intake is durable before the evaluation, which runs in the hook or      *)
(* later; the audit record is written on its own.                          *)
DaemonIntake(job) ==
    /\ answering # "none" /\ job[3] = "intake"
    /\ AdvanceSetup(job, {<<job[1], job[2], "evaluation">>},
               {Record(job[1], job[2], "intake", "none", "none")})
DaemonEvaluates(job, mode, verdict) ==
    /\ answering # "none" /\ job[3] = "evaluation"
    /\ AdvanceSetup(job, {<<job[1], job[2], "audit_" \o verdict>>},
               {Record(job[1], job[2], "evaluation", mode, verdict)})
DaemonAudits(job, verdict) ==
    /\ answering # "none" /\ job[3] = "audit_" \o verdict
    /\ AdvanceSetup(job, {}, {Record(job[1], job[2], "audit", "none", verdict)})

(* A daemon that dies loses the hooks it had not taken in; the manager     *)
(* starts another, which replays what was taken in.                        *)
DaemonDies ==
    /\ answering # "none" /\ failures < MaxDaemonFailures
    /\ failures' = failures + 1
    /\ answering' = "none"
    /\ pending' = {job \in pending : job[3] = "evaluation"}
    /\ UNCHANGED <<setup, disk, ran, store>>
DaemonStarts ==
    /\ answering = "none"
    /\ answering' = disk.service
    /\ ran' = (ran \/ answering' = "new")
    /\ UNCHANGED <<setup, disk, pending, store, failures>>

SetupInit ==
    /\ setup = NoSetup
    /\ disk = [config |-> "old", service |-> "old",
               hooks |-> [p \in Range(SetupProviders) |-> "old"]]
    /\ answering \in {"old", "none"}
    /\ ran = FALSE /\ pending = {} /\ store = {} /\ failures = 0

SetupNext ==
    \/ \E command \in Kinds : \E chosen \in SUBSET Range(SetupProviders) :
          BeginSetup(command, chosen)
    \/ PrepareInstallation \/ Confirm \/ ApplyConfig \/ ApplyService \/ WaitReady
    \/ ApplyHooks \/ ApplyDone \/ RunProbe \/ ProbeIntake \/ ProbeEvaluation
    \/ ProbeAudit \/ ProbeTimeout \/ SetupComplete
    \/ \E job \in pending :
          \/ DaemonIntake(job)
          \/ \E mode \in Range(ModeOrder), verdict \in {"allow", "block"} :
                DaemonEvaluates(job, mode, verdict)
          \/ \E verdict \in {"allow", "block"} : DaemonAudits(job, verdict)
    \/ DaemonDies \/ DaemonStarts

SetupSpec == SetupInit /\ [][SetupNext]_setupVars

-----------------------------------------------------------------------------
(* An installation that includes the service registers its hooks only      *)
(* after a daemon of the installed executable has served: not when the     *)
(* service failed to start, and not on the word of the daemon that is      *)
(* being replaced (ApplyInstallation, waitForDaemonReady).                 *)
HooksAfterService ==
    [][disk'.hooks # disk.hooks /\ "service" \in Range(setup.stages) =>
           ran]_setupVars

(* Setup reports success only when every selected provider's own hook was  *)
(* taken in, evaluated to allow and audited, in this setup's session: a    *)
(* hook that failed open, or was blocked, does not pass                    *)
(* (VerifyInstalledHooks).                                                 *)
CompleteIsDurable ==
    [][Running("polling") /\ setup'.pc = "probing" =>
           \A kind \in {"intake", "evaluation", "audit"} : \E r \in store :
               /\ r.kind = kind /\ r.p = Probed /\ r.session = setup.session
               /\ r.verdict = IF kind = "intake" THEN "none" ELSE "allow"]_setupVars

(* Setup points hosts at a service only once its own daemon answers, and     *)
(* calls a provider complete only for records of this very probe.            *)
SetupSafe == HooksAfterService /\ CompleteIsDurable
=============================================================================
