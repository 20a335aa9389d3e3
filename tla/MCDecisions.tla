----------------------------- MODULE MCDecisions -----------------------------
(* Small instances of what decides about a hook call and of what sets that   *)
(* up: the evaluation of the rules, the answer to the host, and the           *)
(* configuration, installation and reset commands, and the local logs in      *)
(* which all of them leave evidence.  They share no state, so a behaviour is  *)
(* one of a single component (focus) while the others keep still.             *)
EXTENDS MCRules, MCConfig, MCInstall, MCHookCalls, ConfigReplace, LogStorage

VARIABLE focus

On(component) == focus = component

\* A component that keeps still starts in one state only, one that is cheap to check.
Settled ==
    /\ ~On("rules") => /\ \E c \in {CHOOSE c \in Cases : TRUE} : rules = c.rules /\ facts = c.facts
                       /\ caps = [block |-> TRUE, inject |-> TRUE, mutate |-> "none"]
    /\ ~On("config") => document = [BaseDocument EXCEPT !.exists = FALSE]
    /\ ~On("merge") => sourceText = CHOOSE d \in SourceDocuments : TRUE
    /\ ~On("replace") => at = [place \in EntryPlaces |-> 0]
    /\ ~On("hooks") => hookFile = DamagedFiles
    /\ ~On("reset") => /\ layout = Apart /\ service = Job("absent", 0)
                       /\ proc = [pid \in ResetPids |-> {}]
    /\ ~On("setup") => answering = "none"
    /\ ~On("diagnostics") => archives = {} /\ diagnosticLog = <<2>>
    /\ ~On("evidence") => failOpenLog = <<>>

DecisionsInit ==
    /\ focus \in {"rules", "config", "merge", "replace", "hooks", "reset", "setup", "calls",
                 "evidence", "supervisor", "diagnostics"}
    /\ Settled
    /\ RulesInit /\ ConfigInit /\ MergeInit /\ ReplaceInit /\ HookFilesInit
    /\ ResetInit /\ SetupInit /\ CallInit /\ LogInit

\* What earlier versions left of the diagnostic log.
LeftArchives ==
    LET old(d, name) == [name |-> name, date |-> d, lines |-> <<d>>]
    IN  {{}, {old(0, "first"), old(1, "second")}, {old(0, "previous"), old(1, "second")}}
LeftLogs == {<<2>>, <<2, 3, 4>>}

installVars == <<mergeVars, replaceVars, hookVars, resetVars, setupVars>>
decisionVars == <<ruleVars, configVars, callVars, logVars>>

RulesMove == /\ On("rules") /\ RulesNext
             /\ UNCHANGED <<configVars, callVars, logVars, installVars>>
ConfigMoves == /\ On("config") /\ ConfigNext
               /\ UNCHANGED <<ruleVars, callVars, logVars, installVars>>
CallMoves == /\ On("calls") /\ CallNext
             /\ UNCHANGED <<ruleVars, configVars, logVars, installVars>>
\* Each log has its own lock; only Maintain goes from the supervisor's to the evidence.
LogsMove == /\ \/ On("evidence") /\ (EvidenceNext \/ \E p \in LogUsers : Maintain(p) \/ keepTail(p))
               \/ On("supervisor") /\ (SupervisorNext \/ \E p \in LogUsers :
                                          maintainEvidence(p) \/ pruneFailOpen(p) \/ evidencePruned(p))
               \/ On("diagnostics") /\ DiagnosticNext
               \/ focus \in {"evidence", "supervisor", "diagnostics"} /\ LogFaults
            /\ UNCHANGED <<ruleVars, configVars, callVars, installVars>>
MergeMoves == /\ On("merge") /\ MergeNext
              /\ UNCHANGED <<replaceVars, hookVars, resetVars, setupVars, decisionVars>>
\* One replacement among the operator's edits, or two of two planners at once.
ReplaceMoves == /\ On("replace") /\ ReplaceNext
                /\ plans' > 1 => edits' = 0
                /\ UNCHANGED <<mergeVars, hookVars, resetVars, setupVars, decisionVars>>
\* An executable of another name is installed among files that nobody saves.
HooksMove == /\ On("hooks") /\ HookFilesNext
             /\ hookPlan'.exe = "renamed" => hookEdits' = 0
             /\ UNCHANGED <<mergeVars, replaceVars, resetVars, setupVars, decisionVars>>
ResetMoves == /\ On("reset") /\ ResetNext
              /\ UNCHANGED <<mergeVars, replaceVars, hookVars, setupVars, decisionVars>>
\* One command for two providers, or two for one of them.
SetupMoves == /\ On("setup") /\ SetupNext
              /\ setup'.session > 1 =>
                   /\ Len(setup'.providers) <= 1
                   /\ Cardinality({p \in Range(SetupProviders) : disk'.hooks[p] = "new"}) <= 1
              /\ UNCHANGED <<mergeVars, replaceVars, hookVars, resetVars, decisionVars>>

DecisionsNext ==
    /\ \/ RulesMove \/ ConfigMoves \/ CallMoves \/ MergeMoves \/ ReplaceMoves \/ HooksMove
       \/ ResetMoves \/ SetupMoves \/ LogsMove
    /\ UNCHANGED focus

DecisionsSpec == DecisionsInit /\ [][DecisionsNext]_<<focus, decisionVars, installVars>>
=============================================================================
