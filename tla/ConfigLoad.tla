----------------------------- MODULE ConfigLoad -----------------------------
(* Loading the configuration file (internal/config) and serving it (the      *)
(* start in cmd/agent-gate and the reload in internal/daemon).               *)
(*                                                                           *)
(* A document is what the file says: for each section the values set (zero   *)
(* or empty when unset), and the declared rules in order.  A load checks the *)
(* sections, then compiles the rules one by one with the settings then in    *)
(* force.  A strict load refuses a document with any fault; a degraded load  *)
(* puts a faulty section back on its defaults, drops a faulty rule, and      *)
(* records both.  Times are in half seconds.                                 *)
EXTENDS Integers, Sequences, SequencesExt, FiniteSets, TLC

CONSTANTS
    FirstDocuments, Documents,  \* what the file may say at first, and later
    Schema,                     \* (system, event) -> its field paths
    MaxUint32, MaxInt64,        \* the widths, scaled down
    MaxConfigEdits

ASSUME DocumentsAssumption == FirstDocuments \subseteq Documents

VARIABLES document, serving, configEdits

configVars == <<document, serving, configEdits>>

-----------------------------------------------------------------------------
(* Settings.                                                                *)

positiveOr(value, default) == IF value > 0 THEN value ELSE default

\* A value that the text of the document may give: given, and readable.
Text(value) == [given |-> TRUE, parses |-> TRUE, value |-> value]
Unreadable == [given |-> TRUE, parses |-> FALSE, value |-> 0]
Unset == [given |-> FALSE, parses |-> TRUE, value |-> 0]

timeouts(t) ==
    [hook         |-> positiveOr(t.hook, 24),
     execDefault  |-> positiveOr(t.execDefault, 3), execMax  |-> positiveOr(t.execMax, 8),
     background   |-> positiveOr(t.background, 60), retries  |-> positiveOr(t.retries, 5),
     inferDefault |-> positiveOr(t.inferDefault, 3), inferMax |-> positiveOr(t.inferMax, 16)]

zeroTimeouts == [hook |-> 0, execDefault |-> 0, execMax |-> 0, background |-> 0, retries |-> 0,
                 inferDefault |-> 0, inferMax |-> 0]

Values(r) == {r[f] : f \in DOMAIN r}

\* Slip: a ceiling may be as long as the hook's deadline.
timeoutsUpToDeadline(t) ==
    LET e == timeouts(t)
    IN  /\ \A v \in Values(t) : v >= 0
        /\ e.execMax <= e.hook /\ e.inferMax <= e.hook
        /\ e.execDefault <= e.execMax /\ e.inferDefault <= e.inferMax

validateTimeouts(t) ==
    LET e == timeouts(t)
    IN  /\ \A v \in Values(t) : v >= 0
        /\ e.execMax < e.hook /\ e.inferMax < e.hook
        /\ e.execDefault <= e.execMax /\ e.inferDefault <= e.inferMax

\* The counts are in units of their defaults.
limits(l) ==
    [match |-> positiveOr(l.match, 1), depth |-> positiveOr(l.depth, 1),
     queue |-> positiveOr(l.queue, 1), dedup |-> positiveOr(l.dedup, 1),
     phaseMax |-> positiveOr(l.phaseMax, 18)]

zeroLimits == [match |-> 0, depth |-> 0, queue |-> 0, dedup |-> 0, phaseMax |-> 0]

intervals(i) ==
    [ttl |-> positiveOr(i.ttl, 60), drop |-> positiveOr(i.drop, 10),
     overload |-> positiveOr(i.overload, 10),
     lease |-> positiveOr(i.lease, 60), renew |-> positiveOr(i.renew, 20)]

zeroIntervals == [ttl |-> 0, drop |-> 0, overload |-> 0, lease |-> 0, renew |-> 0]

validateLimits(l, i) ==
    /\ \A v \in Values(l) \cup Values(i) : v >= 0
    /\ l.match <= MaxUint32 /\ l.depth <= MaxUint32
    /\ intervals(i).renew < intervals(i).lease

\* The inference phase is checked against the ceiling as the document has it.
validateHookPerformance(phase, l) == phase >= 0 /\ phase <= limits(l).phaseMax

\* The deadline in force is capped once more.
HookInferencePhaseTimeout(phase, l) ==
    IF phase > 0 THEN IF phase < limits(l).phaseMax THEN phase ELSE limits(l).phaseMax
    ELSE 8

-----------------------------------------------------------------------------
(* Audit storage.                                                           *)

\* A decimal number of units, in tenths: a whole number of bytes that fits.
parseAuditStorageSize(text) ==
    LET tenths == text.value.tenths * text.value.unit
    IN  /\ text.parses
        /\ tenths % 10 = 0 /\ tenths \div 10 <= MaxInt64

DetailClasses == {"wire_input", "normalized_input", "provider_evidence",
                  "environment_evidence", "evaluation_content"}

Rotation(s) ==
    [interval |-> IF s.interval.given THEN s.interval.value ELSE 172800,
     retained |-> IF s.retained.given THEN s.retained.value ELSE 7,
     bytes    |-> IF s.size.given THEN (s.size.value.tenths * s.size.value.unit) \div 10
                  ELSE 100000000]

\* RotationPolicy.Validate; 4 MiB at least, and an age or a size limit.
validRotation(r) ==
    /\ r.interval > 0 /\ r.interval % 2 = 0
    /\ r.retained >= 0
    /\ r.bytes = 0 \/ r.bytes >= 4194304
    /\ r.retained > 0 \/ r.bytes > 0
    /\ r.retained <= MaxInt64 \div r.interval

validStorage(s) ==
    /\ s.profile \in {"", "full", "minimal"}
    /\ s.interval.parses
    /\ s.size.given => parseAuditStorageSize(s.size)
    /\ validRotation(Rotation(s))

resolveAuditStorage(s) ==
    [rotation |-> Rotation(s),
     detail   |-> s.detail @@ [c \in DetailClasses |-> s.profile # "minimal"]]

-----------------------------------------------------------------------------
(* Judges.                                                                  *)

validContextOnError(onError) == onError \in {"", "open", "closed"}

validPoint(p) ==
    /\ p.endpoint /\ p.model
    /\ p.source \in {"", "output_field", "logprob"}
    /\ p.source = "output_field" => p.field
    /\ p.threshold >= 0 /\ p.threshold <= 10
    /\ p.budget >= 0 /\ p.chars >= 0
    /\ validContextOnError(p.onError)
    /\ ~p.context => /\ ~p.workspace /\ ~p.session
                     /\ p.budget = 0 /\ p.chars = 0 /\ p.onError = ""

validateInferencePoints(points) == \A name \in DOMAIN points : validPoint(points[name])

zeroJudge == [tokens |-> 0, timeout |-> 0, onError |-> "", pricing |-> <<>>]

validateJudge(j) ==
    /\ j.tokens >= 0 /\ j.timeout >= 0
    /\ validContextOnError(j.onError)
    /\ \A model \in DOMAIN j.pricing : j.pricing[model] >= 0

-----------------------------------------------------------------------------
(* Field paths.                                                             *)

TemporalPaths == {"last_user_message", "last_response_output", "response_output"}

virtualFields == TemporalPaths \cup {"effective_cwd", "cmd_write_targets"}

KnownPaths == virtualFields \cup {"cmd_read_targets"} \cup UNION {Schema[p] : p \in DOMAIN Schema}

CompileFieldSelector(path) == path \in KnownPaths

IsTemporalExecSelector(path) == path \in TemporalPaths

-----------------------------------------------------------------------------
(* Conditions.  What a text may be: absent, readable or not.                 *)

regexCompiles(p) == p \in {"", "plain", "grouped"}

\* A grouped pattern has one capture.
validateDiagnosticGroup(group, p) ==
    group >= 0 /\ (group > 0 => p # "" /\ group <= IF p = "grouped" THEN 1 ELSE 0)

ConditionKinds == {"regex", "command", "project", "diff", "shell_read", "shell_write", "exec",
                   "git_default_branch", "git_primary_checkout", "git_ref_move", "infer"}

needsReaders(c, path) == path = "cmd_read_targets" => c.tools = "ok" \/ c.readSpecs = "ok"

\* An exec condition with its defaults.
normalizedExec(c, response, t) ==
    LET blockOn == IF c.blockOn # "" THEN c.blockOn ELSE IF response THEN "zero" ELSE "nonzero"
    IN  [c EXCEPT !.timeout   = IF @ = 0 THEN timeouts(t).execDefault ELSE @,
                  !.onError   = IF @ = "" THEN "open" ELSE @,
                  !.cacheKey  = IF @ = "" THEN "effective_cwd" ELSE @,
                  !.matchMode = IF @ = "" /\ c.forEach # "" THEN "any" ELSE @,
                  !.blockOn   = IF c.jsonField # "" /\ blockOn = "nonzero" THEN "match" ELSE blockOn]

compileExecForEach(c) ==
    IF c.forEach = "" THEN c.command # "item" /\ c.matchMode = ""
    ELSE /\ CompileFieldSelector(c.forEach) /\ ~IsTemporalExecSelector(c.forEach)
         /\ c.command = "item"
         /\ c.matchMode \in {"any", "all"}
         /\ needsReaders(c, c.forEach)

compileExecCacheKey(c) ==
    /\ CompileFieldSelector(c.cacheKey) /\ ~IsTemporalExecSelector(c.cacheKey)
    /\ needsReaders(c, c.cacheKey)

compileExecStdoutJSON(c) ==
    /\ (c.jsonField = "") = (c.jsonEquals = "")
    /\ c.jsonField \in {"", "path"} /\ c.jsonEquals \in {"", "scalar"}

normalizeExecBlockOn(c) ==
    /\ c.blockOn \in {"nonzero", "zero", "match"}
    /\ (c.jsonField # "") = (c.blockOn = "match")

compileExecConfig(c, t) ==
    /\ c.command \in {"plain", "item"}
    /\ c.timeout >= 0 /\ c.timeout <= timeouts(t).execMax
    /\ c.retries >= 0 /\ c.retries <= timeouts(t).retries
    /\ c.ttl >= 0
    /\ c.onError \in {"open", "closed"}
    /\ c.readSpecs # "bad" /\ c.tools # "bad"
    /\ compileExecCacheKey(c) /\ compileExecForEach(c)
    /\ compileExecStdoutJSON(c) /\ normalizeExecBlockOn(c)

normalizedInfer(c, t) ==
    [c EXCEPT !.timeout  = IF @ = 0 THEN timeouts(t).inferDefault ELSE @,
              !.onError  = IF @ = "" THEN "open" ELSE @,
              !.cacheKey = IF @ = "" THEN c.input ELSE @,
              !.blockOn  = IF @ = "" THEN "match" ELSE @,
              !.budget   = IF c.source # "" /\ @ = 0 THEN 4 ELSE @,
              !.chars    = IF c.source # "" /\ @ = 0 THEN 280 ELSE @]

compileInferContextConfig(c) ==
    c.source # "" =>
        /\ c.source = "clyde_recent_turns"
        /\ c.context
        /\ CompileFieldSelector(c.workspace) /\ CompileFieldSelector(c.session)
        /\ c.budget \in 1 .. 32 /\ c.chars \in 1 .. 8000
        /\ c.contextOnError \in {"empty", "error"}

\* Exactly one of an inline text and a file that can be read.
compileDeclaration(text) == text \in {"inline", "file"}

compileInferConfig(c, t) ==
    /\ c.endpoint /\ c.layer
    /\ compileDeclaration(c.prompt) /\ compileDeclaration(c.schema)
    /\ c.effort \in {"", "low"}
    /\ CompileFieldSelector(c.input) /\ CompileFieldSelector(c.cacheKey)
    /\ c.timeout >= 0 /\ c.timeout <= timeouts(t).inferMax
    /\ c.ttl >= 0
    /\ c.blockOn \in {"match", "nonmatch"}
    /\ c.onError \in {"open", "closed"}
    /\ c.jsonField = "path" /\ c.jsonEquals = "scalar"
    /\ compileInferContextConfig(c)

\* Descriptions of writing commands only where the targets are used.
conditionConsumesCmdWriteTargets(c) ==
    \/ c.kind = "shell_write"
    \/ /\ c.kind \in {"regex", "exec", "git_default_branch", "git_primary_checkout", "infer"}
       /\ "cmd_write_targets" \in c.paths \cup
             CASE c.kind = "exec" -> {c.cacheKey, c.forEach}
               [] c.kind = "infer" -> {c.cacheKey, c.input}
               [] c.kind \notin {"exec", "infer"} -> {}

normalizedCondition(c, response, t) ==
    CASE c.kind = "" -> [c EXCEPT !.kind = "regex"]
      [] c.kind = "exec" -> normalizedExec(c, response, t)
      [] c.kind = "infer" -> normalizedInfer(c, t)
      [] c.kind \notin {"", "exec", "infer"} -> c

compileCondition(c, t) ==
    /\ c.kind \in ConditionKinds
    /\ regexCompiles(c.pattern) /\ regexCompiles(c.notPattern) /\ regexCompiles(c.pathPattern)
    /\ validateDiagnosticGroup(c.group, c.pattern)
    /\ Cardinality(c.pair) \in {0, 2}
    /\ c.kind = "shell_read" => /\ c.pattern # "" /\ c.pathPattern # ""
                                /\ c.maxBytes >= 0 /\ c.readSpecs = "ok"
    /\ c.kind = "exec" => compileExecConfig(c, t)
    /\ c.kind = "infer" => compileInferConfig(c, t)
    /\ c.writeSpecs # "" => conditionConsumesCmdWriteTargets(c) /\ c.writeSpecs = "ok"
    /\ c.policies = "ok"
    /\ c.kind = "git_ref_move" => c.paths = {}

-----------------------------------------------------------------------------
(* Rules.                                                                   *)

IsResponseRule(r) == r.action \in {"inject", "mutate"}

HasExec(r) == \E j \in DOMAIN r.conds : r.conds[j].kind = "exec"

normalizeRuleAction(r) == r.action \in {"block", "audit", "inject", "mutate"}

\* Of a response rule: a text, or a file beside the configuration, or what a
\* validator prints.
resolveRuleOutput(r) ==
    IF ~IsResponseRule(r) THEN r.output = "" /\ r.outputFile = ""
    ELSE /\ r.output = "" \/ r.outputFile = ""
         /\ r.outputFile \in {"", "text", "blank"}
         /\ r.output = "text" \/ r.outputFile = "text" \/ HasExec(r)

validEval(e, points) ==
    /\ e.kind \in {"deterministic", "infer"}
    /\ e.role \in {"enforce", "verify", "fallback"}
    /\ e.fanout \in {"", "batch", "individual"}
    /\ e.combine \in {"", "and", "union"}
    /\ validContextOnError(e.onError)
    /\ e.kind = "deterministic" => e.use = "" /\ e.fanout = "" /\ e.onError = ""
    /\ e.kind = "infer" => e.use \in DOMAIN points

\* A deterministic evaluator needs conditions, a judge an intent.
validateRuleEval(r, points) ==
    \A k \in DOMAIN r.evals :
        /\ validEval(r.evals[k], points)
        /\ r.evals[k].kind = "deterministic" => r.conds # <<>>
        /\ r.evals[k].kind = "infer" => r.intent

\* A response rule without pattern and conditions always applies.
compileMatcher(r) ==
    IF IsResponseRule(r) /\ r.pattern = "" /\ r.notPattern = "" THEN r.group = 0
    ELSE /\ regexCompiles(r.pattern) /\ regexCompiles(r.notPattern)
         /\ validateDiagnosticGroup(r.group, IF r.pattern = "" THEN "plain" ELSE r.pattern)

validateRuleJudgeContext(r) ==
    \A path \in r.judgeContext : path = "checkout_status" \/ CompileFieldSelector(path)

validateDisableProviders(r) == r.disabled \subseteq {"claude", "cursor", "codex", "copilot", "gemini"}

normalizedRule(r, t) ==
    LET action == IF r.action = "" THEN "block" ELSE r.action
    IN  [r EXCEPT !.action = action,
                  !.format = IF @ = "" THEN "detailed" ELSE @,
                  !.conds  = [j \in DOMAIN @ |->
                                normalizedCondition(@[j], action \in {"inject", "mutate"}, t)]]

compileRule(r, points, t) ==
    /\ normalizeRuleAction(r)
    /\ resolveRuleOutput(r)
    /\ r.format \in {"detailed", "message_only"}
    /\ validateRuleEval(r, points)
    /\ validateRuleJudgeContext(r) /\ validateDisableProviders(r)
    /\ IF r.conds # <<>> THEN \A j \in DOMAIN r.conds : compileCondition(r.conds[j], t)
       ELSE compileMatcher(r)

-----------------------------------------------------------------------------
(* The load.                                                                *)

normalizeUpdate(u) ==
    /\ u.mode \in {"", "apply", "check"}
    /\ u.interval.given => u.interval.parses /\ u.interval.value > 0

zeroUpdate == [mode |-> "", interval |-> Unset]

\* Slip: the rules are compiled with the timeouts that the document asks for.
sectionsUnreset(d) ==
    [d EXCEPT !.phase     = IF validateHookPerformance(@, d.limits) THEN @ ELSE 0,
              !.limits    = IF validateLimits(@, d.intervals) THEN @ ELSE zeroLimits,
              !.intervals = IF validateLimits(d.limits, @) THEN @ ELSE zeroIntervals,
              !.points    = IF validateInferencePoints(@) THEN @ ELSE <<>>,
              !.judge     = IF validateJudge(@) THEN @ ELSE zeroJudge,
              !.update    = IF normalizeUpdate(@) THEN @ ELSE zeroUpdate]

\* The settings in force: a faulty section is back on its defaults.
validateSections(d) ==
    [d EXCEPT !.phase     = IF validateHookPerformance(@, d.limits) THEN @ ELSE 0,
              !.timeouts  = IF validateTimeouts(@) THEN @ ELSE zeroTimeouts,
              !.limits    = IF validateLimits(@, d.intervals) THEN @ ELSE zeroLimits,
              !.intervals = IF validateLimits(d.limits, @) THEN @ ELSE zeroIntervals,
              !.points    = IF validateInferencePoints(@) THEN @ ELSE <<>>,
              !.judge     = IF validateJudge(@) THEN @ ELSE zeroJudge,
              !.update    = IF normalizeUpdate(@) THEN @ ELSE zeroUpdate]

sectionFailures(d) ==
    {section \in {"performance.hook", "performance.timeouts", "performance.limits", "inference",
                  "judge", "update"} :
        ~CASE section = "performance.hook" -> validateHookPerformance(d.phase, d.limits)
           [] section = "performance.timeouts" -> validateTimeouts(d.timeouts)
           [] section = "performance.limits" -> validateLimits(d.limits, d.intervals)
           [] section = "inference" -> validateInferencePoints(d.points)
           [] section = "judge" -> validateJudge(d.judge)
           [] section = "update" -> normalizeUpdate(d.update)}

\* The places of the declared rules that compile.
keptRules(d) ==
    LET settled == validateSections(d)
        compiles(k) == compileRule(normalizedRule(d.rules[k], settled.timeouts),
                                   settled.points, settled.timeouts)
    IN  SelectSeq([k \in DOMAIN d.rules |-> k], compiles)

Compiled(d) ==
    LET settled == validateSections(d)
        kept == keptRules(d)
    IN  [unusable |-> FALSE,
         failures |-> sectionFailures(d) \cup
                      {d.rules[k].name : k \in DOMAIN d.rules \ Range(kept)},
         storage  |-> resolveAuditStorage(d.storage),
         phase    |-> HookInferencePhaseTimeout(settled.phase, settled.limits),
         timeouts |-> timeouts(settled.timeouts), limits |-> limits(settled.limits),
         intervals |-> intervals(settled.intervals),
         points   |-> settled.points, judge |-> settled.judge, update |-> settled.update,
         rules    |-> [n \in DOMAIN kept |-> normalizedRule(d.rules[kept[n]], settled.timeouts)]]

NoDocument == CHOOSE d \in Documents : ~d.exists

\* A file that does not decode has no rules, no settings and no storage.
Unusable == [Compiled(NoDocument) EXCEPT !.unusable = TRUE, !.failures = {"document"},
                                         !.storage.rotation.interval = 0]

\* Decoding ends at the first value of a wrong type, wherever it is; undecoded
\* names the parts with such a value, which are all parts when it is the syntax
\* that is wrong.
decodes(d) == d.undecoded = {}

\* Slip: a configuration without rules is as good as another.
loadSourceEmptied(d, strict) ==
    IF ~decodes(d) THEN IF strict THEN {} ELSE {Unusable}
    ELSE IF d.cacheBytes < 0 \/ ~validStorage(d.storage) THEN {}
    ELSE IF strict /\ Compiled(d).failures # {} THEN {}
    ELSE {Compiled(d)}

\* The configuration, or none if the load refuses.  The cache and the storage
\* are never put back on defaults, and losing every declared rule is refused.
loadSource(d, strict) ==
    IF ~decodes(d) THEN IF strict THEN {} ELSE {Unusable}
    ELSE IF d.cacheBytes < 0 \/ ~validStorage(d.storage) THEN {}
    ELSE IF strict /\ Compiled(d).failures # {} THEN {}
    ELSE IF ~strict /\ d.rules # <<>> /\ keptRules(d) = <<>> THEN {}
    ELSE {Compiled(d)}

\* A file that is not there is an empty configuration, unless one must exist.
loadPath(d, requireExisting, strict) ==
    IF ~d.exists THEN IF requireExisting THEN {} ELSE {Compiled(NoDocument)}
    ELSE loadSource(d, strict)

\* What a hook process reads of the same file, unchecked: it decodes the table
\* of the timeouts alone, so a wrong type elsewhere does not stop it.
HookEvaluateTimeoutFromFile ==
    IF document.exists /\ "performance.timeouts" \notin document.undecoded
    THEN positiveOr(document.timeouts.hook, 24)
    ELSE 24

-----------------------------------------------------------------------------
(* The check of the rules against the events (internal/hook/schema.go).      *)

systems == {"claude", "cursor", "codex", "copilot", "gemini", "response"}

\* Slip: the pairs of a disabled provider count.
pairsOfEveryProvider(r) ==
    IF r.allEvents THEN DOMAIN Schema
    ELSE {<<s, e>> : s \in systems, e \in r.events} \cup r.systemEvents

\* The pairs a rule names, whether such an event exists or not.
applicableEventPairs(r) ==
    {p \in IF r.allEvents THEN DOMAIN Schema
           ELSE {<<s, e>> : s \in systems, e \in r.events} \cup r.systemEvents :
       p[1] \notin r.disabled}

\* The same question, as the rule engine asks it of an event.
appliesToEvent(r, system, event) ==
    /\ system \notin r.disabled
    /\ r.allEvents \/ event \in r.events \/ <<system, event>> \in r.systemEvents

collectRuleFieldPaths(r) ==
    r.paths \cup UNION {r.conds[j].paths \cup
                          IF r.conds[j].kind # "infer" THEN {}
                          ELSE {r.conds[j].input, r.conds[j].cacheKey} \cup
                               IF r.conds[j].source = "" THEN {}
                               ELSE {r.conds[j].workspace, r.conds[j].session} :
                          j \in DOMAIN r.conds}

validateFieldPathForRule(r, path) ==
    /\ CompileFieldSelector(path)
    /\ \/ path \in virtualFields
       \/ \E p \in applicableEventPairs(r) : p \in DOMAIN Schema /\ path \in Schema[p]

\* The selectors of the conversation serve the field paths of a validator, and
\* those of a response only a response rule.
validateTemporalSelectorScope(r) ==
    /\ (r.paths \cup r.judgeContext) \cap TemporalPaths = {}
    /\ \A j \in DOMAIN r.conds :
         LET c == r.conds[j]
         IN  /\ c.kind # "exec" => c.paths \cap TemporalPaths = {}
             /\ c.paths \cap {"last_response_output", "response_output"} # {} => IsResponseRule(r)
             /\ c.kind = "infer" => {c.input, c.cacheKey, c.workspace, c.session} \cap TemporalPaths = {}
             /\ c.kind = "diff" => c.pair \cap TemporalPaths = {}

\* Structured is whether an event of the rule takes a replacement in JSON.
validateResponseRuleConfig(r) ==
    r.action = "mutate" /\ ~HasExec(r) /\ r.structured => r.json

validateRuleConfig(r) ==
    /\ validateResponseRuleConfig(r)
    /\ validateTemporalSelectorScope(r)
    /\ \A path \in collectRuleFieldPaths(r) : validateFieldPathForRule(r, path)

\* Every rule, and no two of one name.
ValidateConfig(cfg) ==
    /\ \A n \in DOMAIN cfg.rules : validateRuleConfig(cfg.rules[n])
    /\ \A m, n \in DOMAIN cfg.rules : cfg.rules[m].name = cfg.rules[n].name => m = n

-----------------------------------------------------------------------------
(* The daemon.                                                              *)

NotServing == [up |-> FALSE, config |-> Compiled(NoDocument), from |-> NoDocument]

\* Someone saves the file, or removes it.
editFile(d) ==
    /\ configEdits < MaxConfigEdits
    /\ document' = d /\ configEdits' = configEdits + 1
    /\ UNCHANGED serving

\* The daemon does not start when the load or the check refuses.
runDaemon ==
    /\ ~serving.up
    /\ \E cfg \in loadPath(document, FALSE, FALSE) :
          /\ ValidateConfig(cfg)
          /\ serving' = [up |-> TRUE, config |-> cfg, from |-> document]
    /\ UNCHANGED <<document, configEdits>>

\* A reload that refuses keeps what is served.
reloadConfig ==
    /\ serving.up
    /\ \E cfg \in loadPath(document, TRUE, FALSE) :
          /\ ~cfg.unusable /\ ValidateConfig(cfg)
          /\ serving' = [serving EXCEPT !.config = cfg, !.from = document]
    /\ UNCHANGED <<document, configEdits>>

stopDaemon ==
    /\ serving.up
    /\ serving' = NotServing
    /\ UNCHANGED <<document, configEdits>>

ConfigInit == document \in FirstDocuments /\ serving = NotServing /\ configEdits = 0

ConfigNext ==
    \/ \E d \in Documents : editFile(d)
    \/ runDaemon \/ reloadConfig \/ stopDaemon

-----------------------------------------------------------------------------
(* Properties.                                                              *)

\* The document without what the degraded load complains about: the faulty
\* rules are gone, the faulty sections empty, the phase is what it is capped to.
Repaired(d) ==
    LET settled == validateSections(d)
    IN  [settled EXCEPT !.rules = [n \in DOMAIN keptRules(d) |-> d.rules[keptRules(d)[n]]],
                        !.phase = IF @ = 0 THEN 0 ELSE HookInferencePhaseTimeout(@, settled.limits)]

\* A degraded load loses exactly the faulty parts: what it serves is what the
\* strict load makes of the document once these are taken out, and a document
\* that the strict load takes is served as it is.  (load.go: loadSource)
DegradedLosesOnlyFaults ==
    \A cfg \in loadPath(document, TRUE, FALSE) :
        ~cfg.unusable =>
            /\ loadPath(Repaired(document), TRUE, TRUE) = {[cfg EXCEPT !.failures = {}]}
            /\ cfg.failures = {} => loadPath(document, TRUE, TRUE) = {cfg}

\* The deadlines of a hook call: the served one, and that of the hook process,
\* which reads the file itself.  The second has nothing to do with the first
\* when the file was saved since or its timeouts are faulty.
HookDeadlines ==
    {serving.config.timeouts.hook} \cup
        IF serving.from = document /\ "performance.timeouts" \notin serving.config.failures
        THEN {HookEvaluateTimeoutFromFile} ELSE {}

\* Whatever sections were lost, no served condition may outlive a deadline of a
\* hook call (also where a document that does not decode gives the daemon its
\* defaults and the hook process the file's), and a claim is renewed before it
\* lapses.
\* (timeouts.go: validateTimeouts, HookEvaluateTimeoutFromFile; config.go: compileExecConfig)
DeadlinesNest ==
    LET cfg == serving.config
    IN  serving.up =>
          /\ \A n \in DOMAIN cfg.rules : \A j \in DOMAIN cfg.rules[n].conds :
                LET c == cfg.rules[n].conds[j]
                IN  c.kind \in {"exec", "infer"} =>
                        c.timeout > 0 /\ \A d \in HookDeadlines : c.timeout < d
          /\ cfg.intervals.renew < cfg.intervals.lease
          /\ cfg.phase <= cfg.limits.phaseMax

\* What the rule engine takes for granted of a served rule: a judge's point is
\* declared and complete, a validator's predicate and its block_on go together,
\* and its expansion has an item to expand.  (inference_matrix.go, exec_selector.go)
RulesAreComplete ==
    serving.up => \A n \in DOMAIN serving.config.rules :
        LET r == serving.config.rules[n]
        IN  /\ \A k \in DOMAIN r.evals : r.evals[k].kind = "infer" =>
                  /\ r.evals[k].use \in DOMAIN serving.config.points
                  /\ validPoint(serving.config.points[r.evals[k].use])
            /\ \A j \in DOMAIN r.conds : r.conds[j].kind = "exec" =>
                  /\ (r.conds[j].blockOn = "match") = (r.conds[j].jsonField # "")
                  /\ (r.conds[j].command = "item") = (r.conds[j].forEach # "")
                  /\ (r.conds[j].matchMode # "") = (r.conds[j].forEach # "")
                  /\ r.conds[j].cacheKey # ""

\* A field of the payload that a served rule reads is in some event to which
\* the engine applies that rule.  (schema.go: applicableEventPairs;
\* engine.go: appliesToEvent)
FieldsReachable ==
    serving.up => \A n \in DOMAIN serving.config.rules :
        LET r == serving.config.rules[n]
        IN  \A path \in collectRuleFieldPaths(r) \ virtualFields :
              \E p \in DOMAIN Schema : appliesToEvent(r, p[1], p[2]) /\ path \in Schema[p]

\* What the engine, the claims and the hook process take for granted of the
\* configuration holds of the one that is served, whatever was lost from it.
\* (load.go, timeouts.go, inference_matrix.go, exec_selector.go, schema.go)
ServedIsSound == DeadlinesNest /\ RulesAreComplete /\ FieldsReachable

\* Saving a broken file never takes away what a running daemon enforces: after
\* a reload there are rules, unless the file, which decodes, declares none.
\* (load.go: loadSource; server.go: reloadConfig)
ReloadKeepsEnforcing ==
    [][serving.up /\ serving'.up /\ serving' # serving =>
         /\ ~serving'.config.unusable
         /\ serving'.config.rules = <<>> => document.exists /\ document.rules = <<>>]_configVars

\* What degraded.go says of the degraded load: a document that is fine but for
\* one rule starts the daemon.
OneBadRuleCostsItself ==
    \A k \in DOMAIN document.rules :
        LET without == [document EXCEPT !.rules = RemoveAt(@, k)]
        IN  /\ without.rules # <<>>
            /\ \E cfg \in loadPath(without, TRUE, TRUE) : ValidateConfig(cfg)
            => \E cfg \in loadPath(document, FALSE, FALSE) : ValidateConfig(cfg)
=============================================================================
