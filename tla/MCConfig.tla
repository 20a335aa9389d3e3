----------------------------- MODULE MCConfig -----------------------------
(* Configuration documents: one valid form of each part, and the variants   *)
(* that each check of the loader accepts or refuses.                        *)
EXTENDS ConfigLoad

BaseCondition ==
    [kind |-> "regex", paths |-> {}, pattern |-> "plain", notPattern |-> "", pathPattern |-> "",
     group |-> 0, pair |-> {}, maxBytes |-> 0, readSpecs |-> "", writeSpecs |-> "", policies |-> "ok",
     command |-> "", timeout |-> 0, retries |-> 0, ttl |-> 0, onError |-> "", tools |-> "",
     cacheKey |-> "", forEach |-> "", matchMode |-> "", jsonField |-> "", jsonEquals |-> "",
     blockOn |-> "", endpoint |-> FALSE, layer |-> FALSE, prompt |-> "", schema |-> "", effort |-> "",
     input |-> "", source |-> "", context |-> FALSE, workspace |-> "", session |-> "", budget |-> 0,
     chars |-> 0, contextOnError |-> ""]
Validator == [BaseCondition EXCEPT !.kind = "exec", !.pattern = "", !.command = "plain"]
Expanded == [Validator EXCEPT !.command = "item", !.forEach = "cmd_read_targets", !.tools = "ok"]
JudgeCondition ==
    [BaseCondition EXCEPT !.kind = "infer", !.endpoint = TRUE, !.layer = TRUE, !.prompt = "inline",
        !.schema = "file", !.input = "command", !.jsonField = "path", !.jsonEquals = "scalar"]
Informed == [JudgeCondition EXCEPT !.source = "clyde_recent_turns", !.context = TRUE,
                !.workspace = "cwd", !.session = "cwd", !.contextOnError = "empty"]

BaseRule ==
    [name |-> "rule", action |-> "", output |-> "", outputFile |-> "", format |-> "", evals |-> <<>>,
     intent |-> FALSE, judgeContext |-> {}, disabled |-> {}, conds |-> <<>>, pattern |-> "plain",
     notPattern |-> "", group |-> 0, paths |-> {"command"}, allEvents |-> TRUE, events |-> {},
     systemEvents |-> {}, structured |-> FALSE, json |-> FALSE]
With(c) == [BaseRule EXCEPT !.conds = <<c>>]
JudgeEval == [kind |-> "infer", role |-> "enforce", use |-> "point", fanout |-> "batch", combine |-> "",
              onError |-> ""]
RuleEval == [JudgeEval EXCEPT !.kind = "deterministic", !.use = "", !.fanout = ""]
JudgeRule == [With(BaseCondition) EXCEPT !.evals = <<JudgeEval, RuleEval>>, !.intent = TRUE]

BasePoint == [endpoint |-> TRUE, model |-> TRUE, source |-> "", field |-> FALSE, threshold |-> 0,
              context |-> FALSE, workspace |-> FALSE, session |-> FALSE, budget |-> 0, chars |-> 0,
              onError |-> ""]
BaseStorage == [profile |-> "", interval |-> Unset, retained |-> Unset,
                size |-> [Unset EXCEPT !.value = [tenths |-> 0, unit |-> 1]], detail |-> <<>>]
SizeText(n, u) == Text([tenths |-> n, unit |-> u])

BaseDocument ==
    [exists |-> TRUE, undecoded |-> {}, cacheBytes |-> 0, storage |-> BaseStorage, phase |-> 0,
     timeouts |-> zeroTimeouts, limits |-> zeroLimits, intervals |-> zeroIntervals,
     points |-> <<>>, judge |-> zeroJudge, update |-> zeroUpdate, rules |-> <<>>]

Undecodable == [BaseDocument EXCEPT !.undecoded = {"performance.timeouts", "rules"}]

SchemaOf == (<<"claude", "pre">> :> {"command", "cwd"}) @@ (<<"claude", "post">> :> {"output"})
            @@ (<<"codex", "pre">> :> {"command"})

RuleVariants ==
    LET r == BaseRule
    IN  {r, JudgeRule,
         [r EXCEPT !.action = "block", !.pattern = "bad"], [r EXCEPT !.action = "deny"],
         [r EXCEPT !.output = "text"], [r EXCEPT !.format = "short"],
         [r EXCEPT !.pattern = "grouped", !.group = 1], [r EXCEPT !.group = 1],
         [r EXCEPT !.paths = {"typo"}], [r EXCEPT !.paths = {"output"}, !.disabled = {"claude"}],
         [r EXCEPT !.paths = {"cwd"}, !.allEvents = FALSE, !.events = {"pre"}],
         [r EXCEPT !.paths = {"output"}, !.allEvents = FALSE, !.events = {"pre"},
                   !.systemEvents = {<<"claude", "post">>}],
         [r EXCEPT !.paths = {"last_user_message"}], [r EXCEPT !.disabled = {"vim"}],
         [r EXCEPT !.action = "inject", !.output = "text", !.pattern = ""],
         [r EXCEPT !.action = "inject", !.pattern = ""],
         [r EXCEPT !.action = "mutate", !.outputFile = "text", !.structured = TRUE],
         [r EXCEPT !.action = "mutate", !.outputFile = "absolute"],
         [r EXCEPT !.judgeContext = {"typo"}], [JudgeRule EXCEPT !.intent = FALSE],
         [JudgeRule EXCEPT !.conds = <<>>], [JudgeRule EXCEPT !.evals[1].use = "other"],
         [JudgeRule EXCEPT !.evals[2].onError = "open"], [JudgeRule EXCEPT !.evals[1].role = "watch"],
         [With(Validator) EXCEPT !.action = "inject"],
         [With([Validator EXCEPT !.jsonField = "path", !.jsonEquals = "scalar"]) EXCEPT !.action = "inject"]}
    \cup {With(c) : c \in
        LET v == Validator
            j == JudgeCondition
        IN {v, [v EXCEPT !.command = ""], [v EXCEPT !.timeout = 8], [v EXCEPT !.timeout = 9],
            [v EXCEPT !.timeout = -1], [v EXCEPT !.retries = 5], [v EXCEPT !.retries = 6],
            [v EXCEPT !.ttl = -1], [v EXCEPT !.onError = "ask"], [v EXCEPT !.cacheKey = "last_user_message"],
            [v EXCEPT !.cacheKey = "cmd_read_targets"], [v EXCEPT !.matchMode = "all"],
            [v EXCEPT !.jsonField = "path"], [v EXCEPT !.jsonField = "path", !.jsonEquals = "scalar"],
            [v EXCEPT !.jsonField = "path", !.jsonEquals = "scalar", !.blockOn = "zero"],
            [v EXCEPT !.blockOn = "match"], [v EXCEPT !.paths = {"response_output"}],
            [v EXCEPT !.command = "item"], Expanded, [Expanded EXCEPT !.matchMode = "most"],
            [Expanded EXCEPT !.tools = ""], [Expanded EXCEPT !.command = "plain"],
            j, Informed, [j EXCEPT !.timeout = 16], [j EXCEPT !.timeout = 17], [j EXCEPT !.prompt = "both"],
            [j EXCEPT !.input = "last_user_message"], [j EXCEPT !.blockOn = "zero"],
            [j EXCEPT !.endpoint = FALSE], [j EXCEPT !.jsonEquals = ""], [Informed EXCEPT !.budget = 33],
            [Informed EXCEPT !.workspace = ""], [Informed EXCEPT !.contextOnError = ""],
            [BaseCondition EXCEPT !.kind = "git_ref_move", !.paths = {"cwd"}],
            [BaseCondition EXCEPT !.kind = ""], [BaseCondition EXCEPT !.kind = "odd"],
            [BaseCondition EXCEPT !.writeSpecs = "ok"],
            [BaseCondition EXCEPT !.writeSpecs = "ok", !.paths = {"cmd_write_targets"}],
            [BaseCondition EXCEPT !.kind = "diff", !.pair = {"command", "response_output"}],
            [BaseCondition EXCEPT !.pair = {"cwd"}], [BaseCondition EXCEPT !.notPattern = "bad"],
            [BaseCondition EXCEPT !.kind = "shell_read", !.pathPattern = "plain"],
            [BaseCondition EXCEPT !.kind = "shell_read", !.pathPattern = "plain", !.readSpecs = "ok"]}}

OtherRule == [BaseRule EXCEPT !.name = "other"]
Slow == [With([Validator EXCEPT !.timeout = 7]) EXCEPT !.name = "slow"]
Ask == [With([JudgeCondition EXCEPT !.timeout = 16]) EXCEPT !.name = "ask"]

\* A rule with a value of a wrong type, in a file that asks for a short deadline.
Mistyped == [BaseDocument EXCEPT !.undecoded = {"rules"}, !.timeouts.hook = 6, !.rules = <<Slow>>]

TimeoutVariants == {zeroTimeouts, [zeroTimeouts EXCEPT !.hook = 17], [zeroTimeouts EXCEPT !.hook = 16],
                    [zeroTimeouts EXCEPT !.hook = 6], [zeroTimeouts EXCEPT !.execMax = 24],
                    [zeroTimeouts EXCEPT !.execMax = 6], [zeroTimeouts EXCEPT !.execDefault = 9],
                    [zeroTimeouts EXCEPT !.background = -1], [zeroTimeouts EXCEPT !.inferDefault = 17]}
StorageVariants == {BaseStorage, [BaseStorage EXCEPT !.profile = "minimal"],
                    [BaseStorage EXCEPT !.profile = "most"], [BaseStorage EXCEPT !.interval = Unreadable],
                    [BaseStorage EXCEPT !.interval = Text(3)], [BaseStorage EXCEPT !.retained = Text(0)],
                    [BaseStorage EXCEPT !.retained = Text(0), !.size = SizeText(0, 1)],
                    [BaseStorage EXCEPT !.size = SizeText(45, 1048576), !.detail = ("wire_input" :> FALSE)],
                    [BaseStorage EXCEPT !.size = SizeText(1, 1024)], [BaseStorage EXCEPT !.size = SizeText(5, 1000000)]}

SectionDocuments ==
    LET d == [BaseDocument EXCEPT !.points = ("point" :> BasePoint), !.rules = <<Slow, JudgeRule>>]
    IN  {[d EXCEPT !.timeouts = t, !.phase = p, !.limits.phaseMax = l, !.intervals.renew = n] :
            t \in TimeoutVariants, p \in {0, 18, 19, -1}, l \in {0, 20}, n \in {0, 59, 60}}
        \cup {[d EXCEPT !.timeouts = t, !.rules = <<Slow, Ask>>] : t \in TimeoutVariants}
        \cup {[d EXCEPT !.storage = s, !.cacheBytes = b] : s \in StorageVariants, b \in {0, -1}}
        \cup {[d EXCEPT !.limits.match = MaxUint32 + 1], [d EXCEPT !.points = ("point" :> [BasePoint EXCEPT !.budget = 1])],
              [d EXCEPT !.points = <<>>], [d EXCEPT !.judge.onError = "ask"], [d EXCEPT !.judge.pricing = ("m" :> -1)],
              [d EXCEPT !.update.mode = "never"], [d EXCEPT !.update.interval = Unreadable],
              Undecodable, Mistyped, [BaseDocument EXCEPT !.exists = FALSE], BaseDocument,
              [d EXCEPT !.rules = <<OtherRule, OtherRule>>]}
RuleDocuments ==
    {[BaseDocument EXCEPT !.points = ("point" :> BasePoint), !.rules = list] :
        list \in {<<r>> : r \in RuleVariants} \cup {<<OtherRule, r>> : r \in RuleVariants}}
AllDocuments == SectionDocuments \cup RuleDocuments
RunningDocuments == {BaseDocument, [BaseDocument EXCEPT !.exists = FALSE], Undecodable,
            [BaseDocument EXCEPT !.points = ("point" :> BasePoint), !.rules = <<OtherRule, JudgeRule>>]}

ConfigSpec == ConfigInit /\ [][ConfigNext]_configVars
=============================================================================
