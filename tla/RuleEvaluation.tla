--------------------------- MODULE RuleEvaluation ---------------------------
(* The evaluation of one hook event against the configured rules             *)
(* (internal/rules, internal/hook/staged_evaluation.go): rules without an    *)
(* infer condition are evaluated together, then, unless one of them blocks   *)
(* and while the phase has time, the others one by one.  Within an           *)
(* evaluation every batch judge is asked once for all the rules in its       *)
(* scope, then the evaluation units run in order, and their outcomes become  *)
(* violations, response effects, decisions and trace layers.                 *)
(*                                                                           *)
(* What a condition finds in the payload is data: a number of matches, or -1 *)
(* when it does not hold.  A git condition reads the repository each time it *)
(* is asked, a validator and an infer condition answer once per evaluation.  *)
EXTENDS Integers, FiniteSets, Sequences, SequencesExt, FiniteSetsExt, TLC

CONSTANTS
    Cases,       \* [rules : Seq(Rule), facts : findings of each rule's conditions]
    Point,       \* inference points
    MaxMatches   \* MaxCollectedMatchesPerEvaluation

ASSUME RulesAssumption == MaxMatches \in Nat \ {0}

VARIABLES rules, facts, caps, pc, slice, rest, units, memo, groups, batch,
          outcomes, layers, trace, violations, effects, decisions, live,
          judged, answered

ruleVars == <<rules, facts, caps, pc, slice, rest, units, memo, groups, batch,
          outcomes, layers, trace, violations, effects, decisions, live,
          judged, answered>>

None == 0

-----------------------------------------------------------------------------
(* Rules, units and trace layers.                                           *)

conditionKind(i, j) == rules[i].conds[j].kind

IsResponseAction(i) == rules[i].action \in {"inject", "mutate"}

ruleHasInference(i) == \E j \in DOMAIN rules[i].conds : conditionKind(i, j) = "infer"

partitionInferenceRules(inference) ==
    SelectSeq([i \in 1 .. Len(rules) |-> i], LAMBDA i : ruleHasInference(i) = inference)

\* A rule of another event or disabled by the environment has no unit.
InForce(i) == rules[i].applies /\ ~rules[i].disabled

\* Only conditions of the kinds with spans have units of their own.
isMatchingConditionKind(i, j) == conditionKind(i, j) = "regex"

ruleUnits(i) ==
    LET conds == DOMAIN rules[i].conds
        spans == SetToSortSeq({j \in conds : isMatchingConditionKind(i, j)}, <)
        unit(kind, j) == [rule |-> i, kind |-> kind, cond |-> j]
    IN  CASE rules[i].evals # <<>> -> <<unit("matrix", None)>>
          [] rules[i].evals = <<>> /\ conds = {} ->
                 IF IsResponseAction(i) /\ ~rules[i].pattern THEN <<unit("always", None)>>
                 ELSE <<unit("simple", None)>>
          [] rules[i].evals = <<>> /\ conds # {} ->
                 IF spans = <<>> THEN <<unit("gate", None)>>
                 ELSE [k \in DOMAIN spans |-> unit("span", spans[k])]

buildRuleRegexConditions(indexes) ==
    FlattenSeq([k \in DOMAIN indexes |->
                   IF InForce(indexes[k]) THEN ruleUnits(indexes[k]) ELSE <<>>])

layer(i, j, kind, status, reason) ==
    [rule |-> i, index |-> j, kind |-> kind, status |-> status, reason |-> reason]

\* One layer per rule, index and kind: the first one stays.
collect(held, new) ==
    held \cup {l \in new : \A h \in held : <<h.rule, h.index, h.kind>> # <<l.rule, l.index, l.kind>>}

\* The layers of an infer condition: its context's, when it has a source, and
\* its own.
inferLayers(i, j, status, reason) ==
    {layer(i, j, kind, status, reason) :
        kind \in IF rules[i].conds[j].context THEN {"context", "inference"} ELSE {"inference"}}

InferConditions(i) == {j \in DOMAIN rules[i].conds : conditionKind(i, j) = "infer"}

skippedLayers(i, from, reason) ==
    UNION {inferLayers(i, j, "skipped", reason) : j \in {k \in InferConditions(i) : k >= from}}

collectPreSkippedInferenceLayers(indexes) ==
    UNION {IF ~rules[i].applies THEN skippedLayers(i, 1, "event_not_applicable")
           ELSE IF rules[i].disabled THEN skippedLayers(i, 1, "disabled_by_env") ELSE {} :
              i \in Range(indexes)}

\* Sorted by rule, index and kind; the parent of an inference layer is the
\* (one-based) place of the context layer of its condition, or 0.
orderedSnapshot(held) ==
    LET before(a, b) ==
            \/ a.rule < b.rule
            \/ a.rule = b.rule /\ a.index < b.index
            \/ a.rule = b.rule /\ a.index = b.index /\ a.kind = "context" /\ b.kind = "inference"
        sorted == SetToSortSeq(held, before)
        contexts(k) == {c \in 1 .. k - 1 : /\ sorted[c].kind = "context"
                                           /\ sorted[c].rule = sorted[k].rule
                                           /\ sorted[c].index = sorted[k].index}
    IN  [k \in DOMAIN sorted |->
            sorted[k] @@ [parent |-> IF sorted[k].kind = "context" \/ contexts(k) = {} THEN 0
                                     ELSE CHOOSE c \in contexts(k) : TRUE]]

-----------------------------------------------------------------------------
(* The gate of a rule: every condition must hold.                           *)

\* What each condition says: as found in the payload, as remembered, or
\* anything.  A validator may match without output, and one that fails may
\* count as a match (on_error).
Answers(i) ==
    LET said(j) ==
            CASE conditionKind(i, j) \in {"regex", "command"} ->
                     {IF facts[i][j] >= 0 THEN "yes" ELSE "no"}
              [] conditionKind(i, j) = "git" -> {"yes", "no"}
              [] conditionKind(i, j) \in {"infer", "exec"} ->
                     IF <<i, j>> \in DOMAIN memo THEN {memo[<<i, j>>]}
                     ELSE IF conditionKind(i, j) = "infer" THEN {"yes", "no"}
                     ELSE {"yes", "quiet", "no", "failed"}
    IN  {a \in [DOMAIN rules[i].conds -> {"yes", "quiet", "no", "failed"}] :
            \A j \in DOMAIN a : a[j] \in said(j)}

\* The condition before which the context is found to have ended, if any.
Cuts(i) == IF live THEN 1 .. Len(rules[i].conds) + 1 ELSE {1}

\* Slip: nothing is recorded of the conditions after the one that fails.
nothingSkipped(i, from) == {}

collectRemainingInferenceSkips(i, from) == skippedLayers(i, from, "prior_condition_nonmatch")

\* The commands are looked at first; then the conditions in order, until one
\* says no or the context has ended.
allConditionsMatch(i, answers, cut) ==
    LET conds == DOMAIN rules[i].conds
        refused == \E j \in conds : conditionKind(i, j) = "command" /\ answers[j] = "no"
        no == {j \in conds : answers[j] = "no" /\ j < cut}
        last == IF refused THEN 0 ELSE Min(no \cup {cut})
        asked == {j \in conds : j <= last /\ j < cut}
        after == IF refused THEN 1 ELSE IF no = {} THEN cut ELSE last + 1
        remembered == {<<i, j>> : j \in {k \in asked : conditionKind(i, k) \in {"infer", "exec"}}}
        recorded == UNION {inferLayers(i, j, "complete", "") : j \in InferConditions(i) \cap asked}
    IN  [match  |-> ~refused /\ no = {} /\ cut > Len(rules[i].conds),
         memo   |-> memo @@ [c \in remembered |-> answers[c[2]]],
         layers |-> collect(collect(layers, recorded), collectRemainingInferenceSkips(i, after)),
         live   |-> live /\ (refused \/ no # {} \/ cut > Len(rules[i].conds))]

Applied(gate) == memo' = gate.memo /\ layers' = gate.layers /\ live' = gate.live

-----------------------------------------------------------------------------
(* Batch inference.                                                         *)

batchPoints(i) ==
    {rules[i].evals[e].use : e \in {x \in DOMAIN rules[i].evals :
        rules[i].evals[x].kind = "infer" /\ rules[i].evals[x].fanout = "batch"}}

\* collectBatchGroups, one rule at a time.
planRule(i) ==
    /\ pc = "plan" /\ units # <<>> /\ groups.next <= Len(slice)
    /\ i = slice[groups.next]
    /\ IF ~InForce(i) THEN /\ groups' = [groups EXCEPT !.next = @ + 1]
                           /\ UNCHANGED <<memo, layers, live>>
       ELSE \E answers \in Answers(i), cut \in Cuts(i) :
              LET gate == allConditionsMatch(i, answers, cut)
              IN  /\ groups' = [next |-> groups.next + 1,
                                rules |-> [p \in Point |->
                                    groups.rules[p] \cup IF gate.match /\ p \in batchPoints(i)
                                                         THEN {i} ELSE {}]]
                  /\ Applied(gate)
    /\ UNCHANGED <<rules, facts, caps, pc, slice, rest, units, batch, outcomes, trace,
                   violations, effects, decisions, judged, answered>>

\* What a point answers: the rules it blocks; a failure, which is an error for
\* all of them; or its goroutine panics and there is no answer.
Replies(p) == {[r \in groups.rules[p] |-> IF r \in blocked THEN "block" ELSE "allow"] :
                  blocked \in SUBSET groups.rules[p]}
                \cup {[r \in groups.rules[p] |-> "errored"], <<>>}

\* Slip: a call for each rule.
callsOf(p) == Cardinality(groups.rules[p])

\* One call per point, for all of its rules.
pointCalls(p) == 1

\* The calls are made at once; none is made when the conversation the judges
\* need cannot be fetched, which is an error for all of them.
runBatchInference(unavailable) ==
    LET asked == {p \in Point : groups.rules[p] # {}}
        anyReply == UNION {Replies(p) : p \in asked}
    IN  /\ pc = "plan" /\ (units = <<>> \/ groups.next > Len(slice))
        /\ pc' = "units"
        /\ \E reply \in [asked -> anyReply] :
              /\ \A p \in asked : reply[p] \in Replies(p)
              /\ unavailable => asked # {} /\ \A p \in asked : "errored" \in Range(reply[p])
              /\ batch' = [p \in {q \in asked : reply[q] # <<>>} |-> reply[p]]
        /\ judged' = [p \in Point |-> judged[p] + IF p \in asked /\ ~unavailable
                                                  THEN pointCalls(p) ELSE 0]
        /\ UNCHANGED <<rules, facts, caps, slice, rest, units, memo, groups, outcomes,
                       layers, trace, violations, effects, decisions, live, answered>>

-----------------------------------------------------------------------------
(* Evaluation units.                                                        *)

outcome(i, found, gated, matched) ==
    [rule |-> i, violations |-> found, gated |-> gated, matched |-> matched]

\* The matches that the rule may still collect.
Remaining(i) ==
    LET used(k) == IF outcomes[k].rule = i THEN outcomes[k].violations ELSE 0
    IN  MaxMatches - MapThenSumSet(used, DOMAIN outcomes)

\* A rule with a pattern or without conditions does not look at the context.
executeSimple ==
    LET unit == Head(units)
        limit == IF facts[unit.rule][1] < MaxMatches THEN facts[unit.rule][1] ELSE MaxMatches
        found == IF unit.kind = "always" THEN 1 ELSE limit
    IN  /\ pc = "units" /\ units # <<>> /\ unit.kind \in {"simple", "always"}
        /\ outcomes' = Append(outcomes, outcome(unit.rule, found, FALSE, FALSE))
        /\ units' = Tail(units)
        /\ UNCHANGED <<rules, facts, caps, pc, slice, rest, memo, groups, batch, layers, trace,
                       violations, effects, decisions, live, judged, answered>>

\* A condition with spans, once the gate is passed: up to the rule's budget.
\* A rule of gate-only conditions has one violation without a span.
executeGated ==
    LET unit == Head(units)
        i == unit.rule
        spans == IF unit.kind = "gate" THEN 1 ELSE Min({facts[i][unit.cond], Remaining(i)})
    IN  /\ pc = "units" /\ units # <<>> /\ unit.kind \in {"gate", "span"}
        /\ \E answers \in Answers(i), cut \in Cuts(i) :
              LET gate == allConditionsMatch(i, answers, cut)
              IN  /\ outcomes' = Append(outcomes,
                         outcome(i, IF gate.match THEN spans ELSE 0, TRUE, gate.match))
                  /\ Applied(gate)
        /\ units' = Tail(units)
        /\ UNCHANGED <<rules, facts, caps, pc, slice, rest, groups, batch, trace, violations,
                       effects, decisions, judged, answered>>

-----------------------------------------------------------------------------
(* The evaluator matrix of a rule.                                          *)

Entries(i, role) == {e \in DOMAIN rules[i].evals : rules[i].evals[e].role = role}

matrixCombineOperator(i) ==
    LET declared == {e \in DOMAIN rules[i].evals : rules[i].evals[e].combine # ""}
    IN  IF declared = {} THEN "union" ELSE rules[i].evals[Min(declared)].combine

combineBlocks(i, entries, verdicts) ==
    LET blocking == {e \in entries : verdicts[e] = "block"}
    IN  /\ entries # {}
        /\ IF matrixCombineOperator(i) = "and" THEN blocking = entries ELSE blocking # {}

\* An error is an allow for an entry that fails open, a block otherwise.
applyPointVerdict(i, e, said) ==
    IF said = "errored" THEN IF rules[i].evals[e].onError = "open" THEN "allow" ELSE "block"
    ELSE said

\* Slip: one error is enough for the fallback to decide.
someErrored(entries, said) == \E e \in entries : said[e] = "errored"

allErrored(entries, said) == \A e \in entries : said[e] = "errored"

\* The enforcing entries decide, or the fallback when all of them failed.
foldMatrixOutcomes(i, said) ==
    LET enforce == Entries(i, "enforce")
        fallback == Entries(i, "fallback")
        verdicts == [e \in DOMAIN said |-> applyPointVerdict(i, e, said[e])]
    IN  /\ enforce # {}
        /\ IF allErrored(enforce, said) /\ fallback # {}
           THEN combineBlocks(i, fallback, verdicts)
           ELSE combineBlocks(i, enforce, verdicts)

\* verdictFor: the batch has a decision of this rule's point.
batched(i, e) ==
    LET entry == rules[i].evals[e]
    IN  entry.fanout = "batch" /\ entry.use \in DOMAIN batch /\ i \in DOMAIN batch[entry.use]

JudgeEntries(i) == {e \in DOMAIN rules[i].evals : rules[i].evals[e].kind = "infer"}

\* What the entries say when the rule is in scope: a deterministic one blocks,
\* a judge what the batch or a call of its own answers.
resolveInferSingle(i) ==
    {said \in [DOMAIN rules[i].evals -> {"allow", "block", "errored"}] :
        \A e \in DOMAIN said :
            /\ e \notin JudgeEntries(i) => said[e] = "block"
            /\ e \in JudgeEntries(i) /\ batched(i, e) => said[e] = batch[rules[i].evals[e].use][i]}

executeMatrix ==
    LET i == Head(units).rule
        own == {e \in JudgeEntries(i) : ~batched(i, e)}
        asked(p) == Cardinality({e \in own : rules[i].evals[e].use = p})
        block(said) == IF foldMatrixOutcomes(i, said) THEN 1 ELSE 0
        recorded(said) ==
            {layer(i, e, "inference", IF said[e] = "errored" THEN "error" ELSE "complete", "") :
                e \in JudgeEntries(i)}
    IN  /\ pc = "units" /\ units # <<>> /\ Head(units).kind = "matrix"
        /\ \E answers \in Answers(i), cut \in Cuts(i), said \in resolveInferSingle(i) :
              LET gate == allConditionsMatch(i, answers, cut)
              IN  IF gate.match
                  THEN /\ outcomes' = Append(outcomes, outcome(i, block(said), TRUE, block(said) = 1))
                       /\ memo' = gate.memo /\ live' = gate.live
                       /\ layers' = collect(gate.layers, recorded(said))
                       /\ judged' = [p \in Point |-> judged[p] + asked(p)]
                       /\ answered' = [k \in {i} \cup DOMAIN answered |->
                                         IF k = i THEN said ELSE answered[k]]
                  ELSE /\ outcomes' = Append(outcomes, outcome(i, 0, TRUE, FALSE))
                       /\ Applied(gate)
                       /\ UNCHANGED <<judged, answered>>
        /\ units' = Tail(units)
        /\ UNCHANGED <<rules, facts, caps, pc, slice, rest, groups, batch, trace, violations,
                       effects, decisions>>

-----------------------------------------------------------------------------
(* The end of an evaluation, and the stages.                                *)

\* A rule whose gate was passed but that has no match to show.
needsFallback(i) ==
    LET of == {k \in DOMAIN outcomes : outcomes[k].rule = i /\ outcomes[k].gated}
    IN  /\ \E k \in of : outcomes[k].matched
        /\ \A k \in of : outcomes[k].violations = 0

\* The violations, as the rules they are of, in the order of the units and
\* then of the fallbacks.
aggregateResults ==
    FlattenSeq([k \in DOMAIN outcomes |->
                   [v \in 1 .. outcomes[k].violations |-> outcomes[k].rule]])
      \o SelectSeq(slice, needsFallback)

\* The output of a response rule: its own, or what its validator printed; none
\* when the validator failed.
responseEffect(i) ==
    LET said == {memo[c] : c \in {x \in DOMAIN memo : x[1] = i /\ conditionKind(i, x[2]) = "exec"}}
        text == IF "yes" \in said THEN TRUE ELSE IF "quiet" \in said THEN FALSE ELSE rules[i].output
    IN  [rule |-> i,
         text |-> "failed" \notin said /\ text,
         disposition |-> IF "failed" \in said THEN "errored_noop"
                         ELSE IF text THEN "applied" ELSE "empty_noop"]

responseEffectsFromMatches(matched) ==
    LET effectRules == SelectSeq(slice, LAMBDA i : i \in matched /\ IsResponseAction(i))
    IN  [k \in DOMAIN effectRules |-> responseEffect(effectRules[k])]

\* Slip: the decisions are made once the effects' rules are taken out.
enforcedDecision(i, matched) ==
    [status |-> IF ~InForce(i) THEN "skipped"
                ELSE IF i \in matched /\ ~IsResponseAction(i) THEN "matched" ELSE "nonmatched",
     reason |-> ""]

deterministicRuleDecision(i, matched) ==
    CASE ~rules[i].applies -> [status |-> "skipped", reason |-> "event_not_applicable"]
      [] rules[i].applies /\ rules[i].disabled -> [status |-> "skipped", reason |-> "disabled_by_env"]
      [] InForce(i) -> [status |-> IF i \in matched THEN "matched" ELSE "nonmatched", reason |-> ""]

\* Slip: the parents are not moved along.
layersAppended(more) == trace \o more

\* The layers of a later evaluation come after, their parents moved along.
mergeStagedDecisionTrace(more) ==
    trace \o [k \in DOMAIN more |->
                [more[k] EXCEPT !.parent = IF @ > 0 THEN @ + Len(trace) ELSE 0]]

\* The layers of rules that are not evaluated, appended one after the other.
skippedStagedInferenceLayers(indexes, reason, merged) ==
    LET skipped(i) == orderedSnapshot(skippedLayers(i, 1, reason))
        append(list, i) ==
            list \o [k \in DOMAIN skipped(i) |->
                       [skipped(i)[k] EXCEPT !.parent = IF @ > 0 THEN @ + Len(list) ELSE 0]]
    IN  FoldLeft(append, merged, indexes)

blockingMatches(found) == SelectSeq(found, LAMBDA i : rules[i].action # "audit")

\* EvaluateAllDetailed of the next slice.
begin(indexes) ==
    /\ slice' = indexes
    /\ units' = buildRuleRegexConditions(indexes)
    /\ layers' = collectPreSkippedInferenceLayers(indexes)
    /\ memo' = <<>> /\ outcomes' = <<>> /\ batch' = <<>>
    /\ groups' = [next |-> 1, rules |-> [p \in Point |-> {}]]

\* The evaluation of a slice ends; what comes next.
finishSlice ==
    LET found == aggregateResults
        matched == Range(found)
        kept == SelectSeq(found, LAMBDA i : ~IsResponseAction(i))
        merged == mergeStagedDecisionTrace(orderedSnapshot(layers))
        decided == decisions @@ [i \in Range(slice) |-> deterministicRuleDecision(i, matched)]
        blocked == blockingMatches(kept) # <<>> /\ decisions = <<>>
        reason == IF blocked THEN "prior_condition_nonmatch" ELSE "inference_phase_timeout"
        left == [i \in Range(rest) |-> [status |-> "skipped", reason |-> reason]]
    IN  /\ pc = "units" /\ units = <<>>
        /\ violations' = violations \o kept
        /\ effects' = effects \o responseEffectsFromMatches(matched)
        /\ IF rest = <<>> \/ blocked \/ ~live
           THEN /\ pc' = "respond"
                /\ trace' = skippedStagedInferenceLayers(rest, reason, merged)
                /\ decisions' = decided @@ left
                /\ UNCHANGED <<slice, rest, units, layers, memo, outcomes, batch, groups>>
           ELSE /\ pc' = "plan"
                /\ trace' = merged /\ decisions' = decided
                /\ begin(<<Head(rest)>>) /\ rest' = Tail(rest)
        /\ UNCHANGED <<rules, facts, caps, live, judged, answered>>

-----------------------------------------------------------------------------
(* The response.                                                            *)

Blocks == blockingMatches(violations) # <<>> /\ caps.block

effectDisposition(effect, valid) ==
    CASE Blocks -> "suppressed_by_block"
      [] ~Blocks /\ ~effect.text -> effect.disposition
      [] ~Blocks /\ effect.text ->
           IF rules[effect.rule].action = "inject"
           THEN IF caps.inject THEN effect.disposition ELSE "unsupported_noop"
           ELSE IF caps.mutate = "none" THEN "unsupported_noop"
           ELSE IF caps.mutate = "structured" /\ ~valid THEN "invalid_noop"
           ELSE effect.disposition

\* evaluatePayloadHot after the rules: the effects are composed and the
\* response is rendered; a structured replacement may be malformed.
composeEffects ==
    /\ pc = "respond"
    /\ \E valid \in [DOMAIN effects -> BOOLEAN] :
          effects' = [k \in DOMAIN effects |->
                        [effects[k] EXCEPT !.disposition = effectDisposition(effects[k], valid[k])]]
    /\ pc' = IF Blocks THEN "blocked" ELSE "allowed"
    /\ UNCHANGED <<rules, facts, caps, slice, rest, units, memo, groups, batch, outcomes, layers,
                   trace, violations, decisions, live, judged, answered>>

\* The time of the inference phase or of the hook call is up.
expire ==
    /\ live /\ pc \in {"plan", "units"}
    /\ live' = FALSE
    /\ UNCHANGED <<rules, facts, caps, pc, slice, rest, units, memo, groups, batch, outcomes,
                   layers, trace, violations, effects, decisions, judged, answered>>

RulesInit ==
    /\ \E case \in Cases : rules = case.rules /\ facts = case.facts
    /\ caps \in [block : BOOLEAN, inject : BOOLEAN, mutate : {"none", "plain", "structured"}]
    /\ pc = "plan"
    /\ slice = partitionInferenceRules(FALSE) /\ rest = partitionInferenceRules(TRUE)
    /\ units = buildRuleRegexConditions(slice)
    /\ layers = collectPreSkippedInferenceLayers(slice)
    /\ memo = <<>> /\ outcomes = <<>> /\ batch = <<>>
    /\ groups = [next |-> 1, rules |-> [p \in Point |-> {}]]
    /\ trace = <<>> /\ violations = <<>> /\ effects = <<>> /\ decisions = <<>>
    /\ live = TRUE
    /\ judged = [p \in Point |-> 0] /\ answered = <<>>

RulesNext ==
    \/ \E i \in DOMAIN rules : planRule(i)
    \/ \E unavailable \in BOOLEAN : runBatchInference(unavailable)
    \/ executeSimple \/ executeGated \/ executeMatrix
    \/ finishSlice \/ composeEffects \/ expire

RulesSpec == RulesInit /\ [][RulesNext]_ruleVars

-----------------------------------------------------------------------------
(* Properties.                                                              *)

Done == pc \in {"blocked", "allowed"}

Places(i, j, kind) ==
    {k \in DOMAIN trace : trace[k].rule = i /\ trace[k].index = j /\ trace[k].kind = kind}

\* Whatever stage the evaluation stopped in, the record has exactly one layer
\* for each infer condition, evaluated or skipped, and one for its context,
\* which is the parent that the layer names although two or more evaluations
\* were merged.  (evaluation_trace.go: orderedSnapshot, collectSkipped...;
\* staged_evaluation.go: mergeStagedDecisionTrace)
TraceComplete ==
    Done => \A i \in DOMAIN rules : \A j \in InferConditions(i) :
        LET parents == Places(i, j, "context")
        IN  /\ Cardinality(parents) = IF rules[i].conds[j].context THEN 1 ELSE 0
            /\ \E k \in DOMAIN trace :
                  /\ Places(i, j, "inference") = {k}
                  /\ {trace[k].parent} = IF parents = {} THEN {0} ELSE parents

\* The recorded decisions agree with what was enforced: there is one for every
\* rule, a rule is recorded as matched exactly when it has a violation or an
\* effect, and a rule that was skipped has none.
\* (evaluation_trace.go: deterministicRuleDecisions; staged_evaluation.go)
DecisionsAgree ==
    Done => /\ DOMAIN decisions = DOMAIN rules
            /\ \A i \in DOMAIN rules :
                  decisions[i].status = "matched" <=>
                      i \in Range(violations) \/ \E k \in DOMAIN effects : effects[k].rule = i

\* A rule whose gate was passed never goes without a violation or an effect,
\* and shows no more matches than its budget, however its conditions share it.
\* (engine.go: aggregateResults, ruleMatchBudget)
NoSilentMatch ==
    pc = "units" /\ units = <<>> =>
        \A i \in Range(slice) :
            LET passed == \E k \in DOMAIN outcomes : outcomes[k].rule = i /\ outcomes[k].matched
                shown == Cardinality({k \in DOMAIN aggregateResults : aggregateResults[k] = i})
            IN  /\ passed => shown > 0
                /\ shown <= MaxMatches
                /\ passed /\ (\A k \in DOMAIN outcomes :
                                 outcomes[k].rule = i => outcomes[k].violations = 0) => shown = 1

\* A block by a rule without inference costs no inference of a rule that has
\* some, and whatever blocks leaves no effect applied.
\* (staged_evaluation.go: evaluateStagedRules; provider.go: composeResponseEffects)
BlockStopsTheRest ==
    pc = "blocked" =>
        /\ \A k \in DOMAIN effects : effects[k].disposition = "suppressed_by_block"
        /\ (\E i \in Range(violations) : ~ruleHasInference(i)) =>
              \A k \in DOMAIN trace : ruleHasInference(trace[k].rule) => trace[k].status = "skipped"

\* A point that rules use in batches only is called once, if it answers and
\* their gates do not depend on what changes meanwhile.
\* (batch_infer.go: collectBatchGroups; eval_matrix.go: resolveInferSingle)
JudgeAskedOnce ==
    \A p \in DOMAIN batch :
        (\A i \in DOMAIN rules : \A e \in DOMAIN rules[i].evals :
            rules[i].evals[e].kind = "infer" /\ rules[i].evals[e].use = p =>
                /\ rules[i].evals[e].fanout = "batch"
                /\ \A j \in DOMAIN rules[i].conds : conditionKind(i, j) = "regex")
        => judged[p] <= 1

\* What is recorded of an evaluation, what it asked and what it enforces agree
\* with each other, whichever stage ended it and however many rules, matches
\* and judges took part.  (staged_evaluation.go, evaluation_trace.go, engine.go)
RecordsAgree ==
    TraceComplete /\ DecisionsAgree /\ NoSilentMatch /\ BlockStopsTheRest /\ JudgeAskedOnce

\* A judge that fails never opens the gate: when all enforcing judges of a
\* rule in scope fail, a deterministic fallback blocks, and without a fallback
\* the rule blocks unless one of them is declared to fail open.  As long as
\* one of them answers, the fallback decides nothing.
\* (eval_matrix.go: foldMatrixOutcomes, applyPointVerdict)
JudgesFailClosed ==
    \A i \in DOMAIN answered :
        LET said == answered[i]
            enforce == Entries(i, "enforce")
            fallback == Entries(i, "fallback")
            blocks == foldMatrixOutcomes(i, said)
            failed == {e \in enforce : said[e] = "errored"}
            open == {e \in enforce : rules[i].evals[e].onError = "open"}
        IN  enforce # {} =>
              /\ failed = enforce /\ fallback # {} /\ fallback \cap JudgeEntries(i) = {} => blocks
              /\ failed = enforce /\ fallback = {} /\ open = {} => blocks
              /\ failed # enforce /\ (\A e \in enforce \ failed : said[e] = "allow") /\ failed \subseteq open
                    => ~blocks
=============================================================================
