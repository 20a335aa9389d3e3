------------------------------ MODULE MCRules ------------------------------
(* Rule sets for the evaluation: the kinds of conditions and effects, the   *)
(* inference points that are asked in a batch or alone, and what the        *)
(* conditions find (-1 does not hold, n is a number of matches).        *)
EXTENDS RuleEvaluation

CONSTANTS p1, p2

Cond(kind) == [kind |-> kind, context |-> FALSE]
Judged(ctx) == [kind |-> "infer", context |-> ctx]
RuleWith(action, conds) == [applies |-> TRUE, disabled |-> FALSE, action |-> action, pattern |-> FALSE,
                        output |-> TRUE, conds |-> conds, evals |-> <<>>]
Eval(kind, role, use, fanout, onError, combine) ==
    [kind |-> kind, role |-> role, use |-> use, fanout |-> fanout, onError |-> onError, combine |-> combine]
Batch(p, onError) == Eval("infer", "enforce", p, "batch", onError, "")
Single(p, role) == Eval("infer", role, p, "individual", "closed", "")
Matrix(conds, evals) == [RuleWith("block", conds) EXCEPT !.evals = evals]
Pattern(action) == [RuleWith(action, <<>>) EXCEPT !.pattern = TRUE]

TwoSpans == RuleWith("block", <<Cond("regex"), Cond("regex")>>)
InferRule == RuleWith("block", <<Cond("command"), Judged(TRUE), Judged(FALSE)>>)
InjectRule == [RuleWith("inject", <<Cond("exec")>>) EXCEPT !.output = FALSE]
MutateRule == RuleWith("mutate", <<Cond("regex"), Judged(TRUE)>>)
AuditRule == RuleWith("audit", <<Cond("git"), Judged(TRUE)>>)

RuleCase(r, f) == [rules |-> r, facts |-> f]

RuleCases ==
    {RuleCase(<<TwoSpans, InferRule, InjectRule, InferRule>>,
              <<a, <<0, 0, 0>>, <<0>>, <<b, 0, 0>>>>) :
        a \in {<<0, 2>>, <<2, 2>>, <<1, -1>>}, b \in {0, -1}}
    \cup {RuleCase(<<[InferRule EXCEPT !.applies = FALSE], MutateRule,
                     [AuditRule EXCEPT !.disabled = TRUE], RuleWith("inject", <<>>),
                     Pattern("audit"), AuditRule>>,
                   <<<<0, 0, 0>>, <<a, 0>>, <<0, 0>>, <<0>>, <<2>>, <<0, 0>>>>) : a \in {1, -1}}
    \cup {RuleCase(<<Matrix(<<Cond(m[1])>>, <<Batch(p1, "closed"), Batch(p2, "open"),
                                             Eval("deterministic", "fallback", p1, "", "", "")>>),
                     Matrix(<<Cond("regex")>>, <<[Batch(p1, m[3]) EXCEPT !.combine = m[4]],
                                                 Single(p2, "enforce")>>)>>,
                   <<<<0>>, <<m[2]>>>>) :
             m \in {<<"regex", 1, "closed", "and">>, <<"git", 1, "open", "">>, <<"regex", -1, "open", "">>}}
    \cup {RuleCase(<<Matrix(<<Cond("regex")>>, <<Eval("deterministic", "enforce", p1, "", "", ""),
                                                 Single(p1, "verify")>>),
                     Matrix(<<Cond("exec")>>, <<Single(p2, "verify")>>), Pattern("block")>>,
                   <<<<1>>, <<0>>, <<a>>>>) : a \in {0, 2}}
=============================================================================
