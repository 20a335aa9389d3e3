--------------------------- MODULE DecisionsProofs ---------------------------
(* Proofs about what decides a hook call and what sets that up: the fold of    *)
(* the judges' answers (RuleEvaluation), the answer to the host (HookCalls),   *)
(* the setup (Setup) and the reset (Reset).  They share no state.              *)
EXTENDS RuleEvaluation, HookCalls, Setup, Reset, SequenceTheorems, FiniteSetTheorems, TLAPS

-----------------------------------------------------------------------------
(* The evaluation of the rules. *)

\* Every set of answers that was folded is about all entries of its rule, the
\* deterministic ones blocking (resolveInferSingle).
AnswersComplete ==
    \A i \in DOMAIN answered :
        /\ answered[i] \in [DOMAIN rules[i].evals -> {"allow", "block", "errored"}]
        /\ \A e \in DOMAIN rules[i].evals \ JudgeEntries(i) : answered[i][e] = "block"

\* The evaluation of a matrix adds the answers of its own rule only.
LEMMA MatrixAnswers ==
    ASSUME AnswersComplete, executeMatrix
    PROVE  AnswersComplete'
  <1> DEFINE i == Head(units).rule
             Extended(said) == [k \in {i} \cup DOMAIN answered |-> IF k = i THEN said ELSE answered[k]]
  <1>1. rules' = rules
    BY DEF executeMatrix
  <1>2. \/ answered' = answered
        \/ \E said \in resolveInferSingle(i) : answered' = Extended(said)
    BY DEF executeMatrix, Applied
  <1>3. CASE answered' = answered
    BY <1>1, <1>3 DEF AnswersComplete, JudgeEntries
  <1>4. ASSUME NEW said \in resolveInferSingle(i), answered' = Extended(said)
        PROVE  AnswersComplete'
    <2> SUFFICES ASSUME NEW k \in DOMAIN answered'
                 PROVE  /\ answered'[k] \in [DOMAIN rules[k].evals -> {"allow", "block", "errored"}]
                        /\ \A e \in DOMAIN rules[k].evals \ JudgeEntries(k) : answered'[k][e] = "block"
      BY <1>1 DEF AnswersComplete, JudgeEntries
    <2> HIDE DEF i
    <2>1. CASE k = i
      <3>1. answered'[k] = said
        BY <1>4, <2>1
      <3> QED BY <1>4, <2>1, <3>1 DEF resolveInferSingle
    <2>2. CASE k # i
      <3>1. k \in DOMAIN answered /\ answered'[k] = answered[k]
        BY <1>4, <2>2
      <3> QED BY <3>1 DEF AnswersComplete
    <2> QED BY <2>1, <2>2
  <1> QED BY <1>2, <1>3, <1>4

\* The other steps leave the rules and the answers alone.
LEMMA OtherRuleSteps ==
    ASSUME RulesNext, ~executeMatrix
    PROVE  UNCHANGED <<rules, answered>>
  <1>1. ASSUME NEW i \in DOMAIN rules, planRule(i)
        PROVE  UNCHANGED <<rules, answered>>
    BY <1>1 DEF planRule
  <1>2. ASSUME NEW unavailable \in BOOLEAN, runBatchInference(unavailable)
        PROVE  UNCHANGED <<rules, answered>>
    BY <1>2 DEF runBatchInference
  <1>3. CASE executeSimple
    BY <1>3 DEF executeSimple
  <1>4. CASE executeGated
    BY <1>4 DEF executeGated
  <1>5. CASE finishSlice
    BY <1>5 DEF finishSlice
  <1>6. CASE composeEffects \/ expire
    BY <1>6 DEF composeEffects, expire
  <1> QED BY <1>1, <1>2, <1>3, <1>4, <1>5, <1>6 DEF RulesNext

\* The answers of the judges are complete whatever the judges do.
LEMMA AnswersInvariance == RulesSpec => []AnswersComplete
  <1>1. RulesInit => AnswersComplete
    BY DEF RulesInit, AnswersComplete
  <1>2. AnswersComplete /\ [RulesNext]_ruleVars => AnswersComplete'
    <2> SUFFICES ASSUME AnswersComplete, [RulesNext]_ruleVars
                 PROVE  AnswersComplete'
      OBVIOUS
    <2>1. CASE executeMatrix
      BY <2>1, MatrixAnswers
    <2>2. CASE ~executeMatrix
      <3>1. UNCHANGED <<rules, answered>>
        BY <2>2, OtherRuleSteps DEF ruleVars
      <3> QED BY <3>1 DEF AnswersComplete, JudgeEntries
    <2> QED BY <2>1, <2>2
  <1> QED BY <1>1, <1>2, PTL DEF RulesSpec

\* Complete answers are folded into a verdict that fails closed.
LEMMA FoldFailsClosed == AnswersComplete => JudgesFailClosed
  <1> SUFFICES ASSUME AnswersComplete, NEW i \in DOMAIN answered, Entries(i, "enforce") # {}
               PROVE  LET said == answered[i]
                          enforce == Entries(i, "enforce")
                          fallback == Entries(i, "fallback")
                          blocks == foldMatrixOutcomes(i, said)
                          failed == {e \in enforce : said[e] = "errored"}
                          open == {e \in enforce : rules[i].evals[e].onError = "open"}
                      IN  /\ failed = enforce /\ fallback # {} /\ fallback \cap JudgeEntries(i) = {} => blocks
                          /\ failed = enforce /\ fallback = {} /\ open = {} => blocks
                          /\ failed # enforce /\ (\A e \in enforce \ failed : said[e] = "allow") /\ failed \subseteq open
                                => ~blocks
    BY DEF JudgesFailClosed
  <1> DEFINE said == answered[i]
             enforce == Entries(i, "enforce")
             fallback == Entries(i, "fallback")
             verdicts == [e \in DOMAIN said |-> applyPointVerdict(i, e, said[e])]
             failed == {e \in enforce : said[e] = "errored"}
             open == {e \in enforce : rules[i].evals[e].onError = "open"}
  <1>1. /\ DOMAIN said = DOMAIN rules[i].evals
        /\ \A e \in DOMAIN said : said[e] \in {"allow", "block", "errored"}
        /\ \A e \in DOMAIN said \ JudgeEntries(i) : said[e] = "block"
    BY DEF AnswersComplete
  <1>2. enforce \subseteq DOMAIN said /\ fallback \subseteq DOMAIN said
    BY <1>1 DEF Entries
  <1>3. allErrored(enforce, said) <=> failed = enforce
    BY DEF allErrored
  <1>4. \A e \in DOMAIN said :
            verdicts[e] = IF said[e] = "errored"
                          THEN IF rules[i].evals[e].onError = "open" THEN "allow" ELSE "block"
                          ELSE said[e]
    BY DEF applyPointVerdict
  <1>5. foldMatrixOutcomes(i, said) <=>
            IF failed = enforce /\ fallback # {} THEN combineBlocks(i, fallback, verdicts)
            ELSE combineBlocks(i, enforce, verdicts)
    BY <1>3 DEF foldMatrixOutcomes
  <1> HIDE DEF said, verdicts, failed, open, enforce, fallback
  <1>6. ASSUME NEW entries, entries # {}, \A e \in entries : verdicts[e] = "block"
        PROVE  combineBlocks(i, entries, verdicts)
    BY <1>6 DEF combineBlocks
  <1>7. ASSUME NEW entries, \A e \in entries : verdicts[e] = "allow"
        PROVE  ~combineBlocks(i, entries, verdicts)
    BY <1>7 DEF combineBlocks
  <1>8. ASSUME failed = enforce, fallback # {}, fallback \cap JudgeEntries(i) = {}
        PROVE  foldMatrixOutcomes(i, said)
    <2>1. \A e \in fallback : verdicts[e] = "block"
      BY <1>1, <1>2, <1>4, <1>8
    <2> QED BY <2>1, <1>5, <1>6, <1>8
  <1>9. ASSUME failed = enforce, fallback = {}, open = {}
        PROVE  foldMatrixOutcomes(i, said)
    <2>1. \A e \in enforce : verdicts[e] = "block"
      BY <1>2, <1>4, <1>9 DEF failed, open
    <2> QED BY <2>1, <1>5, <1>6, <1>9 DEF enforce
  <1>10. ASSUME failed # enforce, \A e \in enforce \ failed : said[e] = "allow", failed \subseteq open
         PROVE  ~foldMatrixOutcomes(i, said)
    <2>1. \A e \in enforce : verdicts[e] = "allow"
      BY <1>2, <1>4, <1>10 DEF failed, open
    <2> QED BY <2>1, <1>5, <1>7, <1>10
  <1> QED BY <1>8, <1>9, <1>10 DEF said, enforce, fallback, failed, open

\* A judge that fails never opens the gate, for any rules, points and answers:
\* the entries fold to a block unless one that answered or was declared to fail
\* open allows (eval_matrix.go: foldMatrixOutcomes, applyPointVerdict).
THEOREM RulesFailClosed == RulesSpec => []JudgesFailClosed
  <1> QED BY AnswersInvariance, FoldFailsClosed, PTL

-----------------------------------------------------------------------------
(* Hook calls. *)

\* A response that stops no host.
Harmless(r) == r.exit = 0 /\ \A d \in r.stdout : d.verdict # "deny"
Says(r, reason) == {"unevaluated", reason} \subseteq r.stderr

\* The fields of a response.
LEMMA ResponseFields ==
    ASSUME NEW out, NEW err, NEW exit
    PROVE  /\ Response(out, err, exit).stdout = out /\ Response(out, err, exit).stderr = err
           /\ Response(out, err, exit).exit = exit
  <1> QED BY DEF Response

\* What the documents of an allow say.
LEMMA AllowDocuments ==
    ASSUME NEW verdict, verdict # "deny", NEW context, NEW mutation
    PROVE  /\ Effects(Plain, verdict, context, mutation).verdict # "deny"
           /\ Effects(CursorAllow, verdict, context, mutation).verdict # "deny"
  <1>1. CursorAllow.verdict = "allow"
    BY DEF CursorAllow, Plain
  <1>2. Effects(Plain, verdict, context, mutation).verdict \in {"", verdict}
    BY DEF Effects, Plain
  <1>3. Effects(CursorAllow, verdict, context, mutation).verdict \in {"allow", verdict}
    BY DEF Effects, CursorAllow, Plain
  <1> QED BY <1>1, <1>2, <1>3

\* A response that stops nobody and says nothing but the notice of a failure.
Allowing(r, notice) ==
    \E out, err : /\ r = Response(out, err, 0) /\ \A d \in out : d.verdict # "deny"
                  /\ err \in {{}, notice}

\* An allow stops nobody, whoever renders it.
LEMMA AllowsAreHarmless ==
    ASSUME NEW request, request.decision = "allow"
    PROVE  Allowing(renderForSystem(request),
                    FailOpenNoticeText(request.failOpen, request.diagnostic))
  <1> DEFINE notice == FailOpenNoticeText(request.failOpen, request.diagnostic)
  <1>1. ASSUME NEW doc, doc.verdict # "deny", NEW err, err \in {{}, notice}
        PROVE  Allowing(Response({doc}, err, 0), notice)
    BY <1>1 DEF Allowing
  <1> DEFINE Fine(r) == Allowing(r, notice)
  <1>2. Fine(renderUnknownResponse(request))
    BY DEF renderUnknownResponse, Allowing
  <1> HIDE DEF Fine
  <1>3. ASSUME NEW verdict, verdict # "deny", NEW context, NEW mutation
        PROVE  /\ Fine(Response({Effects(Plain, verdict, context, mutation)}, {}, 0))
               /\ Fine(Response({Effects(CursorAllow, verdict, context, mutation)}, {}, 0))
    <2>1. /\ Effects(Plain, verdict, context, mutation).verdict # "deny"
          /\ Effects(CursorAllow, verdict, context, mutation).verdict # "deny"
      BY <1>3, AllowDocuments
    <2> QED BY <1>1, <2>1 DEF Fine
  <1>4. /\ Fine(Response({[Plain EXCEPT !.notice = notice]}, notice, 0))
        /\ Fine(Response({Plain}, {}, 0))
    <2>1. Plain.verdict # "deny" /\ [Plain EXCEPT !.notice = notice].verdict # "deny"
      BY DEF Plain
    <2> QED BY <1>1, <2>1 DEF Fine
  <1>5. Fine(renderClaudeResponse(request))
    BY <1>3, <1>4 DEF renderClaudeResponse
  <1>6. Fine(renderCodexResponse(request))
    BY <1>3 DEF renderCodexResponse
  <1>7. Fine(renderCursorResponse(request))
    BY <1>3 DEF renderCursorResponse
  <1>8. Fine(renderGeminiResponse(request))
    BY <1>4 DEF renderGeminiResponse
  <1>9. Fine(renderCopilotResponse(request))
    BY <1>3 DEF renderCopilotResponse
  <1>10. Fine(renderForSystem(request))
    BY <1>2, <1>5, <1>6, <1>7, <1>8, <1>9 DEF renderForSystem
  <1> QED BY <1>10 DEF Fine

\* What a response is once the text is complete and the notice of a failure
\* is given in one of the channels.
IsRequest(request) ==
    {"system", "event", "decision", "diagnostic", "failOpen"} \subseteq DOMAIN request
Text(request) == request.diagnostic \cup
                     IF request.decision = "block" THEN {"event_id", "footer"} ELSE {}
Whole(request) == [request EXCEPT !.diagnostic = Text(request)]
Stderr(request, err) == IF request.failOpen # "" /\ err = {}
                        THEN FailOpenNoticeText(request.failOpen, Text(request)) ELSE err

\* Completing the text of a request leaves its other fields.
LEMMA WholeRequest ==
    ASSUME NEW request, IsRequest(request)
    PROVE  /\ Whole(request).system = request.system /\ Whole(request).event = request.event
           /\ Whole(request).decision = request.decision
           /\ Whole(request).failOpen = request.failOpen
           /\ Whole(request).diagnostic = Text(request)
  <1> QED BY DEF Whole, IsRequest

\* What RenderResponse makes of what the provider's renderer returns.
LEMMA Rendered ==
    ASSUME NEW request, NEW out, NEW err, NEW exit,
           renderForSystem(Whole(request)) = Response(out, err, exit)
    PROVE  /\ RenderResponse(request).stdout = out /\ RenderResponse(request).exit = exit
           /\ RenderResponse(request).stderr = Stderr(request, err)
  <1>1. Response(out, err, exit).stderr = err
    BY ResponseFields
  <1>2. \A notice : [Response(out, err, exit) EXCEPT !.stderr = notice]
                      = Response(out, notice, exit)
    BY DEF Response
  <1>3. RenderResponse(request) = Response(out, Stderr(request, err), exit)
    BY <1>1, <1>2 DEF RenderResponse, Text, Stderr, Whole
  <1> QED BY <1>3, ResponseFields

\* An allow that is rendered stops nobody; it tells of a failure if and only
\* if there was one.
LEMMA RenderedAllow ==
    ASSUME NEW request, IsRequest(request), request.decision = "allow"
    PROVE  /\ Harmless(RenderResponse(request))
           /\ request.failOpen = "" => RenderResponse(request).stderr = {}
           /\ request.failOpen # "" => Says(RenderResponse(request), request.failOpen)
  <1> DEFINE notice == FailOpenNoticeText(request.failOpen, Text(request))
  <1>1. PICK out, err : /\ renderForSystem(Whole(request)) = Response(out, err, 0)
                        /\ \A d \in out : d.verdict # "deny"
                        /\ err \in {{}, notice}
    BY WholeRequest, AllowsAreHarmless DEF Allowing
  <1>2. /\ RenderResponse(request).stdout = out /\ RenderResponse(request).exit = 0
        /\ RenderResponse(request).stderr = Stderr(request, err)
    BY <1>1, Rendered
  <1>3. /\ request.failOpen = "" => Stderr(request, err) = {}
        /\ request.failOpen # "" => {"unevaluated", request.failOpen} \subseteq Stderr(request, err)
    BY <1>1 DEF Stderr, FailOpenNoticeText
  <1>4. Harmless(RenderResponse(request))
    BY <1>1, <1>2 DEF Harmless
  <1> QED BY <1>2, <1>3, <1>4 DEF Says

\* A failure is answered with an allow that says so and why.
LEMMA FailOpensSayWhy ==
    ASSUME NEW system, NEW reason, reason # ""
    PROVE  /\ Harmless(FailOpenResponse(system, reason))
           /\ Says(FailOpenResponse(system, reason), reason)
  <1> DEFINE request == [Allow(system, "") EXCEPT !.diagnostic = {"diagnostic"}, !.failOpen = reason]
  <1>1. IsRequest(request) /\ request.decision = "allow" /\ request.failOpen = reason
    BY DEF Allow, IsRequest
  <1>2. FailOpenResponse(system, reason) = RenderResponse(request)
    BY DEF FailOpenResponse
  <1> HIDE DEF request
  <1> QED BY <1>1, <1>2, RenderedAllow

\* A block where the capability table has one stops every host that has it,
\* and gives it the reason.
LEMMA BlocksStop ==
    ASSUME NEW request, request.decision = "block", CanBlock(request.system, request.event)
    PROVE  \/ \E out : renderForSystem(request) = Response(out, request.diagnostic, 2)
           \/ /\ request.system \in {"codex", "cursor", "gemini"}
              /\ renderForSystem(request) = Response({Denied(request.diagnostic)}, {}, 0)
  <1>1. /\ request.system \in {"claude", "copilot", "codex", "cursor", "gemini", "response"}
        /\ request.system = "codex" => request.event \notin codexObserved
        /\ request.system = "gemini" => request.event \in geminiBlocks
    BY DEF CanBlock, LookupCapability, Pairs, blockEvents, substituteEvents, codexObserved,
           geminiBlocks
  <1>2. CASE request.system \in {"claude", "copilot"}
    <2>1. renderClaudeResponse(request) = Response({Plain}, request.diagnostic, 2)
      BY DEF renderClaudeResponse
    <2>2. renderCopilotResponse(request) = renderClaudeResponse(request)
      BY DEF renderCopilotResponse
    <2>3. renderForSystem(request) = Response({Plain}, request.diagnostic, 2)
      BY <1>2, <2>1, <2>2 DEF renderForSystem
    <2> QED BY <2>3
  <1>3. CASE request.system = "response"
    BY <1>3 DEF renderForSystem, renderUnknownResponse
  <1>4. CASE request.system = "cursor"
    BY <1>4 DEF renderForSystem, renderCursorResponse
  <1>5. CASE request.system = "codex"
    BY <1>1, <1>5 DEF renderForSystem, renderCodexResponse, CodexBlockText
  <1>6. CASE request.system = "gemini"
    BY <1>1, <1>6 DEF renderForSystem, renderGeminiResponse
  <1> QED BY <1>1, <1>2, <1>3, <1>4, <1>5, <1>6

\* A block that is rendered stops the host, with the reason, and is no notice.
IsBlock(request) == /\ IsRequest(request)
                    /\ request.decision = "block" /\ request.failOpen = ""
                    /\ request.diagnostic = {"violations"}
                    /\ CanBlock(request.system, request.event)
\* A block is rendered as a stop with its reason, and as no notice.
LEMMA RenderedBlock ==
    ASSUME NEW request, IsBlock(request)
    PROVE  /\ Stops(request.system, RenderResponse(request))
           /\ "unevaluated" \notin RenderResponse(request).stderr
           /\ {"violations", "event_id", "footer"} \subseteq
                 RenderResponse(request).stderr
                   \cup UNION {d.reason : d \in RenderResponse(request).stdout}
  <1> DEFINE text == {"violations", "event_id", "footer"}
             r == RenderResponse(request)
  <1>1. Text(request) = text
    BY DEF IsBlock, Text
  <1>2. \A err : Stderr(request, err) = err
    BY DEF IsBlock, Stderr
  <1>3. \/ \E out : renderForSystem(Whole(request)) = Response(out, text, 2)
        \/ /\ request.system \in {"codex", "cursor", "gemini"}
           /\ renderForSystem(Whole(request)) = Response({Denied(text)}, {}, 0)
    <2>1. /\ Whole(request).system = request.system /\ Whole(request).event = request.event
          /\ Whole(request).decision = "block" /\ Whole(request).diagnostic = Text(request)
      BY WholeRequest DEF IsBlock
    <2> HIDE DEF text
    <2>2. \/ \E out : renderForSystem(Whole(request)) = Response(out, Text(request), 2)
          \/ /\ request.system \in {"codex", "cursor", "gemini"}
             /\ renderForSystem(Whole(request)) = Response({Denied(Text(request))}, {}, 0)
      BY <2>1, BlocksStop DEF IsBlock
    <2> QED BY <1>1, <2>2
  <1> HIDE DEF text
  <1>4. \/ \E out : r.stdout = out /\ r.stderr = text /\ r.exit = 2
        \/ /\ request.system \in {"codex", "cursor", "gemini"}
           /\ r.stdout = {Denied(text)} /\ r.stderr = {} /\ r.exit = 0
    <2>1. ASSUME NEW out, renderForSystem(Whole(request)) = Response(out, text, 2)
          PROVE  r.stdout = out /\ r.stderr = text /\ r.exit = 2
      <3>1. /\ RenderResponse(request).stdout = out /\ RenderResponse(request).exit = 2
            /\ RenderResponse(request).stderr = Stderr(request, text)
        BY <2>1, Rendered
      <3> QED BY <1>2, <3>1
    <2>2. ASSUME renderForSystem(Whole(request)) = Response({Denied(text)}, {}, 0)
          PROVE  r.stdout = {Denied(text)} /\ r.stderr = {} /\ r.exit = 0
      <3>1. /\ RenderResponse(request).stdout = {Denied(text)}
            /\ RenderResponse(request).exit = 0
            /\ RenderResponse(request).stderr = Stderr(request, {})
        BY <2>2, Rendered
      <3> QED BY <1>2, <3>1
    <2> QED BY <1>3, <2>1, <2>2
  <1> HIDE DEF r
  <1>5. Denied(text).verdict = "deny" /\ Denied(text).reason = text
    BY DEF Denied, Plain
  <1>6. Stops(request.system, r) /\ "unevaluated" \notin r.stderr
    BY <1>4, <1>5 DEF Stops, text
  <1>7. text \subseteq r.stderr \cup UNION {d.reason : d \in r.stdout}
    BY <1>4, <1>5
  <1> QED BY <1>6, <1>7 DEF r, text

-----------------------------------------------------------------------------
\* Every strength of evidence is one of six, so there is a strongest one.
LEMMA StrongestExists ==
    ASSUME NEW S, S \subseteq 0 .. 6, 0 \in S
    PROVE  Max(S) \in S /\ \A x \in S : x <= Max(S)
  <1>1. \E x \in S : \A y \in S : x >= y
    <2>1. CASE 6 \in S
      BY <2>1
    <2>2. CASE 6 \notin S /\ 5 \in S
      BY <2>2
    <2>3. CASE 6 \notin S /\ 5 \notin S /\ 4 \in S
      BY <2>3
    <2>4. CASE 6 \notin S /\ 5 \notin S /\ 4 \notin S /\ 3 \in S
      BY <2>4
    <2>5. CASE 6 \notin S /\ 5 \notin S /\ 4 \notin S /\ 3 \notin S
      BY <2>5
    <2> QED BY <2>1, <2>2, <2>3, <2>4, <2>5
  <1> QED BY <1>1 DEF Max

\* Evidence that outweighs all the rest decides.
LEMMA StrongestDecides ==
    ASSUME NEW candidates, NEW p, NEW strength \in 1 .. 6, <<p, strength>> \in candidates,
           \A x \in candidates : x[2] \in 0 .. 6,
           \A x \in candidates : x[2] >= strength => x[1] = p
    PROVE  resolveClassification(candidates) = p
  <1> DEFINE strengths == {x[2] : x \in candidates} \cup {0}
             top == Max(strengths)
             ps == {x[1] : x \in {y \in candidates : y[2] = top}}
  <1>1. strengths \subseteq 0 .. 6 /\ 0 \in strengths /\ strength \in strengths
    <2>1. <<p, strength>>[2] = strength
      OBVIOUS
    <2> QED BY <2>1
  <1>2. top \in strengths /\ strength <= top
    BY <1>1, StrongestExists
  <1>3. ps = {p}
    <2>1. \A x \in candidates : x[2] = top => x[1] = p
      BY <1>1, <1>2
    <2>2. top # 0
      BY <1>1, <1>2
    <2> HIDE DEF top
    <2>3. \E x \in candidates : x[2] = top
      BY <1>2, <2>2
    <2> QED BY <2>1, <2>3
  <1>4. Cardinality({p}) = 1
    BY FS_Singleton
  <1> HIDE DEF ps
  <1>5. Cardinality(ps) = 1 /\ (CHOOSE q \in ps : TRUE) = p
    BY <1>3, <1>4
  <1> QED BY <1>5 DEF resolveClassification, ps

\* A call whose host is identified is taken for a call of that host, unless
\* its payload cannot be read.
LEMMA IdentifiedHost ==
    ASSUME NEW c \in HookCallSet, Identified(c)
    PROVE  /\ c.payload # "unreadable" => ClassifyWithContext(c) = c.host
           /\ c.payload = "unreadable" => ClassifyWithContext(c) = "unknown"
  <1> DEFINE candidates == UNION {routeCandidates(c), invocationCandidates(c),
                                  payloadCandidates(c), environmentCandidates(c)}
             strongest == IF c.route = "command" THEN 6
                          ELSE IF hasCursorPayload(c) THEN 4 ELSE 3
  <1> USE DEF strengthShared, strengthContext, strengthRegistration, strengthPayload,
              strengthIdentifier, strengthRoute, Evidence
  <1>1. c.event \in geminiEvents => c.host = "gemini"
    BY CallAssumption
  <1>2. ASSUME NEW x \in routeCandidates(c)
        PROVE  x[2] = 6 /\ x[1] = c.host
    BY <1>2 DEF routeCandidates
  <1>3. ASSUME NEW x \in invocationCandidates(c)
        PROVE  x[2] \in {2, 3} /\ (x[2] = 3 => x[1] = c.tag /\ c.route = "managed")
    BY <1>3 DEF invocationCandidates
  <1>4. ASSUME NEW x \in environmentCandidates(c)
        PROVE  x[2] \in {1, 2}
    BY <1>4 DEF environmentCandidates
  <1>5. ASSUME NEW x \in payloadCandidates(c)
        PROVE  x[2] \in {1, 4, 5} /\ (x[2] >= 3 => x[1] = c.host)
    <2>1. hasGeminiEvent(c) => c.host = "gemini"
      BY <1>1 DEF hasGeminiEvent, eventNameFromBytes, geminiEvents
    <2>2. \/ x \in c.claims \X {5}
          \/ hasCursorPayload(c) /\ x = <<"cursor", 4>>
          \/ hasCopilotPayload(c) /\ x = <<"copilot", 4>>
          \/ hasGeminiEvent(c) /\ x = <<"gemini", 4>>
          \/ x[2] = 1
      BY <1>5 DEF payloadCandidates
    <2> QED BY <2>1, <2>2 DEF Identified, hasCursorPayload, hasCopilotPayload
  <1>6. <<c.host, strongest>> \in candidates
    BY DEF Identified, routeCandidates, invocationCandidates, payloadCandidates, hasCursorPayload
  <1>7. \A x \in candidates : x[2] \in 0 .. 6
    BY <1>2, <1>3, <1>4, <1>5
  <1>8. \A x \in candidates : x[2] >= strongest => x[1] = c.host
    BY <1>2, <1>3, <1>4, <1>5 DEF Identified
  <1>9. strongest \in 1 .. 6
    OBVIOUS
  <1> HIDE DEF candidates, strongest
  <1>10. resolveClassification(candidates) = c.host
    BY <1>6, <1>7, <1>8, <1>9, StrongestDecides
  <1> QED BY <1>10 DEF ClassifyWithContext, candidates

-----------------------------------------------------------------------------
\* Where the call is.
CallShape ==
    /\ client = "idle" => daemon.pc = "idle"
    /\ client # "done" => answer = {}
    /\ client # "idle" => \E c \in HookCallSet : hookCall = {c}
    /\ {"pc", "system", "event", "response", "verdict", "block", "effects", "records", "outputs"}
          \subseteq DOMAIN daemon
    /\ daemon.pc \in {"idle", "received", "evaluated", "answered"}
    /\ daemon.pc \in {"idle", "received"} =>
          /\ daemon.verdict = "" /\ daemon.block = FALSE /\ daemon.system = "unknown"
          /\ DOMAIN daemon.records = {}

\* What the daemon answers is what its verdict says.
AnswersItsVerdict ==
    daemon.pc \in {"evaluated", "answered"} =>
        \/ /\ daemon.verdict \in {"", "discarded"} /\ daemon.pc = "answered"
           /\ Harmless(daemon.response) /\ \E reason \in evidence : Says(daemon.response, reason)
           /\ daemon.verdict = "" => daemon.block = FALSE
        \/ /\ daemon.verdict = "unreadable" /\ daemon.block = FALSE
           /\ daemon.response = Response({}, {"parse"}, 2)
        \/ /\ daemon.verdict = "block" /\ CanBlock(daemon.system, daemon.event)
           /\ Stops(daemon.system, daemon.response)
           /\ "unevaluated" \notin daemon.response.stderr
           /\ {"violations", "event_id", "footer"} \subseteq
                 daemon.response.stderr \cup UNION {d.reason : d \in daemon.response.stdout}
        \/ /\ daemon.verdict = "allow" /\ Harmless(daemon.response)
           /\ daemon.response.stderr = {}
           /\ daemon.block => ~CanBlock(daemon.system, daemon.event)

\* The provider and the event are those of the call.
JudgedAsCalled ==
    daemon.verdict \in {"block", "allow"} =>
        /\ daemon.system = ClassifyWithContext(The)
        /\ daemon.event = NormalizeCopilotPayload(daemon.system, The)

\* A record that says that an effect is not supported says so of one that the
\* event does not take.
LossesAreReal ==
    \A i \in DOMAIN daemon.records :
        daemon.records[i] = "unsupported_noop" =>
            unsupportedRuleEffect(daemon.effects[i].action, daemon.system, daemon.event)

\* What the host read: a failure that says so, the recovery of the
\* configuration, or what the daemon answered.
AnswersHaveASource ==
    \A r \in answer :
        \/ Harmless(r) /\ \E reason \in evidence : Says(r, reason)
        \/ Harmless(r) /\ r.stderr = {} /\ The.recovers
        \/ daemon.pc = "answered" /\ r = daemon.response

\* The inductive invariant of a call.
CallInv ==
    /\ CallShape /\ AnswersItsVerdict /\ JudgedAsCalled /\ LossesAreReal
    /\ AnswersHaveASource

\* The daemon before it evaluates the call.
LEMMA IdleDaemon ==
    ASSUME NEW d, d \in {Idle, [Idle EXCEPT !.pc = "received"]}
    PROVE  /\ d.pc \in {"idle", "received"} /\ d.verdict = "" /\ d.block = FALSE
           /\ d.system = "unknown" /\ DOMAIN d.records = {}
           /\ {"pc", "system", "event", "response", "verdict", "block", "effects", "records",
                "outputs"} \subseteq DOMAIN d
  <1>1. /\ Idle.pc = "idle" /\ Idle.verdict = "" /\ Idle.system = "unknown"
        /\ Idle.block = FALSE /\ Idle.records = <<>>
    BY DEF Idle
  <1>2. DOMAIN Idle = {"pc", "system", "event", "response", "verdict", "block", "effects",
                       "records", "outputs"}
    BY DEF Idle
  <1>3. /\ d.pc \in {"idle", "received"} /\ d.verdict = Idle.verdict
        /\ d.system = Idle.system /\ d.block = Idle.block /\ d.records = Idle.records
        /\ DOMAIN d = DOMAIN Idle
    BY <1>1, <1>2
  <1>4. DOMAIN d.records = {}
    <2>1. d.records = <<>>
      BY <1>1, <1>3
    <2>2. DOMAIN <<>> = {}
      OBVIOUS
    <2> QED BY <2>1, <2>2, Zenon
  <1> QED BY <1>1, <1>2, <1>3, <1>4

\* No call has been made.
LEMMA CallStarts == CallInit => CallInv
  <1> SUFFICES ASSUME CallInit PROVE CallInv
    OBVIOUS
  <1>1. /\ client = "idle" /\ answer = {} /\ daemon.pc = "idle" /\ daemon.verdict = ""
        /\ daemon.block = FALSE /\ daemon.system = "unknown" /\ DOMAIN daemon.records = {}
        /\ {"pc", "system", "event", "response", "verdict", "block", "effects", "records",
             "outputs"} \subseteq DOMAIN daemon
    <2>1. daemon = Idle /\ client = "idle" /\ answer = {}
      BY DEF CallInit
    <2>2. Idle.pc = "idle"
      BY DEF Idle
    <2> QED BY <2>1, <2>2, IdleDaemon
  <1> QED
    BY <1>1 DEF CallInv, CallShape, AnswersItsVerdict, JudgedAsCalled, LossesAreReal,
                AnswersHaveASource

\* The client answers: with a failure that it records, or with a recovery.
LEMMA ClientAnswers ==
    ASSUME CallInv, UNCHANGED <<hookCall, daemon>>, client \notin {"idle", "done"},
           client' = "done", evidence \subseteq evidence', NEW r, answer' = {r},
           Harmless(r),
           \/ \E reason \in evidence' : Says(r, reason)
           \/ r.stderr = {} /\ The.recovers
    PROVE  CallInv'
  <1>1. The' = The
    BY DEF The
  <1>2. CallShape'
    BY DEF CallInv, CallShape
  <1>3. AnswersItsVerdict'
    BY DEF CallInv, AnswersItsVerdict
  <1>4. JudgedAsCalled' /\ LossesAreReal'
    BY <1>1 DEF CallInv, JudgedAsCalled, LossesAreReal
  <1>5. AnswersHaveASource'
    BY <1>1 DEF AnswersHaveASource
  <1> QED BY <1>2, <1>3, <1>4, <1>5 DEF CallInv

\* The client goes on without an answer.
LEMMA ClientGoesOn ==
    ASSUME CallInv, UNCHANGED <<hookCall, daemon, answer, evidence>>,
           client \notin {"idle", "done"}, client' \notin {"idle", "done"}
    PROVE  CallInv'
  <1>1. The' = The
    BY DEF The
  <1> QED
    BY <1>1 DEF CallInv, CallShape, AnswersItsVerdict, JudgedAsCalled, LossesAreReal,
                AnswersHaveASource

\* A failure that the client records is answered with an allow that says so.
LEMMA FailOpenStep ==
    ASSUME CallInv, NEW reason, reason # "", failOpen(reason), UNCHANGED <<hookCall, daemon>>,
           client \notin {"idle", "done"}
    PROVE  CallInv'
  <1> DEFINE r == FailOpenResponse(providerHint(The), reason)
  <1>1. Harmless(r) /\ Says(r, reason)
    BY FailOpensSayWhy
  <1>2. client' = "done" /\ answer' = {r} /\ evidence' = evidence \cup {reason}
    BY DEF failOpen, Answer
  <1> HIDE DEF r
  <1> QED BY <1>1, <1>2, ClientAnswers

\* The steps of the client.
LEMMA ClientSteps ==
    ASSUME CallInv,
           \/ \E c \in HookCallSet : runHook(c)
           \/ ReadHookInput \/ recoveryHookResponse \/ Connect \/ ResolveHookEnvironment
           \/ EvaluateHookFails \/ mirrorResponse \/ recoverPanic
    PROVE  CallInv'
  <1>1. ASSUME NEW c \in HookCallSet, runHook(c) PROVE CallInv'
    <2>1. /\ client = "idle" /\ hookCall' = {c} /\ client' = "stdin"
          /\ UNCHANGED <<daemon, answer, evidence>>
      BY <1>1 DEF runHook
    <2>2. answer = {} /\ daemon.pc = "idle" /\ daemon.verdict = ""
      BY <2>1 DEF CallInv, CallShape
    <2> QED
      BY <2>1, <2>2 DEF CallInv, CallShape, AnswersItsVerdict, JudgedAsCalled, LossesAreReal,
                        AnswersHaveASource
  <1>2. CASE ReadHookInput
    <2>1. CASE client' = "recovery" /\ UNCHANGED <<answer, evidence>>
      BY <1>2, <2>1, ClientGoesOn DEF ReadHookInput
    <2>2. CASE failOpen("stdin_read_failed")
      BY <1>2, <2>2, FailOpenStep DEF ReadHookInput
    <2> QED BY <1>2, <2>1, <2>2 DEF ReadHookInput
  <1>3. CASE recoveryHookResponse
    <2> DEFINE system == ClassifyWithContext(The)
               request == Allow(system, NormalizeCopilotPayload(system, The))
               r == RenderResponse(request)
    <2>1. CASE The.recovers /\ client' = "done" /\ answer' = {r}
      <3>1. IsRequest(request) /\ request.decision = "allow" /\ request.failOpen = ""
        BY DEF Allow, IsRequest
      <3> HIDE DEF request
      <3>2. Harmless(r) /\ r.stderr = {}
        BY <3>1, RenderedAllow
      <3> HIDE DEF r
      <3>3. UNCHANGED <<hookCall, daemon, evidence>> /\ client = "recovery"
        BY <1>3 DEF recoveryHookResponse
      <3> QED BY <2>1, <3>2, <3>3, ClientAnswers
    <2>2. CASE client' = "connect" /\ UNCHANGED answer
      BY <1>3, <2>2, ClientGoesOn DEF recoveryHookResponse
    <2> QED BY <1>3, <2>1, <2>2 DEF recoveryHookResponse, Answer
  <1>4. CASE Connect
    <2>1. CASE client' = "resolve" /\ UNCHANGED <<answer, evidence>>
      BY <1>4, <2>1, ClientGoesOn DEF Connect
    <2>2. CASE failOpen("daemon_unavailable")
      BY <1>4, <2>2, FailOpenStep DEF Connect
    <2> QED BY <1>4, <2>1, <2>2 DEF Connect
  <1>5. CASE ResolveHookEnvironment
    <2>1. CASE failOpen("rpc_failed") /\ UNCHANGED daemon
      BY <1>5, <2>1, FailOpenStep DEF ResolveHookEnvironment
    <2>2. CASE /\ client' = "await" /\ UNCHANGED <<answer, evidence>>
               /\ daemon' \in {Idle, [Idle EXCEPT !.pc = "received"]}
      <3>1. /\ daemon'.pc \in {"idle", "received"} /\ daemon'.verdict = ""
            /\ daemon'.block = FALSE /\ daemon'.system = "unknown" /\ DOMAIN daemon'.records = {}
            /\ {"pc", "system", "event", "response", "verdict", "block", "effects", "records",
                 "outputs"} \subseteq DOMAIN daemon'
        BY <2>2, IdleDaemon
      <3>2. client = "resolve" /\ UNCHANGED hookCall
        BY <1>5 DEF ResolveHookEnvironment
      <3>3. answer = {} /\ \E c \in HookCallSet : hookCall = {c}
        BY <3>2 DEF CallInv, CallShape
      <3> QED
        BY <2>2, <3>1, <3>2, <3>3
        DEF CallInv, CallShape, AnswersItsVerdict, JudgedAsCalled, LossesAreReal,
            AnswersHaveASource
    <2> QED BY <1>5, <2>1, <2>2 DEF ResolveHookEnvironment
  <1>6. CASE EvaluateHookFails
    BY <1>6, FailOpenStep DEF EvaluateHookFails
  <1>7. CASE mirrorResponse
    <2>1. /\ client' = "done" /\ answer' = {daemon.response} /\ daemon.pc = "answered"
          /\ UNCHANGED <<hookCall, daemon, evidence>> /\ client = "await"
      BY <1>7 DEF mirrorResponse, Answer
    <2>2. The' = The
      BY <2>1 DEF The
    <2> QED
      BY <2>1, <2>2 DEF CallInv, CallShape, AnswersItsVerdict, JudgedAsCalled, LossesAreReal,
                        AnswersHaveASource
  <1>8. CASE recoverPanic
    BY <1>8, FailOpenStep DEF recoverPanic
  <1> QED BY <1>1, <1>2, <1>3, <1>4, <1>5, <1>6, <1>7, <1>8

\* A verdict that the daemon reaches.
LEMMA DaemonMoves ==
    ASSUME CallInv, UNCHANGED <<hookCall, client, answer>>, evidence \subseteq evidence',
           daemon.pc \in {"received", "evaluated"},
           {"pc", "system", "event", "response", "verdict", "block", "effects", "records", "outputs"}
              \subseteq DOMAIN daemon',
           daemon'.pc \in {"evaluated", "answered"},
           AnswersItsVerdict', JudgedAsCalled', LossesAreReal'
    PROVE  CallInv'
  <1>1. The' = The
    BY DEF The
  <1>2. CallShape'
    BY DEF CallInv, CallShape
  <1>3. AnswersHaveASource'
    BY <1>1 DEF CallInv, AnswersHaveASource
  <1> QED BY <1>2, <1>3 DEF CallInv

\* The daemon gives up before the rules, evaluates, and stores the verdict.
LEMMA GiveUpSteps ==
    ASSUME CallInv, NEW reason, reason # "", unevaluated(reason)
    PROVE  CallInv'
  <1> DEFINE r == FailOpenResponse(providerHint(The), reason)
  <1>1. Harmless(r) /\ Says(r, reason)
    BY FailOpensSayWhy
  <1>2. /\ daemon' = [daemon EXCEPT !.pc = "answered", !.response = r]
        /\ evidence' = evidence \cup {reason} /\ UNCHANGED <<hookCall, client, answer>>
        /\ daemon.pc = "received"
    BY DEF unevaluated
  <1> HIDE DEF r
  <1>3. /\ daemon.verdict = "" /\ daemon.block = FALSE
        /\ {"pc", "system", "event", "response", "verdict", "block", "effects", "records",
             "outputs"} \subseteq DOMAIN daemon
    BY <1>2 DEF CallInv, CallShape
  <1>4. /\ daemon'.pc = "answered" /\ daemon'.response = r /\ daemon'.verdict = ""
        /\ daemon'.block = FALSE /\ daemon'.system = daemon.system
        /\ daemon'.event = daemon.event /\ daemon'.records = daemon.records
        /\ daemon'.effects = daemon.effects /\ DOMAIN daemon' = DOMAIN daemon
    BY <1>2, <1>3
  <1>5. AnswersItsVerdict' /\ JudgedAsCalled' /\ LossesAreReal'
    BY <1>1, <1>2, <1>4 DEF CallInv, AnswersItsVerdict, JudgedAsCalled, LossesAreReal
  <1> QED BY <1>2, <1>3, <1>4, <1>5, DaemonMoves

\* What an effect without a channel is called.
LEMMA UnsupportedEffects ==
    ASSUME NEW system, NEW event, NEW effect, NEW suppressed,
           effect.action \in {"inject", "mutate"},
           dispositionOf(system, event, effect, suppressed) = "unsupported_noop"
    PROVE  unsupportedRuleEffect(effect.action, system, event)
  <1> QED BY DEF dispositionOf, unsupportedRuleEffect

\* The daemon judges the call.
LEMMA EvaluationSteps ==
    ASSUME CallInv, NEW result \in RuleOutcomes, hotEvaluate(result)
    PROVE  CallInv'
  <1> DEFINE system == ClassifyWithContext(The)
             event == NormalizeCopilotPayload(system, The)
             block == result.block /\ CanBlock(system, event)
             composed == composeResponseEffects(system, event, result.effects, block)
             prompt == IF system = "copilot" THEN "prompt" ELSE ""
             request == [Allow(system, event) EXCEPT
                           !.decision = IF block THEN "block" ELSE "allow",
                           !.diagnostic = IF block THEN {"violations"} ELSE {},
                           !.context = composed.context, !.mutation = composed.mutation,
                           !.prompt = prompt]
             found == evaluated(system, event, result)
  <1>1. /\ daemon.pc = "received" /\ UNCHANGED <<hookCall, client, answer, evidence>>
        /\ The' = The
    BY DEF hotEvaluate, The
  <1>2. /\ daemon.block = FALSE /\ DOMAIN daemon.records = {}
        /\ {"pc", "system", "event", "response", "verdict", "block", "effects", "records",
             "outputs"} \subseteq DOMAIN daemon
    BY <1>1 DEF CallInv, CallShape
  <1>3. CASE daemon' = [daemon EXCEPT !.pc = "evaluated", !.system = system,
                                        !.response = Response({}, {"parse"}, 2),
                                        !.verdict = "unreadable"]
    <2> DEFINE refusal == Response({}, {"parse"}, 2)
    <2> HIDE DEF system, refusal
    <2>1. /\ daemon'.pc = "evaluated" /\ daemon'.response = refusal
          /\ daemon'.verdict = "unreadable" /\ daemon'.block = FALSE
          /\ daemon'.records = daemon.records /\ DOMAIN daemon' = DOMAIN daemon
      BY <1>2, <1>3 DEF refusal
    <2>2. AnswersItsVerdict' /\ JudgedAsCalled' /\ LossesAreReal'
      BY <1>2, <2>1 DEF AnswersItsVerdict, JudgedAsCalled, LossesAreReal, refusal
    <2> QED BY <1>1, <1>2, <2>1, <2>2, DaemonMoves
  <1>4. CASE daemon' = found
    <2>1. /\ request.system = system /\ request.event = event /\ request.failOpen = ""
          /\ request.decision = (IF block THEN "block" ELSE "allow")
          /\ request.diagnostic = (IF block THEN {"violations"} ELSE {})
          /\ IsRequest(request)
      BY DEF Allow, IsRequest
    <2>2. /\ found.pc = "evaluated" /\ found.system = system /\ found.event = event
          /\ found.response = RenderResponse(request)
          /\ found.verdict = (IF block THEN "block" ELSE "allow")
          /\ found.block = result.block /\ found.effects = result.effects
          /\ found.records = composed.records
          /\ DOMAIN found = {"pc", "system", "event", "response", "verdict", "block", "effects",
                             "records", "outputs"}
      BY DEF evaluated
    <2>3. composed.records = [i \in DOMAIN result.effects |->
                                dispositionOf(system, event, result.effects[i], block)]
      BY DEF composeResponseEffects
    <2> HIDE DEF system, event, request, composed, found
    <2>4. AnswersItsVerdict'
      <3>1. CASE block
        <4>1. IsBlock(request) /\ request.system = system
          BY <2>1, <3>1 DEF IsBlock
        <4>2. /\ Stops(system, found.response)
              /\ "unevaluated" \notin found.response.stderr
              /\ {"violations", "event_id", "footer"} \subseteq
                    found.response.stderr \cup UNION {d.reason : d \in found.response.stdout}
          BY <2>2, <4>1, RenderedBlock
        <4> QED BY <1>4, <2>2, <3>1, <4>2 DEF AnswersItsVerdict
      <3>2. CASE ~block
        <4>1. Harmless(found.response) /\ found.response.stderr = {}
          BY <2>1, <2>2, <3>2, RenderedAllow
        <4> QED BY <1>4, <2>2, <3>2, <4>1 DEF AnswersItsVerdict
      <3> QED BY <3>1, <3>2
    <2>5. JudgedAsCalled'
      BY <1>1, <1>4, <2>2 DEF JudgedAsCalled, system, event
    <2>6. LossesAreReal'
      <3>1. \A i \in DOMAIN result.effects : result.effects[i].action \in {"inject", "mutate"}
        BY CallAssumption
      <3> QED BY <1>4, <2>2, <2>3, <3>1, UnsupportedEffects DEF LossesAreReal
    <2> QED BY <1>1, <1>4, <2>2, <2>4, <2>5, <2>6, DaemonMoves
  <1> QED BY <1>3, <1>4 DEF hotEvaluate

\* The verdict is stored, or dropped with a notice.
LEMMA CommitSteps == ASSUME CallInv, commitHotEvaluation PROVE CallInv'
  <1>1. /\ daemon.pc = "evaluated" /\ UNCHANGED <<hookCall, client, answer>>
        /\ evidence \subseteq evidence' /\ The' = The
        /\ {"pc", "system", "event", "response", "verdict", "block", "effects", "records",
             "outputs"} \subseteq DOMAIN daemon
    BY DEF commitHotEvaluation, CallInv, CallShape, The
  <1>2. CASE daemon' = [daemon EXCEPT !.pc = "answered"]
    <2>1. /\ daemon'.pc = "answered" /\ daemon'.response = daemon.response
          /\ daemon'.verdict = daemon.verdict /\ daemon'.block = daemon.block
          /\ daemon'.system = daemon.system /\ daemon'.event = daemon.event
          /\ daemon'.records = daemon.records /\ daemon'.effects = daemon.effects
          /\ DOMAIN daemon' = DOMAIN daemon
      BY <1>1, <1>2
    <2>2. AnswersItsVerdict'
      BY <1>1, <2>1 DEF CallInv, AnswersItsVerdict
    <2>3. JudgedAsCalled' /\ LossesAreReal'
      BY <1>1, <2>1 DEF CallInv, JudgedAsCalled, LossesAreReal
    <2> QED BY <1>1, <2>1, <2>2, <2>3, DaemonMoves
  <1> DEFINE r == FailOpenResponse(daemon.system, "verdict_not_recorded")
  <1>3. CASE /\ daemon' = [daemon EXCEPT !.pc = "answered", !.verdict = "discarded",
                                         !.outputs = {}, !.response = r]
             /\ evidence' = evidence \cup {"verdict_not_recorded"}
    <2>1. Harmless(r) /\ Says(r, "verdict_not_recorded")
      BY FailOpensSayWhy
    <2> HIDE DEF r
    <2>2. /\ daemon'.pc = "answered" /\ daemon'.response = r
          /\ daemon'.verdict = "discarded"
          /\ daemon'.system = daemon.system /\ daemon'.event = daemon.event
          /\ daemon'.records = daemon.records /\ daemon'.effects = daemon.effects
          /\ DOMAIN daemon' = DOMAIN daemon
      BY <1>1, <1>3
    <2>3. AnswersItsVerdict'
      BY <1>3, <2>1, <2>2 DEF AnswersItsVerdict
    <2>4. JudgedAsCalled' /\ LossesAreReal'
      BY <1>1, <2>2 DEF CallInv, JudgedAsCalled, LossesAreReal
    <2> QED BY <1>1, <2>2, <2>3, <2>4, DaemonMoves
  <1> QED BY <1>2, <1>3 DEF commitHotEvaluation

\* Every step of the client and of the daemon.
LEMMA CallSteps == CallInv /\ [CallNext]_callVars => CallInv'
  <1> SUFFICES ASSUME CallInv, [CallNext]_callVars PROVE CallInv'
    OBVIOUS
  <1>1. CASE UNCHANGED callVars
    BY <1>1 DEF callVars, CallInv, CallShape, AnswersItsVerdict, JudgedAsCalled, LossesAreReal,
                AnswersHaveASource, The
  <1>2. ASSUME NEW reason \in {"daemon_not_ready", "config_unusable", "daemon_overloaded",
                               "intake_write_failed"}, unevaluated(reason)
        PROVE  CallInv'
    BY <1>2, GiveUpSteps
  <1> QED BY <1>1, <1>2, ClientSteps, EvaluationSteps, CommitSteps DEF CallNext

\* The invariant of a hook call, whatever calls hosts make and whatever the
\* rules find.
THEOREM CallInvariance == CallSpec => []CallInv
  <1> QED BY CallStarts, CallSteps, PTL DEF CallSpec

\* The host of an identified call whose verdict could block is the provider
\* that was taken for it.
LEMMA BlockedHost ==
    ASSUME CallInv, client # "idle", Identified(The), daemon.verdict = "block",
           CanBlock(daemon.system, daemon.event)
    PROVE  daemon.system = The.host
  <1>1. The \in HookCallSet
    BY DEF CallInv, CallShape, The
  <1>2. daemon.system \in {The.host, "unknown"}
    BY <1>1, IdentifiedHost DEF CallInv, JudgedAsCalled
  <1>3. ~CanBlock("unknown", daemon.event)
    BY DEF CanBlock, LookupCapability, Pairs, blockEvents, substituteEvents
  <1> QED BY <1>2, <1>3

\* Answers that have a source are decided ones or say that they are not.
LEMMA CallsFailOpen == CallInv => AllowWasDecided /\ FailuresNeverBlock
  <1> SUFFICES ASSUME CallInv, NEW r \in answer
               PROVE  /\ Identified(The) /\ ~Stops(The.host, r) /\ ~Warned(r)
                            => The.recovers \/ daemon.verdict = "allow"
                      /\ Warned(r) => \E reason \in evidence : reason \in r.stderr
                      /\ Stops(The.host, r) => daemon.verdict \in {"block", "unreadable"}
    BY DEF AllowWasDecided, FailuresNeverBlock
  <1>0. client # "idle"
    BY DEF CallInv, CallShape
  <1>1. ASSUME NEW q, Harmless(q) PROVE ~Stops(The.host, q)
    BY <1>1 DEF Harmless, Stops
  <1>2. CASE Harmless(r) /\ \E reason \in evidence : Says(r, reason)
    BY <1>1, <1>2 DEF Says, Warned
  <1>3. CASE Harmless(r) /\ r.stderr = {} /\ The.recovers
    BY <1>1, <1>3 DEF Warned
  <1>4. CASE daemon.pc = "answered" /\ r = daemon.response
    <2>1. CASE daemon.verdict \in {"", "discarded"}
      BY <1>1, <1>4, <2>1 DEF CallInv, AnswersItsVerdict, Says, Warned
    <2>2. CASE daemon.verdict = "unreadable"
      <3>1. r = Response({}, {"parse"}, 2)
        BY <1>4, <2>2 DEF CallInv, AnswersItsVerdict
      <3>2. r.exit = 2 /\ r.stderr = {"parse"}
        BY <3>1, ResponseFields
      <3> QED BY <2>2, <3>2 DEF Stops, Warned
    <2>3. CASE daemon.verdict = "block"
      <3>1. /\ CanBlock(daemon.system, daemon.event) /\ Stops(daemon.system, r) /\ ~Warned(r)
        BY <1>4, <2>3 DEF CallInv, AnswersItsVerdict, Warned
      <3>2. Identified(The) => daemon.system = The.host
        BY <1>0, <2>3, <3>1, BlockedHost
      <3> QED BY <2>3, <3>1, <3>2
    <2>4. CASE daemon.verdict = "allow"
      BY <1>1, <1>4, <2>4 DEF CallInv, AnswersItsVerdict, Warned
    <2> QED BY <1>4, <2>1, <2>2, <2>3, <2>4 DEF CallInv, AnswersItsVerdict
  <1> QED BY <1>2, <1>3, <1>4 DEF CallInv, AnswersHaveASource

\* What is known of an evaluated call of an identified host.
LEMMA JudgedHost ==
    ASSUME CallInv, client # "idle", Identified(The), The.payload = "ok",
           daemon.verdict \in {"block", "allow"}
    PROVE  daemon.system = The.host /\ daemon.event = The.event
  <1>1. The \in HookCallSet
    BY DEF CallInv, CallShape, The
  <1>2. daemon.system = The.host
    BY <1>1, IdentifiedHost DEF CallInv, JudgedAsCalled
  <1>3. NormalizeCopilotPayload(The.host, The) = The.event
    BY DEF NormalizeCopilotPayload, copilotEventHint, eventNameFromBytes, hasCopilotPayload,
           Identified, hasCursorPayload
  <1> QED BY <1>2, <1>3 DEF CallInv, JudgedAsCalled

\* The daemon's answer to a block stops the host that was identified.
LEMMA CallsBlock == CallInv => BlocksReachTheHost
  <1> SUFFICES ASSUME CallInv, NEW r \in answer,
                      daemon.pc = "answered", r = daemon.response,
                      Identified(The), The.payload = "ok",
                      daemon.block, daemon.verdict # "discarded",
                      CanBlock(The.host, The.event)
               PROVE  /\ Stops(The.host, r)
                      /\ {"violations", "event_id", "footer"} \subseteq
                            r.stderr \cup UNION {d.reason : d \in r.stdout}
    BY DEF BlocksReachTheHost, CanBlock
  <1>1. client # "idle"
    BY DEF CallInv, CallShape
  <1>2. daemon.verdict \in {"block", "allow"}
    BY DEF CallInv, AnswersItsVerdict
  <1>3. daemon.system = The.host /\ daemon.event = The.event
    BY <1>1, <1>2, JudgedHost
  <1>4. daemon.verdict = "block"
    BY <1>2, <1>3 DEF CallInv, AnswersItsVerdict
  <1> QED BY <1>3, <1>4 DEF CallInv, AnswersItsVerdict

\* A rule that names the event of a provider is warned about when the event
\* does not take its effect.
LEMMA LostEffectIsWarnedAbout ==
    ASSUME NEW system \in Providers, NEW event, NEW action,
           unsupportedRuleEffect(action, system, event), NEW rule, rule.action = action,
           system \notin rule.disabled,
           \/ rule.all = TRUE /\ <<system, event>> \in capabilityTable
           \/ /\ rule.all = FALSE
              /\ \/ event \in rule.listed[system]
                 \/ <<system, event>> \in capabilityTable /\ event \in rule.events
    PROVE  <<system, event>> \in WarnCapabilityDowngrades(rule)
  <1> DEFINE pair == <<system, event>>
  <1>1. pair[1] = system /\ pair[2] = event
    OBVIOUS
  <1> HIDE DEF pair
  <1>2. ASSUME event \in rule.listed[system]
        PROVE  pair \in UNION {{p} \X rule.listed[p] : p \in Providers}
    <2>1. pair \in {system} \X rule.listed[system]
      BY <1>2 DEF pair
    <2> QED BY <2>1
  <1>3. /\ rule.all = TRUE => pair \in capabilityTable
        /\ rule.all = FALSE => \/ pair \in UNION {{p} \X rule.listed[p] : p \in Providers}
                               \/ pair \in capabilityTable /\ pair[2] \in rule.events
    BY <1>1, <1>2 DEF pair
  <1>4. pair[1] \notin rule.disabled
    BY <1>1
  <1> DEFINE listed == UNION {{p} \X rule.listed[p] : p \in Providers}
  <1> HIDE DEF listed
  <1>5. pair \in ruleSubscriptions(rule)
    <2>1. CASE rule.all
      <3>1. ruleSubscriptions(rule) = {x \in capabilityTable : x[1] \notin rule.disabled}
        BY <2>1 DEF ruleSubscriptions
      <3> QED BY <2>1, <3>1, <1>3, <1>4
    <2>2. CASE ~rule.all
      <3> DEFINE named == {y \in capabilityTable : y[2] \in rule.events}
      <3>1. rule.all = FALSE
        BY <2>2
      <3>2. ASSUME NEW x \in listed \cup named, x[1] \notin rule.disabled
            PROVE  x \in ruleSubscriptions(rule)
        BY <2>2, <3>2 DEF ruleSubscriptions, listed
      <3>3. pair \in listed \cup named
        <4>1. CASE pair \in listed
          BY <4>1
        <4>2. CASE pair \in capabilityTable /\ pair[2] \in rule.events
          BY <4>2
        <4> QED BY <3>1, <4>1, <4>2, <1>3 DEF listed
      <3> HIDE DEF named
      <3> QED BY <3>2, <3>3, <1>4
    <2> QED BY <2>1, <2>2
  <1> QED BY <1>1, <1>5 DEF WarnCapabilityDowngrades, pair

\* What the records call unsupported is what the loading warned about.
LEMMA CallsWarn == CallInv => LostEffectsWarned
  <1> SUFFICES ASSUME CallInv, daemon.system \in Providers
               PROVE  LostEffectsWarned
    BY DEF LostEffectsWarned
  <1> DEFINE pair == <<daemon.system, daemon.event>>
             Rule(action) == [all |-> FALSE, listed |-> [p \in Providers |-> {}],
                              events |-> {}, disabled |-> {}, action |-> action]
             Naming(action) ==
                 {[Rule(action) EXCEPT !.listed[daemon.system] = {daemon.event}]}
                 \cup {r \in {[Rule(action) EXCEPT !.events = {daemon.event}],
                              [Rule(action) EXCEPT !.all = TRUE]} : pair \in capabilityTable}
             Warns(action) == \A r \in Naming(action) : pair \in WarnCapabilityDowngrades(r)
  <1>1. ASSUME NEW action, unsupportedRuleEffect(action, daemon.system, daemon.event)
        PROVE  Warns(action)
    <2> SUFFICES ASSUME NEW r \in Naming(action) PROVE pair \in WarnCapabilityDowngrades(r)
      OBVIOUS
    <2>1. r.action = action /\ r.disabled = {}
      OBVIOUS
    <2>2. \/ r.all = TRUE /\ pair \in capabilityTable
          \/ /\ r.all = FALSE
             /\ \/ daemon.event \in r.listed[daemon.system]
                \/ pair \in capabilityTable /\ daemon.event \in r.events
      OBVIOUS
    <2> QED BY <1>1, <2>1, <2>2, LostEffectIsWarnedAbout
  <1>2. ASSUME daemon.block, daemon.verdict = "allow"
        PROVE  unsupportedRuleEffect("block", daemon.system, daemon.event)
    <2>1. ~CanBlock(daemon.system, daemon.event)
      BY <1>2 DEF CallInv, CallShape, AnswersItsVerdict
    <2> QED BY <2>1 DEF CanBlock, unsupportedRuleEffect
  <1>3. ASSUME NEW i \in DOMAIN daemon.records, daemon.records[i] = "unsupported_noop"
        PROVE  unsupportedRuleEffect(daemon.effects[i].action, daemon.system, daemon.event)
    BY <1>3 DEF CallInv, LossesAreReal
  <1> HIDE DEF Warns
  <1>4. /\ daemon.block /\ daemon.verdict = "allow" => Warns("block")
        /\ \A i \in DOMAIN daemon.records :
              daemon.records[i] = "unsupported_noop" => Warns(daemon.effects[i].action)
    BY <1>1, <1>2, <1>3
  <1> QED BY <1>4 DEF LostEffectsWarned, Warns

\* Whatever calls hosts make and whatever fails on the way, an identified host
\* that is neither stopped nor warned was let through by a stored verdict or by
\* the recovery of the configuration, no failure stops a host, each warning has
\* its record, a block that the rules found stops the host with its reason
\* where the capability table lets it, and loading the configuration warned
\* about each effect that an event takes away (cmd/agent-gate/main.go;
\* server.go: EvaluateHook; provider.go; capability_warn.go).
THEOREM CallsAreDecided == CallSpec => []DecisionsReachTheHost
  <1>1. CallInv => DecisionsReachTheHost
    BY CallsFailOpen, CallsBlock, CallsWarn DEF DecisionsReachTheHost
  <1> QED BY <1>1, CallInvariance, PTL

-----------------------------------------------------------------------------
(* Setup and install. *)

\* What is left of the stages of a command.
Lists == {<<>>, <<"config", "service", "hooks">>, <<"config", "hooks">>, <<"service", "hooks">>,
          <<"hooks">>, <<"service">>}
\* The service is still to be applied.
ServiceToCome == {<<"config", "service", "hooks">>, <<"service", "hooks">>, <<"service">>}
ServiceNext == {<<"service", "hooks">>, <<"service">>}

\* The record of a command, its stages and the files it writes.
SetupShape ==
    /\ setup = [pc |-> setup.pc, kind |-> setup.kind, stages |-> setup.stages,
                todo |-> setup.todo, providers |-> setup.providers, found |-> setup.found,
                outcome |-> setup.outcome, session |-> setup.session]
    /\ setup.stages \in Lists /\ setup.todo \in Lists
    /\ "service" \in Range(setup.stages) => setup.stages \in ServiceToCome
    /\ disk = [config |-> disk.config, service |-> disk.service, hooks |-> disk.hooks]

\* A daemon of the new executable answers only once it has run, and the stages
\* go past the service only then.
ServiceFirst ==
    /\ ran \in BOOLEAN
    /\ answering = "new" => ran
    /\ setup.pc = "waiting" => setup.todo \in ServiceNext
    /\ setup.pc \in {"confirming", "applying", "waiting"} /\ "service" \in Range(setup.stages) =>
           ran \/ setup.todo \in ServiceToCome

\* What the poll has found is in the store, and of this session.
FoundIsStored ==
    /\ setup.pc \notin {"polling", "idle"} => setup.found = {}
    /\ setup.pc = "polling" =>
           /\ setup.found \in {{}, {"intake"}, {"intake", "evaluation"}}
           /\ "intake" \in setup.found => Records("intake") # {}
           /\ "evaluation" \in setup.found =>
                  \E r \in Records("evaluation") : r.verdict = "allow"
    /\ \A r \in store : r.kind = "intake" => r.verdict = "none"

\* The inductive invariant of the setup.
SetupInv == SetupShape /\ ServiceFirst /\ FoundIsStored

\* No command has begun, and the store is empty.
LEMMA SetupStarts == SetupInit => SetupInv
  <1>1. "service" \notin Range(<<>>)
    BY DEF Range
  <1> QED
    <2>1. SetupInit => SetupShape /\ FoundIsStored
      BY <1>1 DEF SetupInit, SetupShape, FoundIsStored, NoSetup, Lists
    <2>2. SetupInit => ServiceFirst
      <3>1. SetupInit => ran \in BOOLEAN /\ answering # "new"
        BY DEF SetupInit
      <3>2. SetupInit => setup.pc = "idle"
        BY DEF SetupInit, NoSetup
      <3> QED BY <3>1, <3>2 DEF ServiceFirst
    <2> QED BY <2>1, <2>2 DEF SetupInv

\* The stages that a command may have, and those among them with a service.
LEMMA StagesOfKinds ==
    ASSUME NEW k \in Kinds
    PROVE  /\ k.stages \in Lists
           /\ "service" \in Range(k.stages) => k.stages \in ServiceToCome
  <1>1. \A s \in {<<"config", "hooks">>, <<"hooks">>} : "service" \notin Range(s)
    BY DEF Range
  <1> QED BY <1>1 DEF Kinds, Stages, Lists, ServiceToCome

\* Taking the first stage off.
LEMMA TailOfStages ==
    ASSUME NEW s \in Lists, s # <<>>
    PROVE  /\ Tail(s) \in Lists
           /\ s \in ServiceToCome /\ Head(s) # "service" => Tail(s) \in ServiceToCome
           /\ Head(s) = "service" => s \in ServiceNext
           /\ Head(s) = "hooks" => s \notin ServiceToCome
  <1>1. CASE s = <<"config", "service", "hooks">>
    BY <1>1 DEF Lists, ServiceToCome
  <1>2. CASE s = <<"config", "hooks">>
    BY <1>2 DEF Lists, ServiceToCome
  <1>3. CASE s = <<"service", "hooks">>
    BY <1>3 DEF Lists, ServiceNext
  <1>4. CASE s = <<"hooks">>
    BY <1>4 DEF Lists, ServiceToCome
  <1>5. CASE s = <<"service">>
    BY <1>5 DEF Lists, ServiceNext
  <1> QED BY <1>1, <1>2, <1>3, <1>4, <1>5 DEF Lists

\* The stages of the command.
LEMMA StageSteps ==
    ASSUME SetupInv,
           \/ \E command \in Kinds : \E chosen \in SUBSET Range(SetupProviders) :
                 BeginSetup(command, chosen)
           \/ PrepareInstallation \/ Confirm \/ ApplyConfig \/ ApplyService \/ WaitReady
           \/ ApplyHooks \/ ApplyDone
    PROVE  SetupInv'
  <1> USE DEF SetupInv
  <1>1. ASSUME NEW command \in Kinds, NEW chosen \in SUBSET Range(SetupProviders),
               BeginSetup(command, chosen)
        PROVE  SetupInv'
    BY <1>1, StagesOfKinds
    DEF BeginSetup, SetupShape, ServiceFirst, FoundIsStored, NoSetup, Machine, Running, Lists
  <1> USE DEF Running, Machine, SetupShape, FoundIsStored
  <1>2. CASE PrepareInstallation
    BY <1>2 DEF PrepareInstallation, End, ServiceFirst
  <1>3. CASE Confirm
    BY <1>3 DEF Confirm, End, Step, ServiceFirst
  <1>4. CASE ApplyConfig
    <2>1. CASE StageDone
      BY <1>4, <2>1, TailOfStages DEF ApplyConfig, NextStage, StageDone, ServiceFirst
    <2>2. CASE End("config")
      BY <1>4, <2>2 DEF ApplyConfig, End, ServiceFirst
    <2> QED BY <1>4, <2>1, <2>2 DEF ApplyConfig
  <1>5. CASE ApplyService
    <2>3. ran' \in BOOLEAN /\ (ran => ran') /\ (answering' = "new" => ran')
      <3>1. CASE ran' = (ran \/ answering' = "new")
        BY <3>1
      <3>2. CASE UNCHANGED <<disk, answering, ran>>
        BY <3>2 DEF ServiceFirst
      <3> QED BY <1>5, <3>1, <3>2 DEF ApplyService
    <2>4. UNCHANGED <<pending, store, failures>> /\ NextStage("service")
      BY <1>5 DEF ApplyService
    <2>1. CASE Step("waiting") /\ disk' = [disk EXCEPT !.service = "new"]
      BY <2>1, <2>3, <2>4, TailOfStages DEF NextStage, Step, ServiceFirst
    <2>2. CASE End("service") /\ UNCHANGED disk
      BY <2>2, <2>3, <2>4 DEF NextStage, End, ServiceFirst
    <2> QED BY <1>5, <2>1, <2>2 DEF ApplyService
  <1>6. CASE WaitReady
    <2>1. CASE End("service")
      BY <1>6, <2>1 DEF WaitReady, End, ServiceFirst
    <2>2. CASE answering = "new" /\ setup' = [setup EXCEPT !.pc = "applying", !.todo = Tail(@)]
      <3>1. setup.todo \in Lists /\ setup.todo # <<>>
        BY <1>6 DEF WaitReady, ServiceFirst, ServiceNext, Lists
      <3> QED BY <1>6, <2>2, <3>1, TailOfStages DEF WaitReady, ServiceFirst
    <2> QED BY <1>6, <2>1, <2>2 DEF WaitReady
  <1>7. CASE ApplyHooks
    <2>1. CASE StageDone
      BY <1>7, <2>1, TailOfStages DEF ApplyHooks, NextStage, StageDone, ServiceFirst
    <2>2. CASE End("hooks")
      BY <1>7, <2>2 DEF ApplyHooks, End, ServiceFirst
    <2>3. CASE UNCHANGED setup
      BY <1>7, <2>3 DEF ApplyHooks, ServiceFirst, Records, Probed
    <2> QED BY <1>7, <2>1, <2>2, <2>3 DEF ApplyHooks
  <1>8. CASE ApplyDone
    BY <1>8 DEF ApplyDone, Step, End, ServiceFirst
  <1> QED BY <1>1, <1>2, <1>3, <1>4, <1>5, <1>6, <1>7, <1>8

\* The probes.
LEMMA ProbeSteps ==
    ASSUME SetupInv,
           RunProbe \/ ProbeIntake \/ ProbeEvaluation \/ ProbeAudit \/ ProbeTimeout \/ SetupComplete
    PROVE  SetupInv'
  <1> USE DEF SetupInv, Running, Machine, SetupShape, ServiceFirst
  <1>1. CASE RunProbe
    BY <1>1 DEF RunProbe, Step, End, FoundIsStored
  <1>2. CASE ProbeIntake
    <2>1. CASE setup' = [setup EXCEPT !.found = {"intake"}]
      <3>1. Records("intake")' = Records("intake")
        BY <1>2, <2>1 DEF ProbeIntake, Records, Probed
      <3> QED BY <1>2, <2>1, <3>1 DEF ProbeIntake, FoundIsStored
    <2>2. CASE End("probe")
      BY <1>2, <2>2 DEF ProbeIntake, End, FoundIsStored
    <2> QED BY <1>2, <2>1, <2>2 DEF ProbeIntake
  <1>3. CASE ProbeEvaluation
    <2>1. CASE setup' = [setup EXCEPT !.found = {"intake", "evaluation"}]
               /\ Cardinality(FirstMode(Records("evaluation"))) = 1
               /\ \A r \in FirstMode(Records("evaluation")) : r.verdict = "allow"
      <3>1. FirstMode(Records("evaluation")) # {}
        BY <2>1, FS_EmptySet
      <3>2. FirstMode(Records("evaluation")) \subseteq Records("evaluation")
        BY DEF FirstMode
      <3>3. \E r \in Records("evaluation") : r.verdict = "allow"
        BY <2>1, <3>1, <3>2
      <3> HIDE DEF ServiceFirst
      <3>4. SetupShape' /\ ServiceFirst'
        BY <1>3, <2>1 DEF ProbeEvaluation, ServiceFirst
      <3>5. Records("intake")' = Records("intake")
        BY <1>3, <2>1 DEF ProbeEvaluation, Records, Probed
      <3>6. Records("evaluation")' = Records("evaluation")
        BY <1>3, <2>1 DEF ProbeEvaluation, Records, Probed
      <3> QED BY <1>3, <2>1, <3>3, <3>4, <3>5, <3>6 DEF ProbeEvaluation, FoundIsStored
    <2>2. CASE End("probe")
      BY <1>3, <2>2 DEF ProbeEvaluation, End, FoundIsStored
    <2> QED BY <1>3, <2>1, <2>2 DEF ProbeEvaluation
  <1>4. CASE ProbeAudit
    BY <1>4 DEF ProbeAudit, End, FoundIsStored
  <1>5. CASE ProbeTimeout
    BY <1>5 DEF ProbeTimeout, End, FoundIsStored
  <1>6. CASE SetupComplete
    BY <1>6 DEF SetupComplete, End, FoundIsStored
  <1> QED BY <1>1, <1>2, <1>3, <1>4, <1>5, <1>6

\* The daemon adds records and takes none away.
LEMMA DaemonAdvances ==
    ASSUME SetupInv, NEW records, NEW job, NEW next, AdvanceSetup(job, next, records),
           \A r \in records : r.kind = "intake" => r.verdict = "none"
    PROVE  SetupInv'
  <1>1. SetupShape' /\ ServiceFirst'
    BY DEF SetupInv, AdvanceSetup, SetupShape, ServiceFirst
  <1>2. \A kind : Records(kind) \subseteq Records(kind)'
    BY DEF AdvanceSetup, Records, Probed
  <1>3. FoundIsStored'
    BY <1>2 DEF SetupInv, AdvanceSetup, FoundIsStored
  <1> QED BY <1>1, <1>3 DEF SetupInv

\* The daemon's own steps.
LEMMA DaemonSteps ==
    ASSUME SetupInv,
           \/ \E job \in pending :
                 \/ DaemonIntake(job)
                 \/ \E mode \in Range(ModeOrder), verdict \in {"allow", "block"} :
                       DaemonEvaluates(job, mode, verdict)
                 \/ \E verdict \in {"allow", "block"} : DaemonAudits(job, verdict)
           \/ DaemonDies \/ DaemonStarts
    PROVE  SetupInv'
  <1>1. ASSUME NEW job \in pending, DaemonIntake(job) PROVE SetupInv'
    <2>1. \A r \in {Record(job[1], job[2], "intake", "none", "none")} : r.verdict = "none"
      BY DEF Record
    <2> QED BY <1>1, <2>1, DaemonAdvances DEF DaemonIntake
  <1>2. ASSUME NEW job \in pending, NEW mode, NEW verdict, DaemonEvaluates(job, mode, verdict)
        PROVE  SetupInv'
    <2>1. \A r \in {Record(job[1], job[2], "evaluation", mode, verdict)} : r.kind # "intake"
      BY DEF Record
    <2> QED BY <1>2, <2>1, DaemonAdvances DEF DaemonEvaluates
  <1>3. ASSUME NEW job \in pending, NEW verdict, DaemonAudits(job, verdict) PROVE SetupInv'
    <2>1. \A r \in {Record(job[1], job[2], "audit", "none", verdict)} : r.kind # "intake"
      BY DEF Record
    <2> QED BY <1>3, <2>1, DaemonAdvances DEF DaemonAudits
  <1>4. CASE DaemonDies
    BY <1>4 DEF SetupInv, DaemonDies, SetupShape, ServiceFirst, FoundIsStored, Records, Probed
  <1>5. CASE DaemonStarts
    BY <1>5 DEF SetupInv, DaemonStarts, SetupShape, ServiceFirst, FoundIsStored, Records, Probed
  <1> QED BY <1>1, <1>2, <1>3, <1>4, <1>5

\* The invariant, for any providers, commands and crashes.
THEOREM SetupInvariance == SetupSpec => []SetupInv
  <1>1. SetupInv /\ SetupNext => SetupInv'
    BY StageSteps, ProbeSteps, DaemonSteps DEF SetupNext
  <1>2. SetupInv /\ UNCHANGED setupVars => SetupInv'
    BY DEF SetupInv, setupVars, SetupShape, ServiceFirst, FoundIsStored, Records, Probed
  <1> QED BY <1>1, <1>2, SetupStarts, PTL DEF SetupSpec

\* What the operator is told of a setup holds, for any providers and failures:
\* the hooks are registered only once the new executable has run, and a probe
\* that succeeds was taken, judged and audited in this session.
\* (cli: setup.go, applyManagedInstallation, runSetupProbe)
THEOREM SetupCorrect == SetupSpec => SetupSafe
  <1> DEFINE Registered == disk'.hooks # disk.hooks /\ "service" \in Range(setup.stages) => ran
             Durable == Running("polling") /\ setup'.pc = "probing" =>
                 \A kind \in {"intake", "evaluation", "audit"} : \E r \in store :
                     /\ r.kind = kind /\ r.p = Probed /\ r.session = setup.session
                     /\ r.verdict = IF kind = "intake" THEN "none" ELSE "allow"
  <1>1. SetupInv /\ [SetupNext]_setupVars => [Registered]_setupVars
    <2> SUFFICES ASSUME SetupInv, SetupNext, disk'.hooks # disk.hooks,
                        "service" \in Range(setup.stages)
                 PROVE  ran
      BY DEF setupVars
    <2>1. ApplyHooks
      BY DEF SetupInv, SetupShape, SetupNext, BeginSetup, PrepareInstallation, Confirm, ApplyConfig,
             ApplyService, WaitReady, ApplyDone, RunProbe, ProbeIntake, ProbeEvaluation, ProbeAudit,
             ProbeTimeout, SetupComplete, DaemonIntake, DaemonEvaluates, DaemonAudits, AdvanceSetup,
             DaemonDies, DaemonStarts, Machine
    <2> QED BY <2>1, TailOfStages DEF SetupInv, SetupShape, ServiceFirst, ApplyHooks, NextStage, Running
  <1>2. SetupInv /\ [SetupNext]_setupVars => [Durable]_setupVars
    <2> SUFFICES ASSUME SetupInv, SetupNext, Running("polling"), setup'.pc = "probing"
                 PROVE  Durable
      BY DEF setupVars
    <2>1. ProbeAudit
      BY DEF SetupInv, SetupShape, SetupNext, BeginSetup, PrepareInstallation, Confirm, ApplyConfig,
             ApplyService, WaitReady, ApplyHooks, NextStage, ApplyDone, RunProbe, ProbeIntake, ProbeEvaluation,
             ProbeTimeout, SetupComplete, DaemonIntake, DaemonEvaluates, DaemonAudits, AdvanceSetup,
             DaemonDies, DaemonStarts, Running, End
    <2>2. \E r \in Records("audit") : r.verdict = "allow"
      BY <2>1 DEF ProbeAudit, SetupInv, SetupShape, End
    <2>3. \E r \in Records("evaluation") : r.verdict = "allow"
      BY <2>1 DEF ProbeAudit, SetupInv, FoundIsStored, Running
    <2>4. \E r \in Records("intake") : r.verdict = "none"
      BY <2>1 DEF ProbeAudit, SetupInv, FoundIsStored, Running, Records
    <2> QED BY <2>2, <2>3, <2>4 DEF Records
  <1> QED
    BY <1>1, <1>2, SetupInvariance, PTL DEF SetupSpec, SetupSafe, HooksAfterService, CompleteIsDurable

-----------------------------------------------------------------------------
(* Reset. *)

\* A process has started at some time, from an executable of ours or another.
ResetProcess == [start : Nat \ {0}, image : {"gate", "deleted", "other"}]
ResetIdentity == [pid : ResetPids, start : Nat]

\* The record of a reset and the processes.
ResetShape ==
    /\ reset = [pc |-> reset.pc, targets |-> reset.targets, frozen |-> reset.frozen,
                level |-> reset.level, seenAt |-> reset.seenAt, todo |-> reset.todo,
                checkedAt |-> reset.checkedAt, teardown |-> reset.teardown,
                outcome |-> reset.outcome, resets |-> reset.resets, victims |-> reset.victims]
    /\ reset.todo \in Seq(Artifacts)
    /\ reset.frozen \subseteq ResetIdentity /\ reset.victims \subseteq ResetIdentity
    /\ reset.checkedAt \in Nat /\ births \in Nat
    /\ proc \in [ResetPids -> SUBSET ResetProcess]

\* One process has a PID at a time, and processes start one after the other.
OneByOne ==
    \A pid \in ResetPids : \A p \in proc[pid] :
        p.start <= births /\ \A q \in proc[pid] : p = q

\* Nothing of what is to be removed is protected from it.
NothingKeptToRemove ==
    reset.pc # "idle" =>
        /\ reset.targets \in ResetTargetSets
        /\ \A i \in DOMAIN reset.todo : layout[reset.todo[i]] \cap Protected = {}

\* A daemon of the file at the path that runs while data is removed has started
\* after the check.
CheckedBefore ==
    /\ reset.pc \in {"preparing", "prepared", "staging", "stopping"} => reset.checkedAt = 0
    /\ reset.checkedAt <= births
    /\ reset.pc \in {"purging", "removing"} =>
           \A pid \in ResetPids : \A p \in proc[pid] :
               p.image = "gate" => p.start > reset.checkedAt

\* Whoever has the PID of an inspected daemon is that daemon, or is younger
\* than the inspection.
Inspected(identity) ==
    \A p \in proc[identity.pid] : p.start = identity.start \/ p.start > reset.seenAt
SignalsKnown ==
    /\ reset.pc \in {"inspecting", "signalling"} => reset.frozen # {}
    /\ reset.pc = "signalling" => Inspected(Current)
    /\ reset.pc = "terminating" => \A identity \in reset.victims : Inspected(identity)
    /\ reset.pc \in {"signalling", "terminating"} => reset.seenAt \in Nat /\ reset.seenAt <= births

\* The inductive invariant of the reset.
ResetInv ==
    /\ ResetShape /\ OneByOne /\ NothingKeptToRemove /\ CheckedBefore /\ SignalsKnown
    /\ OnlyInspectedSignalled

\* The manager's job is down from the stop of the service to the removal.
ServiceDown ==
    /\ service.state \in {"absent", "stopped"} => service.pid = 0
    /\ /\ reset.pc \in {"awaiting", "inspecting", "signalling", "purging", "removing"}
       /\ requiresServiceStop
       => service.state \in {"absent", "stopped"}

\* Processes whose executable is unlinked stay as old and as many as they were.
LEMMA UnlinkedProcesses ==
    ASSUME NEW S \in SUBSET ResetProcess
    PROVE  /\ Unlinked(S) \subseteq ResetProcess
           /\ \A p \in Unlinked(S) : p.image # "gate" /\ \E q \in S : p.start = q.start
           /\ (\A p, q \in S : p = q) => \A p, q \in Unlinked(S) : p = q
  <1> DEFINE After(q) == [q EXCEPT !.image = IF @ = "gate" THEN "deleted" ELSE @]
  <1>1. \A p \in Unlinked(S) : \E q \in S : p = After(q)
    BY DEF Unlinked
  <1>2. \A q \in S : After(q) \in ResetProcess /\ After(q).image # "gate"
                    /\ After(q).start = q.start
    BY DEF ResetProcess
  <1> HIDE DEF After
  <1>3. Unlinked(S) \subseteq ResetProcess
        /\ \A p \in Unlinked(S) : p.image # "gate" /\ \E q \in S : p.start = q.start
    BY <1>1, <1>2
  <1>4. (\A p, q \in S : p = q) => \A p, q \in Unlinked(S) : p = q
    BY <1>1
  <1> QED BY <1>3, <1>4

\* The two processes of the start are the oldest.
LEMMA ResetStarts == ResetInit => ResetInv
  <1> SUFFICES ASSUME ResetInit PROVE ResetInv
    OBVIOUS
  <1>1. proc \in [ResetPids -> SUBSET ResetProcess] /\ OneByOne
    BY DEF ResetInit, ResetProcess, OneByOne
  <1>2. reset = NoReset /\ births = 2 /\ signalled = {}
    BY DEF ResetInit
  <1> QED
    BY <1>1, <1>2 DEF ResetInv, ResetShape, NothingKeptToRemove, CheckedBefore, SignalsKnown,
                      OnlyInspectedSignalled, NoReset

\* The paths of a removal.
LEMMA RemovalPathsAreArtifacts == removalPaths \in Seq(Artifacts)
  <1>1. \A x \in Artifacts : <<x>> \in Seq(Artifacts)
    OBVIOUS
  <1>2. <<>> \in Seq(Artifacts)
    OBVIOUS
  <1>3. \A s, t \in Seq(Artifacts) : s \o t \in Seq(Artifacts)
    OBVIOUS
  <1>4. {"state", "logs", "cache", "sockets", "service", "binary", "config"} \subseteq Artifacts
    BY DEF Artifacts
  <1> DEFINE Chosen(target) == IF selects(target) THEN <<target>> ELSE <<>>
  <1>5. \A x \in Artifacts : Chosen(x) \in Seq(Artifacts)
    BY <1>1, <1>2
  <1>6. (IF selects("state") THEN <<"state">> ELSE Chosen("logs")) \in Seq(Artifacts)
    BY <1>1, <1>4, <1>5
  <1> HIDE DEF Chosen
  <1>7. (IF selects("state") THEN <<"state">> ELSE Chosen("logs"))
          \o Chosen("cache") \o Chosen("sockets") \o Chosen("service")
          \o Chosen("binary") \o Chosen("config") \in Seq(Artifacts)
    BY <1>3, <1>4, <1>5, <1>6, ZenonT(30)
  <1> QED BY <1>7 DEF removalPaths, Chosen

\* The steps of the reset before it stops anything change no process, and
\* what is removed later is checked against what is kept.
LEMMA EarlySteps ==
    ASSUME ResetInv, ResetShape',
           UNCHANGED <<layout, proc, births, signalled>>,
           reset'.pc \in {"idle", "preparing", "prepared", "staging", "stopping"},
           reset'.pc # "idle" => reset'.checkedAt = 0,
           reset'.checkedAt \in {0, reset.checkedAt},
           NothingKeptToRemove'
    PROVE  ResetInv'
  <1>1. OneByOne' /\ OnlyInspectedSignalled'
    BY DEF ResetInv, OneByOne, OnlyInspectedSignalled
  <1>2. CheckedBefore'
    BY DEF ResetInv, ResetShape, CheckedBefore
  <1>3. SignalsKnown'
    BY DEF SignalsKnown
  <1> QED BY <1>1, <1>2, <1>3 DEF ResetInv

\* The steps before anything is stopped.
LEMMA PreparingSteps ==
    ASSUME ResetInv,
           \/ \E targets \in ResetTargetSets : BeginReset(targets)
           \/ PrepareReset \/ applyHookReset \/ ApplyPreflight \/ prepareResetStage
    PROVE  ResetInv'
  <1> USE DEF AtStep, World
  <1>1. ASSUME NEW targets \in ResetTargetSets, BeginReset(targets) PROVE ResetInv'
    <2>1. reset' = [pc |-> "preparing", targets |-> targets, frozen |-> {}, level |-> 0,
                    seenAt |-> 0, todo |-> <<>>, checkedAt |-> 0, teardown |-> FALSE,
                    outcome |-> "none", resets |-> reset.resets + 1, victims |-> {}]
      BY <1>1 DEF BeginReset, NoReset
    <2>2. ResetShape'
      <3>1. UNCHANGED <<proc, births>> /\ births \in Nat
            /\ proc \in [ResetPids -> SUBSET ResetProcess]
        BY <1>1 DEF BeginReset, ResetInv, ResetShape
      <3>2. <<>> \in Seq(Artifacts)
        OBVIOUS
      <3>3. /\ reset'.todo = <<>> /\ reset'.frozen = {} /\ reset'.victims = {}
            /\ reset'.checkedAt = 0
        BY <2>1
      <3>4. reset' = [pc |-> reset'.pc, targets |-> reset'.targets, frozen |-> reset'.frozen,
                level |-> reset'.level, seenAt |-> reset'.seenAt, todo |-> reset'.todo,
                checkedAt |-> reset'.checkedAt, teardown |-> reset'.teardown,
                outcome |-> reset'.outcome, resets |-> reset'.resets, victims |-> reset'.victims]
        BY <2>1
      <3> QED BY <3>1, <3>2, <3>3, <3>4 DEF ResetShape
    <2>3. reset'.pc = "preparing" /\ reset'.checkedAt = 0 /\ reset'.todo = <<>>
          /\ reset'.targets = targets
      BY <2>1
    <2>4. NothingKeptToRemove'
      BY <2>3 DEF NothingKeptToRemove
    <2> QED BY <1>1, <2>2, <2>3, <2>4, EarlySteps DEF BeginReset
  <1>2. CASE PrepareReset
    <2>1. \A pid \in daemonPIDs : Identity(pid) \in ResetIdentity
      <3> SUFFICES ASSUME NEW pid \in daemonPIDs PROVE Identity(pid) \in ResetIdentity
        OBVIOUS
      <3>1. pid \in ResetPids /\ proc[pid] # {} /\ proc[pid] \subseteq ResetProcess
        BY DEF daemonPIDs, WithImage, ResetInv, ResetShape
      <3>2. (CHOOSE p \in proc[pid] : TRUE) \in ResetProcess
        BY <3>1
      <3> QED BY <3>1, <3>2 DEF Identity, ResetIdentity, ResetProcess
    <2>2. {Identity(pid) : pid \in daemonPIDs} \subseteq ResetIdentity
      BY <2>1
    <2> DEFINE found == {Identity(pid) : pid \in daemonPIDs}
    <2>3. \/ reset' = [reset EXCEPT !.pc = "prepared", !.frozen = found]
          \/ reset' = [reset EXCEPT !.pc = "idle", !.outcome = "prepare"]
      BY <1>2 DEF PrepareReset, Return
    <2> HIDE DEF found
    <2>4. found \subseteq ResetIdentity
      BY <2>2 DEF found
    <2>5. ResetShape'
      BY <1>2, <2>3, <2>4 DEF PrepareReset, ResetInv, ResetShape
    <2>6. /\ reset'.pc \in {"idle", "prepared"} /\ reset'.targets = reset.targets
          /\ reset'.todo = reset.todo /\ reset'.checkedAt = reset.checkedAt
      BY <2>3 DEF ResetInv, ResetShape
    <2>7. reset.checkedAt = 0
      BY <1>2 DEF PrepareReset, ResetInv, CheckedBefore
    <2>8. NothingKeptToRemove'
      BY <1>2, <2>6 DEF PrepareReset, ResetInv, NothingKeptToRemove, Protected, selects
    <2> QED BY <1>2, <2>5, <2>6, <2>7, <2>8, EarlySteps DEF PrepareReset
  <1>3. CASE applyHookReset
    <2>1. ResetShape' /\ reset'.pc = "idle" /\ reset'.checkedAt = reset.checkedAt
      BY <1>3 DEF applyHookReset, Return, ResetInv, ResetShape
    <2> QED BY <1>3, <2>1, EarlySteps DEF applyHookReset, NothingKeptToRemove
  <1>4. CASE ApplyPreflight
    <2>1. CASE validatePaths(Range(removalPaths))
               /\ reset' = [reset EXCEPT !.pc = "staging", !.todo = removalPaths]
      <3>1. ResetShape'
        BY <1>4, <2>1, RemovalPathsAreArtifacts DEF ApplyPreflight, ResetInv, ResetShape
      <3>2. /\ reset'.pc = "staging" /\ reset'.targets = reset.targets
            /\ reset'.todo = removalPaths /\ reset'.checkedAt = reset.checkedAt
        BY <2>1 DEF ResetInv, ResetShape
      <3>3. NothingKeptToRemove'
        BY <1>4, <2>1, <3>2
        DEF ApplyPreflight, ResetInv, NothingKeptToRemove, validatePaths, Range, Protected, selects
      <3>4. reset.checkedAt = 0
        BY <1>4 DEF ApplyPreflight, ResetInv, CheckedBefore
      <3> QED BY <1>4, <3>1, <3>2, <3>3, <3>4, EarlySteps DEF ApplyPreflight
    <2>2. CASE Return("preflight")
      <3>1. ResetShape' /\ reset'.pc = "idle" /\ reset'.checkedAt = reset.checkedAt
        BY <1>4, <2>2 DEF ApplyPreflight, Return, ResetInv, ResetShape
      <3> QED BY <1>4, <3>1, EarlySteps DEF ApplyPreflight, NothingKeptToRemove
    <2> QED BY <1>4, <2>1, <2>2 DEF ApplyPreflight
  <1>5. CASE prepareResetStage
    <2>1. Go("stopping") \/ Return("stage")
      BY <1>5 DEF prepareResetStage
    <2>2. ResetShape'
      BY <1>5, <2>1 DEF prepareResetStage, Go, Return, ResetInv, ResetShape
    <2>3. /\ reset'.pc \in {"idle", "stopping"} /\ reset'.targets = reset.targets
          /\ reset'.todo = reset.todo /\ reset'.checkedAt = reset.checkedAt
      BY <2>1 DEF Go, Return, ResetInv, ResetShape
    <2>4. reset.checkedAt = 0
      BY <1>5 DEF prepareResetStage, ResetInv, CheckedBefore
    <2>5. NothingKeptToRemove'
      BY <1>5, <2>3 DEF prepareResetStage, ResetInv, NothingKeptToRemove, Protected, selects
    <2> QED BY <1>5, <2>2, <2>3, <2>4, <2>5, EarlySteps DEF prepareResetStage
  <1> QED BY <1>1, <1>2, <1>3, <1>4, <1>5

\* A reset that is given up, or goes on with less to remove and nobody new
\* running.
LEMMA GoesOn ==
    ASSUME ResetInv, ResetShape', births' = births, signalled' = signalled, layout' = layout,
           \A pid \in ResetPids :
               proc'[pid] \subseteq proc[pid] \/ proc'[pid] = Unlinked(proc[pid]),
           reset.pc # "idle",
           reset'.pc \in {"idle", "awaiting", "purging", "removing", "removed", "cleaning",
                          "writing", "listing", "readying"},
           reset'.targets = reset.targets,
           reset'.todo = reset.todo \/ (reset.todo # <<>> /\ reset'.todo = Tail(reset.todo)),
           reset'.checkedAt = reset.checkedAt,
           reset'.pc \in {"purging", "removing"} =>
               \/ reset.pc \in {"purging", "removing"}
               \/ reset.checkedAt = 0
    PROVE  ResetInv'
  <1> USE UnlinkedProcesses
  <1>1. OneByOne'
    <2>1. \A pid \in ResetPids : proc[pid] \in SUBSET ResetProcess
      BY DEF ResetInv, ResetShape
    <2>2. \A pid \in ResetPids : \A p, q \in proc[pid] : p = q
      BY DEF ResetInv, OneByOne
    <2>3. \A pid \in ResetPids : \A p, q \in proc'[pid] : p = q
      BY <2>1, <2>2
    <2>4. \A pid \in ResetPids : \A p \in proc'[pid] : \E q \in proc[pid] : p.start = q.start
      BY <2>1
    <2> QED BY <2>3, <2>4 DEF ResetInv, OneByOne
  <1>2. NothingKeptToRemove'
    <2>1. CASE reset'.todo = reset.todo
      BY <2>1 DEF ResetInv, NothingKeptToRemove, Protected, selects
    <2>2. CASE reset.todo # <<>> /\ reset'.todo = Tail(reset.todo)
      <3>1. reset.todo \in Seq(Artifacts)
        BY DEF ResetInv, ResetShape
      <3>2. \A i \in DOMAIN reset'.todo :
              i + 1 \in DOMAIN reset.todo /\ reset'.todo[i] = reset.todo[i + 1]
        BY <2>2, <3>1
      <3> QED BY <3>2 DEF ResetInv, NothingKeptToRemove, Protected, selects
    <2> QED BY <2>1, <2>2
  <1>3. CheckedBefore'
    <2>1. \A pid \in ResetPids : \A p \in proc[pid] : p.start > 0 /\ p.start \in Nat
      BY DEF ResetInv, ResetShape, ResetProcess
    <2>2. \A pid \in ResetPids : \A p \in proc'[pid] : p.image = "gate" => p \in proc[pid]
      BY DEF ResetInv, ResetShape
    <2> QED BY <2>1, <2>2 DEF ResetInv, ResetShape, CheckedBefore
  <1>4. SignalsKnown'
    BY DEF SignalsKnown
  <1>5. OnlyInspectedSignalled'
    BY DEF ResetInv, OnlyInspectedSignalled
  <1> QED BY <1>1, <1>2, <1>3, <1>4, <1>5 DEF ResetInv

\* Stopping the service and waiting for the daemons.
LEMMA StoppingSteps ==
    ASSUME ResetInv, StopService \/ awaitProcessExit \/ SignalInspect \/ CheckRemaining
    PROVE  ResetInv'
  <1> USE DEF AtStep, World
  <1>1. CASE StopService
    <2>1. Go("purging") \/ Go("awaiting") \/ Fail("stop service")
      BY <1>1 DEF StopService
    <2>2. proc' = proc \/ (service.pid # 0 /\ proc' = [proc EXCEPT ![service.pid] = {}])
      BY <1>1 DEF StopService, WithoutJob
    <2>3. ResetShape'
      BY <1>1, <2>1, <2>2 DEF StopService, Go, Fail, ResetInv, ResetShape
    <2>4. \A pid \in ResetPids : proc'[pid] \subseteq proc[pid]
      BY <2>2 DEF ResetInv, ResetShape
    <2>5. reset.checkedAt = 0
      BY <1>1 DEF StopService, ResetInv, CheckedBefore
    <2> QED BY <1>1, <2>1, <2>3, <2>4, <2>5, GoesOn DEF StopService, Go, Fail, ResetInv, ResetShape
  <1>2. CASE awaitProcessExit
    <2>1. CASE reset' = [reset EXCEPT !.frozen = @ \ {Current}, !.level = 0] \/ Fail("stop daemon")
      <3>1. ResetShape'
        BY <1>2, <2>1 DEF awaitProcessExit, Fail, ResetInv, ResetShape
      <3> QED BY <1>2, <2>1, <3>1, GoesOn DEF awaitProcessExit, Fail, ResetInv, ResetShape
    <2>2. CASE reset' = [reset EXCEPT !.pc = "inspecting", !.level = @ + 1]
      BY <1>2, <2>2
      DEF awaitProcessExit, ResetInv, ResetShape, OneByOne, NothingKeptToRemove, CheckedBefore,
          SignalsKnown, OnlyInspectedSignalled, Protected, selects
    <2> QED BY <1>2, <2>1, <2>2 DEF awaitProcessExit
  <1>3. CASE SignalInspect
    <2>1. CASE Go("awaiting") \/ Fail("stop daemon")
      <3>1. ResetShape'
        BY <1>3, <2>1 DEF SignalInspect, Fail, Go, ResetInv, ResetShape
      <3> QED BY <1>3, <2>1, <3>1, GoesOn DEF SignalInspect, Fail, Go, ResetInv, ResetShape
    <2>2. CASE Same(Current) /\ reset' = [reset EXCEPT !.pc = "signalling", !.seenAt = births]
      <3>1. Current \in reset.frozen /\ Current \in ResetIdentity
        BY <1>3 DEF SignalInspect, Current, ResetInv, SignalsKnown, ResetShape
      <3>2. \A p \in proc[Current.pid] : p.start = Current.start
        BY <2>2, <3>1 DEF Same, inspectProcess, ResetInv, OneByOne, ResetIdentity
      <3>3. Current' = Current
        BY <2>2 DEF Current, ResetInv, ResetShape
      <3>4. UNCHANGED <<proc, births>> /\ births \in Nat
        BY <1>3 DEF SignalInspect, ResetInv, ResetShape
      <3>5. reset'.pc = "signalling" /\ reset'.seenAt = births /\ reset'.frozen = reset.frozen
        BY <2>2 DEF ResetInv, ResetShape
      <3>6. SignalsKnown'
        BY <3>1, <3>2, <3>3, <3>4, <3>5 DEF SignalsKnown, Inspected
      <3> QED
        BY <1>3, <2>2, <3>6
        DEF SignalInspect, ResetInv, ResetShape, OneByOne, NothingKeptToRemove, CheckedBefore,
            OnlyInspectedSignalled, Protected, selects
    <2> QED BY <1>3, <2>1, <2>2 DEF SignalInspect, Reused
  <1>4. CASE CheckRemaining
    <2>1. CASE Fail("stop daemon")
      <3>1. ResetShape'
        BY <1>4, <2>1 DEF CheckRemaining, Fail, ResetInv, ResetShape
      <3> QED BY <1>4, <2>1, <3>1, GoesOn DEF CheckRemaining, Fail, ResetInv, ResetShape
    <2>2. CASE daemonPIDs = {} /\ reset' = [reset EXCEPT !.pc = "purging", !.checkedAt = births]
      <3>1. CheckedBefore'
        BY <1>4, <2>2
        DEF CheckRemaining, daemonPIDs, WithImage, CheckedBefore, ResetInv, ResetShape
      <3> QED
        BY <1>4, <2>2, <3>1
        DEF CheckRemaining, ResetInv, ResetShape, OneByOne, NothingKeptToRemove,
            SignalsKnown, OnlyInspectedSignalled, Protected, selects
    <2> QED BY <1>4, <2>1, <2>2 DEF CheckRemaining
  <1> QED BY <1>1, <1>2, <1>3, <1>4

\* A signal is sent, to who was inspected or to who is younger.
LEMMA SignalsSent ==
    ASSUME ResetInv, NEW identity \in ResetIdentity, Inspected(identity), reset.seenAt \in Nat,
           Signal(identity.pid, {identity.start}), births' = births,
           ResetShape', proc' \in {proc, [proc EXCEPT ![identity.pid] = {}]}
    PROVE  /\ OnlyInspectedSignalled'
           /\ \A pid \in ResetPids : proc'[pid] \subseteq proc[pid]
           /\ OneByOne'
  <1>1. OnlyInspectedSignalled'
    BY DEF Signal, ResetInv, OnlyInspectedSignalled, Inspected
  <1>2. \A pid \in ResetPids : proc'[pid] \subseteq proc[pid]
    BY DEF ResetInv, ResetShape
  <1>3. OneByOne'
    BY <1>2 DEF ResetInv, OneByOne
  <1> QED BY <1>1, <1>2, <1>3

\* TERM and KILL, to the frozen daemons and to the unmanaged ones.
LEMMA SignalSteps == ASSUME ResetInv, SignalKill \/ TerminateUnmanaged PROVE ResetInv'
  <1> USE DEF AtStep
  <1>1. CASE SignalKill
    <2>1. Current \in ResetIdentity /\ Inspected(Current) /\ reset.seenAt \in Nat
      BY <1>1 DEF SignalKill, Current, ResetInv, SignalsKnown, ResetShape
    <2>2. proc' \in {proc, [proc EXCEPT ![Current.pid] = {}]}
      BY <1>1 DEF SignalKill
    <2>3. ResetShape'
      BY <1>1, <2>2 DEF SignalKill, Go, ResetInv, ResetShape
    <2>4. OnlyInspectedSignalled' /\ OneByOne'
      BY <1>1, <2>1, <2>2, <2>3, SignalsSent DEF SignalKill
    <2> QED
      BY <1>1, <2>3, <2>4
      DEF SignalKill, Go, ResetInv, ResetShape, NothingKeptToRemove, CheckedBefore, SignalsKnown,
          Protected, selects
  <1>2. CASE TerminateUnmanaged
    <2> DEFINE next == CHOOSE identity \in reset.victims : TRUE
    <2>1. next \in reset.victims
      BY <1>2 DEF TerminateUnmanaged
    <2>2. next \in ResetIdentity /\ Inspected(next) /\ reset.seenAt \in Nat
      BY <1>2, <2>1 DEF TerminateUnmanaged, ResetInv, SignalsKnown, ResetShape
    <2>3. /\ Signal(next.pid, {next.start})
          /\ reset' = [reset EXCEPT !.victims = @ \ {next}]
          /\ proc' \in {proc, [proc EXCEPT ![next.pid] = {}]}
      BY <1>2 DEF TerminateUnmanaged
    <2> HIDE DEF next
    <2>4. ResetShape'
      BY <1>2, <2>3 DEF TerminateUnmanaged, ResetInv, ResetShape
    <2>5. OnlyInspectedSignalled' /\ OneByOne' /\ \A pid \in ResetPids : proc'[pid] \subseteq proc[pid]
      BY <1>2, <2>2, <2>3, <2>4, SignalsSent DEF TerminateUnmanaged
    <2>6. SignalsKnown'
      BY <1>2, <2>3, <2>5
      DEF TerminateUnmanaged, SignalsKnown, Inspected, ResetInv, ResetShape, ResetIdentity
    <2> QED
      BY <1>2, <2>3, <2>4, <2>5, <2>6
      DEF TerminateUnmanaged, ResetInv, ResetShape, NothingKeptToRemove, CheckedBefore, Protected,
          selects
  <1> QED BY <1>1, <1>2

\* Removing, restoring, cleaning up and being killed.
LEMMA RemovingSteps ==
    ASSUME ResetInv, Purge \/ RemovePath \/ RestoreExecutable \/ cleanupStage \/ ResetKilled
    PROVE  ResetInv'
  <1> USE DEF AtStep
  <1>1. /\ UNCHANGED <<layout, births, signalled>> /\ reset.pc # "idle"
        /\ proc' = proc \/ proc' = AllUnlinked
    BY DEF Purge, RemovePath, RestoreExecutable, copyResetExecutable, cleanupStage, ResetKilled
  <1> DEFINE Fields == reset' = [pc |-> reset'.pc, targets |-> reset'.targets,
                                 frozen |-> reset'.frozen, level |-> reset'.level,
                                 seenAt |-> reset'.seenAt, todo |-> reset'.todo,
                                 checkedAt |-> reset'.checkedAt, teardown |-> reset'.teardown,
                                 outcome |-> reset'.outcome, resets |-> reset'.resets,
                                 victims |-> reset'.victims]
             Keeps == /\ reset'.targets = reset.targets /\ reset'.frozen = reset.frozen
                      /\ reset'.checkedAt = reset.checkedAt /\ reset'.victims = reset.victims
                      /\ reset'.pc \in {"idle", "removing", "removed", "cleaning", "purging"}
                      /\ reset'.pc \in {"purging", "removing"} =>
                            reset.pc \in {"purging", "removing"}
                      /\ \/ reset'.todo = reset.todo
                         \/ reset.todo # <<>> /\ reset'.todo = Tail(reset.todo)
  <1>2. Fields /\ Keeps
    <2>1. CASE Purge
      BY <2>1 DEF Purge, Fail, ResetInv, ResetShape
    <2>2. CASE RemovePath
      BY <2>2 DEF RemovePath, Fail, ResetInv, ResetShape
    <2>3. CASE RestoreExecutable
      BY <2>3 DEF RestoreExecutable, Go, Fail, ResetInv, ResetShape
    <2>4. CASE cleanupStage
      <3>1. Go("removed") \/ Go("idle") \/ Return("restore") \/ Return("stage cleanup")
        BY <2>4 DEF cleanupStage, AfterCleaning
      <3> QED BY <3>1 DEF Go, Return, ResetInv, ResetShape
    <2>5. CASE ResetKilled
      BY <2>5 DEF ResetKilled, Return, ResetInv, ResetShape
    <2> QED BY <2>1, <2>2, <2>3, <2>4, <2>5
  <1> HIDE DEF Fields, Keeps
  <1>3. Keeps
    BY <1>2
  <1>4. ResetShape'
    <2>4. AllUnlinked \in [ResetPids -> SUBSET ResetProcess]
      BY UnlinkedProcesses DEF AllUnlinked, ResetInv, ResetShape
    <2>5. births' \in Nat /\ proc' \in [ResetPids -> SUBSET ResetProcess]
      BY <1>1, <2>4 DEF ResetInv, ResetShape
    <2>1. /\ reset'.frozen \subseteq ResetIdentity /\ reset'.victims \subseteq ResetIdentity
          /\ reset'.checkedAt \in Nat /\ reset.todo \in Seq(Artifacts)
      BY <1>1, <1>3 DEF Keeps, ResetInv, ResetShape
    <2>2. ASSUME reset.todo # <<>> PROVE Tail(reset.todo) \in Seq(Artifacts)
      BY <2>1, <2>2
    <2>3. reset'.todo \in Seq(Artifacts)
      BY <1>3, <2>1, <2>2 DEF Keeps
    <2> QED BY <1>2, <2>1, <2>3, <2>5 DEF Fields, ResetShape
  <1>5. \A pid \in ResetPids :
            proc'[pid] \subseteq proc[pid] \/ proc'[pid] = Unlinked(proc[pid])
    BY <1>1 DEF AllUnlinked
  <1>6. /\ reset'.targets = reset.targets /\ reset'.checkedAt = reset.checkedAt
        /\ reset'.pc \in {"idle", "removing", "removed", "cleaning", "purging"}
        /\ reset'.pc \in {"purging", "removing"} => reset.pc \in {"purging", "removing"}
        /\ reset'.todo = reset.todo \/ (reset.todo # <<>> /\ reset'.todo = Tail(reset.todo))
    BY <1>3 DEF Keeps
  <1>7. births' = births /\ signalled' = signalled /\ layout' = layout /\ reset.pc # "idle"
    BY <1>1
  <1> QED BY <1>4, <1>5, <1>6, <1>7, GoesOn

\* The steps of the installation that start nobody.
LEMMA InstallingSteps ==
    ASSUME ResetInv,
           \/ ReinstallPrepare \/ applySystemdService \/ stopUnmanagedDaemons
           \/ waitForDaemonReady
    PROVE  ResetInv'
  <1> USE DEF AtStep, World
  <1>1. CASE ReinstallPrepare \/ waitForDaemonReady
    <2>1. ResetShape'
      BY <1>1 DEF ReinstallPrepare, waitForDaemonReady, Go, Return, ResetInv, ResetShape
    <2>2. /\ reset'.pc \in {"idle", "writing"} /\ reset.pc # "idle"
          /\ reset'.targets = reset.targets /\ reset'.checkedAt = reset.checkedAt
          /\ reset'.todo = reset.todo
      BY <1>1 DEF ReinstallPrepare, waitForDaemonReady, Go, Return, ResetInv, ResetShape
    <2> QED BY <1>1, <2>1, <2>2, GoesOn DEF ReinstallPrepare, waitForDaemonReady
  <1>2. CASE applySystemdService
    <2>1. proc' = proc \/ (service.pid # 0 /\ proc' = [proc EXCEPT ![service.pid] = {}])
      BY <1>2 DEF applySystemdService, WithoutJob
    <2>2. Go("listing") \/ Return("reinstall")
      BY <1>2 DEF applySystemdService
    <2>3. ResetShape'
      BY <1>2, <2>1, <2>2 DEF applySystemdService, Go, Return, ResetInv, ResetShape
    <2>4. \A pid \in ResetPids : proc'[pid] \subseteq proc[pid]
      BY <2>1 DEF ResetInv, ResetShape
    <2>5. /\ reset'.pc \in {"idle", "listing"}
          /\ reset'.targets = reset.targets /\ reset'.checkedAt = reset.checkedAt
          /\ reset'.todo = reset.todo
      BY <2>2 DEF Go, Return, ResetInv, ResetShape
    <2> QED BY <1>2, <2>3, <2>4, <2>5, GoesOn DEF applySystemdService
  <1>3. CASE stopUnmanagedDaemons
    <2> DEFINE daemons == WithImage({"gate", "deleted"})
               found == {Identity(pid) : pid \in daemons}
    <2>1. \A identity \in found : identity \in ResetIdentity
                                 /\ \A p \in proc[identity.pid] : p.start = identity.start
      <3> SUFFICES ASSUME NEW pid \in daemons
                   PROVE  /\ Identity(pid) \in ResetIdentity
                          /\ \A p \in proc[Identity(pid).pid] : p.start = Identity(pid).start
        OBVIOUS
      <3>1. pid \in ResetPids /\ proc[pid] # {} /\ proc[pid] \subseteq ResetProcess
        BY DEF WithImage, ResetInv, ResetShape
      <3>2. PICK q \in proc[pid] : q = CHOOSE p \in proc[pid] : TRUE
        BY <3>1
      <3>3. \A p \in proc[pid] : p = q
        BY <3>1, <3>2 DEF ResetInv, OneByOne
      <3> QED BY <3>1, <3>2, <3>3 DEF Identity, ResetIdentity, ResetProcess
    <2>2. reset' = [reset EXCEPT !.pc = "terminating", !.seenAt = births, !.victims = found]
      BY <1>3 DEF stopUnmanagedDaemons
    <2> HIDE DEF found
    <2>3. ResetShape'
      BY <1>3, <2>1, <2>2 DEF stopUnmanagedDaemons, ResetInv, ResetShape
    <2>4. /\ reset'.pc = "terminating" /\ reset'.seenAt = births /\ reset'.victims = found
          /\ reset'.targets = reset.targets /\ reset'.checkedAt = reset.checkedAt
          /\ reset'.todo = reset.todo
      BY <2>2 DEF ResetInv, ResetShape
    <2>5. SignalsKnown'
      BY <1>3, <2>1, <2>4 DEF stopUnmanagedDaemons, SignalsKnown, Inspected, ResetInv, ResetShape
    <2>6. NothingKeptToRemove' /\ CheckedBefore'
      BY <1>3, <2>4
      DEF stopUnmanagedDaemons, ResetInv, NothingKeptToRemove, CheckedBefore, Protected, selects
    <2>7. OneByOne' /\ OnlyInspectedSignalled'
      BY <1>3 DEF stopUnmanagedDaemons, ResetInv, OneByOne, OnlyInspectedSignalled
    <2> QED BY <2>3, <2>5, <2>6, <2>7 DEF ResetInv
  <1> QED BY <1>1, <1>2, <1>3

\* A process that starts is younger than every check and every inspection.
LEMMA Born ==
    ASSUME ResetInv, NEW pid \in ResetPids, NEW image \in {"gate", "other"},
           births' = births + 1, proc' = [proc EXCEPT ![pid] = {Process(image)}],
           UNCHANGED <<layout, signalled>>,
           \/ reset' = reset
           \/ reset' = [reset EXCEPT !.pc = "readying"] /\ reset.pc = "terminating"
    PROVE  ResetInv'
  <1>1. /\ reset'.targets = reset.targets /\ reset'.checkedAt = reset.checkedAt
        /\ reset'.todo = reset.todo /\ reset'.frozen = reset.frozen
        /\ reset'.seenAt = reset.seenAt /\ reset'.victims = reset.victims
        /\ reset'.pc = reset.pc \/ (reset'.pc = "readying" /\ reset.pc = "terminating")
    BY DEF ResetInv, ResetShape
  <1>2. births \in Nat /\ reset.checkedAt \in Nat /\ reset.checkedAt <= births
    BY DEF ResetInv, ResetShape, CheckedBefore
  <1>3. \A r \in ResetPids : \A p \in proc[r] : p.start \in Nat /\ p.start <= births
    BY DEF ResetInv, ResetShape, OneByOne, ResetProcess
  <1>4. \A r \in ResetPids : \/ proc'[r] = proc[r]
                            \/ proc'[r] = {Process(image)}
    BY DEF ResetInv, ResetShape
  <1>5. Process(image).start = births + 1 /\ Process(image) \in ResetProcess
    BY <1>2 DEF Process, ResetProcess
  <1>6. ResetShape'
    BY <1>1, <1>2, <1>5 DEF ResetInv, ResetShape
  <1>7. OneByOne'
    BY <1>2, <1>3, <1>4, <1>5 DEF ResetInv, OneByOne
  <1>8. NothingKeptToRemove'
    BY <1>1 DEF ResetInv, NothingKeptToRemove, Protected, selects
  <1>9. CheckedBefore'
    BY <1>1, <1>2, <1>3, <1>4, <1>5 DEF ResetInv, CheckedBefore
  <1>10. SignalsKnown'
    <2>1. Current' = Current
      BY <1>1 DEF Current
    <2>2. ASSUME NEW identity \in ResetIdentity, Inspected(identity),
                 reset.seenAt \in Nat, reset.seenAt <= births
          PROVE  Inspected(identity)'
      BY <1>1, <1>2, <1>4, <1>5, <2>2 DEF Inspected, ResetIdentity
    <2>3. reset.pc = "signalling" => Current \in ResetIdentity
      BY DEF ResetInv, ResetShape, SignalsKnown, Current
    <2>4. reset.victims \subseteq ResetIdentity
      BY DEF ResetInv, ResetShape
    <2>5. reset'.pc = "signalling" => Inspected(Current)'
      BY <1>1, <2>1, <2>2, <2>3 DEF ResetInv, SignalsKnown, Inspected
    <2>6. reset'.pc = "terminating" => \A identity \in reset'.victims : Inspected(identity)'
      BY <1>1, <2>2, <2>4 DEF ResetInv, SignalsKnown
    <2> QED BY <1>1, <1>2, <2>5, <2>6 DEF ResetInv, SignalsKnown
  <1>11. OnlyInspectedSignalled'
    BY DEF ResetInv, OnlyInspectedSignalled
  <1> QED BY <1>6, <1>7, <1>8, <1>9, <1>10, <1>11 DEF ResetInv

\* Everyone else: the manager, the operator, and processes that exit.
LEMMA ProcessSteps ==
    ASSUME ResetInv,
           \/ EnableService \/ ExecutableReplaced
           \/ \E pid \in ResetPids :
                 \/ ProcessExits(pid) \/ ManagerRestarts(pid)
                 \/ \E image \in {"gate", "other"} : ProcessStarts(pid, image)
    PROVE  ResetInv'
  <1> USE DEF AtStep
  <1>1. CASE EnableService
    <2>1. CASE Return("reinstall") /\ UNCHANGED <<proc, service, births>>
      <3>1. ResetShape' /\ reset'.pc = "idle" /\ reset'.checkedAt = reset.checkedAt
        BY <1>1, <2>1 DEF EnableService, Return, ResetInv, ResetShape
      <3> QED BY <1>1, <2>1, <3>1, EarlySteps DEF EnableService, NothingKeptToRemove
    <2>2. CASE Go("readying") /\ \E pid \in ResetPids : StartJob(pid)
      BY <1>1, <2>2, Born DEF EnableService, StartJob, Go
    <2> QED BY <1>1, <2>1, <2>2 DEF EnableService
  <1>2. ASSUME NEW pid \in ResetPids, ManagerRestarts(pid) PROVE ResetInv'
    BY <1>2, Born DEF ManagerRestarts, StartJob
  <1>3. ASSUME NEW pid \in ResetPids, NEW image \in {"gate", "other"}, ProcessStarts(pid, image)
        PROVE  ResetInv'
    BY <1>3, Born DEF ProcessStarts
  <1>4. ASSUME NEW pid \in ResetPids, ProcessExits(pid) PROVE ResetInv'
    <2>1. \A r \in ResetPids : proc'[r] \subseteq proc[r]
      BY <1>4 DEF ProcessExits, ResetInv, ResetShape
    <2>2. ResetShape'
      BY <1>4 DEF ProcessExits, ResetInv, ResetShape
    <2>3. OneByOne'
      BY <1>4, <2>1 DEF ProcessExits, ResetInv, OneByOne
    <2>4. NothingKeptToRemove' /\ OnlyInspectedSignalled'
      BY <1>4 DEF ProcessExits, ResetInv, NothingKeptToRemove, OnlyInspectedSignalled, Protected,
                  selects
    <2>5. CheckedBefore'
      BY <1>4, <2>1 DEF ProcessExits, ResetInv, CheckedBefore
    <2>6. SignalsKnown'
      <3>1. Current' = Current /\ reset.victims \subseteq ResetIdentity
        BY <1>4 DEF ProcessExits, Current, ResetInv, ResetShape
      <3>2. reset.pc = "signalling" => Current \in ResetIdentity
        BY DEF ResetInv, ResetShape, SignalsKnown, Current
      <3> QED
        BY <1>4, <2>1, <3>1, <3>2
        DEF ProcessExits, ResetInv, SignalsKnown, Inspected, ResetIdentity
    <2> QED BY <2>2, <2>3, <2>4, <2>5, <2>6 DEF ResetInv
  <1>5. CASE ExecutableReplaced
    <2>1. \A pid \in ResetPids : proc[pid] \in SUBSET ResetProcess
      BY DEF ResetInv, ResetShape
    <2>2. /\ UNCHANGED <<layout, births, reset, signalled>>
          /\ \A pid \in ResetPids : proc'[pid] = Unlinked(proc[pid])
      BY <1>5 DEF ExecutableReplaced, AllUnlinked
    <2>3. ResetShape'
      BY <1>5, <2>1, <2>2, UnlinkedProcesses DEF ExecutableReplaced, AllUnlinked, ResetInv, ResetShape
    <2>4. \A pid \in ResetPids : \A p \in proc'[pid] :
              p.image # "gate" /\ \E q \in proc[pid] : p.start = q.start
      BY <2>1, <2>2, UnlinkedProcesses
    <2>5. OneByOne'
      <3>1. \A pid \in ResetPids : \A p, q \in proc[pid] : p = q
        BY DEF ResetInv, OneByOne
      <3>2. \A pid \in ResetPids : \A p, q \in proc'[pid] : p = q
        BY <2>1, <2>2, <3>1, UnlinkedProcesses
      <3> QED BY <2>2, <2>4, <3>2 DEF ResetInv, OneByOne
    <2>6. NothingKeptToRemove' /\ OnlyInspectedSignalled'
      BY <2>2 DEF ResetInv, NothingKeptToRemove, OnlyInspectedSignalled, Protected, selects
    <2>7. CheckedBefore'
      BY <2>2, <2>4 DEF ResetInv, CheckedBefore
    <2>8. SignalsKnown'
      <3>1. Current' = Current /\ reset.victims \subseteq ResetIdentity
        BY <2>2 DEF Current, ResetInv, ResetShape
      <3>2. reset.pc = "signalling" => Current \in ResetIdentity
        BY DEF ResetInv, ResetShape, SignalsKnown, Current
      <3>3. ASSUME NEW identity \in ResetIdentity, Inspected(identity) PROVE Inspected(identity)'
        BY <2>2, <2>4, <3>3 DEF Inspected, ResetIdentity
      <3>4. reset.pc = "signalling" => Inspected(Current)'
        BY <3>1, <3>2, <3>3 DEF ResetInv, SignalsKnown, Inspected
      <3>5. reset.pc = "terminating" => \A identity \in reset.victims : Inspected(identity)'
        BY <3>1, <3>3 DEF ResetInv, SignalsKnown
      <3> QED BY <2>2, <3>4, <3>5 DEF ResetInv, SignalsKnown
    <2> QED BY <2>3, <2>5, <2>6, <2>7, <2>8 DEF ResetInv
  <1> QED BY <1>1, <1>2, <1>3, <1>4, <1>5

\* Every step of the reset, of the manager and of the processes.
LEMMA ResetSteps == ResetInv /\ [ResetNext]_resetVars => ResetInv'
  <1> SUFFICES ASSUME ResetInv, [ResetNext]_resetVars PROVE ResetInv'
    OBVIOUS
  <1>1. CASE UNCHANGED resetVars
    BY <1>1 DEF resetVars, ResetInv, ResetShape, OneByOne, NothingKeptToRemove, CheckedBefore,
                SignalsKnown, OnlyInspectedSignalled, Inspected, Current, Protected, selects
  <1>2. CASE ResetNext
    BY <1>2, PreparingSteps, StoppingSteps, SignalSteps, RemovingSteps, InstallingSteps,
       ProcessSteps DEF ResetNext
  <1> QED BY <1>1, <1>2

\* The job is down from StopService to the last removal: the manager restarts it
\* only after its daemon exits, and the reset starts it only when nothing is left
\* to be removed.
LEMMA ServiceSteps == ResetInv /\ ServiceDown /\ [ResetNext]_resetVars => ServiceDown'
  <1> SUFFICES ASSUME ResetInv, ServiceDown, [ResetNext]_resetVars PROVE ServiceDown'
    OBVIOUS
  <1> USE DEF AtStep, World, Job
  <1>1. ASSUME service' = service, reset'.targets = reset.targets \/ reset'.pc = "preparing",
               reset'.pc \in {"awaiting", "inspecting", "signalling", "purging", "removing"} =>
                   reset.pc \in {"awaiting", "inspecting", "signalling", "purging", "removing"}
        PROVE  ServiceDown'
    BY <1>1 DEF ServiceDown, requiresServiceStop
  <1>2. CASE UNCHANGED resetVars
    BY <1>1, <1>2 DEF resetVars
  <1>3. ASSUME NEW targets \in ResetTargetSets, BeginReset(targets) PROVE ServiceDown'
    BY <1>1, <1>3 DEF BeginReset, NoReset
  <1>4. CASE PrepareReset \/ applyHookReset \/ ApplyPreflight \/ prepareResetStage
    BY <1>1, <1>4
    DEF PrepareReset, applyHookReset, ApplyPreflight, prepareResetStage, Go, Return, ResetInv,
        ResetShape
  <1>5. CASE StopService
    <2>1. CASE Fail("stop service") /\ UNCHANGED service
      BY <1>1, <2>1 DEF Fail, ResetInv, ResetShape
    <2>2. CASE Go("purging") /\ ~requiresServiceStop /\ UNCHANGED service
      BY <2>2 DEF Go, ServiceDown, requiresServiceStop, ResetInv, ResetShape
    <2>3. CASE Go("awaiting") /\ service.state = "absent" /\ UNCHANGED service
      BY <2>3 DEF Go, ServiceDown, requiresServiceStop, ResetInv, ResetShape
    <2>4. CASE Go("awaiting") /\ service' = Job("stopped", 0)
      BY <2>4 DEF Go, ServiceDown
    <2> QED BY <1>5, <2>1, <2>2, <2>3, <2>4 DEF StopService
  <1>6. CASE awaitProcessExit \/ SignalInspect \/ SignalKill \/ CheckRemaining
    BY <1>1, <1>6
    DEF awaitProcessExit, SignalInspect, SignalKill, CheckRemaining, Go, Fail, ResetInv, ResetShape
  <1>7. CASE Purge \/ RemovePath \/ RestoreExecutable \/ ResetKilled
    BY <1>1, <1>7
    DEF Purge, RemovePath, RestoreExecutable, ResetKilled, Go, Fail, Return, ResetInv, ResetShape
  <1>8. CASE cleanupStage
    <2>1. Go("removed") \/ Go("idle") \/ Return("restore") \/ Return("stage cleanup")
      BY <1>8 DEF cleanupStage, AfterCleaning
    <2> QED BY <1>1, <1>8, <2>1 DEF cleanupStage, Go, Return, ResetInv, ResetShape
  <1>9. CASE ReinstallPrepare \/ stopUnmanagedDaemons \/ TerminateUnmanaged \/ waitForDaemonReady
    BY <1>1, <1>9
    DEF ReinstallPrepare, stopUnmanagedDaemons, TerminateUnmanaged, waitForDaemonReady, Go, Return,
        ResetInv, ResetShape
  <1>10. CASE applySystemdService
    <2>1. \/ Go("listing") /\ service' = Job("stopped", 0)
          \/ Return("reinstall") /\ service' = service
      BY <1>10 DEF applySystemdService
    <2>2. CASE Go("listing") /\ service' = Job("stopped", 0)
      BY <2>2 DEF Go, ServiceDown, ResetInv, ResetShape
    <2>3. CASE Return("reinstall") /\ service' = service
      BY <1>1, <2>3 DEF Return, ResetInv, ResetShape
    <2> QED BY <2>1, <2>2, <2>3
  <1>11. CASE EnableService
    <2>1. \/ Go("readying") /\ \E pid \in ResetPids : service' = Job("running", pid)
          \/ Return("reinstall") /\ service' = service
      BY <1>11 DEF EnableService, StartJob
    <2>2. CASE Go("readying") /\ \E pid \in ResetPids : service' = Job("running", pid)
      BY <2>2 DEF Go, ServiceDown, ResetInv, ResetShape
    <2>3. CASE Return("reinstall") /\ service' = service
      BY <1>1, <2>3 DEF Return, ResetInv, ResetShape
    <2> QED BY <2>1, <2>2, <2>3
  <1>12. ASSUME NEW pid \in ResetPids, ProcessExits(pid) PROVE ServiceDown'
    <2>1. service' = IF service.pid = pid THEN Job("restarting", 0) ELSE service
      BY <1>12 DEF ProcessExits
    <2>2. reset' = reset
      BY <1>12 DEF ProcessExits
    <2>3. CASE service.pid = pid
      <3>1. service.state \notin {"absent", "stopped"}
        BY <2>3, ResetAssumption DEF ServiceDown
      <3> QED BY <2>1, <2>2, <2>3, <3>1 DEF ServiceDown, requiresServiceStop
    <2>4. CASE service.pid # pid
      BY <1>1, <2>1, <2>2, <2>4
    <2> QED BY <2>3, <2>4
  <1>13. ASSUME NEW pid \in ResetPids, ManagerRestarts(pid) PROVE ServiceDown'
    BY <1>13 DEF ManagerRestarts, StartJob, ServiceDown, requiresServiceStop
  <1>14. ASSUME NEW pid \in ResetPids, NEW image \in {"gate", "other"}, ProcessStarts(pid, image)
         PROVE  ServiceDown'
    BY <1>1, <1>14 DEF ProcessStarts
  <1>15. CASE ExecutableReplaced
    BY <1>1, <1>15 DEF ExecutableReplaced
  <1> QED
    BY <1>2, <1>3, <1>4, <1>5, <1>6, <1>7, <1>8, <1>9, <1>10, <1>11, <1>12, <1>13, <1>14, <1>15
    DEF ResetNext

\* The invariant of the reset, for every layout of the paths and any number
\* of processes, of resets and of kills.
THEOREM ResetInvariance == ResetSpec => [](ResetInv /\ ServiceDown)
  <1>1. ResetInit => ServiceDown
    BY DEF ResetInit, NoReset, Job, ServiceDown
  <1> QED BY <1>1, ResetStarts, ResetSteps, ServiceSteps, PTL DEF ResetSpec

\* What a step removes.
LEMMA WhatGoes ==
    ASSUME ResetInv, [ResetNext]_resetVars, cells \ cells' # {}
    PROVE  \/ cells \ cells' \subseteq {"hooks"} /\ reset.targets = {"hooks"}
           \/ cells \ cells' \subseteq {"stage"}
           \/ Purge /\ validatePaths({"database"}) /\ cells \ cells' \subseteq layout["database"]
           \/ /\ RemovePath /\ reset.todo # <<>>
              /\ cells \ cells' \subseteq layout[Head(reset.todo)]
  <1>1. ResetNext
    BY DEF resetVars
  <1>2. cells' # cells
    OBVIOUS
  <1>3. applyHookReset \/ prepareResetStage \/ Purge \/ RemovePath \/ RestoreExecutable
          \/ cleanupStage \/ applySystemdService
    BY <1>1, <1>2
    DEF ResetNext, BeginReset, PrepareReset, ApplyPreflight, StopService, awaitProcessExit,
        SignalInspect, SignalKill, CheckRemaining, ReinstallPrepare, stopUnmanagedDaemons,
        TerminateUnmanaged, EnableService, waitForDaemonReady, ProcessExits, ProcessStarts,
        ManagerRestarts, ExecutableReplaced, ResetKilled, World
  <1>4. CASE applyHookReset
    BY <1>4 DEF applyHookReset
  <1>5. CASE cleanupStage
    BY <1>5 DEF cleanupStage
  <1>6. CASE Purge
    BY <1>6 DEF Purge
  <1>7. CASE RemovePath
    BY <1>7 DEF RemovePath
  <1>8. ~prepareResetStage /\ ~RestoreExecutable /\ ~applySystemdService
    BY DEF prepareResetStage, RestoreExecutable, copyResetExecutable, applySystemdService
  <1> QED BY <1>3, <1>4, <1>5, <1>6, <1>7, <1>8

\* Data goes when the job is down and no daemon of the file at the path runs that
\* started before the check, and what was not asked for stays.
LEMMA RemovalStep ==
    ASSUME ResetInv, ServiceDown, [ResetNext]_resetVars
    PROVE  /\ (cells \ cells') \cap {"database", "state", "logs", "cache", "sockets"} # {}
              /\ requiresServiceStop
              => /\ service.state \in {"absent", "stopped"}
                 /\ \A pid \in ResetPids : \A p \in proc[pid] :
                       p.image = "gate" => p.start > reset.checkedAt
           /\ \A kept \in {"hooks", "config", "coordination", "lock"} :
                  kept \in cells \ cells' => reset.targets = {kept}
  <1>1. CASE cells \ cells' = {}
    BY <1>1
  <1>2. CASE cells \ cells' \subseteq {"hooks"} /\ reset.targets = {"hooks"}
    BY <1>2
  <1>3. CASE cells \ cells' \subseteq {"stage"}
    BY <1>3
  <1>4. ASSUME reset.pc \in {"purging", "removing"}
        PROVE  /\ requiresServiceStop => service.state \in {"absent", "stopped"}
               /\ \A pid \in ResetPids : \A p \in proc[pid] :
                     p.image = "gate" => p.start > reset.checkedAt
    BY <1>4 DEF ResetInv, CheckedBefore, ServiceDown
  <1>5. ASSUME reset.pc # "idle", NEW path, layout[path] \cap Protected = {},
               cells \ cells' \subseteq layout[path],
               NEW kept \in {"hooks", "config", "coordination", "lock"}, kept \in cells \ cells'
        PROVE  reset.targets = {kept}
    <2>1. kept = "config" /\ "config" \in reset.targets
      BY <1>5 DEF Protected, selects
    <2>2. reset.targets \in ResetTargetSets
      BY <1>5 DEF ResetInv, NothingKeptToRemove
    <2>3. reset.targets # DefaultResetTargets
      BY <2>1 DEF DefaultResetTargets
    <2> QED BY <2>1, <2>2, <2>3, ResetAssumption
  <1>6. CASE Purge /\ validatePaths({"database"}) /\ cells \ cells' \subseteq layout["database"]
    <2>1. reset.pc = "purging" /\ layout["database"] \cap Protected = {}
      BY <1>6 DEF Purge, AtStep, validatePaths
    <2> QED BY <1>4, <1>5, <1>6, <2>1
  <1>7. CASE RemovePath /\ reset.todo # <<>> /\ cells \ cells' \subseteq layout[Head(reset.todo)]
    <2>1. reset.pc = "removing" /\ reset.todo \in Seq(Artifacts)
      BY <1>7 DEF RemovePath, AtStep, ResetInv, ResetShape
    <2>2. 1 \in DOMAIN reset.todo /\ Head(reset.todo) = reset.todo[1]
      BY <1>7, <2>1
    <2>3. layout[Head(reset.todo)] \cap Protected = {}
      BY <2>1, <2>2 DEF ResetInv, NothingKeptToRemove
    <2> QED BY <1>4, <1>5, <1>7, <2>1, <2>3
  <1> QED BY <1>1, <1>2, <1>3, <1>6, <1>7, WhatGoes

\* A reset that stops the service removes data with the job down and no daemon of
\* the file at the path but one that started after the check; daemons whose
\* executable was unlinked or replaced are outside what the check sees and outside
\* this theorem.  Nothing that was not selected goes with what was
\* (stopManagedReset, validatePaths), wherever the paths lie.
THEOREM ResetRemovesSafely == ResetSpec => RemovalsSafe
  <1>1. ResetInv /\ ServiceDown /\ [ResetNext]_resetVars
          => [(cells \ cells') \cap {"database", "state", "logs", "cache", "sockets"} # {}
              /\ requiresServiceStop
              => /\ service.state \in {"absent", "stopped"}
                 /\ \A pid \in ResetPids : \A p \in proc[pid] :
                       p.image = "gate" => p.start > reset.checkedAt
             ]_resetVars
    BY RemovalStep
  <1>2. ResetInv /\ ServiceDown /\ [ResetNext]_resetVars
          => [\A kept \in {"hooks", "config", "coordination", "lock"} :
                 kept \in cells \ cells' => reset.targets = {kept}]_resetVars
    BY RemovalStep
  <1> QED
    BY <1>1, <1>2, ResetInvariance, PTL
    DEF ResetSpec, RemovalsSafe, RemovedAfterShutdown, KeptIsKept

\* No signal reaches a process that took a PID over before the inspection
\* (process_identity.go: Signal; stopUnmanagedDaemons).
THEOREM StrangersAreSpared == ResetSpec => []OnlyInspectedSignalled
  <1>1. ResetInv => OnlyInspectedSignalled
    BY DEF ResetInv
  <1> QED BY <1>1, ResetInvariance, PTL
=============================================================================
