--------------------------- MODULE HookResponses ---------------------------
(***************************************************************************)
(* What a provider can be told at a hook and how a decision is told it:    *)
(* the two capability tables, the composition of the rules' effects, the   *)
(* renderers, and the warnings about rules whose effect has no channel     *)
(* (internal/hook: capability.go, response_capability.go, provider.go,     *)
(* response_boundary.go, claude.go, codex.go, cursor.go, copilot.go,       *)
(* gemini.go, failopen_notice.go, capability_warn.go).                     *)
(*                                                                         *)
(* A text is the set, or the sequence, of the parts it is made of.  A      *)
(* mutation is "" (none), "text" (not JSON), "json" or "result", a JSON    *)
(* tool result of the form Copilot asks for.                               *)
(***************************************************************************)
EXTENDS Naturals, Sequences, FiniteSets, SequencesExt

Providers == {"claude", "codex", "copilot", "cursor", "gemini"}
Systems == Providers \cup {"vscode", "response", "unknown"}

blockEvents ==
    [claude |-> {"PreToolUse", "PermissionRequest", "UserPromptSubmit"},
     copilot |-> {"PreToolUse", "UserPromptSubmit", "preToolUse"},
     codex |-> {"PreToolUse", "PermissionRequest", "UserPromptSubmit"},
     cursor |-> {"preToolUse", "beforeShellExecution", "beforeMCPExecution",
                 "beforeReadFile", "beforeSubmitPrompt", "beforeTabFileRead"},
     gemini |-> {"BeforeTool"},
     response |-> {"Response"}]
substituteEvents == [codex |-> {"PostToolUse"}, cursor |-> {"postToolUse"}]
observeEvents ==
    [claude |-> {"PostToolUse", "PostToolUseFailure", "PermissionDenied", "Stop",
                 "StopFailure", "SubagentStop"},
     copilot |-> {"PostToolUse", "Stop", "postToolUse", "sessionStart",
                  "subagentStart", "notification", "userPromptTransformed"},
     codex |-> {"Stop"},
     cursor |-> {"postToolUseFailure", "afterShellExecution", "afterMCPExecution",
                 "afterFileEdit", "afterAgentResponse"},
     gemini |-> {"AfterTool"}]

Pairs(table) == UNION {{s} \X table[s] : s \in DOMAIN table}
capabilityTable == Pairs(blockEvents) \cup Pairs(substituteEvents) \cup Pairs(observeEvents)

LookupCapability(system, event) ==
    CASE <<system, event>> \in Pairs(blockEvents) -> "block"
      [] <<system, event>> \in Pairs(substituteEvents) -> "substitute"
      [] OTHER -> "observe"

CanBlock(system, event) == LookupCapability(system, event) # "observe"

\* The events with a context channel, and those with a mutation channel.
injectEvents ==
    [claude |-> {"SessionStart", "Setup", "SubagentStart", "UserPromptSubmit",
                 "UserPromptExpansion", "PreToolUse", "PostToolUse",
                 "PostToolUseFailure", "PostToolBatch", "Stop", "SubagentStop"},
     codex |-> {"SessionStart", "SubagentStart", "UserPromptSubmit", "PreToolUse",
                "PostToolUse"},
     cursor |-> {"sessionStart", "stop", "postToolUse"},
     copilot |-> {"sessionStart", "SessionStart", "subagentStart", "SubagentStart",
                  "postToolUse", "PostToolUse", "postToolUseFailure",
                  "PostToolUseFailure", "notification", "Notification",
                  "userPromptTransformed"}]
mutationTargets ==
    [prompt |-> {<<"copilot", "userPromptTransformed">>},
     tool_input |-> {<<"claude", "PreToolUse">>, <<"codex", "PreToolUse">>,
                     <<"copilot", "preToolUse">>, <<"copilot", "PreToolUse">>},
     tool_output |-> {<<"claude", "PostToolUse">>, <<"cursor", "postToolUse">>,
                      <<"copilot", "postToolUse">>, <<"copilot", "PostToolUse">>}]
LookupResponseCapability(system, event) ==
    {t \in DOMAIN mutationTargets : <<system, event>> \in mutationTargets[t]}
    \cup {c \in {"inject"} : <<system, event>> \in Pairs(injectEvents)}

\* The target a mutation has, {} or {t}.
responseMutationTarget(capability) == capability \ {"inject"}

-----------------------------------------------------------------------------
(* The effects of the rules that matched.                                  *)

validStructuredMutation(value) == value \in {"json", "result"}

validMutationLoosely(system, target, value) == validStructuredMutation(value)
validResponseMutation(system, target, value) ==
    IF system = "copilot" /\ target = "tool_output"
    THEN value = "result"
    ELSE validStructuredMutation(value)

\* What the audit says of one effect: applied, or why it was not.  An effect
\* without output keeps the disposition its rule gave it.
dispositionOf(system, event, effect, suppressed) ==
    LET capability == LookupResponseCapability(system, event)
        target == responseMutationTarget(capability)
    IN CASE suppressed -> "suppressed_by_block"
         [] ~suppressed /\ effect.output = "" -> "no_output"
         [] ~suppressed /\ effect.output # "" /\ effect.action = "inject" ->
              IF "inject" \in capability THEN "applied" ELSE "unsupported_noop"
         [] OTHER ->
              CASE target = {} -> "unsupported_noop"
                [] target = {"prompt"} -> "applied"
                [] \E t \in target : validResponseMutation(system, t, effect.output) -> "applied"
                [] OTHER -> "invalid_noop"

Outputs(effects, action) == [i \in DOMAIN SelectSeq(effects, LAMBDA e : e.action = action) |->
                                SelectSeq(effects, LAMBDA e : e.action = action)[i].output]

\* Of the mutations the last one counts.
firstMutation(mutations) == IF mutations = <<>> THEN "" ELSE Head(mutations)
mutationText(mutations) == IF mutations = <<>> THEN "" ELSE Last(mutations)

\* The injected texts are joined.
composeResponseEffects(system, event, effects, suppressed) ==
    LET Applied(e) == dispositionOf(system, event, e, suppressed) = "applied"
        applied == SelectSeq(effects, Applied)
    IN [context |-> Outputs(applied, "inject"),
        mutation |-> mutationText(Outputs(applied, "mutate")),
        records |-> [i \in DOMAIN effects |->
                        dispositionOf(system, event, effects[i], suppressed)]]

prependContext(context, prompt) == IF prompt = "" THEN context ELSE Append(context, prompt)

copilotPromptResponseOutput(capability, context, mutation, prompt) ==
    IF "prompt" \notin capability THEN <<>>
    ELSE IF mutation # "" THEN prependContext(context, mutation)
    ELSE IF context = <<>> \/ "inject" \notin capability THEN <<>>
    ELSE prependContext(context, prompt)

\* What the temporal context learns of an answer: target and text.
temporalResponseOutputs(system, event, context, mutation, prompt) ==
    LET capability == LookupResponseCapability(system, event)
        output == copilotPromptResponseOutput(capability, context, mutation, prompt)
    IN IF output # <<>>
       THEN {<<"prompt", output>>}
       ELSE {<<"context", context>> : c \in {x \in {"inject"} \cap capability : context # <<>>}}
            \cup {<<t, <<mutation>>>> : t \in {x \in responseMutationTarget(capability) : mutation # ""}}

-----------------------------------------------------------------------------
(* The renderers.  A response is what the hook process writes to stdout    *)
(* ({} for nothing), to stderr, and its exit code.                         *)

Response(stdout, stderr, exit) == [stdout |-> stdout, stderr |-> stderr, exit |-> exit]

\* The empty JSON object, which Claude, Codex, Copilot and Gemini read as allow.
Plain == [verdict |-> "", reason |-> {}, context |-> <<>>, mutated |-> {}, notice |-> {}]
CursorAllow == [Plain EXCEPT !.verdict = "allow"]
Denied(text) == [Plain EXCEPT !.verdict = "deny", !.reason = text]

FailOpenNoticeText(reason, diagnostic) ==
    IF reason = "" THEN {} ELSE {"unevaluated", reason} \cup diagnostic

\* The context and the structured mutation an event has a channel for.
Context(capability, request) == IF "inject" \in capability THEN request.context ELSE <<>>
Mutation(capability, targets, request) ==
    {<<t, <<request.mutation>>>> :
        t \in {x \in targets \cap capability : validStructuredMutation(request.mutation)}}

renderUnknownResponse(request) ==
    IF request.decision = "block"
    THEN Response({}, request.diagnostic, 2)
    ELSE Response({}, FailOpenNoticeText(request.failOpen, request.diagnostic), 0)

\* An input that is replaced is allowed explicitly.
Effects(allow, verdict, context, mutation) ==
    IF context = <<>> /\ mutation = {}
    THEN allow
    ELSE [allow EXCEPT !.context = context, !.mutated = mutation,
                       !.verdict = IF \E m \in mutation : m[1] = "tool_input" THEN verdict ELSE @]

renderClaudeResponse(request) ==
    LET capability == LookupResponseCapability("claude", request.event)
        notice == FailOpenNoticeText(request.failOpen, request.diagnostic)
        targets == {"tool_input", "tool_output"}
    IN IF request.decision = "block" THEN Response({Plain}, request.diagnostic, 2)
       ELSE IF request.failOpen # "" THEN Response({[Plain EXCEPT !.notice = notice]}, notice, 0)
       ELSE Response({Effects(Plain, "allow", Context(capability, request),
                              Mutation(capability, targets, request))}, {}, 0)

codexObserved == {"Stop", "SessionStart", "PreCompact", "PostCompact", "SubagentStart",
                  "SubagentStop"}
\* Codex tool events take a block, everything else degrades to allow.
CodexBlockText(event, text) == IF event \in codexObserved THEN Plain ELSE Denied(text)

renderCodexResponse(request) ==
    LET capability == LookupResponseCapability("codex", request.event)
    IN IF request.decision = "block"
       THEN Response({CodexBlockText(request.event, request.diagnostic)}, {}, 0)
       ELSE Response({Effects(Plain, "allow", Context(capability, request),
                              Mutation(capability, {"tool_input"}, request))}, {}, 0)

renderCursorResponse(request) ==
    LET capability == LookupResponseCapability("cursor", request.event)
    IN IF request.decision = "block"
       THEN Response({Denied(request.diagnostic)}, {}, 0)
       ELSE Response({Effects(CursorAllow, "allow", Context(capability, request),
                              Mutation(capability, {"tool_output"}, request))}, {}, 0)

applyCopilotMutation(capability, request) ==
    IF "tool_input" \in capability
    THEN Mutation(capability, {"tool_input"}, request)
    ELSE {m \in Mutation(capability, {"tool_output"}, request) : request.mutation = "result"}

renderCopilotResponse(request) ==
    LET capability == LookupResponseCapability("copilot", request.event)
        prompt == copilotPromptResponseOutput(capability, request.context, request.mutation,
                                              request.prompt)
    IN IF request.decision = "block" THEN renderClaudeResponse(request)
       ELSE IF "prompt" \in capability
       THEN Response({Effects(Plain, "", <<>>, {<<"prompt", p>> : p \in {prompt} \ {<<>>}})}, {}, 0)
       ELSE Response({Effects(Plain, "", Context(capability, request),
                              applyCopilotMutation(capability, request))}, {}, 0)

geminiBlocks == {"AfterAgent", "AfterTool", "BeforeTool", "BeforeAgent", "BeforeModel",
                 "AfterModel"}
renderGeminiResponse(request) ==
    Response({IF request.decision = "block" /\ request.event \in geminiBlocks
              THEN Denied(request.diagnostic) ELSE Plain}, {}, 0)

renderForSystem(request) ==
    CASE request.system = "cursor" -> renderCursorResponse(request)
      [] request.system = "codex" -> renderCodexResponse(request)
      [] request.system = "gemini" -> renderGeminiResponse(request)
      [] request.system \in {"claude", "vscode"} -> renderClaudeResponse(request)
      [] request.system = "copilot" -> renderCopilotResponse(request)
      [] OTHER -> renderUnknownResponse(request)

RenderResponse(request) ==
    LET text == request.diagnostic \cup
                IF request.decision = "block" THEN {"event_id", "footer"} ELSE {}
        rendered == renderForSystem([request EXCEPT !.diagnostic = text])
    IN IF request.failOpen # "" /\ rendered.stderr = {}
       THEN [rendered EXCEPT !.stderr = FailOpenNoticeText(request.failOpen, text)]
       ELSE rendered

Allow(system, event) ==
    [system |-> system, event |-> event, decision |-> "allow", diagnostic |-> {},
     failOpen |-> "", context |-> <<>>, mutation |-> "", prompt |-> ""]
FailOpenResponse(system, reason) ==
    RenderResponse([Allow(system, "") EXCEPT !.diagnostic = {"diagnostic"}, !.failOpen = reason])

\* Whether the host that reads a response stops what it asked about.
Stops(host, response) ==
    \/ response.exit = 2
    \/ /\ host \in {"codex", "cursor", "gemini"}
       /\ \E d \in response.stdout : d.verdict = "deny"

-----------------------------------------------------------------------------
(* The warnings given when a configuration is loaded.                      *)

\* A rule action the provider cannot apply at the event.
unsupportedRuleEffect(action, system, event) ==
    CASE action = "block" -> LookupCapability(system, event) \notin {"block", "substitute"}
      [] action = "inject" -> "inject" \notin LookupResponseCapability(system, event)
      [] action = "mutate" ->
           responseMutationTarget(LookupResponseCapability(system, event)) = {}
      [] OTHER -> FALSE

\* A rule lists events per provider, names events of any provider, or takes all.
ruleSubscriptions(rule) ==
    IF rule.all
    THEN {pair \in capabilityTable : pair[1] \notin rule.disabled}
    ELSE {pair \in (UNION {{p} \X rule.listed[p] : p \in Providers})
                   \cup {pair \in capabilityTable : pair[2] \in rule.events} :
              pair[1] \notin rule.disabled}

WarnCapabilityDowngrades(rule) ==
    {pair \in ruleSubscriptions(rule) : unsupportedRuleEffect(rule.action, pair[1], pair[2])}
=============================================================================
