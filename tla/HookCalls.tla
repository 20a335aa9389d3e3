----------------------------- MODULE HookCalls -----------------------------
(***************************************************************************)
(* One hook call, from the host that starts the hook process to the answer *)
(* it reads: the client that may fail open at every step, the provider's   *)
(* identification from the evidence of the invocation, and the daemon that *)
(* evaluates, records and renders while the client's deadline runs         *)
(* (cmd/agent-gate: main.go, hook_context.go; internal/hook:               *)
(* classification.go, detect.go, payload_decode.go; internal/daemon:       *)
(* client.go, server.go, hot_evaluation.go, failopen_record.go).           *)
(*                                                                         *)
(* A call is a record: host and event are what really happened; route is   *)
(* the form of the registered command, "managed" (managed-hook <tag>),     *)
(* "command" (a subcommand of its own) or "bare"; tag is the provider a    *)
(* managed command names; around and env are the providers whose processes *)
(* and variables the hook process sees; claims are the values of provider  *)
(* fields in the payload; payload is "ok", "mistyped" (an object the       *)
(* provider's type does not fit) or "unreadable"; recovers says that the   *)
(* command is a configuration recovery and its token is available.         *)
(***************************************************************************)
EXTENDS HookResponses, FiniteSetsExt

CONSTANTS HookCallSet,   \* the calls a host may make
          RuleOutcomes   \* what the rules may find: block, and effects

VARIABLES hookCall,      \* the call, or {} before it
          client,        \* where the hook process is
          daemon,        \* the daemon's side of the call
          answer,        \* {} or {what the host read}
          evidence       \* the fail-open records of the call

callVars == <<hookCall, client, daemon, answer, evidence>>

-----------------------------------------------------------------------------
(* Which provider is it?                                                   *)

\* The strengths of evidence, the weakest first.
strengthShared == 1
strengthContext == 2
strengthRegistration == 3
strengthPayload == 4
strengthIdentifier == 5
strengthRoute == 6

lowerEvents == {"preToolUse", "postToolUse", "postToolUseFailure", "sessionStart",
                "subagentStart", "notification", "userPromptTransformed", "stop",
                "beforeShellExecution", "beforeSubmitPrompt", "afterFileEdit"}
geminiEvents == {"BeforeTool", "AfterTool", "BeforeAgent", "AfterAgent", "BeforeModel",
                 "AfterModel", "BeforeToolSelection", "PreCompress"}

\* No other host has an event of one of Gemini's names (hosts' event tables),
\* and the effects of rules are those of inject and mutate rules.
ASSUME CallAssumption ==
    /\ \A c \in HookCallSet : c.event \in geminiEvents => c.host = "gemini"
    /\ \A outcome \in RuleOutcomes : \A i \in DOMAIN outcome.effects :
           outcome.effects[i].action \in {"inject", "mutate"}

\* Only a command of the provider's own gives the hint; managed-hook does not.
providerHint(c) == IF c.route = "command" THEN c.host ELSE "unknown"

\* What the payloads of the hosts have in common with the shapes looked for.
\* Copilot's own payloads are in camel case and do not name their event.
hasCursorPayload(c) == c.host = "cursor"
hasCopilotPayload(c) == c.host = "copilot" /\ c.event \in lowerEvents
hasClaudePayload(c) == c.host \in {"claude", "codex", "vscode"}
eventNameFromBytes(c) == IF hasCopilotPayload(c) THEN "" ELSE c.event
hasCursorEvent(c) == eventNameFromBytes(c) \in lowerEvents
hasGeminiEvent(c) == eventNameFromBytes(c) \in geminiEvents

\* Copilot's managed command and its own carry the event as an argument.
copilotEventHint(c) ==
    IF c.route = "command" \/ (c.route = "managed" /\ c.tag = "copilot") THEN c.event ELSE ""
NormalizeCopilotPayload(system, c) ==
    IF system = "copilot" /\ eventNameFromBytes(c) = ""
    THEN copilotEventHint(c) ELSE eventNameFromBytes(c)

\* A candidate is a provider and the strength of the evidence for it.
Evidence(holds, providers, strength) == IF holds THEN providers \X {strength} ELSE {}

routeCandidates(c) == Evidence(c.route = "command", {c.host}, strengthRoute)
\* The registered command counts as little as the processes around it.
invocationAlike(c) ==
    Evidence(c.route = "managed", {c.tag}, strengthContext) \cup (c.around \X {strengthContext})
invocationCandidates(c) ==
    Evidence(c.route = "managed", {c.tag}, strengthRegistration) \cup (c.around \X {strengthContext})
payloadCandidates(c) ==
    UNION {c.claims \X {strengthIdentifier},
           Evidence(hasCursorPayload(c), {"cursor"}, strengthPayload),
           Evidence(hasCopilotPayload(c), {"copilot"}, strengthPayload),
           Evidence(hasGeminiEvent(c), {"gemini"}, strengthPayload),
           Evidence(hasClaudePayload(c), {"claude"}, strengthShared),
           Evidence(hasCursorEvent(c), {"cursor", "copilot"}, strengthShared)}
environmentCandidates(c) ==
    {<<p, IF p = "vscode" THEN strengthShared ELSE strengthContext>> : p \in c.env}

\* The one provider that has the strongest evidence, or none.
resolveClassification(candidates) ==
    LET top == Max({x[2] : x \in candidates} \cup {0})
        ps == {x[1] : x \in {y \in candidates : y[2] = top}}
    IN IF Cardinality(ps) = 1 THEN CHOOSE p \in ps : TRUE ELSE "unknown"

ClassifyWithContext(c) ==
    IF c.payload = "unreadable"
    THEN "unknown"
    ELSE resolveClassification(UNION {routeCandidates(c), invocationCandidates(c),
                                      payloadCandidates(c), environmentCandidates(c)})

\* Whether the payload decodes into the type of the provider's event.
ParseHookPayload(system, c) ==
    c.payload = "ok" \/ (c.payload = "mistyped" /\ system = "unknown")

-----------------------------------------------------------------------------
(* The client: cmd/agent-gate in hook mode.                                *)

Idle == [pc |-> "idle", system |-> "unknown", event |-> "", response |-> Response({}, {}, 0),
         verdict |-> "", block |-> FALSE, effects |-> <<>>, records |-> <<>>, outputs |-> {}]

CallInit ==
    /\ hookCall = {} /\ client = "idle" /\ daemon = Idle
    /\ answer = {} /\ evidence = {}

The == CHOOSE c \in hookCall : TRUE

Answer(response) == client' = "done" /\ answer' = {response}

\* A failure of the transport is answered with an allow and recorded.
failOpenSilently(reason) ==
    Answer(FailOpenResponse(providerHint(The), reason)) /\ UNCHANGED evidence
failOpen(reason) ==
    /\ Answer(FailOpenResponse(providerHint(The), reason))
    /\ evidence' = evidence \cup {reason}

runHook(c) ==
    /\ client = "idle"
    /\ hookCall' = {c} /\ client' = "stdin"
    /\ UNCHANGED <<daemon, answer, evidence>>

ReadHookInput ==
    /\ client = "stdin"
    /\ \/ client' = "recovery" /\ UNCHANGED <<answer, evidence>>
       \/ failOpen("stdin_read_failed")
    /\ UNCHANGED <<hookCall, daemon>>

\* A command that recovers the configuration is let through without the daemon.
recoveryHookResponse ==
    /\ client = "recovery"
    /\ LET system == ClassifyWithContext(The)
       IN IF The.recovers /\ ParseHookPayload(system, The)
          THEN Answer(RenderResponse(Allow(system, NormalizeCopilotPayload(system, The))))
          ELSE client' = "connect" /\ UNCHANGED answer
    /\ UNCHANGED <<hookCall, daemon, evidence>>

Connect ==
    /\ client = "connect"
    /\ \/ client' = "resolve" /\ UNCHANGED <<answer, evidence>>
       \/ failOpen("daemon_unavailable")
    /\ UNCHANGED <<hookCall, daemon>>

ResolveHookEnvironment ==
    /\ client = "resolve"
    /\ \/ /\ client' = "await" /\ UNCHANGED <<answer, evidence>>
          /\ daemon' \in {Idle, [Idle EXCEPT !.pc = "received"]}
       \/ failOpen("rpc_failed") /\ UNCHANGED daemon
    /\ UNCHANGED hookCall

\* The deadline passes, the daemon dies, or the call cannot be delivered.
EvaluateHookFails ==
    /\ client = "await"
    /\ failOpen("rpc_failed")
    /\ UNCHANGED <<hookCall, daemon>>

mirrorResponse ==
    /\ client = "await" /\ daemon.pc = "answered"
    /\ Answer(daemon.response)
    /\ UNCHANGED <<hookCall, daemon, evidence>>

recoverPanic ==
    /\ client \notin {"idle", "done"}
    /\ failOpen("panic_recovered")
    /\ UNCHANGED <<hookCall, daemon>>

-----------------------------------------------------------------------------
(* The daemon.  It goes on when the client has given up.                   *)

\* The call is allowed because no rule was applied to it.
unevaluated(reason) ==
    /\ daemon.pc = "received"
    /\ daemon' = [daemon EXCEPT !.pc = "answered",
                                !.response = FailOpenResponse(providerHint(The), reason)]
    /\ evidence' = evidence \cup {reason}
    /\ UNCHANGED <<hookCall, client, answer>>

\* What the rules found becomes a block where the event takes one, or an allow
\* with the effects the event takes.
evaluated(system, event, outcome) ==
    LET block == outcome.block /\ CanBlock(system, event)
        composed == composeResponseEffects(system, event, outcome.effects, block)
        prompt == IF system = "copilot" THEN "prompt" ELSE ""
        request == [Allow(system, event) EXCEPT
                      !.decision = IF block THEN "block" ELSE "allow",
                      !.diagnostic = IF block THEN {"violations"} ELSE {},
                      !.context = composed.context, !.mutation = composed.mutation,
                      !.prompt = prompt]
    IN [pc |-> "evaluated", system |-> system, event |-> event, response |-> RenderResponse(request),
        verdict |-> IF block THEN "block" ELSE "allow",
        block |-> outcome.block, effects |-> outcome.effects, records |-> composed.records,
        outputs |-> IF block THEN {}
                    ELSE temporalResponseOutputs(system, event, composed.context,
                                                 composed.mutation, prompt)]

\* A payload that does not decode is refused.
hotEvaluate(outcome) ==
    /\ daemon.pc = "received"
    /\ LET system == ClassifyWithContext(The)
       IN daemon' = IF ParseHookPayload(system, The)
                    THEN evaluated(system, NormalizeCopilotPayload(system, The), outcome)
                    ELSE [daemon EXCEPT !.pc = "evaluated", !.system = system,
                                        !.response = Response({}, {"parse"}, 2),
                                        !.verdict = "unreadable"]
    /\ UNCHANGED <<hookCall, client, answer, evidence>>

\* A verdict that cannot be stored is dropped, and the answer says so.
commitHotEvaluation ==
    /\ daemon.pc = "evaluated"
    /\ \/ daemon' = [daemon EXCEPT !.pc = "answered"] /\ UNCHANGED evidence
       \/ /\ daemon' = [daemon EXCEPT
                          !.pc = "answered", !.verdict = "discarded", !.outputs = {},
                          !.response = FailOpenResponse(daemon.system, "verdict_not_recorded")]
          /\ evidence' = evidence \cup {"verdict_not_recorded"}
    /\ UNCHANGED <<hookCall, client, answer>>

CallNext ==
    \/ \E c \in HookCallSet : runHook(c)
    \/ ReadHookInput \/ recoveryHookResponse \/ Connect \/ ResolveHookEnvironment
    \/ EvaluateHookFails \/ mirrorResponse \/ recoverPanic
    \/ \E reason \in {"daemon_not_ready", "config_unusable", "daemon_overloaded",
                      "intake_write_failed"} : unevaluated(reason)
    \/ \E outcome \in RuleOutcomes : hotEvaluate(outcome)
    \/ commitHotEvaluation

CallSpec == CallInit /\ [][CallNext]_callVars

-----------------------------------------------------------------------------
(* Properties.                                                             *)

Warned(response) == "unevaluated" \in response.stderr

\* The registered command names the host, or the payload does, and no field of
\* the payload names another provider.
Identified(c) ==
    /\ c.claims \subseteq {c.host}
    /\ c.route = "command" \/ (c.route = "managed" /\ (c.tag = c.host \/ hasCursorPayload(c)))

\* Whatever fails on the way, and whoever gives up first: an identified host
\* that is neither stopped nor warned was let through by a verdict that is
\* stored, or by the recovery of the configuration; and each warning has its
\* record (RenderResponse, discardedVerdict, runHookWithRuntime).
AllowWasDecided ==
    \A r \in answer :
        /\ Identified(The) /\ ~Stops(The.host, r) /\ ~Warned(r)
           => The.recovers \/ daemon.verdict = "allow"
        /\ Warned(r) => \E reason \in evidence : reason \in r.stderr

\* A host is stopped by a stored block or by an unreadable payload, never by a
\* failure of the client, of the transport or of the daemon's storage
\* ("availability failures do not block").
FailuresNeverBlock ==
    \A r \in answer : Stops(The.host, r) => daemon.verdict \in {"block", "unreadable"}

\* A block that the rules found where the capability table says that the host
\* enforces it stops the host and gives it the reason, whatever other agents
\* run around the hook (the tables and the renderers are separate lists).
BlocksReachTheHost ==
    \A r \in answer :
        /\ daemon.pc = "answered" /\ r = daemon.response
        /\ Identified(The) /\ The.payload = "ok"
        /\ daemon.block /\ daemon.verdict # "discarded"
        /\ LookupCapability(The.host, The.event) # "observe"
        => /\ Stops(The.host, r)
           /\ {"violations", "event_id", "footer"} \subseteq
                 r.stderr \cup UNION {d.reason : d \in r.stdout}

\* The answer to an allowed call holds each injected text that the stored records
\* call applied, in the order of the rules, and of the mutations they call applied
\* the last one and no other ("the last valid mutation for a target replaces its
\* value"); where the prompt itself is replaced, both in one text around the prompt
\* or its replacement; nothing else is in it, and the temporal context learns
\* exactly that (composeResponseEffects decides the records, the renderers and
\* temporalResponseOutputs check channels and values again, each on its own).
EffectsMatchRecords ==
    daemon.pc = "answered" /\ daemon.verdict = "allow" =>
        LET applied == SelectSeq([i \in DOMAIN daemon.records |-> i],
                                 LAMBDA i : daemon.records[i] = "applied")
            Said(action) == Outputs([k \in DOMAIN applied |-> daemon.effects[applied[k]]], action)
            last == {Last(m) : m \in {Said("mutate")} \ {<<>>}}
            told == UNION {d.mutated \cup Evidence(d.context # <<>>, {"context"}, d.context) :
                             d \in daemon.response.stdout}
            texts == {x[2] : x \in told}
            prompt == \E x \in told : x[1] = "prompt"
        IN /\ told = daemon.outputs
           /\ ~prompt => texts = ({Said("inject")} \ {<<>>}) \cup {<<m>> : m \in last}
           /\ prompt => /\ applied # <<>>
                        /\ texts = {Append(Said("inject"), m) :
                                      m \in IF last = {} THEN {"prompt"} ELSE last}

\* A rule effect that an event takes away was warned about when the
\* configuration was loaded, if the rule lists the event for the provider or
\* names an event of the capability table (WarnCapabilityDowngrades).
LostEffectsWarned ==
    daemon.system \in Providers =>
        LET pair == <<daemon.system, daemon.event>>
            Rule(action) == [all |-> FALSE, listed |-> [p \in Providers |-> {}],
                             events |-> {}, disabled |-> {}, action |-> action]
            Naming(action) ==
                {[Rule(action) EXCEPT !.listed[daemon.system] = {daemon.event}]}
                \cup {r \in {[Rule(action) EXCEPT !.events = {daemon.event}],
                             [Rule(action) EXCEPT !.all = TRUE]} : pair \in capabilityTable}
            Warns(action) == \A r \in Naming(action) : pair \in WarnCapabilityDowngrades(r)
        IN /\ daemon.block /\ daemon.verdict = "allow" => Warns("block")
           /\ \A i \in DOMAIN daemon.records :
                 daemon.records[i] = "unsupported_noop" => Warns(daemon.effects[i].action)

\* What the rules decided reaches the host, wherever the capability tables say
\* that it can, or somebody is told; failures on the way to the verdict neither
\* block nor go unseen (cmd/agent-gate/main.go; server.go: EvaluateHook;
\* provider.go, capability_warn.go).
DecisionsReachTheHost ==
    AllowWasDecided /\ FailuresNeverBlock /\ BlocksReachTheHost /\ LostEffectsWarned

\* docs/features.md: a failure of the transport returns the allow response of
\* the provider that called (runHookWithRuntime answers for its hint).
TransportFailsWithProviderAllow ==
    \A r \in answer :
        \A reason \in evidence \cap {"stdin_read_failed", "daemon_unavailable", "rpc_failed"} :
            r.stdout = FailOpenResponse(The.host, reason).stdout
=============================================================================
