----------------------------- MODULE MCHookCalls -----------------------------
(* Hook calls of every host at events that do and do not take its effects,  *)
(* started by installed, older and bare commands, alone and among other     *)
(* agents; and what the rules may find.                                     *)
EXTENDS HookCalls

SomeEvents ==
    [claude |-> {"PreToolUse", "PostToolUse", "UserPromptSubmit", "Stop", "SessionStart"},
     codex |-> {"PreToolUse", "PostToolUse", "UserPromptSubmit", "Stop", "PreCompact"},
     cursor |-> {"preToolUse", "postToolUse", "beforeShellExecution", "stop", "afterFileEdit"},
     copilot |-> {"preToolUse", "postToolUse", "UserPromptSubmit", "userPromptTransformed",
                  "notification"},
     gemini |-> {"BeforeTool", "AfterTool", "BeforeAgent", "SessionStart"},
     vscode |-> {"PreToolUse"}]

Installed(h, e) == [host |-> h, event |-> e, route |-> "managed", tag |-> h, around |-> {},
                    env |-> {}, claims |-> {}, payload |-> "ok", recovers |-> FALSE]
InstalledCalls == UNION {{Installed(h, e) : e \in SomeEvents[h]} : h \in DOMAIN SomeEvents}

SomeCalls ==
    UNION {{c, [c EXCEPT !.around = {"claude"}, !.env = {"vscode", "cursor"}],
            [c EXCEPT !.env = {"codex", "copilot"}], [c EXCEPT !.tag = "claude"],
            [c EXCEPT !.route = "bare"],
            [c EXCEPT !.route = "bare", !.around = {"claude"}, !.env = {"codex"}]} :
              c \in InstalledCalls}
    \cup {[c EXCEPT !.route = "command", !.around = {"claude"}] :
              c \in {x \in InstalledCalls : x.host \in {"codex", "copilot", "gemini"}}}
    \cup {[Installed(h, "PreToolUse") EXCEPT !.payload = p, !.recovers = r] :
              h \in {"claude", "codex"}, p \in {"ok", "mistyped", "unreadable"}, r \in BOOLEAN}
    \cup {[Installed("claude", "PreToolUse") EXCEPT !.claims = {"codex"}],
          [Installed("claude", "PreToolUse") EXCEPT !.claims = {"claude", "codex"}],
          [Installed("codex", "PreToolUse") EXCEPT !.claims = {"codex"}, !.tag = "claude"]}

Inject(text) == [action |-> "inject", output |-> text]
Mutate(m) == [action |-> "mutate", output |-> m]
SomeOutcomes ==
    [block : BOOLEAN, effects : {<<>>, <<Inject("first")>>, <<Inject("first"), Inject("second")>>}]
    \cup [block : {FALSE},
          effects : {<<Mutate(m)>> : m \in {"text", "json", "result", ""}}
                    \cup {<<Inject("first"), Mutate(m)>> : m \in {"json", "result"}}
                    \cup {<<Mutate("result"), Mutate(m), Inject("second")>> : m \in {"text", "json"}}]
=============================================================================
