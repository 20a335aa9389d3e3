----------------------------- MODULE HookFiles -----------------------------
(***************************************************************************)
(* The hook configuration files of the providers: how installation merges  *)
(* the managed commands into them, how removal takes them out, and what    *)
(* the verifier accepts as an installed registration                       *)
(* (internal/install: install.go, provider.go, registration.go).           *)
(*                                                                         *)
(* A command is the executable it runs, the "managed-hook" marker that     *)
(* follows it ("none", "expected", or "other" arguments) and its type.  A  *)
(* JSON file maps events to groups, a group has a matcher, a command of    *)
(* its own or nested ones; the Codex file is a sequence of TOML lines.     *)
(***************************************************************************)
EXTENDS Integers, Sequences, FiniteSets, SequencesExt

CONSTANTS FirstHookFiles,   \* the files of the providers to start with
          HookSelections,   \* the sets of providers a command may name
          HookExecutables,  \* the executables that --bin-path may name
          MaxHookCommands,  \* bound on the install and removal commands
          MaxHookEdits      \* bound on the files the operator saves

VARIABLES hookFile,         \* provider -> {} or the content of its file
          hookPlan,         \* the prepared writes, what they were made from
          hookEdits

hookVars == <<hookFile, hookPlan, hookEdits>>

AllProviders == <<"claude", "codex", "cursor", "gemini", "copilot">>
ProviderSet == Range(AllProviders)

-----------------------------------------------------------------------------
\* Commands and groups.

Command(exe, marker) == [exe |-> exe, marker |-> marker, type |-> "command"]
Group(matcher, nested) == [matcher |-> matcher, direct |-> <<>>, nested |-> nested]
Flat(command) == [matcher |-> "", direct |-> <<command>>, nested |-> <<>>]
groupCommands(group) == group.direct \o group.nested

(* The base name of the executable decides, with the marker or without;    *)
(* ValidateExecutable accepts others, which are then not recognised.       *)
NamedAgentGate == {"bin", "old"}
OnlyThisExecutable(command) == command.exe = "bin"
isAgentGateCommandObject(command) == command.exe \in NamedAgentGate

(* A group of its own command goes with it; nested commands go one by one, *)
(* and the group when none is left.  A group without commands stays.       *)
DropWholeGroups(groups) ==
    SelectSeq(groups, LAMBDA g :
        ~\E c \in Range(groupCommands(g)) : isAgentGateCommandObject(c))
removeAgentGateCommands(groups) ==
    LET Foreign(commands) ==
            SelectSeq(commands, LAMBDA c : ~isAgentGateCommandObject(c))
        Kept == SelectSeq(groups, LAMBDA g :
                    /\ ~\E c \in Range(g.direct) : isAgentGateCommandObject(c)
                    /\ g.nested = <<>> \/ Foreign(g.nested) # <<>>)
    IN  [i \in DOMAIN Kept |-> [Kept[i] EXCEPT !.nested = Foreign(@)]]

(* An event without groups stays, one that loses its last group goes.      *)
mergeJSONHooks(existing, managed) ==
    LET cleaned == [e \in DOMAIN existing |-> removeAgentGateCommands(existing[e])]
        kept == {e \in DOMAIN existing : existing[e] = <<>> \/ cleaned[e] # <<>>}
    IN  [e \in kept \cup DOMAIN managed |->
            (IF e \in kept THEN cleaned[e] ELSE <<>>)
              \o (IF e \in DOMAIN managed THEN managed[e] ELSE <<>>)]

-----------------------------------------------------------------------------
\* The templates, and the file each provider is given.

(* The matchers of the session start event.                                *)
lifecycleRegistration(p) ==
    CASE p = "codex" -> <<"startup|resume|clear">>
      [] p = "gemini" -> <<"startup", "resume", "clear">>
      [] OTHER -> <<"">>

renderJSONHooks(p, exe) ==
    LET managed == Command(exe, "expected")
        matchers == lifecycleRegistration(p)
    IN  [start |-> [i \in DOMAIN matchers |->
                       IF p \in {"cursor", "copilot"} THEN Flat(managed)
                       ELSE Group(matchers[i], <<managed>>)],
         tool  |-> <<IF p \in {"cursor", "copilot"} THEN Flat(managed)
                     ELSE Group("*", <<managed>>)>>]

NoHooks == <<>>
Json(hooks) == [parses |-> TRUE, hooks |-> hooks, lines |-> <<>>]
Unparsable == [Json(NoHooks) EXCEPT !.parses = FALSE]
Codex(lines) == [Json(NoHooks) EXCEPT !.lines = lines]

prepareJSONHooks(p, exe, content) ==
    Json(mergeJSONHooks(IF content = {} THEN NoHooks
                        ELSE (CHOOSE c \in content : TRUE).hooks,
                        renderJSONHooks(p, exe)))
prepareReplacementJSONHooks(p, exe) == Json(renderJSONHooks(p, exe))

(* Codex: a line is its kind and, in the managed block, the executable.    *)
Toml(kind) == [kind |-> kind, exe |-> "none"]
KindsOf(lines) == [i \in DOMAIN lines |-> lines[i].kind]

validateCodexManagedBlock(lines) ==
    LET marks == SelectSeq(KindsOf(lines), LAMBDA k : k \in {"start", "end"})
    IN  marks \in {<<>>, <<"start", "end">>}

InBlock(lines, i) ==
    \E a \in 1..i : /\ lines[a].kind = "start"
                    /\ \A b \in a..(i - 1) : lines[b].kind # "end"
OutsideMarkersOnly(lines) ==
    SelectSeq(lines, LAMBDA l : l.kind \notin {"start", "end"})
removeCodexManagedBlock(lines) ==
    LET outside == SelectSeq([i \in DOMAIN lines |-> i],
                             LAMBDA i : ~InBlock(lines, i))
    IN  [i \in DOMAIN outside |-> lines[outside[i]]]

(* [features] gets hooks = true: in place of what it says, at its end, or  *)
(* in a table of its own at the end of the file.                           *)
IsHeader(line) == line.kind \in {"features", "header"}
HeaderOf(lines, i) ==
    LET before == {j \in 1..i : IsHeader(lines[j])}
    IN  IF before = {} THEN 0 ELSE CHOOSE j \in before : \A k \in before : k <= j
InFeatures(lines, i) ==
    HeaderOf(lines, i) # 0 /\ lines[HeaderOf(lines, i)].kind = "features"
ensureCodexHooksFeature(lines) ==
    LET at == {i \in DOMAIN lines : InFeatures(lines, i)}
        said == {i \in at : lines[i].kind \in {"hooks_true", "hooks_false"}}
        last == CHOOSE i \in at : \A j \in at : j <= i
    IN  CASE at = {} -> lines \o <<Toml("features"), Toml("hooks_true")>>
          [] said # {} -> [i \in DOMAIN lines |->
                              IF i \in said THEN Toml("hooks_true") ELSE lines[i]]
          [] OTHER -> InsertAt(lines, last + 1, Toml("hooks_true"))

prepareCodexHooks(exe, content) ==
    LET lines == IF content = {} THEN <<>> ELSE (CHOOSE c \in content : TRUE).lines
    IN  Codex(ensureCodexHooksFeature(removeCodexManagedBlock(lines))
          \o <<Toml("start"), [kind |-> "body", exe |-> exe], Toml("end")>>)

ReadableHooks(p, content) ==
    \A c \in content : IF p = "codex" THEN validateCodexManagedBlock(c.lines)
                       ELSE c.parses \/ p = "copilot"
prepareProviderHooks(p, exe, content) ==
    CASE p = "codex" -> prepareCodexHooks(exe, content)
      [] p = "copilot" -> prepareReplacementJSONHooks(p, exe)
      [] OTHER -> prepareJSONHooks(p, exe, content)

(* Removal: a file that is not there is not written, and the copilot file  *)
(* is read like the others.                                                *)
prepareHookRemoval(p, content) ==
    IF p = "codex" THEN Codex(removeCodexManagedBlock(content.lines))
    ELSE Json(mergeJSONHooks(content.hooks, NoHooks))
Removable(p, content) ==
    \A c \in content : IF p = "codex" THEN validateCodexManagedBlock(c.lines)
                       ELSE c.parses

-----------------------------------------------------------------------------
\* What the verifier accepts (ReadManagedLifecycleCommandContext).

readLifecycleGroups(p, content) ==
    IF p # "codex"
    THEN IF "start" \in DOMAIN content.hooks THEN content.hooks["start"] ELSE <<>>
    ELSE LET bodies == SelectSeq(content.lines, LAMBDA l : l.kind = "body")
         IN  [i \in DOMAIN bodies |->
                 Group("startup|resume|clear", <<Command(bodies[i].exe, "expected")>>)]

(* Every managed command has the expected arguments, type and executable   *)
(* under an expected matcher, and no matcher has two.                      *)
validateLifecycleGroups(p, groups, exe) ==
    LET expected == Range(lifecycleRegistration(p))
        managed == {<<i, j>> \in (DOMAIN groups) \X (1..4) :
                       /\ j \in DOMAIN groupCommands(groups[i])
                       /\ groupCommands(groups[i])[j].marker # "none"}
        Of(at) == groupCommands(groups[at[1]])[at[2]]
    IN  /\ \A at \in managed :
              /\ Of(at).marker = "expected" /\ Of(at).type = "command"
              /\ Of(at).exe = exe
              /\ groups[at[1]].matcher \in expected
              /\ \A other \in managed \ {at} :
                    groups[other[1]].matcher # groups[at[1]].matcher
        /\ \A m \in expected : \E at \in managed : groups[at[1]].matcher = m
ReadManagedLifecycleCommand(p, content, exe) ==
    \E c \in content : /\ c.parses
                       /\ validateLifecycleGroups(p, readLifecycleGroups(p, c), exe)

-----------------------------------------------------------------------------
\* The commands.

NoHookPlan == [pc |-> "idle", kind |-> "none", exe |-> "none", writes |-> <<>>,
               read |-> [p \in ProviderSet |-> {}], selected |-> {},
               outcome |-> "none", commands |-> 0]

(* selectedProviders keeps the order of AllProviders.                      *)
selectedProviders(chosen) == SelectSeq(AllProviders, LAMBDA p : p \in chosen)

Plan(kind, exe, chosen, writes) ==
    hookPlan' = [pc |-> "writing", kind |-> kind, exe |-> exe, writes |-> writes,
                 read |-> hookFile, selected |-> chosen, outcome |-> "none",
                 commands |-> hookPlan.commands + 1]
RefuseHooks ==
    hookPlan' = [NoHookPlan EXCEPT !.outcome = "refused",
                                   !.commands = hookPlan.commands + 1]
MayStart == hookPlan.pc = "idle" /\ hookPlan.commands < MaxHookCommands

(* Every file is read and every content made before the first is written.  *)
PrepareHookInstallation(exe, chosen) ==
    /\ MayStart
    /\ IF \A p \in chosen : ReadableHooks(p, hookFile[p])
       THEN Plan("install", exe, chosen,
                 LET order == selectedProviders(chosen)
                 IN  [i \in DOMAIN order |-> <<order[i],
                        prepareProviderHooks(order[i], exe, hookFile[order[i]])>>])
       ELSE RefuseHooks
    /\ UNCHANGED <<hookFile, hookEdits>>

PrepareHookRemoval(chosen) ==
    /\ MayStart
    /\ IF \A p \in chosen : Removable(p, hookFile[p])
       THEN Plan("remove", "none", chosen,
                 LET order == SelectSeq(selectedProviders(chosen),
                                        LAMBDA p : hookFile[p] # {})
                 IN  [i \in DOMAIN order |-> <<order[i],
                        prepareHookRemoval(order[i],
                            CHOOSE c \in hookFile[order[i]] : TRUE)>>])
       ELSE RefuseHooks
    /\ UNCHANGED <<hookFile, hookEdits>>

(* writeFileAtomic renames a new file over the path, whatever is there by  *)
(* then; a write that fails ends the command.                              *)
ApplyHookWrite ==
    /\ hookPlan.pc = "writing" /\ hookPlan.writes # <<>>
    /\ hookFile' = [hookFile EXCEPT ![Head(hookPlan.writes)[1]] =
                                        {Head(hookPlan.writes)[2]}]
    /\ hookPlan' = [hookPlan EXCEPT !.writes = Tail(@)]
    /\ UNCHANGED hookEdits
ApplyHookFails ==
    /\ hookPlan.pc = "writing" /\ hookPlan.writes # <<>>
    /\ hookPlan' = [hookPlan EXCEPT !.pc = "idle", !.outcome = "failed",
                                    !.writes = <<>>]
    /\ UNCHANGED <<hookFile, hookEdits>>
ApplyHookDone ==
    /\ hookPlan.pc = "writing" /\ hookPlan.writes = <<>>
    /\ hookPlan' = [hookPlan EXCEPT !.pc = "idle", !.outcome = "done"]
    /\ UNCHANGED <<hookFile, hookEdits>>

(* The operator, or the provider's client, saves its file.                 *)
SaveHookFile(p, content) ==
    /\ hookEdits < MaxHookEdits /\ hookFile[p] # content
    /\ hookEdits' = hookEdits + 1
    /\ hookFile' = [hookFile EXCEPT ![p] = content]
    /\ hookPlan' = [hookPlan EXCEPT !.selected = @ \ {p}]

HookFilesInit ==
    /\ hookFile \in FirstHookFiles
    /\ hookPlan = NoHookPlan
    /\ hookEdits = 0

HookFilesNext ==
    \/ \E exe \in HookExecutables, chosen \in HookSelections :
          PrepareHookInstallation(exe, chosen)
    \/ \E chosen \in HookSelections : PrepareHookRemoval(chosen)
    \/ ApplyHookWrite \/ ApplyHookFails \/ ApplyHookDone
    \/ \E p \in ProviderSet : \E files \in FirstHookFiles :
          SaveHookFile(p, files[p])

HookFilesSpec == HookFilesInit /\ [][HookFilesNext]_hookVars

-----------------------------------------------------------------------------
(* What of a file is not Agent Gate's: the foreign commands of each event  *)
(* with their matchers, and the Codex lines outside the managed block but  *)
(* for the feature switch.                                                 *)
ForeignOf(p, content) ==
    IF p = "codex"
    THEN SelectSeq(KindsOf(removeCodexManagedBlock(content.lines)), LAMBDA k :
                       k \notin {"features", "hooks_true", "hooks_false"})
    ELSE [e \in {"start", "tool"} |->
             IF e \notin DOMAIN content.hooks THEN <<>>
             ELSE SelectSeq(FlattenSeq([i \in DOMAIN content.hooks[e] |->
                      LET g == content.hooks[e][i]
                      IN  [j \in DOMAIN groupCommands(g) |->
                              <<g.matcher, groupCommands(g)[j]>>]]),
                  LAMBDA mc : mc[2].exe \notin NamedAgentGate)]
\* A managed marker at the start of a session, on an executable that the merge
\* does not recognise; Codex and Copilot lose what was there.
Claims(p, content) ==
    /\ p \notin {"codex", "copilot"} /\ "start" \in DOMAIN content.hooks
    /\ \E g \in Range(content.hooks["start"]) : \E c \in Range(groupCommands(g)) :
          c.marker # "none" /\ c.exe \notin NamedAgentGate

(* An installation that finished is one the verifier accepts, in every     *)
(* file it wrote that nobody has saved since, whatever an older            *)
(* installation of the name agent-gate left there.  It is refused exactly  *)
(* where the merge kept a command that carries the managed marker: one of  *)
(* an executable of another name, which an earlier installation may have   *)
(* been (the next one of that name too, as the commands pile up).          *)
InstalledIsVerified ==
    hookPlan.pc = "idle" /\ hookPlan.outcome = "done" /\ hookPlan.kind = "install" =>
        \A p \in hookPlan.selected :
            ReadManagedLifecycleCommand(p, hookFile[p], hookPlan.exe)
                = ~\E c \in hookPlan.read[p] : Claims(p, c)

\* What an installation adds to the groups of a provider.
AddedBy(plan, p) ==
    IF plan.kind = "install" THEN Json(renderJSONHooks(p, plan.exe)) ELSE Json(NoHooks)

(* A command changes nothing of a file that is not Agent Gate's: neither   *)
(* installation nor removal loses, reorders or moves a foreign hook or a   *)
(* line the command read (mergeJSONHooks, removeCodexManagedBlock), and    *)
(* what is added comes after them.  The Copilot file is Agent Gate's own   *)
(* and installation replaces it.                                           *)
OnlyManagedChanges ==
    [][\A p \in hookPlan.selected : hookPlan'.writes # hookPlan.writes
            /\ hookFile'[p] # hookFile[p] /\ hookFile[p] # {}
            /\ (p # "copilot" \/ hookPlan.kind = "remove") =>
           \A was \in hookFile[p], is \in hookFile'[p] :
               IF p = "codex" THEN ForeignOf(p, is) = ForeignOf(p, was)
               ELSE \A e \in {"start", "tool"} :
                      ForeignOf(p, is)[e] =
                          ForeignOf(p, was)[e] \o ForeignOf(p, AddedBy(hookPlan, p))[e]]_hookVars

(* Installing again changes nothing, and removing what was installed       *)
(* leaves no managed command: the merge recognises what it wrote, for      *)
(* every file a provider may have (isAgentGateCommandObject).  Under       *)
(* another name this holds only of the files that are written as a whole.  *)
InstallIdempotent ==
    \A p \in ProviderSet : \A exe \in HookExecutables :
        ReadableHooks(p, hookFile[p]) =>
            LET once == prepareProviderHooks(p, exe, hookFile[p])
                gone == prepareHookRemoval(p, once)
            IN  /\ exe \in NamedAgentGate \/ p \in {"codex", "copilot"} =>
                      prepareProviderHooks(p, exe, {once}) = once
                /\ IF p = "codex" THEN \A l \in Range(gone.lines) : l.kind # "body"
                   ELSE exe \in NamedAgentGate =>
                        \A e \in DOMAIN gone.hooks : \A g \in Range(gone.hooks[e]) :
                            \A c \in Range(groupCommands(g)) : c.exe # exe

(* An installation that reports success can be verified, repeated and taken  *)
(* away again, as long as the executables are named agent-gate               *)
(* (install.go, registration.go).                                            *)
InstallSafe == InstalledIsVerified /\ InstallIdempotent
=============================================================================
