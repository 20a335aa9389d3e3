------------------------------ MODULE MCInstall ------------------------------
(* What installing, merging, resetting and setting up start from.           *)
EXTENDS ConfigMerge, HookFiles, Reset, Setup

(* The lines of a configuration: the tables that a merge edits, in every    *)
(* spelling, and lines that open or close a multi-line string.              *)
Header(p) == Line("header", p, "")
KeyLine(p, v) == Line("key", p, v)
Toggling(line) == [line EXCEPT !.toggles = TRUE]
SomeLines ==
    {Header(Update), Header(Storage), Header(<<"audit">>), Header(Append(Storage, "cache")),
     Line("array", <<"rules">>, ""), Toggling(Header(Storage)),
     KeyLine(<<"profile">>, "minimal"), KeyLine(<<"interval">>, "1h"),
     KeyLine(<<"storage", "max_size">>, "1GB"), KeyLine(<<"audit", "storage", "max_size">>, "1GB"),
     KeyLine(<<"update", "interval">>, "1h"),
     Toggling(KeyLine(<<"profile">>, "minimal")), Toggling(KeyLine(<<"note">>, "text")),
     [Line("inline", <<"storage">>, "") EXCEPT !.fields = {<<<<"max_size">>, "1GB">>}],
     [Line("inline", <<"audit">>, "") EXCEPT !.fields = {<<<<"storage", "max_size">>, "1GB">>}]}

(* The providers' files: none, unreadable, the operator's own hooks, and    *)
(* hooks of an earlier installation.                                        *)
Mine(exe) == Group("", <<Command(exe, "expected")>>)
Theirs == Group("", <<Command("tool", "none")>>)
Mixed == Group("", <<Command("old", "none"), Command("tool", "none")>>)
JsonFiles == {{}, {Unparsable}, {Json([tool |-> <<Theirs, Mixed>>])},
              {Json([start |-> <<Mine("old"), Theirs>>, tool |-> <<>>])},
              {Json([start |-> <<Group("", <<Command("wrapper", "expected")>>)>>])}}
FlatFiles == {{}, {Json([start |-> <<Flat(Command("old", "none")), Flat(Command("tool", "none"))>>])}}
TomlLines(kinds) == [i \in DOMAIN kinds |-> Toml(kinds[i])]
CodexFiles ==
    {{}, {Codex(TomlLines(<<"user", "features", "hooks_false", "header", "user">>))},
     {Codex(TomlLines(<<"features", "user">>))}, {Codex(TomlLines(<<"user", "start">>))},
     {Codex(TomlLines(<<"user", "start">>) \o <<[kind |-> "body", exe |-> "old"]>>
            \o TomlLines(<<"end", "header", "user">>))}}
NoFiles == [p \in ProviderSet |-> {}]
DamagedFiles == [p \in ProviderSet |-> {Unparsable}]
OnlyFor(p, files) == {[NoFiles EXCEPT ![p] = f] : f \in files}
SomeHookFiles ==
    {DamagedFiles} \cup OnlyFor("claude", JsonFiles) \cup OnlyFor("codex", CodexFiles)
    \cup OnlyFor("cursor", FlatFiles)
    \cup OnlyFor("copilot", {{Unparsable}, {Json([start |-> <<Flat(Command("old", "none"))>>])}})
    \cup OnlyFor("gemini", {{Json([start |-> <<Group("startup", <<Command("bin", "expected")>>)>>])}})
SomeSelections == {ProviderSet, {"claude", "codex"}}

(* Layouts in which one artifact lies within another.                       *)
Apart == [a \in Artifacts |-> IF a = "state" THEN {"state", "logs"} ELSE {a}]
SomeLayouts == {Apart, [Apart EXCEPT !["state"] = @ \cup {"config"}],
                [Apart EXCEPT !["cache"] = @ \cup {"stage"}],
                [Apart EXCEPT !["database"] = @ \cup {"coordination"}]}
SomeTargets == {DefaultResetTargets, {"config"}, {"hooks"}, {"binary"}}

TwoProviders == <<"claude", "codex">>
=============================================================================
