---------------------------- MODULE ConfigMerge ----------------------------
(***************************************************************************)
(* How setup edits the configuration file: the [update] table and the      *)
(* audit storage profile are changed by line edits of the TOML source, so  *)
(* that comments and layout survive, and the result is decoded before it   *)
(* is written (internal/config: defaults_plan.go, update.go, toml_key.go). *)
(*                                                                         *)
(* A line is a record: kind ("header", "array", "key", "inline" or         *)
(* "text"), path (the dotted key it writes), value, fields (of an inline   *)
(* table: relative path and value) and toggles, which says that it opens   *)
(* or closes a multi-line string.  Lines within a multi-line string may    *)
(* look like any other line.  Quoting, blanks and comments are left out.   *)
(***************************************************************************)
EXTENDS Integers, Sequences, FiniteSets, FiniteSetsExt, SequencesExt, TLC

CONSTANTS MergeLines,       \* the lines a document is made of
          MaxMergeLines,    \* how many lines it has at most
          MergeModes,       \* the auto-update modes asked for; "" asks for none
          MergeProfiles     \* the storage profiles asked for; "" asks for none

VARIABLES sourceText,       \* the document read: lines and final newline
          merged            \* <<>> before the merge, then <<the result>>

mergeVars == <<sourceText, merged>>

Storage == <<"audit", "storage">>
Update == <<"update">>
HeaderKinds == {"header", "array"}
Line(kind, path, value) ==
    [kind |-> kind, path |-> path, value |-> value, fields |-> {},
     toggles |-> FALSE]

-----------------------------------------------------------------------------
\* Reading lines.

(* A line is structural when no multi-line string is open before it.       *)
StructuralLinesIgnoringStrings(lines) == 1..Len(lines)
tomlStructuralLines(lines) ==
    {i \in 1..Len(lines) :
        Cardinality({j \in 1..(i - 1) : lines[j].toggles}) % 2 = 0}

(* The line that ends the value which starts at line i.                    *)
tomlAssignmentValueEnd(lines, i) ==
    IF ~lines[i].toggles THEN i
    ELSE LET closing == {j \in (i + 1)..Len(lines) : lines[j].toggles}
         IN  IF closing = {} THEN i ELSE Min(closing)

LinesOf(lines, kinds) ==
    {i \in tomlStructuralLines(lines) : lines[i].kind \in kinds}
HeadersUpTo(lines, i) == {j \in LinesOf(lines, HeaderKinds) : j <= i}
TablePath(lines, i) ==
    IF HeadersUpTo(lines, i) = {} THEN <<>>
    ELSE lines[Max(HeadersUpTo(lines, i))].path
FullPath(lines, i) ==
    IF lines[i].kind \in HeaderKinds THEN lines[i].path
    ELSE TablePath(lines, i) \o lines[i].path
hasTOMLKeyPrefix(path, prefix) == IsPrefix(prefix, path)
Assignments(lines) ==
    LinesOf(lines, {"key", "inline"})

-----------------------------------------------------------------------------
\* What a document says (the TOML decoder): a set of path and value, or
\* that it is not valid.

OutsideStrings(lines) ==
    {i \in 1..Len(lines) :
        Cardinality({j \in 1..(i - 1) : lines[j].toggles}) % 2 = 0}
Tables(lines, kinds) == {i \in OutsideStrings(lines) : lines[i].kind \in kinds}
Keys(lines) == Tables(lines, {"key", "inline"})

(* Every element of an array of tables is a table of its own.              *)
ElementPath(lines, i) ==
    LET above == {j \in Tables(lines, HeaderKinds) : j <= i}
        header == lines[Max(above)]
        nth == Cardinality({j \in above : lines[j].kind = "array"})
    IN  IF above = {} THEN <<>>
        ELSE IF header.kind = "array" THEN Append(header.path, ToString(nth))
        ELSE header.path
DefinedAt(lines, i) == ElementPath(lines, i) \o lines[i].path
ValuesAt(lines, i) ==
    IF lines[i].kind = "inline"
    THEN {<<DefinedAt(lines, i) \o f[1], f[2]>> : f \in lines[i].fields}
    ELSE {<<DefinedAt(lines, i), lines[i].value>>}
Decode(doc) == UNION {ValuesAt(doc.lines, i) : i \in Keys(doc.lines)}

(* The tables that dotted keys define.                                     *)
DottedTables(lines) ==
    UNION {{ElementPath(lines, i) \o SubSeq(lines[i].path, 1, n) :
               n \in 1..(Len(lines[i].path) - 1)} : i \in Keys(lines)}
Decodes(doc) ==
    LET lines == doc.lines
        tables == {lines[i].path : i \in Tables(lines, {"header"})}
        keys == Keys(lines)
    IN  /\ ~doc.glued
        /\ Cardinality({i \in 1..Len(lines) : lines[i].toggles}) % 2 = 0
        /\ \A i \in OutsideStrings(lines) :
              lines[i].kind # "text" /\ (lines[i].toggles => lines[i].kind = "key")
        /\ Cardinality(tables) = Cardinality(Tables(lines, {"header"}))
        /\ tables \cap DottedTables(lines) = {}
        /\ \A i, j \in keys :
              i # j => ~IsPrefix(DefinedAt(lines, i), DefinedAt(lines, j))
        /\ \A i \in keys : \A t \in tables : ~IsPrefix(DefinedAt(lines, i), t)

-----------------------------------------------------------------------------
\* The [update] table.

UpdateHeaders(lines) ==
    {i \in LinesOf(lines, {"header"}) : lines[i].path = Update}
topLevelTableDeclared(lines) == UpdateHeaders(lines) # {}
UpdateBlock(enabled, mode, interval) ==
    <<Line("header", Update, ""), Line("key", <<"enabled">>, enabled),
      Line("key", <<"mode">>, mode), Line("key", <<"interval">>, interval)>>
updateBlockForMode(mode) ==
    UpdateBlock(IF mode = "off" THEN "false" ELSE "true",
                IF mode \in {"", "off"} THEN "apply" ELSE mode, "24h")

(* The decoded table, or the default of a key it does not set.             *)
UpdateValue(doc, key, default) ==
    LET found == {e \in Decode(doc) : e[1] = <<"update", key>>}
    IN  IF found = {} \/ \E e \in found : e[2] = "" THEN default
        ELSE (CHOOSE e \in found : TRUE)[2]
mergedUpdateBlock(doc, mode) ==
    UpdateBlock(CASE mode = "off" -> "false"
                  [] mode = ""    -> UpdateValue(doc, "enabled", "true")
                  [] OTHER        -> "true",
                CASE mode = "off" -> "apply"
                  [] mode = ""    -> UpdateValue(doc, "mode", "apply")
                  [] OTHER        -> mode,
                UpdateValue(doc, "interval", "24h"))

(* The table ends at the next structural line that starts with a bracket.  *)
replaceTopLevelTable(doc, block) ==
    LET lines == doc.lines
        start == Max(UpdateHeaders(lines))
        later == {i \in LinesOf(lines, HeaderKinds) : i > start}
        end == IF later = {} THEN Len(lines) + 1 ELSE Min(later)
    IN  [doc EXCEPT
          !.lines = SubSeq(lines, 1, start - 1) \o block
                        \o SubSeq(lines, end, Len(lines)),
          !.newline = @ \/ later = {}]

AppendBlock(doc, block) ==
    [doc EXCEPT !.lines = @ \o block, !.newline = TRUE]

MergeUpdateAppendsAlways(doc, mode) ==
    AppendBlock(doc, updateBlockForMode(mode))
mergeUpdateDefaults(doc, mode) ==
    IF ~topLevelTableDeclared(doc.lines)
    THEN AppendBlock(doc, updateBlockForMode(mode))
    ELSE IF mode = "" THEN doc
    ELSE replaceTopLevelTable(doc, mergedUpdateBlock(doc, mode))

-----------------------------------------------------------------------------
\* The audit storage profile.

(* Where the document speaks of [audit.storage]: sets of at most one line, *)
(* the first or the last as the scan keeps it.                             *)
FirstLine(lineSet) == IF lineSet = {} THEN {} ELSE {Min(lineSet)}
LastLine(lineSet) == IF lineSet = {} THEN {} ELSE {Max(lineSet)}
locateAuditStorage(lines) ==
    LET about == {i \in LinesOf(lines, HeaderKinds) \cup Assignments(lines) :
                    hasTOMLKeyPrefix(FullPath(lines, i), Storage)}
        headers == about \cap LinesOf(lines, HeaderKinds)
        keys == about \ headers
    IN  [present |-> about # {},
         table   |-> LastLine({i \in headers : Len(lines[i].path) = 2}),
         nested  |-> FirstLine({i \in headers : Len(lines[i].path) > 2}),
         inline  |-> LastLine({i \in keys : lines[i].kind = "inline"
                                /\ Len(FullPath(lines, i)) = 2}),
         first   |-> FirstLine(keys),
         profile |-> LastLine({i \in keys : FullPath(lines, i)
                                = Append(Storage, "profile")})]

StorageTable(profile) ==
    <<Line("header", Storage, ""), Line("key", <<"profile">>, profile)>>

(* A value that spans lines is replaced by one line.                       *)
replaceTOMLAssignmentValue(doc, i, profile) ==
    LET end == tomlAssignmentValueEnd(doc.lines, i)
    IN  [doc EXCEPT
          !.lines = SubSeq(@, 1, i - 1)
              \o <<[@[i] EXCEPT !.value = profile, !.toggles = FALSE]>>
              \o SubSeq(@, end + 1, Len(@))]

replaceInlineTableProfile(line, profile) ==
    [line EXCEPT !.fields =
        {f \in @ : f[1] # <<"profile">>} \cup {<<<<"profile">>, profile>>}]

(* A line put after a last line that has no newline is glued to it.        *)
insertConfigLine(doc, i, block) ==
    [doc EXCEPT !.lines = SubSeq(@, 1, i - 1) \o block \o SubSeq(@, i, Len(@)),
                !.glued = @ \/ (i > Len(doc.lines) /\ ~doc.newline),
                !.newline = @ \/ i > Len(doc.lines)]

(* The key as it is written under the table where the first key stands.    *)
RelativeProfileLine(lines, i, profile) ==
    LET table == TablePath(lines, i)
    IN  <<Line("key", SubSeq(Append(Storage, "profile"), Len(table) + 1, 3),
               profile)>>

mergeAuditStorageDefaults(doc, profile) ==
    LET at == locateAuditStorage(doc.lines)
        The(one) == CHOOSE i \in one : TRUE
    IN  CASE at.profile # {} ->
                IF profile = "" THEN doc
                ELSE replaceTOMLAssignmentValue(doc, The(at.profile), profile)
          [] at.profile = {} /\ at.inline # {} ->
                IF profile = "" THEN doc
                ELSE [doc EXCEPT !.lines[The(at.inline)] =
                         replaceInlineTableProfile(@, profile)]
          [] at.profile \cup at.inline = {} /\ profile = "" ->
                IF at.present THEN doc ELSE AppendBlock(doc, StorageTable("full"))
          [] at.profile \cup at.inline = {} /\ profile # "" ->
                CASE at.table # {} ->
                        insertConfigLine(doc, The(at.table) + 1,
                            <<Line("key", <<"profile">>, profile)>>)
                  [] at.table = {} /\ at.nested # {} ->
                        insertConfigLine(doc, The(at.nested), StorageTable(profile))
                  [] at.table \cup at.nested = {} /\ at.first # {} ->
                        insertConfigLine(doc, The(at.first),
                            RelativeProfileLine(doc.lines, The(at.first), profile))
                  [] OTHER -> AppendBlock(doc, StorageTable(profile))

-----------------------------------------------------------------------------
\* PrepareDefaults merges, decodes and refuses what does not decode or does
\* not have the profile that was asked for.

ProfileOf(doc) ==
    LET found == {e \in Decode(doc) : e[1] = Append(Storage, "profile")}
    IN  IF found = {} THEN "full" ELSE (CHOOSE e \in found : TRUE)[2]
Merge(doc, mode, profile) ==
    mergeAuditStorageDefaults(mergeUpdateDefaults(doc, mode), profile)
Accepted(doc, profile) ==
    Decodes(doc) /\ (profile # "" => ProfileOf(doc) = profile)

SourceDocuments ==
    {doc \in [lines : UNION {[1..n -> MergeLines] : n \in 0..MaxMergeLines},
              newline : BOOLEAN, glued : {FALSE}] :
        Decodes(doc) /\ (doc.lines = <<>> => doc.newline)}

MergeInit == sourceText \in SourceDocuments /\ merged = <<>>

PrepareMerge(mode, profile) ==
    /\ merged = <<>>
    /\ LET doc == Merge(sourceText, mode, profile)
       IN  merged' = <<[mode |-> mode, profile |-> profile, doc |-> doc,
                        accepted |-> Accepted(doc, profile)]>>
    /\ UNCHANGED sourceText

MergeNext ==
    \E mode \in MergeModes, profile \in MergeProfiles : PrepareMerge(mode, profile)

MergeSpec == MergeInit /\ [][MergeNext]_mergeVars

-----------------------------------------------------------------------------
(* An accepted merge says what was asked, keeps every other setting of the *)
(* file (the update table's interval included) and adds none but the       *)
(* defaults of the two tables: no line of another table, of an element of  *)
(* a list or of a multi-line string was taken for the one to edit          *)
(* (mergeUpdateDefaults, mergeAuditStorageDefaults).  A second run of      *)
(* setup with the same options finds its own edits and changes nothing.    *)
MergeChangesOnlyWhatIsAsked ==
    \A i \in 1..Len(merged) :
        LET m == merged[i]
            before == Decode(sourceText)
            after == Decode(m.doc)
            Edited(path) == \/ path[1] = "update" /\ m.mode # ""
                            \/ path = Append(Storage, "profile") /\ m.profile # ""
        IN  m.accepted =>
              /\ {e \in before : ~Edited(e[1])} \subseteq after
              /\ \A e \in after \ before :
                    e[1][1] = "update" \/ e[1] = Append(Storage, "profile")
              /\ m.mode # "" =>
                    <<<<"update", "enabled">>,
                      IF m.mode = "off" THEN "false" ELSE "true">> \in after
              /\ \A e \in before : e[1] = <<"update", "interval">>
                    => e[2] = "" \/ e \in after
              /\ Merge(m.doc, m.mode, m.profile) = m.doc

(* Every file that writes its settings in tables is merged: the refusals   *)
(* are the update table written as dotted or inline keys, the audit table  *)
(* written inline, dotted storage keys beside a table nested in storage,   *)
(* and a table header that ends the file without a newline.                *)
MergeRefusesOnlyUnscanned ==
    \A i \in 1..Len(merged) :
        \/ merged[i].accepted
        \/ merged[i].doc.glued
        \/ /\ ~topLevelTableDeclared(sourceText.lines)
           /\ \E e \in Decode(sourceText) : e[1][1] = "update"
        \/ /\ Storage \in DottedTables(sourceText.lines)
           /\ locateAuditStorage(sourceText.lines).nested # {}
        \/ \E j \in Keys(sourceText.lines) :
              /\ sourceText.lines[j].kind = "inline"
              /\ FullPath(sourceText.lines, j) = <<"audit">>

(* A merge changes the asked keys and nothing else, and refuses only what    *)
(* the line scanner is known not to see (defaults_plan.go, toml_key.go).     *)
MergeSafe == MergeChangesOnlyWhatIsAsked /\ MergeRefusesOnlyUnscanned
=============================================================================
