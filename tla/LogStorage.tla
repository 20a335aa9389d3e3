----------------------------- MODULE LogStorage -----------------------------
(***************************************************************************)
(* The bounded local logs (internal/logstorage): the supervisor's output,  *)
(* which is cut in place while the supervisor goes on writing; the         *)
(* evidence of calls that were not evaluated, which keeps its earliest     *)
(* part and a marker of what it omits; and the diagnostic log with its one *)
(* compressed backup.  Hook processes and the daemon share them under file *)
(* locks, which a process that dies gives back.                            *)
(*                                                                         *)
(* A line is its number and lines have one size.  A line of evidence has   *)
(* two halves, the second with the newline, because a write that fails     *)
(* half way leaves the first.  An operation begins when it has its lock.   *)
(***************************************************************************)
EXTENDS Naturals, SequencesExt

CONSTANTS
    LogUsers,           \* processes
    MaxSupervised,      \* SupervisorMaxBytes, in lines
    MaxEvidence,        \* FailOpenMaxBytes, in halves of lines
    MaxDiagnostics,     \* DiagnosticMaxBytes, in lines
    OldEvidence,        \* evidence left by earlier versions, as numbers of lines
    OldArchives,        \* sets of archives left by earlier versions, with their dates
    OldLines,           \* the diagnostic logs at the start
    MaxLines,           \* bound on the lines written to each log
    MaxLogFailures      \* bound on failing steps and deaths

VARIABLES
    supervisorLog,      \* agent-gate.log
    settled,            \* the newest line that the supervisor wrote while nobody was cutting
    failOpenLog,        \* fail-open.jsonl
    failOpenTruncated,  \* whether the marker exists
    reported,           \* lines of evidence whose append returned without an error
    diagnosticLog,      \* agent-gate.jsonl
    archives,           \* the backup and timestamped archives: date and lines of each
    diagnosed,          \* lines whose write returned without an error
    logOp,              \* what each process is doing
    logFailures

logVars == <<supervisorLog, settled, failOpenLog, failOpenTruncated, reported,
             diagnosticLog, archives, diagnosed, logOp, logFailures>>

WholeLine(n) == <<[line |-> n, end |-> FALSE], [line |-> n, end |-> TRUE]>>

\* The lines that splitLines and the decoder make of evidence: both halves,
\* at the beginning or after a newline.
splitLines(data) ==
    {data[i].line : i \in {k \in 1..(Len(data) - 1) :
        /\ ~data[k].end /\ data[k + 1] = [data[k] EXCEPT !.end = TRUE]
        /\ k = 1 \/ data[k - 1].end}}

\* Lines that were written behind the remains of a failed write.
Glued == {failOpenLog[i].line : i \in {k \in 2..Len(failOpenLog) :
             ~failOpenLog[k].end /\ ~failOpenLog[k - 1].end}}

readTail(lines, limit) ==
    SubSeq(lines, IF Len(lines) > limit THEN Len(lines) - limit + 1 ELSE 1, Len(lines))

\* The backup has a name of its own, other archives carry their date in theirs.
\* What this version writes is younger than what earlier ones left.
Recent == 100
Backup(lines) == [name |-> "previous", date |-> Recent, lines |-> lines]
Others == {a \in archives : a.name # "previous"}

NoLogOp == [file |-> "", pc |-> "", job |-> "", data |-> <<>>, counted |-> {}, before |-> {},
            truncated |-> FALSE, open |-> FALSE]

LogInit ==
    /\ supervisorLog = <<>> /\ settled = 0
    /\ \E n \in OldEvidence : failOpenLog = FlattenSeq([k \in 1..n |-> WholeLine(k)])
    /\ reported = {failOpenLog[k].line : k \in DOMAIN failOpenLog}
    /\ failOpenTruncated = FALSE
    /\ archives \in OldArchives /\ diagnosticLog \in OldLines
    /\ diagnosed = Range(diagnosticLog)
    /\ logOp = [p \in LogUsers |-> NoLogOp]
    /\ logFailures = 0

\* The steps of an operation: to begin it with the lock of its file
\* (withLockedFile), to go on, to end and give the lock back.
Unlocked(file) == \A p \in LogUsers : logOp[p].file # file
Locks(p, file, job, pc) ==
    /\ logOp[p].pc = "" /\ Unlocked(file)
    /\ logOp' = [logOp EXCEPT ![p] = [NoLogOp EXCEPT !.file = file, !.job = job, !.pc = pc,
                                                     !.before = reported, !.open = logOp[p].open]]
InLog(p, file, pc) == logOp[p].file = file /\ logOp[p].pc = pc
LogGoes(p, pc) == logOp' = [logOp EXCEPT ![p].pc = pc]
LogEnds(p) == logOp' = [logOp EXCEPT ![p] = [NoLogOp EXCEPT !.open = logOp[p].open]]

supervisorVars == <<supervisorLog, settled>>
evidenceVars == <<failOpenLog, failOpenTruncated, reported>>
diagnosticVars == <<diagnosticLog, archives, diagnosed>>

----------------------------------------------------------------------------
\* The supervisor appends to the file it has open and knows of no lock.
Supervise ==
    /\ Len(supervisorLog) < MaxLines + MaxSupervised /\ settled < MaxLines
    /\ LET line == Max({settled} \cup Range(supervisorLog)) + 1
       IN  /\ line <= MaxLines
           /\ supervisorLog' = Append(supervisorLog, line)
           /\ settled' = IF Unlocked("supervisor") THEN line ELSE settled
    /\ UNCHANGED <<evidenceVars, diagnosticVars, logOp, logFailures>>

\* Maintain: the supervisor's output first, then the evidence.
Maintain(p) ==
    /\ Locks(p, "supervisor", "maintain", "keep")
    /\ UNCHANGED <<supervisorVars, evidenceVars, diagnosticVars, logFailures>>

maintainNext(p) == [logOp EXCEPT ![p].file = "", ![p].data = <<>>, ![p].pc = "evidence"]

keepTail(p) ==
    /\ InLog(p, "supervisor", "keep")
    /\ logOp' = IF Len(supervisorLog) <= MaxSupervised THEN maintainNext(p)
                ELSE [logOp EXCEPT ![p].pc = "rewrite", ![p].data = readTail(supervisorLog, MaxSupervised)]
    /\ UNCHANGED <<supervisorVars, evidenceVars, diagnosticVars, logFailures>>

rewriteSupervisor(p) ==
    /\ InLog(p, "supervisor", "rewrite")
    /\ LET data == logOp[p].data
       IN  supervisorLog' = data \o SubSeq(supervisorLog, Len(data) + 1, Len(supervisorLog))
    /\ LogGoes(p, "shorten")
    /\ UNCHANGED <<settled, evidenceVars, diagnosticVars, logFailures>>

shortenSupervisor(p) ==
    /\ InLog(p, "supervisor", "shorten")
    /\ supervisorLog' = SubSeq(supervisorLog, 1, Len(logOp[p].data))
    /\ logOp' = maintainNext(p)
    /\ UNCHANGED <<settled, evidenceVars, diagnosticVars, logFailures>>

maintainEvidence(p) ==
    /\ InLog(p, "", "evidence") /\ Unlocked("evidence")
    /\ logOp' = [logOp EXCEPT ![p].file = "evidence", ![p].pc = "prune"]
    /\ UNCHANGED <<supervisorVars, evidenceVars, diagnosticVars, logFailures>>
----------------------------------------------------------------------------
AppendFailOpen(p) ==
    /\ Locks(p, "evidence", "append", "prune")
    /\ UNCHANGED <<supervisorVars, evidenceVars, diagnosticVars, logFailures>>

\* FailOpenRecordSummary reads the evidence and then, without the lock, the marker.
ReadFailOpen(p) ==
    /\ Locks(p, "evidence", "read", "prune")
    /\ UNCHANGED <<supervisorVars, evidenceVars, diagnosticVars, logFailures>>

\* Slip: oversized evidence is cut without leaving the marker.
pruneUnmarked(p) ==
    /\ InLog(p, "evidence", "prune")
    /\ LogGoes(p, IF Len(failOpenLog) <= MaxEvidence THEN "pruned" ELSE "cut")
    /\ UNCHANGED <<supervisorVars, evidenceVars, diagnosticVars, logFailures>>

pruneFailOpen(p) ==
    /\ InLog(p, "evidence", "prune")
    /\ IF Len(failOpenLog) <= MaxEvidence
       THEN LogGoes(p, "pruned") /\ UNCHANGED failOpenTruncated
       ELSE LogGoes(p, "cut") /\ failOpenTruncated' = TRUE
    /\ UNCHANGED <<supervisorVars, failOpenLog, reported, diagnosticVars, logFailures>>

\* The earliest evidence is kept, up to its last newline.
cutFailOpen(p) ==
    /\ InLog(p, "evidence", "cut")
    /\ LET ends == {k \in 1..MaxEvidence : failOpenLog[k].end}
       IN  failOpenLog' = SubSeq(failOpenLog, 1, Max(ends \cup {0}))
    /\ LogGoes(p, "pruned")
    /\ UNCHANGED <<supervisorVars, failOpenTruncated, reported, diagnosticVars, logFailures>>

\* Lines are numbered as they are reported; one that is not written leaves the marker.
writeFailOpen(p) ==
    /\ InLog(p, "evidence", "pruned") /\ logOp[p].job = "append"
    /\ LET line == Max(reported \cup {0}) + 1
       IN  /\ line <= MaxLines
           /\ reported' = reported \cup {line}
           /\ IF Len(failOpenLog) + 2 > MaxEvidence
              THEN failOpenTruncated' = TRUE /\ UNCHANGED failOpenLog
              ELSE failOpenLog' = failOpenLog \o WholeLine(line) /\ UNCHANGED failOpenTruncated
    /\ LogEnds(p)
    /\ UNCHANGED <<supervisorVars, diagnosticVars, logFailures>>

\* The write fails, or the machine does, after the first half.
writeTorn(p) ==
    /\ InLog(p, "evidence", "pruned") /\ logOp[p].job = "append"
    /\ logFailures < MaxLogFailures /\ Len(failOpenLog) + 2 <= MaxEvidence
    /\ failOpenLog' = Append(failOpenLog, [line |-> 0, end |-> FALSE])
    /\ LogEnds(p)
    /\ logFailures' = logFailures + 1
    /\ UNCHANGED <<supervisorVars, failOpenTruncated, reported, diagnosticVars>>

evidencePruned(p) ==
    /\ InLog(p, "evidence", "pruned") /\ logOp[p].job = "maintain"
    /\ LogEnds(p)
    /\ UNCHANGED <<supervisorVars, evidenceVars, diagnosticVars, logFailures>>

readEvidence(p) ==
    /\ InLog(p, "evidence", "pruned") /\ logOp[p].job = "read"
    /\ logOp' = [logOp EXCEPT ![p].file = "", ![p].pc = "stat", ![p].counted = splitLines(failOpenLog)]
    /\ UNCHANGED <<supervisorVars, evidenceVars, diagnosticVars, logFailures>>

FailOpenRecordSummary(p) ==
    /\ InLog(p, "", "stat")
    /\ logOp' = [logOp EXCEPT ![p].pc = "summed", ![p].truncated = failOpenTruncated]
    /\ UNCHANGED <<supervisorVars, evidenceVars, diagnosticVars, logFailures>>

returnSummary(p) ==
    /\ InLog(p, "", "summed")
    /\ LogEnds(p)
    /\ UNCHANGED <<supervisorVars, evidenceVars, diagnosticVars, logFailures>>
----------------------------------------------------------------------------
OpenDiagnostic(p) ==
    /\ ~logOp[p].open
    /\ Locks(p, "diagnostic", "open", "find")
    /\ UNCHANGED <<supervisorVars, evidenceVars, diagnosticVars, logFailures>>

\* compress replaces the backup by a rename, from a file that nobody else names.
compress(lines) == Others \cup {Backup(lines)}

\* pruneArchives: the youngest archive becomes the backup, the others go.
importArchive(p) ==
    /\ InLog(p, "diagnostic", "find")
    /\ archives' = IF archives = {} THEN {}
                   ELSE LET youngest == CHOOSE a \in archives : \A b \in archives : b.date <= a.date
                        IN  IF youngest.name = "previous" THEN archives
                            ELSE compress(readTail(youngest.lines, MaxDiagnostics))
    /\ LogGoes(p, "unlink")
    /\ UNCHANGED <<supervisorVars, evidenceVars, diagnosticLog, diagnosed, logFailures>>

unlinkArchive(p) ==
    /\ InLog(p, "diagnostic", "unlink")
    /\ IF Others # {}
       THEN /\ archives' = archives \ {CHOOSE a \in Others : \A b \in Others : b.date <= a.date}
            /\ UNCHANGED logOp
       ELSE /\ UNCHANGED archives
            /\ IF Len(diagnosticLog) > MaxDiagnostics THEN LogGoes(p, "rotate")
               ELSE logOp' = [logOp EXCEPT ![p] = [NoLogOp EXCEPT !.open = TRUE]]
    /\ UNCHANGED <<supervisorVars, evidenceVars, diagnosticLog, diagnosed, logFailures>>

Write(p) ==
    /\ logOp[p].open
    /\ Locks(p, "diagnostic", "write", IF Len(diagnosticLog) + 1 > MaxDiagnostics THEN "rotate" ELSE "put")
    /\ UNCHANGED <<supervisorVars, evidenceVars, diagnosticVars, logFailures>>

\* Slip: the backup gets the beginning of an oversized log.
rotateHead(p) ==
    /\ InLog(p, "diagnostic", "rotate")
    /\ archives' = compress(SubSeq(diagnosticLog, 1, MaxDiagnostics))
    /\ LogGoes(p, "truncate")
    /\ UNCHANGED <<supervisorVars, evidenceVars, diagnosticLog, diagnosed, logFailures>>

rotateDiagnostic(p) ==
    /\ InLog(p, "diagnostic", "rotate")
    /\ archives' = compress(readTail(diagnosticLog, MaxDiagnostics))
    /\ LogGoes(p, "truncate")
    /\ UNCHANGED <<supervisorVars, evidenceVars, diagnosticLog, diagnosed, logFailures>>

truncateRotated(p) ==
    /\ InLog(p, "diagnostic", "truncate")
    /\ diagnosticLog' = <<>>
    /\ IF logOp[p].job = "open" THEN logOp' = [logOp EXCEPT ![p] = [NoLogOp EXCEPT !.open = TRUE]]
       ELSE LogGoes(p, "put")
    /\ UNCHANGED <<supervisorVars, evidenceVars, archives, diagnosed, logFailures>>

putDiagnostic(p) ==
    /\ InLog(p, "diagnostic", "put")
    /\ LET line == Max(diagnosed \cup {0}) + 1
       IN  /\ line <= MaxLines
           /\ diagnosticLog' = Append(diagnosticLog, line)
           /\ diagnosed' = diagnosed \cup {line}
    /\ LogEnds(p)
    /\ UNCHANGED <<supervisorVars, evidenceVars, archives, logFailures>>

CloseDiagnostic(p) ==
    /\ logOp[p].open /\ logOp[p].pc = ""
    /\ logOp' = [logOp EXCEPT ![p].open = FALSE]
    /\ UNCHANGED <<supervisorVars, evidenceVars, diagnosticVars, logFailures>>
----------------------------------------------------------------------------
\* A step fails: the operation ends, except that Maintain goes on with the
\* evidence.
LogStepFails(p) ==
    /\ logOp[p].pc # "" /\ logFailures < MaxLogFailures
    /\ IF logOp[p].file = "supervisor" THEN logOp' = maintainNext(p) ELSE LogEnds(p)
    /\ logFailures' = logFailures + 1
    /\ UNCHANGED <<supervisorVars, evidenceVars, diagnosticVars>>

\* A process dies, and with it its locks.
LogUserDies(p) ==
    /\ logOp[p] # NoLogOp /\ logFailures < MaxLogFailures
    /\ logOp' = [logOp EXCEPT ![p] = NoLogOp]
    /\ logFailures' = logFailures + 1
    /\ UNCHANGED <<supervisorVars, evidenceVars, diagnosticVars>>

SupervisorNext ==
    \/ Supervise
    \/ \E p \in LogUsers : Maintain(p) \/ keepTail(p) \/ rewriteSupervisor(p) \/ shortenSupervisor(p)
EvidenceNext ==
    \E p \in LogUsers :
        \/ maintainEvidence(p) \/ AppendFailOpen(p) \/ ReadFailOpen(p) \/ pruneFailOpen(p)
        \/ cutFailOpen(p) \/ writeFailOpen(p) \/ writeTorn(p) \/ evidencePruned(p) \/ readEvidence(p)
        \/ FailOpenRecordSummary(p) \/ returnSummary(p)
DiagnosticNext ==
    \E p \in LogUsers :
        \/ OpenDiagnostic(p) \/ importArchive(p) \/ unlinkArchive(p) \/ Write(p)
        \/ rotateDiagnostic(p) \/ truncateRotated(p) \/ putDiagnostic(p) \/ CloseDiagnostic(p)
LogFaults == \E p \in LogUsers : LogStepFails(p) \/ LogUserDies(p)

LogNext == SupervisorNext \/ EvidenceNext \/ DiagnosticNext \/ LogFaults
----------------------------------------------------------------------------
\* Evidence that a hook process was told is stored can be counted, or the
\* marker says that some is omitted, whoever died while it was cut.  The
\* exception is a line behind the remains of a failed write, which has no
\* newline.  (maintain.go: AppendFailOpen, pruneFailOpen)
EvidenceAccounted ==
    failOpenTruncated \/ reported \subseteq splitLines(failOpenLog) \cup Glued

\* A summary that does not call itself truncated has counted everything that
\* was reported before it began, although it reads the marker without the lock.
\* (failopen_record.go: FailOpenRecordSummary)
SummaryHonest ==
    \A p \in LogUsers : InLog(p, "", "summed") /\ ~logOp[p].truncated =>
        logOp[p].before \subseteq logOp[p].counted \cup Glued

\* The diagnostic log and its backup hold the newest lines without a gap: a
\* rotation or an import that stops half way loses none of them.
\* (diagnostic.go: rotate, compress; archives.go: pruneArchives)
NewestKept ==
    LET kept == Range(diagnosticLog) \cup UNION {Range(a.lines) : a \in archives}
    IN  \A line \in kept : line .. Max(diagnosed) \subseteq kept

\* Cutting the supervisor's output keeps its end, also when it stops half way;
\* only what is written while somebody cuts may be lost.  (maintain.go: keepTail)
TailKept == settled = 0 \/ \E k \in DOMAIN supervisorLog : supervisorLog[k] >= settled

\* Cutting, rotating and summing up the logs, by several processes and with
\* failures in between, never hides that something is missing.
LogsKeepEvidence == EvidenceAccounted /\ SummaryHonest /\ NewestKept /\ TailKept
=============================================================================
