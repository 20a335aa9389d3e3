# agent-gate: a TLA+ verification project

agent-gate is a daemon that coding agents call before and after they use a tool.
A hook call carries one event (a prompt, a tool call, a response); rules decide
whether it is allowed, changed or annotated, and whatever the rules cannot decide
at once is evaluated later, from a durable record. This project models the call
from the host to its answer, the rules and what they ask, the daemon that serves
calls while its configuration and its files change, the durable stores behind it,
and the commands that install, configure, set up and reset it.

Everything is translated from the Go source and the SQL under `src/`;
`PROJECT.json` maps each definition to its lines. Paths below are relative to
`src/internal/`.

## 1. Inventory

### The running system

    agent --hook RPC--> Server.EvaluateHook (daemon/server.go), under runtimeMu.RLock
                 |  append receipt (intake) ------------> current audit file (SQLite)
                 |  register + observe (hotkv) ---------> conversation context
                 |  staged hot evaluation (hook, rules) -> verdict
                 |  commit hot evaluation (intake) -----> evaluation, audit entries,
                 |                                         deferred row "pending"
                 |  submit (daemon/replay_scheduler.go) -> bounded queue
                 v
              response
    worker slots <- queue | recovery pass over the audit files (daemon/recovery.go)
         claim -> load -> evaluate (rules, judge) -> commit or retry (intake)
    rotation, reload, reset, shutdown: one lifecycle operation at a time,
         replace the runtime snapshot under runtimeMu.Lock

Files are SQLite databases of a catalog (auditstorage): one is current and numbers
the new receipts, the others are historical, and a historical file with nothing
pending is finalized. Each file is opened once in the daemon and shared by
reference count (daemon/file_owner.go).

### Components

| component | state | operations | interacts by | hard behaviour | what makes it correct |
|---|---|---|---|---|---|
| deferred claims (`intake`, `daemon/deferred_intake.go`, `hot_evaluation.go`) | tables `intake_receipts`, `intake_events`, `intake_deferred`, `gate_evaluations`, `events`; owner name of the process | append, hot commit, discard with fallback record, claim, load, renew, deferred commit, retry | transactions; the wall clock | expired leases, one owner name for all jobs of a process, crashes, receipts that share an event's input, clock set back | completed once, by the newest attempt, on whole input; nothing pending for ever |
| dispatch and recovery (`daemon/replay_scheduler.go`, `deferred_service.go`, `recovery.go`) | channel, map of queued receipts, bytes; epoch, paused, excluded, transition; generations, deadlines and the pass in progress; worker slots | submit, take work, probe (select, read a page, examine, admit), finish, pause, drain, transition, start, tick | mutex of the service; wake-ups of workers; rows | pages that are stale when admitted, lost wake-ups, credit held back, work of an old epoch | the map is exact; every pending receipt is led to; credit returns; pending work is settled |
| file owners and sessions (`daemon/file_owner.go`, `recovery_session.go`, `audit_rotation.go`) | registry entry (pending, open, closing), references; session of each worker; snapshot | borrow, retain, release, prepare, transitions, close; finalize | mutex, pending channels, reference counts | opening and closing outside the mutex; reload on the same file; rotation under running jobs | a held file is open, with one handle; bounded connections; only finished files finalized |
| hot key-value cache (`hotkv`) | entries, byte counter, limits, orders and fence, stop channel | Get, Set, Delete, Expire, RegisterObservation, Observe, prune, Configure, Close | one mutex; the prune goroutine | counters by hand, eviction of what guards freshness, channel closed outside the lock | exact accounting, limits, no stale read, one loop |
| temporal context (`rules/exec_temporal.go`, `daemon/server.go`, `kv.go`) | assignment generation, receipts of the current file | append, register, publish, finish; replace, withdraw | runtimeMu, the cache | overlapping calls, receipt numbers that start again in a new file | a rule reads the newest event or nothing |
| audit catalog (`auditstorage`) | state file, lock files, families of database files with their write-ahead logs | current file, open, finalize, prune, purge, reset | one lock between processes; atomic renames; reference locks | crash in the middle of a reset or a creation; old write-ahead logs; clock set back; files in use fill a batch | a reset is finished or repeated; a superseded file never returns; no file is deleted under a holder |
| server lifecycle (`daemon/server.go`, `lifecycle.go`, `run.go`, `audit_rotation.go`) | runtime snapshot, slots, configuration watcher, audit and update schedulers, inference owners | start, evaluate, reload, rotate, reset, schedule, close | cfgMu, lifecycleMu, runtimeMu, cancellation | shutdown against reload against rotation, overload, storage that stays broken | a call sees one snapshot; nothing after close; close and reload return; a good edit is served |
| hook call and its answer (`cmd/agent-gate/main.go`, `hook`, `daemon/hot_evaluation.go`) | one call in two processes | read, connect, classify, evaluate, commit, render, answer | RPC with a deadline; environment and payload as evidence | every step may fail or panic; provider identified from weak evidence; verdict rendered before it is stored | an allow was decided or is recorded; a failure never blocks; a block reaches the host |
| rule engine, staged evaluation (`rules`, `hook/staged_evaluation.go`) | one event: outcomes, traces, decisions | partition, units, batches, matrix of judges, fold, compose | judges, the repository's state | judges that fail in part, phases that end, state that changes between plan and use | records agree with what is enforced; judges fail closed; a block stops the rest |
| validator and inference gates (`rules/exec_gate.go`, `infer_gate.go`) | verdict memo of an event, shared cache, flights, detached runs | look up, start, join, decide late, retry | flights map, processes, model calls | flights that outlive their callers, errors that are shared | one flight per key; a cached verdict was answered; every event is decided |
| audit logger (`audit`) | queue, batch, dedup lists, closers | log, write durably, flush, drain, close | channel, goroutine, deadline | full queue, failing batch, close against log | accepted is stored, suppressed or counted as lost; writers are joined |
| configuration (`config`) | the file; the served configuration | load strict or degraded, reload; merge text; replace file | the file system, editors | faults in some sections or rules; edits between read and replace; crash | only faulty parts are lost; enforcement survives a bad save; no edit destroyed |
| installation, reset, setup (`install`, `setup`, `cmd/agent-gate`) | hook files, service, executable, processes | install, remove, verify; stop, remove, restore; prepare, apply, probe | files of other programs, service manager, PIDs | foreign entries, reused PIDs, daemons that start meanwhile, death half way | only managed entries change; the executable survives; hooks only after the service |
| local logs (`logstorage`, `daemon/failopen_record.go`) | supervisor log, evidence with marker, diagnostic log with backup | maintain, append, summarise, rotate, import | file locks between processes; the supervisor without one | death between rename and truncation, marker read without lock | evidence is counted or called truncated; newest lines kept |
| key-value service, RPC client, evaluation records, audit queries, regular expressions, process lock, update, CI tools | - | - | - | - | in `PROJECT.json` with what is modelled of them, or why nothing is |

The hazards of each part, at the line where they bite and with the properties that
would catch them, are in `PROJECT.json` ("hazards").

## 2. Modules

    DeferredLedger        what a receipt is promised (abstract)
      ^ refined by
    DeferredClaims  <-  DeferredClaimsProofs      MCDeferredClaims -+
    HotCache                                                        +- MCStores
      ^ extended by                                                 |
    TemporalContext <-  TemporalContextProofs     MCTemporalContext +
    DeferredDispatch <- DispatchProofs            MCDeferredDispatch, MCDispatchFocus
                                  with DeferredClaims: MCDeferredLive
    FileOwners      <-  FileOwnersProofs          MCFileOwners
    AuditCatalog    <-  AuditCatalogProofs        MCAuditCatalog
    ServerLifecycle <-  MachinesProofs            -+
    AuditLogger     <-  MachinesProofs             +- MCMachines
    Gates           <-  MachinesProofs            -+
    (AuditCatalogProofs, DispatchProofs, MachinesProofs use Lemmas)
    RuleEvaluation  <-  DecisionsProofs           MCRules     -+
    HookResponses                                              |
      ^ extended by                                            |
    HookCalls       <-  DecisionsProofs           MCHookCalls  |
    Reset, Setup    <-  DecisionsProofs           MCInstall    +- MCDecisions
    ConfigMerge, HookFiles                        MCInstall    |
    ConfigLoad                                    MCConfig     |
    ConfigReplace, LogStorage                                 -+

`MC*` modules give values to constants and put components that share no state into
one run: the variable `focus` picks the component that moves, the others keep the
one state they start in, so the behaviours are those of the components run one by
one. In `MCDispatchFocus` and `MCFileOwners` the focus picks one of two sets of
bounds for the same component, in `MCAuditCatalog` two families with faults or one family with a file
more.

Definitions named after a slip (`claimSameAttempt`, `budgetDrops`, `withdrawUnlocked`,
...) stand before the definition they are a wrong version of; nothing refers to them,
and putting one in the place of the right definition makes a property fail ("mutants"
in `PROJECT.json`).

### DeferredClaims

One database transaction is one step, because every store operation runs in one
SQLite transaction. `ClaimDeferred` is `ClaimDeferred` up to the commit of the claim, and
`LoadRecord` the read that follows it in a transaction of its own: what other
workers do in between is visible. A timestamp column is held as the time left until
it, 0 for every instant that has passed; `Tick` lets a unit pass and
`ClockBack` sets the wall clock back. `Restart` forgets hooks and jobs and takes
any owner name, since `agent-gate-<pid>-<seq>` can recur. An input is the set of
its classes, the detail policy the set of classes it keeps. `DiscardVerdict` is the
path of `hot_evaluation.go` on which the hot commit failed: rollback, then the fallback
record, which may fail too. The hot commit writes audit entries only when auditing is enabled and the event
parsed; so `AuditMatchesEvaluations` says that entries never come without their evaluation, not
that every evaluation has some.

### DeferredLedger

A receipt is absent, received, settled, pending or complete, and the attempts whose
deferred evaluation is stored are none before it is complete and exactly one then.
`DeferredClaims` implements it with `statusBar` and `outcomeBar`.

### DeferredDispatch

The rows are reduced to pending or complete with a retry time and a lease; the
memory of the daemon is modelled in full. A recovery pass is the sequence of steps
in which `recoverWork` leaves its lock: begin, select a file, read a page, examine
an entry, admit it, end the page, end the pass; hook calls, other workers and lifecycle
operations interleave with all of them. Generation counters are compared only
for equality, so each is kept as two facts (`dirty`: not acknowledged, `fresh`:
still the one that the pass captured), which keeps the state space finite without a
bound. `lifecycle` is pause, drain, transition, publish, end and start in the
order of `audit_rotation.go`. An excluded file is one that is put aside for pruning.

### FileOwners

`borrow` is split where it leaves the mutex: look up, open (outside), enter the
handle or remove the entry. `release` is split into the count and the closing of
the handle; `drop[a]` are the references an agent has taken out of sessions under the
service's mutex and releases after it. `due` is what `DeferredDispatch` models in
detail, reduced to the set of files some pass has still to visit: a file leaves it
when it is selected, so that a mark made later survives. `revisit` are the receipts a
pass found owned by somebody. The replacement of a snapshot is begun, borrowed,
published, closed and ended as in `replaceAuditSnapshot`.

### HotCache and TemporalContext

Every cache operation holds the lock, so it is one action; only `CloseStop` (the
callers that close a channel after they left the lock) and the loops interleave.
A value is its length. The order of an observation is the pair of assignment generation
and receipt, compared as in `cache_observation.go`. `offered` is a history
variable. `TemporalContext` extends the cache with the hook calls that use it:
a call appends, registers, publishes, finishes, in that order, and the write side of
runtimeMu (`publishRuntimeLocked`, `Withdraw`) waits until no call is in flight;
`Other` is the rest of the cache's traffic.

### AuditCatalog

Every operation holds the catalog's lock between processes, so one operation is in
progress at a time and its steps are the stretches between durable changes; a crash
and the closing of handles come between any two of them. A database file has an identity, and
so has the write-ahead log beside it: a new database that meets the log of an old
one is what `NewFilesClean` is about. Two history variables say what a reset owes:
`doomed` is what was on disk, when a reset or a reset command began, of the families that the
policy or the state file names, and `lost` is what the reset command lost sight of when it removed
the state file. A family whose very first file was published but never recorded is not known to
a later reset under another configuration, so its files are not in `doomed`. Two more are for pruning
and new files: `recorded` are the segments that the state file has named, `daemon.free` the expired files that
nobody used when a pass began.

### ServerLifecycle

Goroutines are program counters; who holds a mutex follows from them (`CfgFree`,
`LifecycleFree`, `Readers`). A reload gives the lifecycle mutex back while it drains the workers,
which is where rotation and close come in. Reset is retried with no snapshot
published. What a snapshot has on disk is the business of AuditCatalog and FileOwners.

### AuditLogger, Gates

One mutex each, so a step is a critical section. The logger's events are fingerprints
with a size; `MaxWriteFaults` batches fail. In Gates an event has a plan of conditions;
a validator's flight is detached from the event, a model call is not.

### RuleEvaluation

A rule is its conditions and judge entries; `facts` says what its conditions find in
the event, and judges answer arbitrarily. Planning of batches, each unit, the end of a
slice and composition are steps, so that the phase may expire and the repository
change between them. Decisions and traces are built as in `evaluation_trace.go` and merged as in
`staged_evaluation.go`.

### HookResponses, HookCalls

HookResponses has the two capability tables, the composition of effects and the
renderers; `Stops` says which answers make a host stop, and is external. HookCalls is one
call: evidence, client, daemon, answer. Any client step may fail, the client may stop waiting
while the daemon goes on, the commit may fail.

### ConfigLoad, ConfigMerge, ConfigReplace

A document is what the file says, section by section; loading is an operator over
documents, and reloading, starting and saving are the actions. ConfigMerge edits lines of
text and is compared with the document that the lines decode to. The daemon's hook budget is also read by
the client, which decodes the table of the timeouts alone (`HookEvaluateTimeoutFromFile`): `undecoded` names
the parts with a value of a wrong type, so that the daemon may be on its defaults while the client is not. ConfigReplace has inodes,
names, links and directories, two planners, and an operator who saves by rename or in place. Every system
call of a planner may fail, also on the way back and after the exchange, where the error it
returns does not say which file has the name. `OnlyReadFilesDestroyed` compares what was unlinked with
what was read.

### HookFiles, Reset, Setup

HookFiles: merge, removal and verification of managed commands among foreign ones; one of the
executables that `--bin-path` may name is not called agent-gate.
Reset (as built for Linux): the file system is a set of cells, a layout says which path covers which; PIDs
are reused, the service manager and the operator start daemons, the reset is killed. A process runs the
executable that is at the path, one that was unlinked or replaced, or another program. The link to the
second kind ends in "(deleted)", so inspecting it fails like inspecting a process that has ended, and
`lsof` does not find it by the path: such a daemon is invisible to a reset. Setup: the
stages in order, the readiness poll that an old daemon may answer, the probe that waits for
three stores.

### LogStorage

The three local logs, under file locks that a dying process gives back. Lines have one
size; a line of evidence has two halves because a write that fails leaves the first.

## 3. Runs

"Faults" are errors of opening, reading, writing or inference, crashes, changes of
the clock and exclusions, drawn from one budget so that one of them can strike at any
point.

| run | module | bounds | shows |
|---|---|---|---|
| `stores` | MCStores | claims: 2 receipts, 2 events (shared or not), 2 classes, 2 owners, 2 workers, 2 attempts; cache: 2 names, limits that force eviction, refuse a value or leave no room; 3 prune loops; context: 2 calls, 2 epochs, 2 receipts a file | deferred work is committed once, by its newest attempt, on its whole input; the ledger is implemented; cache accounting is exact, limits hold, no stale observation is readable; a channel is closed once; a rule reads the newest event over rotation and eviction |
| `deferred_live` | MCDeferredLive | claims: 1 receipt, 2 workers, 3 attempts, lease 2; dispatch: 1 receipt in each of 2 files, 1 worker, 1 fault | no claim keeps a receipt for ever; pending work is settled after any one fault |
| `minimal_detail` | MCDeferredClaims | 2 receipts of 1 event | finding 1 (violated) |
| `dispatch` | MCDispatchFocus | 2 receipts, one hook call at a time, queue, credit and page of one; one worker with any two of a rotation, a pause and a fault, or two workers with the clock set back or another fault | the queue map is exact, no receipt loses its way, credit returns |
| `dispatch_retries` | MCDeferredDispatch | 2 receipts of 1 file, 3 faults | finding 2 (violated) |
| `owners` | MCFileOwners | 3 files; two workers with a rotation or a fault, or one worker with a reload, a rotation and a fault | a file is open exactly while it is held, with one handle; a worker has one historical file; a retired file is finalized in the end |
| `catalog` | MCAuditCatalog | 1 reader; 2 families with 3 files, 3 numbers and 1 fault, or 2 before time passes; or one family whose daemon died after its third segment, 4 files and no fault; a size limit of 2, one file retained by age, batches of 2 | resets complete, superseded files do not return, files in use survive, a pass of pruning removes what it can |
| `machines` | MCMachines | server: 2 calls, 1 slot, 1 job, 1 edit, 1 rotation, 1 fault; logger: queue of 2, 3 events, 2 closers, 1 failing write; gates: 3 events, 6 plans | safety of what runs concurrently in one daemon |
| `machines_live` | MCMachines | the same with 1 call, 2 log events, 2 plans | close, reload, the logger's close and every event end; a good edit is served; the audit scheduler starts |
| `decisions` | MCDecisions | rules: small rule sets with 2 judges and 2 matches; about 400 documents and 1 edit; 3 lines of text; 1 planner with 2 edits of the paths and 1 crash, or 2 planners at once; 2 hook commands, 1 edit; 2 PIDs, 3 births, 1 kill; one setup of 2 providers or two of one, 1 daemon failure; calls of every provider and route; logs of 2 to 5 lines, 2 processes, 1 failure | what decides about a hook call and what sets that up, see the properties in the configuration |
| `one_bad_rule` | MCConfig | the documents of `decisions` | finding 3 (violated) |
| `fail_open_provider` | MCHookCalls | installed commands | finding 4 (violated) |

### Bounds

- Two of each actor (receipts, workers, calls, names, processes) are enough for every
  pair of steps the hazards are about; three files are needed for a worker to have one
  historical file while another becomes historical, and for a family to be superseded twice.
- `MaxAttempts` 2 lets a receipt be claimed and lost to a lease while the first attempt goes on,
  3 (`deferred_live`) lets it be lost again; `Lease` 1 or 2 and `MaxJump` 1 let leases run out under a worker and come
  back to life.
- `QueueLimit`, `ByteLimit` and `PageLimit` of 1 make every limit bite with two
  receipts. `MaxEpoch` 1 is one pause, so that work of an old epoch exists.
- The runs of liveness are smaller than those of safety: in `deferred_live` a file is pruned or something
  fails, not both, and in `machines_live` no cached verdict expires.
- One fault at any point; `catalog` has two, for a crash in the recovery from another,
  and `dispatch_retries` needs three.
- The second part of `catalog` starts with three files on disk, a query that may use any of them, and no
  faults: once a fourth is current, two that are expired and in use fill a batch (`BatchLimit` 2), and a
  third is the one a pass has to get to.
- `MaxTime`, `MaxLoops`, `MaxEpoch` and `MaxReceipts` of the cache and the context
  are the smallest with which entries expire, loops are replaced and receipt numbers
  recur in later files.
- `MaxReloads`, `MaxEdits`, `MaxRotations` 1: each happens at any point of every other.
  A second edit only meets a server that the first has returned to rest.
- Documents: one valid form of each part and, for every check of the loader, a value it
  accepts and one it refuses, at the boundary where it is a number.
- `Planners` 2, `MaxPlans` 2: a second planner runs among the steps of the first while the operator keeps
  still, and one planner among all that the operator does.

Runs without deadlock check are of systems that come to rest when the bounded
input is used up. Symmetry is used where no liveness is checked.

### Fairness

- `DeferredClaims`: the clock advances; a job that has begun takes its next step
  or fails; the renewal goroutine runs; some worker takes a claimable receipt, which is
  what dispatch is for. Nothing forces failures to stop: `ClaimsEnd` says so
  (`NoClaimStuck`: the clock is no longer set back, `EventuallyCompleted`: no more failures
  and leases are renewed in time).
- `DeferredDispatch`: a hook call that appended commits and submits, because it
  runs to its end in its own goroutine; each worker slot takes work that is there
  and goes on with what it has; the tickers fire; a lifecycle operation that has begun is
  carried through. Whether a rotation begins, a hook call comes or something fails
  is left open.
- `FileOwners`: workers and the server go on with what they have begun, and
  whoever took a reference out to release it does so.
- `ServerLifecycle`: each goroutine goes on with what it has begun. Reload and close compete for the
  lifecycle mutex with a rotation that takes it again and again, and Go's mutex hands itself to a
  waiter that starves, hence strong fairness for these two and weak for the rest. Edits,
  signals and faults are free.
- `AuditLogger`: the worker, the durable writers and the closers run. `Gates`: an event
  that has begun goes on, a flight ends (a validator has a deadline of its own, a model call that of
  its caller).

## 4. Proofs

Proved by TLAPS for every value of the constants that satisfies the named assumption of
the module. An assumption says only what the constants stand for: bounds are naturals, limits and
sizes positive where the code refuses others, special values (`None`, `NoOwner`, `Nobody`,
`Server`) are not among the names, workers are finitely many where they are counted. Two say more about
the code: a reset has the default targets or a single one (`ResetAssumption`, `parseResetCommand` in
`cmd/agent-gate/reset.go`), and only Gemini has events of its names while rules have effects of `inject`
and `mutate` alone (`CallAssumption`, the event tables of `hook`).

Each proof has the same shape: an inductive invariant, a lemma that `Init` implies it, one lemma for
each action (or for a few actions that do the same to it), and the property from the
invariant. The table says which theorem states which property that a run checks.

| module | inductive invariant | theorem | property |
|---|---|---|---|
| DeferredClaimsProofs | `Inv` | `TypeCorrect`, `ExactlyOnce`, `InputSafe`, `AuditSafe` | `ClaimsInOrder`, `CompletedOnce`, `ReplayInputIntact`, `AuditMatchesEvaluations` |
| | `Inv /\ AttemptsBounded` | `Refinement` | `ImplementsLedger` |
| DispatchProofs | `DispatchInv /\ LifecycleInv` | `DispatchInvariance` | |
| | | `QueueStaysInOrder` | `QueueInOrder` |
| | | `ReceiptsStayLedTo` | `NoReceiptForgotten` |
| TemporalContextProofs | `CInv` | `CacheInvariance`, `ObservationsFresh` | `NoStaleObservation` |
| | `LoopInv` | `LoopsStopOnce` | `StopClosedOnce`, `OneLoop` of `CacheInOrder` |
| | `ContextInv` | `ContextFresh` | `NoStaleContext` |
| FileOwnersProofs | `OwnersInv` | `OwnersInvariance`, `OwnersCorrect` | `OwnersInOrder` |
| MachinesProofs | `ServerInv` | `SnapshotsCounted`, `LifecycleCorrect` | `SnapshotsInUse`, `LifecycleInOrder` |
| | `LoggerInv` | `CloseCorrect` | `ClosedMeansWritten` |
| | `GatesInv` | `FlightsCorrect`, `VerdictsCorrect` | `FlightsInOrder`, `VerdictsAgree` |
| AuditCatalogProofs | `CatalogInv` | `CatalogInvariance` | |
| | | `CatalogKeepsOrder` | `CatalogInOrder` |
| DecisionsProofs | `CallInv` | `CallInvariance`, `CallsAreDecided` | `DecisionsReachTheHost` |
| | `AnswersComplete` | `RulesFailClosed` | `JudgesFailClosed` |
| | `SetupInv` | `SetupInvariance`, `SetupCorrect` | `SetupSafe` |
| | `ResetInv /\ ServiceDown` | `ResetInvariance`, `ResetRemovesSafely` | `RemovalsSafe` |
| | | `StrangersAreSpared` | `OnlyInspectedSignalled` of `ResetSafe` |

The theorems use the initial states and steps of the specifications the runs check: safety needs no
fairness.

### Claims and the ledger

Besides types, `Inv` is `RowsFollowHooks /\ CompletedOnce /\ AttemptsUnique /\
ReplayInputIntact /\ AuditMatchesEvaluations`. None of them but the first is inductive by
itself:

- `CompletedOnce` needs `AttemptsUnique`: the commit compares owner and attempt, and
  owner names recur, so that the job which passes has the newest attempt has to
  follow from the numbers;
- `ReplayInputIntact` needs `RowsFollowHooks` (a job is on a receipt that has a deferred
  row) and `CompletedOnce` (a pending receipt has no deferred evaluation), so that the
  condition of `clearTerminalInput` is false as long as somebody needs the input;
- `AuditMatchesEvaluations` needs `RowsFollowHooks` to know that a hook call which is still evaluating, the only
  one that can be discarded, has no entries.

`Refinement` is the proof that the tables implement `DeferredLedger` under the mapping
`statusBar`, `outcomeBar`. An action that touches one receipt is a ledger step of it
(`LedgerStep`), and `SeenKept` says that the ledger does not see anything of the others move.
That a completing attempt is one the ledger may add needs `AttemptsBounded`.

### Dispatch and recovery

`NoReceiptForgotten` says of every pending receipt that something leads the daemon to it. It says
so of a receipt that waits for its next attempt only when no other of its file does: two that wait
have one deadline, and what becomes of the second is the finding of `dispatch_retries`. It is
not inductive: a receipt that a dirty generation leads to is one that the next pass has to
come to, and where a pass is has to be said for each of its steps. `FoundInv` does: a pending
receipt is just committed and not submitted yet; or in the queue, with a revisit noted or with
a worker that has not given it up (`QueueLeads`); or in a file that is excused from the
pass, because a generation was raised since the pass captured it, a deadline is set, the current file
has changed or the file is put aside (`Excused`); or in a file the pass has not come to (`ToCome`); or
in the file it is in, and neither the cursor nor the page of the worker that reads has
passed it (`InFile`). A step that moves the pass, acknowledges a generation or gives up an entry
has to make one of the others true before it makes its own false: `ProbeStep`
(what a step of a pass must keep), `OutsideStep` (a step outside it) and their like carry that, and the
actions are instances of them.

The other parts of `DispatchInv` say why. `QueueInv`: the receipts of the map are those of the
channel and those of the workers, each once and with the same epoch, and the bytes are their number, so that
`finishDispatch` and `drain` give back what was taken. `CreditInv`: one worker at most probes, so
nobody else moves the pass, and recovery waits for credit only while somebody holds some.
`PassInv`: the pass is where that worker is. `RowInv`: what is queued or on a page is
committed, what a job calls complete is. `LifecycleInv`, that a new file is to follow only while there is
one, bounds the files by `MaxFile`. The assumptions: receipts are positive and finitely many (the rows of
the tables), the limits on entries, bytes and pages are positive (the code refuses others).

### Cache and context

`NoStaleObservation` speaks of readable entries only and is not inductive: an evicted
entry leaves nothing to compare a late observation with. `FenceInv` adds that what was
offered for a name is not newer than the order of its temporal entry, or, when it
has none, than the removal fence; and that nothing is newer than the registered event.
Every removal raises the fence to the registered event or concerns a plain
entry. `RemoveStep` and `WriteStep` carry the argument; the actions are instances of
them.

`LoopsStopOnce` is about the channels of the prune loops, which Configure and Close take in the lock and
close outside it. `LoopInv` adds to the property that channels not yet made are untouched, and that
whoever closed a channel waits until its loop has ended.

Receipt numbers start again when the file is replaced, so `NoStaleContext` rests on the
generation. `ContextInv` adds to `CInv` that the server's generation counts the files and is the one the
cache has registered (`GenerationsCount`), that a call in flight has its receipt from the current
file, because the write side of runtimeMu waits for it (`CallsOfThisFile`), and that the entry of a
conversation holds what its calls published, and the newest of it (`HoldsNewest`).

### File owners

The registry counts references in a number; the property says the number is right. The
invariant therefore lists every place that may hold a reference (`Holding`: session and job of a
worker, a reference that an agent took out of a session and has yet to release, the server's
snapshot, the new one and the replaced one), and `held` says which file is in it. `Counted`:
the references of a file are the number of places that hold it, whatever holds a file finds it open,
and there is a handle exactly while the entry is open or closing. Steps that put or remove one
holder change the cardinality by one (`CountedPut`); taking sessions and publishing a snapshot move
references between places, which is a permutation of them (`CountMoved`). The others say why the steps
are possible: `Exclusive` (an entry that is being opened or closed has one agent that does it),
`InPlace` (what a worker has at each point of its program; while it holds or is about to hold a file, a
session on another one means that it works on the current file and that no transition has
begun), `Queues`, and `Rotation` (what the replacement of the snapshot has at each point).

### Audit catalog

`CatalogInOrder` has four parts that matter: a handle keeps its file (`HandleSafe`), a pass deletes
only what it chose (`OnlySelectedPruned`), a reset that is done has forgotten everything
(`ResetForgets`), and a superseded file is never current again (`CurrentNeverReturns`).
`CatalogInv` says what the operation in progress may count on, because the coordination lock
keeps the others out while handles come and go and the process may die:

- `NewFile`: the path an operation found free is free until its database is there, and what it saves is
  neither complete nor superseded. The number chosen for a new file is above all on disk and above
  the saved one; that there is a greatest is `MaxBelow`, from `GreatestBelow`.
- `DatabaseFirst`: a database goes before its sidecars, so that an interrupted deletion leaves
  sidecars alone and never a database without its log.
- `ResetRecorded` and `DoomedIsNamed`: a reset stays recorded, with its families, until its new
  file is made, and whatever of `doomed` is still there belongs to a family that the state file names.
  `ResetForgets` is the case that no reset is recorded any more. A crash, another change of the
  configuration and the reset command in between all keep it: `pendingFamilies` only adds.
- `Superseded`: an identity stands at one path, and without a state file no superseded database is
  known.

The steps that only delete share `Shrinks`, those that change handles `Dwindles`. The list of
a pruning pass is not described at all: whatever it holds, a deletion takes the lock of the file and compares
its identity.

### Server lifecycle

`ServerInv` has two halves. `Control` is about the goroutines: one of them has the lifecycle lock, the
start and the end are quiet, who reconciles has a usable snapshot, an update scheduler that
lives is the one that can be cancelled, service is withdrawn for a reset only. `StoreInv` is about the
snapshots: a snapshot is open while it is published or somebody still has to publish or close it
(`Kept`), a call in flight is on the published one, each inference
runtime is referenced once by each snapshot and job that uses it, slots are those that calls hold,
generations follow the buckets. A reload releases the lifecycle lock to drain and takes it
again; that a rotation meanwhile leaves it a snapshot to publish over is the part of `Kept` that
makes the rest inductive. `BornInOrder` pays for new snapshots with edits and rotations
that are still allowed (`Owed`), so that the finite supply of identities never ends.

### Gates

`VerdictsAgree` relates the memo of an event to its plan. `MemoFollowsPlan`: the event remembers one
verdict for each condition it is past; `UndecidedBeyondLookup`: what it looks up further is not
decided yet; `FlightsOnce`: it flies for a condition once, and owns the flight or has the
verdict; `RanDecides`: the verdict of a validator's run is what the loop makes of its
outcomes; `JoinsFlight`: who joins waits for the flight of an event. The number of targets and retries
is arbitrary; the loop over the outcomes is left at the first that decides, which
`LeastNatural` gives.

### Audit logger

`ClosedMeansWritten` needs that a closer begins to drain before it waits (`ClosersDrain`), that one
returns only when some closer has joined the writers (`ReturnedMeansJoined`), that the worker
exits only when the queue is empty and closed to new events (`ExitedIsDrained`), and that nobody
writes once the writers were joined (`JoinedForGood`). `DurableMeansStored` says two things: what a
durable writer wrote is a row, which is inductive, and what it took for seen before is a row or was accepted by
Log. The second rests on `RememberedIsKnown`: the fingerprints remembered are those of rows and of events
accepted (`Known`), wherever these are: in the queue, in the batch (`TakesPart`: taking a batch splits the
queue; `TakesAnew`: the worker then has none in hand) or given up. `WithoutType` is an induction over
the list from which expired fingerprints are taken.

### Hook calls and rules

`DecisionsReachTheHost` looks at the answer after the fact. `CallInv` carries what makes it true from one
process to the other. `AnswersItsVerdict`: the daemon's answer is an allow that says why nothing was
judged, the refusal of an unreadable payload, a block that stops its provider with the reason, or an
allow without notice; in the last case what the rules found was no block or one the event cannot take.
`JudgedAsCalled`: provider and event are those of the call, so that for an identified host, where
`IdentifiedHost` shows that the strongest evidence names it, the answer is in the form the host
understands. `LossesAreReal`: a record of an unsupported effect is of one the event does not take.
`AnswersHaveASource`: what the host read is a failure that says so and is recorded, the recovery of the
configuration, or the daemon's answer. The step that carries the weight is the one from the two
capability tables to the six renderers: `RenderedBlock` goes through every provider and every event that
`CanBlock` admits, `RenderedAllow` shows that no allow stops a host and that a notice is written
exactly after a failure.

Nothing of the rules' evaluation needs more than that answers are complete (`AnswersComplete`): each
entry of a rule has an answer, and a deterministic one says block. `FoldFailsClosed` is then about the
fold alone.

### Setup and reset

`SetupInv` says which stages are left (`ServiceFirst`: in a command with a service they go past it
only once the new executable ran, although an old daemon may answer the poll), and what the probe has found
so far is in the store (`FoundIsStored`), because the daemon may die between the three polls.

`ResetInv` relates the reset to processes it does not control. `CheckedBefore`: while data goes, a
daemon that runs the executable at the path has started after the check; nothing is said of one whose
executable was unlinked or replaced, since the check does not see it (section 5). `ServiceDown`: from the
stop of the service to the removal the manager's job stays down, in a state from which the manager does
not start it. `SignalsKnown`: whoever has the PID of an inspected daemon is that daemon or younger
than the inspection, which needs that starts are ordered and a PID has one process (`OneByOne`).
`NothingKeptToRemove`: the removal list was validated against what is kept when it was
made, and neither changes.

### Lemmas

`LeastNatural` (a set of naturals that is not empty has a least element), `GreatestBelow` (one below
a bound has a greatest) and `SetInduction` (induction over the naturals, stated with a set where the library's theorem takes an operator).
MachinesProofs takes from the first where a loop of the gates ends and which snapshot the server makes
next, AuditCatalogProofs from the second the number of a new file, DispatchProofs from the third
that a bounded set of numbers has a greatest. The logger's proof takes the length of a batch from the second and
the induction over a list from the third.

### Only model-checked

- Liveness (`ClaimsEnd`, `EventuallySettled`, `EventuallyFinalized`, `ShutdownEnds`,
  `EditsServed`, `EventsDecided`): it needs fairness, and with it `ENABLED`.
- `BytesAccounted` and `WithinLimits` (of `CacheInOrder`) and `EventsAccounted`: they rest on sums of
  sizes over sets and sequences, that is, on induction over data.
- `DegradedLosesOnlyFaults`, `ServedIsSound`, `MergeSafe`, `LogsKeepEvidence` and
  `RecordsAgree`: what they say is about operators that walk documents, lines, and traces from end to
  end, again by induction over data.
- `PruningClean`: its part `PassRemoves` is about a batch that is sorted and gone through to its end,
  which is induction over data; its part `NewFilesClean` needs that the numbers of recorded segments stay
  below the saved one, across everything that a reset and its recovery delete.
- `EffectsMatchRecords`, `InstallSafe`, `OnlyManagedChanges` and `ReloadKeepsEnforcing`: they count or compare
  what is left of a sequence after a selection (`SelectSeq`, defined by recursion).
- `EndsWhole` and `ExecutableSurvives`, the other parts of `ResetSafe`: they hold for one reset with the
  layouts of the run. A second reset meets what the first has left, and a layout in which the executable
  lies in a directory that is removed loses it, so they are no theorems as they stand.
- `ReplaceSafe`: its three parts follow a planner through all its steps beside the operator and another, and the invariant that ties inodes to plans is not written yet.

Two ambiguities of the notation were removed for the proofs, without a change of what TLC computes: the
guards of a `CASE` exclude each other (TLA+ leaves the choice open where they overlap), and a union
with an operator beside it is in parentheses.

## 5. Findings

1. **Completed detail under a minimal policy** (`minimal_detail`).
   `docs/audit-storage.md:37`: "Choose `minimal` to omit completed detail". When the hot
   commit fails and the fallback record is stored, `clearTerminalInput` does not
   run, and the event stays with its whole input.
2. **A retry nothing leads to** (`dispatch_retries`). The design
   (`docs/superpowers/specs/2026-11-01-audit-disk-work-design.md:279`) says "Every committed
   pending receipt remains discoverable without a lost wakeup". `recoverPage` looks only at
   the earliest future retry of a file; if that receipt is queued or owned, the file
   gets no deadline, and the completion of the receipt asks for no other pass. A second
   receipt that waits for its own retry is then found only when something unrelated
   raises a generation. The run takes the short way, through a clock set back; a hook
   call that submits late leads there as well. `NoReceiptForgotten` is the part that
   holds: receipts that do not share their file with another one waiting for a retry.
3. **One bad rule** (`one_bad_rule`). `config/degraded.go:58`: "The daemon uses this so a single
   bad rule costs that rule and nothing else." `loadSource` drops a rule that does not compile, but
   `hook.ValidateConfig`, which runs after it at start and on reload, refuses the whole
   configuration for one rule that names a field its events do not have or repeats a name.
   `DegradedLosesOnlyFaults` is what holds of the load itself.
4. **The allow of an installed hook** (`fail_open_provider`). `docs/features.md:49`: "These
   failures return the provider allow response and record visible fail-open evidence." The
   fail-open answer is rendered for the provider hint; the command that the installer
   registers carries its provider as a tag instead, so the host gets the empty answer of an unknown
   provider. `FailuresNeverBlock` and `AllowWasDecided` are what holds.

Five more have no run of their own; the properties of the passing runs name them as exceptions:

- **A sequence used twice.** The design
  (`docs/superpowers/specs/2026-11-01-audit-disk-work-design.md:249`) says "New files always consume a
  new sequence." `EnsureCurrent` publishes a segment before it saves the segment's number, and
  `selectCurrent` counts from the state file and the databases on disk. It takes three
  failures: saving the state fails, so a segment is on disk whose number is not recorded; the daemon
  dies with that segment open, which leaves its log; the reset command deletes the database
  and fails before the log. The next daemon gives the same number to a new file, and
  `publishNew`, which clears only what staging left, puts it beside the old log. `NewFilesClean`
  therefore speaks of the logs of segments that the state file has named.
- **A reset under a live daemon.** The comment of `ApplyReset` (`install/reset.go`) says that it "proves
  shutdown". On Linux a daemon whose executable was unlinked or replaced, by an upgrade or by an
  earlier reset that restored the executable, counts as exited (`install/process_identity_linux.go`),
  and a daemon that starts after the check is not looked for again. `RemovedAfterShutdown` says what is
  proved: the service's job is down, and no daemon runs the executable at the path since before the check.
- **An executable of another name.** `--bin-path` accepts any executable, `isAgentGateCommandObject` knows the base
  name agent-gate. An installation under another name is verified; the next one adds its commands
  again, the verifier refuses what it then finds, and removal leaves the commands. `InstalledIsVerified` says
  exactly when the verifier refuses, `InstallIdempotent` which names and files it holds of.
- **A durable write that writes nothing.** The comment of `LogDurable` (`audit/session.go`) says that it
  "writes a normalized audit event to every configured output before returning". For an event that `Log` has
  accepted a short time ago it returns success at once, and a failing batch may still lose the event. No caller in the
  daemon logs one event both ways. `DurableMeansStored` says where the event is then.
- **A configuration edited in place.** `sameDefaultsPathComponent` compares inode and birth time, so a file that is
  edited in place between the read and the exchange is taken for the one that was read, and the edit goes
  with it. `OnlyReadFilesDestroyed` has this window, and that of a file saved after the exchange and before a
  planner backs out.

## 6. Not modelled

- What a single condition finds: regular expressions, parsed shell commands, the state
  of git repositories, the text of prompts. These are arbitrary outcomes in RuleEvaluation.
- Shapes of payloads and JSON, messages of the RPC surface, SQL and the encoding of state files,
  audit queries and cost arithmetic.
- Panics inside a flight of the gates and in the goroutines of the judge matrix.
- Rules that have infer conditions and judge entries at once.
- Two processes that replace the configuration at once are in the model, but nothing is claimed of what they
  undo for each other beyond that the name is never a file that is not whole. Operations on a directory
  become durable in order.
- Edits of hook files between prepare and apply; an executable inside a directory that reset removes;
  reset on systems other than Linux.
- Glued lines of evidence: `EvidenceAccounted` and `SummaryHonest` name them as the exception. A torn
  write to the diagnostic log: its lines are appended whole. `NewestKept` compares what is kept with what is not, and
  says nothing when nothing is kept.
- Age limits other than as a count; sizes other than as small numbers.
- The update itself, telemetry, CI tools.

## 7. Plan

What is left is proof, in this order:

1. `PruningClean` of AuditCatalog: `PassRemoves` on `SetInduction` over the batch, `NewFilesClean` with the
   numbers of recorded segments in `CatalogInv`.
2. The sums of `CacheInOrder` and `EventsAccounted`, on `SetInduction`.
3. `EndsWhole` and `ExecutableSurvives`, under an assumption on the layouts and with what a first reset
   leaves said in `ResetInv`.
4. `ReplaceSafe`, first for one planner beside the operator.
