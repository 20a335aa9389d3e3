--------------------------- MODULE DeferredClaims ---------------------------
(***************************************************************************)
(* The durable intake of one audit database and the daemon that works on   *)
(* it: hook calls append receipts and commit their hot evaluation, deferred*)
(* workers lease pending receipts, evaluate them and commit the result.    *)
(*                                                                         *)
(* Tables (internal/auditstorage/schema.sql):                              *)
(*   event       intake_receipts: the event a receipt belongs to           *)
(*   input, mask intake_events: the input classes stored for an event and  *)
(*               recorded_detail_mask, the classes the policy keeps        *)
(*   deferred    intake_deferred: one row per receipt                      *)
(*   evaluations gate_evaluations: receipt, mode and attempt make the key  *)
(*   audited     events: evaluations that have audit entries               *)
(* Daemon memory, lost in a crash:                                         *)
(*   hook        the hook call that created a receipt                      *)
(*   job         what each deferred worker is doing                        *)
(*   claimOwner  the owner name of this daemon process                     *)
(*                                                                         *)
(* One database transaction is one step.  A timestamp column is held as    *)
(* the time left until it: lease is claim_expires_at and wait is           *)
(* next_attempt_at, and 0 stands for every instant that is not after now.  *)
(***************************************************************************)
EXTENDS Integers, FiniteSets

CONSTANTS
    Receipt,      \* receipt identifiers of the autoincrement column
    Event,        \* canonical event identifiers (hash of the content)
    Class,        \* input classes: wire, normalized, provider, environment
    Policies,     \* the sets of classes a detail policy can keep
    Owner,        \* owner names "agent-gate-<pid>-<seq>"; a pid can recur
    Worker,       \* deferred workers
    None,         \* SQL null
    Lease,        \* DeferredClaimLease
    MaxAttempts,  \* bound on claim_attempt
    MaxJump       \* bound on how far the wall clock is set back

ASSUME ClaimsAssumption ==
    /\ Policies \subseteq SUBSET Class
    /\ Owner # {}
    /\ None \notin Owner \cup Event \cup Receipt
    /\ Lease \in Nat \ {0}
    /\ MaxAttempts \in Nat
    /\ MaxJump \in Nat

VARIABLES event, input, mask, deferred, evaluations, audited, hook, job,
          claimOwner

tables == <<event, input, mask, deferred, evaluations, audited>>
vars == <<tables, hook, job, claimOwner>>

-----------------------------------------------------------------------------
HookState == {"absent", "evaluating", "answered", "discarded", "lost"}

DeferredRow == [state : {"none", "pending", "complete"},
                owner : Owner \cup {None},
                lease : Nat,
                attempt : Nat,
                wait : Nat]

Evaluation == [receipt : Receipt,
               mode : {"hot", "deferred", "deferred_replay"},
               attempt : Nat]

Job == [pc : {"idle", "claimed", "processing", "cancelled", "retrying"},
        receipt : Receipt \cup {None},
        attempt : Nat,
        input : SUBSET Class]

NoRow == [state |-> "none", owner |-> None, lease |-> 0, attempt |-> 0,
          wait |-> 0]

IdleJob == [pc |-> "idle", receipt |-> None, attempt |-> 0, input |-> {}]

HotEvaluation(r) == [receipt |-> r, mode |-> "hot", attempt |-> 1]

\* A first attempt is recorded as deferred, a later one as a replay.
DeferredEvaluation(r, attempt) ==
    [receipt |-> r,
     mode |-> IF attempt > 1 THEN "deferred_replay" ELSE "deferred",
     attempt |-> attempt]

\* Seconds before attempt number attempt + 1.
auditRetryDelay(attempt) ==
    IF attempt > 5 THEN 30 ELSE IF attempt < 1 THEN 1 ELSE 2 ^ (attempt - 1)

-----------------------------------------------------------------------------
(* Statements the transactions are made of.                                *)

ReceiptsOf(e) == {r \in Receipt : event[r] = e}

\* Slip: pending deferred work does not count.
TerminalWithoutDeferred(e, evals, rows) ==
    \A r \in ReceiptsOf(e) : \E v \in evals : v.receipt = r /\ v.mode = "hot"

\* No receipt of e waits for a hot evaluation or for deferred work.
Terminal(e, evals, rows) ==
    \A r \in ReceiptsOf(e) :
        /\ \E v \in evals : v.receipt = r /\ v.mode = "hot"
        /\ rows[r].state # "pending"

\* clear_terminal_input.sql: keep only the classes in recorded_detail_mask.
clearTerminalInput(e, evals, rows) ==
    [input EXCEPT ![e] = IF Terminal(e, evals, rows) THEN @ \cap mask[e] ELSE @]

\* evaluation_commit_6.sql: attempt and next_attempt_at survive a conflict.
markDeferredPending(row) ==
    [row EXCEPT !.state = "pending", !.owner = None, !.lease = 0]

\* Slip: the attempt is not incremented.
claimSameAttempt(row, owner) == [row EXCEPT !.owner = owner, !.lease = Lease]

\* evaluation_commit_1.sql: lease the row under the next attempt number.
claim(row, owner) ==
    [row EXCEPT !.owner = owner, !.lease = Lease, !.attempt = @ + 1]

\* evaluation_commit_3.sql
renew(row) == [row EXCEPT !.lease = Lease]

\* Slip: the state column is not set.
completeWithoutState(row) == [row EXCEPT !.owner = None, !.lease = 0]

\* evaluation_commit_5.sql
complete(row) ==
    [row EXCEPT !.state = "complete", !.owner = None, !.lease = 0]

\* schedule_deferred_retry.sql
retryAfter(row, delay) ==
    [row EXCEPT !.owner = None, !.lease = 0, !.wait = delay]

\* Slip: an expired lease still excludes other workers.
ClaimableUnowned(r) ==
    /\ deferred[r].state = "pending"
    /\ deferred[r].owner = None
    /\ deferred[r].wait = 0

Claimable(r) ==
    /\ deferred[r].state = "pending"
    /\ deferred[r].owner = None \/ deferred[r].lease = 0
    /\ deferred[r].wait = 0

\* Slip: the fence relies on the owner name alone.
OwnsClaimByOwner(w) ==
    LET row == deferred[job[w].receipt]
    IN  row.state = "pending" /\ row.owner = claimOwner

\* The where clause that fences renewal, retry and commit to one attempt.
OwnsClaim(w) ==
    LET row == deferred[job[w].receipt]
    IN  /\ row.state = "pending"
        /\ row.owner = claimOwner
        /\ row.attempt = job[w].attempt

LiveClaim(w) == OwnsClaim(w) /\ deferred[job[w].receipt].lease > 0

-----------------------------------------------------------------------------
(* Hook calls.                                                             *)

\* Store.Append: a repeated event restores its input and widens its mask,
\* and every call gets a receipt of its own.
Append(r, e, policy) ==
    /\ hook[r] = "absent"
    /\ event' = [event EXCEPT ![r] = e]
    /\ input' = [input EXCEPT ![e] = Class]
    /\ mask' = [mask EXCEPT ![e] = @ \cup policy]
    /\ hook' = [hook EXCEPT ![r] = "evaluating"]
    /\ UNCHANGED <<deferred, evaluations, audited, job, claimOwner>>

\* Store.CommitHotEvaluation: one transaction, then the verdict is returned.
\* There are audit entries (written) when auditing is enabled and the event
\* was read and judged without a system error; only then can work be deferred.
CommitHotEvaluation(r, deferredPending, written) ==
    LET rows  == IF deferredPending
                 THEN [deferred EXCEPT ![r] = markDeferredPending(@)]
                 ELSE deferred
        evals == evaluations \cup {HotEvaluation(r)}
    IN  /\ hook[r] = "evaluating"
        /\ written => deferredPending
        /\ HotEvaluation(r) \notin evaluations
        /\ deferred' = rows
        /\ evaluations' = evals
        /\ audited' = IF written THEN audited \cup {HotEvaluation(r)} ELSE audited
        /\ input' = clearTerminalInput(event[r], evals, rows)
        /\ hook' = [hook EXCEPT ![r] = "answered"]
        /\ UNCHANGED <<event, mask, job, claimOwner>>

\* The hot commit fails and is rolled back: the verdict is discarded, and the
\* fallback RecordCompleted stores the failure or fails as well.
DiscardVerdict(r, recorded) ==
    /\ hook[r] = "evaluating"
    /\ evaluations' = IF recorded THEN evaluations \cup {HotEvaluation(r)}
                                  ELSE evaluations
    /\ hook' = [hook EXCEPT ![r] = "discarded"]
    /\ UNCHANGED <<event, input, mask, deferred, audited, job, claimOwner>>

-----------------------------------------------------------------------------
(* Deferred workers.                                                       *)

\* Store.ClaimDeferred, its transaction.
ClaimDeferred(w, r) ==
    /\ job[w].pc = "idle"
    /\ Claimable(r)
    /\ deferred[r].attempt < MaxAttempts
    /\ deferred' = [deferred EXCEPT ![r] = claim(@, claimOwner)]
    /\ job' = [job EXCEPT ![w] = [IdleJob EXCEPT
                    !.pc = "claimed",
                    !.receipt = r,
                    !.attempt = deferred[r].attempt + 1]]
    /\ UNCHANGED <<event, input, mask, evaluations, audited, hook, claimOwner>>

\* pendingRecord runs after the claim's transaction: it finds the row only
\* while the receipt is pending, under whichever attempt.
LoadRecord(w) ==
    /\ job[w].pc = "claimed"
    /\ deferred[job[w].receipt].state = "pending"
    /\ job' = [job EXCEPT ![w] = [@ EXCEPT
                    !.pc = "processing",
                    !.input = input[event[job[w].receipt]]]]
    /\ UNCHANGED <<tables, hook, claimOwner>>

\* The receipt is no longer pending, or the read failed: the worker returns
\* and the claim stays in the table until its lease runs out.
LoadFails(w) ==
    /\ job[w].pc = "claimed"
    /\ job' = [job EXCEPT ![w] = IdleJob]
    /\ UNCHANGED <<tables, hook, claimOwner>>

\* Store.RenewDeferredClaim on the renewal ticker.
RenewDeferredClaim(w) ==
    /\ job[w].pc = "processing"
    /\ IF LiveClaim(w)
       THEN /\ deferred' = [deferred EXCEPT ![job[w].receipt] = renew(@)]
            /\ job' = job
       ELSE /\ job' = [job EXCEPT ![w].pc = "cancelled"]
            /\ deferred' = deferred
    /\ UNCHANGED <<event, input, mask, evaluations, audited, hook, claimOwner>>

\* A failed renewal, a pause, a prune, a shutdown cancels the job's context.
CancelJob(w) ==
    /\ job[w].pc = "processing"
    /\ job' = [job EXCEPT ![w].pc = "cancelled"]
    /\ UNCHANGED <<tables, hook, claimOwner>>

\* Slip: audit entries are written outside the fenced transaction.
CommitAuditUnfenced(w, written) ==
    LET r     == job[w].receipt
        done  == DeferredEvaluation(r, job[w].attempt)
        rows  == [deferred EXCEPT ![r] = complete(@)]
        evals == evaluations \cup {done}
    IN  /\ job[w].pc = "processing"
        /\ audited' = IF written THEN audited \cup {done} ELSE audited
        /\ IF OwnsClaim(w)
           THEN /\ done \notin evaluations
                /\ deferred' = rows
                /\ evaluations' = evals
                /\ input' = clearTerminalInput(event[r], evals, rows)
           ELSE UNCHANGED <<deferred, evaluations, input>>
        /\ job' = [job EXCEPT ![w] = IdleJob]
        /\ UNCHANGED <<event, mask, hook, claimOwner>>

\* Store.CommitDeferredEvaluation: the completion is fenced by owner and
\* attempt, never by the lease; a lost claim ends the job without a retry.
\* There are audit entries (written) when the deferred rules found something.
CommitDeferredEvaluation(w, written) ==
    LET r     == job[w].receipt
        done  == DeferredEvaluation(r, job[w].attempt)
        rows  == [deferred EXCEPT ![r] = complete(@)]
        evals == evaluations \cup {done}
    IN  /\ job[w].pc = "processing"
        /\ IF OwnsClaim(w)
           THEN /\ done \notin evaluations
                /\ deferred' = rows
                /\ evaluations' = evals
                /\ audited' = IF written THEN audited \cup {done} ELSE audited
                /\ input' = clearTerminalInput(event[r], evals, rows)
           ELSE UNCHANGED <<deferred, evaluations, audited, input>>
        /\ job' = [job EXCEPT ![w] = IdleJob]
        /\ UNCHANGED <<event, mask, hook, claimOwner>>

\* The evaluation cannot be rebuilt, its context is cancelled or its
\* transaction is rolled back: renewal stops before the claim is released.
FailJob(w) ==
    /\ job[w].pc \in {"processing", "cancelled"}
    /\ job' = [job EXCEPT ![w].pc = "retrying"]
    /\ UNCHANGED <<tables, hook, claimOwner>>

\* Store.ScheduleDeferredRetry: the delay is cut short when the bucket
\* expires first; an expired or superseded claim is left alone.
ScheduleDeferredRetry(w) ==
    /\ job[w].pc = "retrying"
    /\ \/ /\ LiveClaim(w)
          /\ \E delay \in 0 .. auditRetryDelay(job[w].attempt) :
               deferred' = [deferred EXCEPT ![job[w].receipt] =
                                retryAfter(@, delay)]
       \/ /\ ~LiveClaim(w)
          /\ UNCHANGED deferred
    /\ job' = [job EXCEPT ![w] = IdleJob]
    /\ UNCHANGED <<event, input, mask, evaluations, audited, hook, claimOwner>>

\* The update loses the race for the write lock or its five seconds are up.
RetryFails(w) ==
    /\ job[w].pc = "retrying"
    /\ LiveClaim(w)
    /\ job' = [job EXCEPT ![w] = IdleJob]
    /\ UNCHANGED <<tables, hook, claimOwner>>

-----------------------------------------------------------------------------
(* Environment.                                                            *)

\* The daemon dies and a new process takes over the database.
Restart(owner) ==
    /\ hook' = [r \in Receipt |-> IF hook[r] = "evaluating" THEN "lost"
                                                            ELSE hook[r]]
    /\ job' = [w \in Worker |-> IdleJob]
    /\ claimOwner' = owner
    /\ UNCHANGED tables

Left(time) == IF time > 0 THEN time - 1 ELSE 0

elapse(row) == [row EXCEPT !.lease = Left(@), !.wait = Left(@)]

setBack(row, lease, wait) == [row EXCEPT !.lease = @ + lease, !.wait = @ + wait]

\* A second passes.
Tick ==
    /\ \E r \in Receipt : deferred[r].lease > 0 \/ deferred[r].wait > 0
    /\ deferred' = [r \in Receipt |-> elapse(deferred[r])]
    /\ UNCHANGED <<event, input, mask, evaluations, audited, hook, job,
                   claimOwner>>

\* The wall clock is set back, so a stored time lies further ahead.
ClockBack(r, jump) ==
    /\ deferred[r].state = "pending"
    /\ deferred[r].attempt > 0
    /\ \/ /\ deferred[r].owner # None
          /\ deferred[r].lease + jump <= Lease + MaxJump
          /\ deferred' = [deferred EXCEPT ![r] = setBack(@, jump, 0)]
       \/ /\ deferred[r].wait + jump <= MaxJump
          /\ deferred' = [deferred EXCEPT ![r] = setBack(@, 0, jump)]
    /\ UNCHANGED <<event, input, mask, evaluations, audited, hook, job,
                   claimOwner>>

-----------------------------------------------------------------------------
Init ==
    /\ event = [r \in Receipt |-> None]
    /\ input = [e \in Event |-> {}]
    /\ mask = [e \in Event |-> {}]
    /\ deferred = [r \in Receipt |-> NoRow]
    /\ evaluations = {}
    /\ audited = {}
    /\ hook = [r \in Receipt |-> "absent"]
    /\ job = [w \in Worker |-> IdleJob]
    /\ claimOwner \in Owner

HookNext(r) ==
    \/ \E e \in Event, policy \in Policies : Append(r, e, policy)
    \/ \E deferredPending, written \in BOOLEAN :
          CommitHotEvaluation(r, deferredPending, written)
    \/ \E recorded \in BOOLEAN : DiscardVerdict(r, recorded)

\* What a worker does when nothing goes wrong.
WorkerStep(w) ==
    \/ \E r \in Receipt : ClaimDeferred(w, r)
    \/ LoadRecord(w)
    \/ RenewDeferredClaim(w)
    \/ \E written \in BOOLEAN : CommitDeferredEvaluation(w, written)
    \/ ScheduleDeferredRetry(w)

WorkerFails(w) ==
    \/ LoadFails(w)
    \/ CancelJob(w)
    \/ FailJob(w)
    \/ RetryFails(w)

Disturbance ==
    \/ \E owner \in Owner : Restart(owner)
    \/ \E r \in Receipt, jump \in 1 .. MaxJump : ClockBack(r, jump)

Next ==
    \/ \E r \in Receipt : HookNext(r)
    \/ \E w \in Worker : WorkerStep(w) \/ WorkerFails(w)
    \/ Tick
    \/ Disturbance

Spec == Init /\ [][Next]_vars

\* The daemon keeps its workers scheduled, a job ends because every call it
\* makes has a deadline, and time passes.  Hook calls need no fairness.
JobEnds(w) == LoadRecord(w) \/ LoadFails(w) \/ FailJob(w)
                 \/ \E written \in BOOLEAN : CommitDeferredEvaluation(w, written)
                 \/ ScheduleDeferredRetry(w) \/ RetryFails(w)

FairSpec ==
    /\ Spec
    /\ WF_vars(Tick)
    /\ \A w \in Worker :
         /\ WF_vars(JobEnds(w))
         /\ WF_vars(RenewDeferredClaim(w))
    /\ \A r \in Receipt : WF_vars(\E w \in Worker : ClaimDeferred(w, r))

-----------------------------------------------------------------------------
(* Properties.                                                             *)

\* Every table and every piece of daemon memory has its type.
TypeOK ==
    /\ event \in [Receipt -> Event \cup {None}]
    /\ input \in [Event -> SUBSET Class]
    /\ mask \in [Event -> SUBSET Class]
    /\ deferred \in [Receipt -> DeferredRow]
    /\ evaluations \subseteq Evaluation
    /\ audited \subseteq Evaluation
    /\ hook \in [Receipt -> HookState]
    /\ job \in [Worker -> Job]
    /\ claimOwner \in Owner

DeferredEvaluationsOf(r) ==
    {v \in evaluations : v.receipt = r /\ v.mode # "hot"}

\* However leases expire, workers overlap and daemons restart (under a reused
\* owner name, too), a receipt is complete exactly when one deferred
\* evaluation of it is stored, and that one is of the newest attempt:
\* CommitDeferredEvaluation never lets a superseded worker in.
CompletedOnce ==
    \A r \in Receipt :
        /\ deferred[r].state = "complete" <=> DeferredEvaluationsOf(r) # {}
        /\ \A v \in DeferredEvaluationsOf(r) :
              v = DeferredEvaluation(r, deferred[r].attempt)

\* Two workers on the same receipt hold different attempts, and none is ahead
\* of the row: the attempt alone fences jobs that share an owner name.
AttemptsUnique ==
    /\ \A w \in Worker :
          job[w].pc # "idle" =>
              job[w].attempt \in 1 .. deferred[job[w].receipt].attempt
    /\ \A w1, w2 \in Worker :
          /\ w1 # w2
          /\ job[w1].pc # "idle" /\ job[w2].pc # "idle"
          /\ job[w1].receipt = job[w2].receipt
          => job[w1].attempt # job[w2].attempt

\* A receipt still to be evaluated, hot or deferred, finds all of its input,
\* although receipts of one event share a row that other commits clear; and
\* what a worker loaded after its claim was the whole input.
ReplayInputIntact ==
    /\ \A r \in Receipt :
          /\ event[r] # None
          /\ HotEvaluation(r) \notin evaluations \/ deferred[r].state = "pending"
          => input[event[r]] = Class
    /\ \A w \in Worker :
          job[w].pc \in {"processing", "cancelled", "retrying"} => job[w].input = Class

\* Audit entries are there only with their evaluation, and those of a hook call
\* only when its verdict was returned and its deferred work is recorded: neither
\* a hot commit that was rolled back (hot_evaluation.go: the fallback record has
\* none) nor a worker that lost its claim leaves entries.
AuditMatchesEvaluations ==
    /\ audited \subseteq evaluations
    /\ \A v \in audited : v.mode = "hot" =>
          hook[v.receipt] = "answered" /\ deferred[v.receipt].state # "none"

\* docs/audit-storage.md: "Choose `minimal` to omit completed detail": the
\* same without the exception for discarded verdicts.
MinimalOmitsCompletedDetail ==
    \A e \in Event : Terminal(e, evaluations, deferred) => input[e] \subseteq mask[e]

\* How a receipt's rows follow its hook call: no evaluation before the hook
\* call ends, no deferred row without a stored hot evaluation, and a job only
\* on a receipt that has a deferred row.
RowsFollowHooks ==
    /\ \A r \in Receipt :
          /\ event[r] = None <=> hook[r] = "absent"
          /\ HotEvaluation(r) \in evaluations =>
                hook[r] \in {"answered", "discarded"}
          /\ deferred[r].state # "none" =>
                hook[r] = "answered" /\ HotEvaluation(r) \in evaluations
    /\ \A v \in evaluations : v.mode = "hot" => v = HotEvaluation(v.receipt)
    /\ \A w \in Worker :
          job[w].pc # "idle" => /\ job[w].receipt \in Receipt
                                /\ deferred[job[w].receipt].state # "none"

\* The tables and the jobs always describe one history, in which every claim
\* is told apart by its attempt: types, rows and fences together, which is what
\* the commits below take for granted (intake/store.go, evaluation_commit.go).
ClaimsInOrder == TypeOK /\ RowsFollowHooks /\ AttemptsUnique

\* Steps that undo progress: a failure, a crash, a clock set back, or a lease
\* that runs out under a worker that is still processing.
Undisturbed ==
    /\ ~(\E w \in Worker : WorkerFails(w))
    /\ ~Disturbance
    /\ \A w \in Worker :
         /\ job[w].pc \in {"claimed", "processing"}
         /\ LiveClaim(w)
         => \/ deferred'[job[w].receipt].lease > 0
            \/ deferred'[job[w].receipt].owner = None

\* Whatever crashes and failures came before, no claim keeps a receipt from
\* other workers for ever: once the clock is no longer set back, a pending
\* receipt becomes claimable or complete.
NoClaimStuck ==
    <>[][~\E r \in Receipt, jump \in 1 .. MaxJump : ClockBack(r, jump)]_vars
    => \A r \in Receipt :
         deferred[r].state = "pending" ~>
             deferred[r].state = "complete" \/ Claimable(r)

\* If from some time on nothing fails and leases are renewed in time, every
\* pending receipt is completed (or has used up the model's attempts).
EventuallyCompleted ==
    <>[][Undisturbed]_vars
    => \A r \in Receipt :
         deferred[r].state = "pending" ~>
             \/ deferred[r].state = "complete"
             \/ deferred[r].attempt = MaxAttempts

-----------------------------------------------------------------------------
(* The ledger the tables implement.                                        *)

statusBar == [r \in Receipt |->
    IF deferred[r].state # "none" THEN deferred[r].state
    ELSE IF hook[r] \in {"answered", "discarded"} THEN "settled"
    ELSE IF hook[r] = "absent" THEN "absent" ELSE "received"]

outcomeBar == [r \in Receipt |-> {v.attempt : v \in DeferredEvaluationsOf(r)}]

Ledger == INSTANCE DeferredLedger
            WITH status <- statusBar, outcome <- outcomeBar,
                 Attempt <- 1 .. MaxAttempts

\* Leases, overlapping workers, crashes and retries are invisible at the level
\* of receipts: every step of the store is a ledger step or none at all.
ImplementsLedger == Ledger!LedgerSpec
=============================================================================
