------------------------ MODULE DeferredClaimsProofs ------------------------
(***************************************************************************)
(* Proofs about DeferredClaims for every set of receipts, events, workers  *)
(* and owners and every lease.                                             *)
(***************************************************************************)
EXTENDS DeferredClaims, TLAPS

USE DEF tables, vars

\* The delay before a retry is a number, so a scheduled row keeps its type.
LEMMA DelayType ==
    ASSUME NEW attempt \in Nat, NEW delay \in 0 .. auditRetryDelay(attempt)
    PROVE  delay \in Nat
BY SMT DEF auditRetryDelay

\* Types of the records the actions build.
LEMMA RecordTypes ==
    /\ NoRow \in DeferredRow
    /\ IdleJob \in Job
    /\ \A r \in Receipt : HotEvaluation(r) \in Evaluation
    /\ \A r \in Receipt, a \in Nat : DeferredEvaluation(r, a) \in Evaluation
BY DEF NoRow, DeferredRow, IdleJob, Job, HotEvaluation, DeferredEvaluation,
       Evaluation

\* Every statement on a row of intake_deferred keeps the row typed.
LEMMA RowTypes ==
    ASSUME NEW row \in DeferredRow
    PROVE  /\ markDeferredPending(row) \in DeferredRow
           /\ \A owner \in Owner : claim(row, owner) \in DeferredRow
           /\ renew(row) \in DeferredRow
           /\ complete(row) \in DeferredRow
           /\ \A delay \in Nat : retryAfter(row, delay) \in DeferredRow
           /\ elapse(row) \in DeferredRow
           /\ \A l, t \in Nat : setBack(row, l, t) \in DeferredRow
<1>0. /\ row.attempt + 1 \in Nat
      /\ Left(row.lease) \in Nat
      /\ Left(row.wait) \in Nat
      /\ \A l \in Nat : row.lease + l \in Nat /\ row.wait + l \in Nat
  BY DEF DeferredRow, Left
<1>1. markDeferredPending(row) \in DeferredRow
  BY DEF DeferredRow, markDeferredPending
<1>2. ASSUME NEW owner \in Owner  PROVE claim(row, owner) \in DeferredRow
  BY <1>0, ClaimsAssumption DEF DeferredRow, claim
<1>3. renew(row) \in DeferredRow
  BY ClaimsAssumption DEF DeferredRow, renew
<1>4. complete(row) \in DeferredRow
  BY DEF DeferredRow, complete
<1>5. ASSUME NEW delay \in Nat  PROVE retryAfter(row, delay) \in DeferredRow
  BY DEF DeferredRow, retryAfter
<1>6. elapse(row) \in DeferredRow
  BY <1>0 DEF DeferredRow, elapse
<1>7. ASSUME NEW l \in Nat, NEW t \in Nat
      PROVE  setBack(row, l, t) \in DeferredRow
  BY <1>0 DEF DeferredRow, setBack
<1> QED  BY <1>1, <1>2, <1>3, <1>4, <1>5, <1>6, <1>7

-----------------------------------------------------------------------------
(* Type correctness.                                                       *)

\* Every step keeps every table and every piece of daemon memory typed.
LEMMA TypeStep ==
    ASSUME TypeOK, RowsFollowHooks, [Next]_vars
    PROVE  TypeOK'
<1> USE ClaimsAssumption
<1>1. ASSUME NEW r \in Receipt, NEW e \in Event, NEW policy \in Policies,
             Append(r, e, policy)
      PROVE  TypeOK'
  BY <1>1 DEF TypeOK, Append, HookState
<1>2. ASSUME NEW r \in Receipt, NEW deferredPending \in BOOLEAN,
             NEW written \in BOOLEAN,
             CommitHotEvaluation(r, deferredPending, written)
      PROVE  TypeOK'
  <2>1. deferred' \in [Receipt -> DeferredRow]
    BY <1>2, RowTypes DEF TypeOK, CommitHotEvaluation
  <2>2. evaluations' \subseteq Evaluation /\ audited' \subseteq Evaluation
    BY <1>2, RecordTypes DEF TypeOK, CommitHotEvaluation
  <2>3. input' \in [Event -> SUBSET Class]
    BY <1>2 DEF TypeOK, CommitHotEvaluation, clearTerminalInput
  <2> QED  BY <1>2, <2>1, <2>2, <2>3 DEF TypeOK, CommitHotEvaluation, HookState
<1>3. ASSUME NEW r \in Receipt, NEW recorded \in BOOLEAN,
             DiscardVerdict(r, recorded)
      PROVE  TypeOK'
  BY <1>3, RecordTypes DEF TypeOK, DiscardVerdict, HookState
<1>4. ASSUME NEW w \in Worker, NEW r \in Receipt, ClaimDeferred(w, r)
      PROVE  TypeOK'
  <2>1. deferred' \in [Receipt -> DeferredRow]
    BY <1>4, RowTypes DEF TypeOK, ClaimDeferred
  <2>2. job' \in [Worker -> Job]
    <3>1. deferred[r].attempt + 1 \in Nat
      BY DEF TypeOK, DeferredRow
    <3> QED  BY <1>4, <3>1 DEF TypeOK, ClaimDeferred, Job, IdleJob
  <2> QED  BY <1>4, <2>1, <2>2 DEF TypeOK, ClaimDeferred
<1>5. ASSUME NEW w \in Worker, LoadRecord(w)
      PROVE  TypeOK'
  <2>1. job[w].receipt \in Receipt /\ event[job[w].receipt] \in Event
    BY <1>5 DEF TypeOK, LoadRecord, RowsFollowHooks, HookState
  <2>2. input[event[job[w].receipt]] \in SUBSET Class
    BY <2>1 DEF TypeOK
  <2>3. job' \in [Worker -> Job]
    <3>1. ASSUME NEW j \in Job, NEW c \in SUBSET Class
          PROVE  [j EXCEPT !.pc = "processing", !.input = c] \in Job
      BY DEF Job
    <3> QED  BY <1>5, <2>2, <3>1 DEF TypeOK, LoadRecord
  <2> QED  BY <1>5, <2>3 DEF TypeOK, LoadRecord
<1>6. ASSUME NEW w \in Worker, LoadFails(w) \/ CancelJob(w) \/ FailJob(w)
                                \/ RetryFails(w)
      PROVE  TypeOK'
  <2>1. job' \in [Worker -> Job]
    <3>1. CASE LoadFails(w) \/ RetryFails(w)
      BY <3>1, RecordTypes DEF TypeOK, LoadFails, RetryFails
    <3>2. CASE CancelJob(w) \/ FailJob(w)
      <4>1. \A j \in Job : [j EXCEPT !.pc = "cancelled"] \in Job
                            /\ [j EXCEPT !.pc = "retrying"] \in Job
        BY DEF Job
      <4>2. PICK j \in Job : job' = [job EXCEPT ![w] = j]
        BY <3>2, <4>1 DEF TypeOK, CancelJob, FailJob
      <4> QED  BY <4>2 DEF TypeOK
    <3> QED  BY <1>6, <3>1, <3>2
  <2>2. UNCHANGED <<tables, hook, claimOwner>>
    BY <1>6 DEF LoadFails, CancelJob, FailJob, RetryFails, tables
  <2> QED  BY <2>1, <2>2 DEF TypeOK, tables
<1>7. ASSUME NEW w \in Worker, RenewDeferredClaim(w)
      PROVE  TypeOK'
  <2>1. deferred' \in [Receipt -> DeferredRow]
    BY <1>7, RowTypes DEF TypeOK, RenewDeferredClaim
  <2>2. job' \in [Worker -> Job]
    BY <1>7 DEF TypeOK, RenewDeferredClaim, Job
  <2> QED  BY <1>7, <2>1, <2>2 DEF TypeOK, RenewDeferredClaim
<1>8. ASSUME NEW w \in Worker, NEW written \in BOOLEAN,
             CommitDeferredEvaluation(w, written)
      PROVE  TypeOK'
  <2>0. job[w].receipt \in Receipt /\ job[w].attempt \in Nat
    BY <1>8 DEF TypeOK, CommitDeferredEvaluation, RowsFollowHooks, Job
  <2>1. deferred' \in [Receipt -> DeferredRow]
    BY <1>8, <2>0, RowTypes DEF TypeOK, CommitDeferredEvaluation
  <2>2. evaluations' \subseteq Evaluation /\ audited' \subseteq Evaluation
    BY <1>8, <2>0, RecordTypes DEF TypeOK, CommitDeferredEvaluation
  <2>3. input' \in [Event -> SUBSET Class]
    BY <1>8 DEF TypeOK, CommitDeferredEvaluation, clearTerminalInput
  <2>4. job' \in [Worker -> Job]
    BY <1>8, RecordTypes DEF TypeOK, CommitDeferredEvaluation
  <2> QED  BY <1>8, <2>1, <2>2, <2>3, <2>4 DEF TypeOK, CommitDeferredEvaluation
<1>9. ASSUME NEW w \in Worker, ScheduleDeferredRetry(w)
      PROVE  TypeOK'
  <2>1. deferred' \in [Receipt -> DeferredRow]
    <3>1. CASE UNCHANGED deferred
      BY <3>1 DEF TypeOK
    <3>2. ASSUME NEW delay \in 0 .. auditRetryDelay(job[w].attempt),
                 deferred' = [deferred EXCEPT ![job[w].receipt] =
                                  retryAfter(@, delay)]
          PROVE  deferred' \in [Receipt -> DeferredRow]
      <4>1. delay \in Nat
        BY DelayType DEF TypeOK, Job
      <4> QED  BY <3>2, <4>1, RowTypes DEF TypeOK
    <3> QED  BY <1>9, <3>1, <3>2 DEF ScheduleDeferredRetry
  <2>2. job' \in [Worker -> Job]
    BY <1>9, RecordTypes DEF TypeOK, ScheduleDeferredRetry
  <2> QED  BY <1>9, <2>1, <2>2 DEF TypeOK, ScheduleDeferredRetry
<1>10. ASSUME NEW owner \in Owner, Restart(owner)
       PROVE  TypeOK'
  BY <1>10, RecordTypes DEF TypeOK, Restart, HookState
<1>11. ASSUME Tick  PROVE  TypeOK'
  BY <1>11, RowTypes DEF TypeOK, Tick
<1>12. ASSUME NEW r \in Receipt, NEW jump \in 1 .. MaxJump, ClockBack(r, jump)
       PROVE  TypeOK'
  <2>1. jump \in Nat /\ deferred[r] \in DeferredRow
    BY DEF TypeOK
  <2>3. /\ setBack(deferred[r], jump, 0) \in DeferredRow
        /\ setBack(deferred[r], 0, jump) \in DeferredRow
    BY <2>1, RowTypes
  <2>2. deferred' \in [Receipt -> DeferredRow]
    BY <1>12, <2>3 DEF TypeOK, ClockBack
  <2> QED  BY <1>12, <2>2 DEF TypeOK, ClockBack
<1>13. CASE UNCHANGED vars
  BY <1>13 DEF TypeOK
<1> QED
  BY <1>1, <1>2, <1>3, <1>4, <1>5, <1>6, <1>7, <1>8, <1>9, <1>10, <1>11,
     <1>12, <1>13
     DEF Next, HookNext, WorkerStep, WorkerFails, Disturbance

-----------------------------------------------------------------------------
(* The inductive invariant.                                                *)

\* RowsFollowHooks ties the tables to the hook calls; the others are the
\* invariants of interest.
Inv ==
    /\ TypeOK
    /\ RowsFollowHooks
    /\ CompletedOnce
    /\ AttemptsUnique
    /\ ReplayInputIntact
    /\ AuditMatchesEvaluations

\* What the statements do to the two columns the invariants look at.
LEMMA RowFields ==
    ASSUME NEW row \in DeferredRow
    PROVE  /\ markDeferredPending(row).state = "pending"
           /\ markDeferredPending(row).attempt = row.attempt
           /\ \A owner \in Owner : claim(row, owner).state = row.state
           /\ \A owner \in Owner : claim(row, owner).attempt = row.attempt + 1
           /\ renew(row).state = row.state
           /\ renew(row).attempt = row.attempt
           /\ complete(row).state = "complete"
           /\ complete(row).attempt = row.attempt
           /\ \A d \in Nat : retryAfter(row, d).state = row.state
           /\ \A d \in Nat : retryAfter(row, d).attempt = row.attempt
           /\ elapse(row).state = row.state
           /\ elapse(row).attempt = row.attempt
           /\ \A l, t \in Nat : setBack(row, l, t).state = row.state
           /\ \A l, t \in Nat : setBack(row, l, t).attempt = row.attempt
BY DEF DeferredRow, markDeferredPending, claim, renew, complete, retryAfter,
       elapse, setBack

\* A step that touches neither the evaluations nor the hook calls, changes
\* no state and no attempt and at most ends jobs or moves them along.
Quiet ==
    /\ UNCHANGED <<event, input, evaluations, audited, hook>>
    /\ \A r \in Receipt : /\ deferred'[r].state = deferred[r].state
                          /\ deferred'[r].attempt = deferred[r].attempt
    /\ \A w \in Worker :
         \/ job'[w].pc = "idle"
         \/ /\ job[w].pc # "idle"
            /\ job'[w].receipt = job[w].receipt
            /\ job'[w].attempt = job[w].attempt
            /\ job'[w].pc = "claimed" \/ job'[w].input = Class

\* The steps that change nothing that the invariant relates.
LEMMA QuietStep ==
    ASSUME Inv, Quiet, TypeOK'
    PROVE  Inv'
<1>1. RowsFollowHooks'
  BY DEF Inv, Quiet, RowsFollowHooks, HotEvaluation, TypeOK
<1>2. CompletedOnce'
  BY DEF Inv, Quiet, CompletedOnce, DeferredEvaluationsOf, DeferredEvaluation
<1>3. AttemptsUnique'
  BY DEF Inv, Quiet, AttemptsUnique, RowsFollowHooks
<1>4. ReplayInputIntact'
  BY DEF Inv, Quiet, ReplayInputIntact, HotEvaluation
<1>5. AuditMatchesEvaluations'
  BY DEF Inv, Quiet, AuditMatchesEvaluations, TypeOK, Evaluation
<1> QED  BY <1>1, <1>2, <1>3, <1>4, <1>5 DEF Inv

\* Renewal, retries, failures, the clock: all quiet.
LEMMA WorkerQuiet ==
    ASSUME Inv,
           \/ \E w \in Worker : \/ LoadRecord(w) \/ RenewDeferredClaim(w)
                                \/ ScheduleDeferredRetry(w) \/ WorkerFails(w)
           \/ Tick
           \/ \E r \in Receipt, jump \in 1 .. MaxJump : ClockBack(r, jump)
    PROVE  Quiet
<1> USE DEF Inv
<1>0. ASSUME NEW w \in Worker, job[w].pc # "idle"
      PROVE  /\ job[w].receipt \in Receipt
             /\ deferred[job[w].receipt] \in DeferredRow
             /\ job[w].pc = "claimed" \/ job[w].input = Class
  BY <1>0 DEF RowsFollowHooks, TypeOK, ReplayInputIntact, Job
<1>1. ASSUME NEW w \in Worker, LoadRecord(w)  PROVE  Quiet
  <2>1. input[event[job[w].receipt]] = Class
    <3>1. event[job[w].receipt] # None
      BY <1>1, <1>0 DEF LoadRecord, RowsFollowHooks
    <3> QED  BY <1>1, <1>0, <3>1 DEF LoadRecord, ReplayInputIntact
  <2>2. /\ job'[w].receipt = job[w].receipt
        /\ job'[w].attempt = job[w].attempt
        /\ job'[w].input = Class
    BY <1>1, <2>1 DEF LoadRecord, TypeOK, Job
  <2>3. \A u \in Worker \ {w} : job'[u] = job[u]
    BY <1>1 DEF LoadRecord, TypeOK
  <2>4. job[w].pc # "idle"
    BY <1>1 DEF LoadRecord
  <2> QED  BY <1>0, <1>1, <2>2, <2>3, <2>4 DEF LoadRecord, Quiet
<1>2. ASSUME NEW w \in Worker, WorkerFails(w)  PROVE  Quiet
  <2>1. \A u \in Worker \ {w} : job'[u] = job[u]
    BY <1>2 DEF WorkerFails, LoadFails, CancelJob, FailJob, RetryFails, TypeOK
  <2>2. \/ job'[w].pc = "idle"
        \/ /\ job[w].pc # "idle"
           /\ job[w].pc # "claimed"
           /\ job'[w].receipt = job[w].receipt
           /\ job'[w].attempt = job[w].attempt
           /\ job'[w].input = job[w].input
    BY <1>2 DEF WorkerFails, LoadFails, CancelJob, FailJob, RetryFails,
                TypeOK, Job, IdleJob
  <2>3. UNCHANGED <<event, input, evaluations, audited, hook, deferred>>
    BY <1>2 DEF WorkerFails, LoadFails, CancelJob, FailJob, RetryFails
  <2> QED  BY <1>0, <2>1, <2>2, <2>3 DEF Quiet
<1>3. ASSUME NEW w \in Worker, RenewDeferredClaim(w)  PROVE  Quiet
  <2>1. \A r \in Receipt : /\ deferred'[r].state = deferred[r].state
                           /\ deferred'[r].attempt = deferred[r].attempt
    BY <1>0, <1>3, RowFields DEF RenewDeferredClaim, TypeOK
  <2>2. \A u \in Worker : /\ job'[u].receipt = job[u].receipt
                          /\ job'[u].attempt = job[u].attempt
                          /\ job'[u].input = job[u].input
                          /\ job'[u].pc = job[u].pc \/ job[u].pc = "processing"
    BY <1>3 DEF RenewDeferredClaim, TypeOK, Job
  <2> QED  BY <1>0, <1>3, <2>1, <2>2 DEF RenewDeferredClaim, Quiet
<1>4. ASSUME NEW w \in Worker, ScheduleDeferredRetry(w)  PROVE  Quiet
  <2>1. \A r \in Receipt : /\ deferred'[r].state = deferred[r].state
                           /\ deferred'[r].attempt = deferred[r].attempt
    <3>1. CASE UNCHANGED deferred
      BY <3>1
    <3>2. ASSUME NEW delay \in 0 .. auditRetryDelay(job[w].attempt),
                 deferred' = [deferred EXCEPT ![job[w].receipt] =
                                  retryAfter(@, delay)]
          PROVE  \A r \in Receipt : /\ deferred'[r].state = deferred[r].state
                                    /\ deferred'[r].attempt = deferred[r].attempt
      <4>1. delay \in Nat
        BY DelayType DEF TypeOK, Job
      <4> QED  BY <1>0, <1>4, <3>2, <4>1, RowFields
                 DEF TypeOK, ScheduleDeferredRetry
    <3> QED  BY <1>4, <3>1, <3>2 DEF ScheduleDeferredRetry
  <2>2. \A u \in Worker : job'[u].pc = "idle" \/ job'[u] = job[u]
    BY <1>4 DEF ScheduleDeferredRetry, TypeOK, IdleJob
  <2> QED  BY <1>0, <1>4, <2>1, <2>2 DEF ScheduleDeferredRetry, Quiet
<1>5. ASSUME Tick  PROVE  Quiet
  BY <1>0, <1>5, RowFields DEF Tick, TypeOK, Quiet
<1>6. ASSUME NEW r \in Receipt, NEW jump \in 1 .. MaxJump, ClockBack(r, jump)
      PROVE  Quiet
  <2>1. jump \in Nat /\ deferred[r] \in DeferredRow
    BY ClaimsAssumption DEF TypeOK
  <2>2. \A q \in Receipt : /\ deferred'[q].state = deferred[q].state
                           /\ deferred'[q].attempt = deferred[q].attempt
    <3>1. PICK lease \in Nat, wait \in Nat :
             deferred' = [deferred EXCEPT ![r] = setBack(@, lease, wait)]
      BY <1>6, <2>1 DEF ClockBack
    <3>2. LET row == setBack(deferred[r], lease, wait)
          IN  row.state = deferred[r].state /\ row.attempt = deferred[r].attempt
      BY <2>1, RowFields
    <3> QED  BY <3>1, <3>2 DEF TypeOK
  <2>3. UNCHANGED <<event, input, evaluations, audited, hook, job>>
    BY <1>6 DEF ClockBack
  <2> QED  BY <1>0, <2>2, <2>3 DEF Quiet
<1> QED  BY <1>1, <1>2, <1>3, <1>4, <1>5, <1>6

\* A new receipt: its event's input is whole again, nothing else changes.
LEMMA AppendStep ==
    ASSUME Inv, TypeOK', NEW r \in Receipt, NEW e \in Event,
           NEW policy \in Policies, Append(r, e, policy)
    PROVE  Inv'
<1> USE DEF Inv, Append
<1>1. RowsFollowHooks'
  BY ClaimsAssumption DEF RowsFollowHooks, HotEvaluation, TypeOK
<1>2. CompletedOnce'
  BY DEF CompletedOnce, DeferredEvaluationsOf, DeferredEvaluation
<1>3. AttemptsUnique'
  BY DEF AttemptsUnique
<1>4. ReplayInputIntact'
  BY DEF ReplayInputIntact, HotEvaluation, TypeOK
<1>5. AuditMatchesEvaluations'
  <2>1. \A v \in audited : v.mode = "hot" => v.receipt # r
    BY DEF AuditMatchesEvaluations
  <2> QED  BY <2>1 DEF AuditMatchesEvaluations, TypeOK, Evaluation
<1> QED  BY <1>1, <1>2, <1>3, <1>4, <1>5

\* Clearing keeps the input of an event that some receipt still needs.
LEMMA ClearKeeps ==
    ASSUME TypeOK, NEW e \in Event, NEW evals, NEW rows,
           NEW r \in Receipt, event[r] \in Event,
           \/ \A v \in evals : ~(v.receipt = r /\ v.mode = "hot")
           \/ rows[r].state = "pending"
    PROVE  clearTerminalInput(e, evals, rows)[event[r]] = input[event[r]]
BY DEF TypeOK, clearTerminalInput, Terminal, ReceiptsOf

\* The commit of the hot evaluation writes the first row of the receipt.
LEMMA CommitHotStep ==
    ASSUME Inv, TypeOK', NEW r \in Receipt, NEW deferredPending \in BOOLEAN,
           NEW written \in BOOLEAN,
           CommitHotEvaluation(r, deferredPending, written)
    PROVE  Inv'
<1> USE DEF Inv
<1>0. /\ hook[r] = "evaluating" /\ event[r] \in Event
      /\ deferred[r].state = "none"
      /\ HotEvaluation(r) \notin evaluations
      /\ evaluations' = evaluations \cup {HotEvaluation(r)}
      /\ hook' = [hook EXCEPT ![r] = "answered"]
      /\ UNCHANGED <<event, mask, job, claimOwner>>
  BY DEF CommitHotEvaluation, RowsFollowHooks, TypeOK
<1>1. /\ \A q \in Receipt \ {r} : deferred'[q] = deferred[q]
      /\ deferred'[r].state \in {"none", "pending"}
      /\ deferred'[r].attempt = deferred[r].attempt
  BY <1>0, RowFields DEF CommitHotEvaluation, TypeOK
<1>2. HotEvaluation(r).receipt = r /\ HotEvaluation(r).mode = "hot"
  BY DEF HotEvaluation
<1>3. RowsFollowHooks'
  <2>1. \A q \in Receipt : HotEvaluation(q) \in evaluations' =>
            q = r \/ HotEvaluation(q) \in evaluations
    BY <1>0 DEF HotEvaluation
  <2>2. \A w \in Worker : job[w].pc # "idle" => job[w].receipt # r
    BY <1>0 DEF RowsFollowHooks
  <2>3. ASSUME NEW q \in Receipt
        PROVE  /\ event'[q] = None <=> hook'[q] = "absent"
               /\ HotEvaluation(q) \in evaluations' =>
                     hook'[q] \in {"answered", "discarded"}
               /\ deferred'[q].state # "none" =>
                     hook'[q] = "answered" /\ HotEvaluation(q) \in evaluations'
    <3>1. CASE q = r
      BY <3>1, <1>0, ClaimsAssumption DEF TypeOK
    <3>2. CASE q # r
      BY <3>2, <1>0, <1>1, <2>1 DEF RowsFollowHooks, TypeOK
    <3> QED  BY <3>1, <3>2
  <2>4. \A v \in evaluations' : v.mode = "hot" => v = HotEvaluation(v.receipt)
    BY <1>0, <1>2 DEF RowsFollowHooks
  <2>5. \A w \in Worker :
          job'[w].pc # "idle" => /\ job'[w].receipt \in Receipt
                                 /\ deferred'[job'[w].receipt].state # "none"
    BY <1>0, <1>1, <2>2 DEF RowsFollowHooks
  <2> QED  BY <2>3, <2>4, <2>5 DEF RowsFollowHooks, HotEvaluation
<1>4. CompletedOnce'
  <2>1. \A q \in Receipt : DeferredEvaluationsOf(q)' = DeferredEvaluationsOf(q)
    BY <1>0, <1>2 DEF DeferredEvaluationsOf
  <2>2. \A q \in Receipt : /\ deferred'[q].attempt = deferred[q].attempt
                           /\ deferred'[q].state = "complete" <=>
                              deferred[q].state = "complete"
    BY <1>0, <1>1
  <2> QED  BY <2>1, <2>2 DEF CompletedOnce, DeferredEvaluation
<1>5. AttemptsUnique'
  BY <1>0, <1>1 DEF AttemptsUnique, RowsFollowHooks
<1>6. ReplayInputIntact'
  <2>1. ASSUME NEW q \in Receipt, event[q] # None,
               HotEvaluation(q) \notin evaluations' \/ deferred'[q].state = "pending"
        PROVE  input'[event[q]] = Class
    <3>1. input[event[q]] = Class
      BY <2>1, <1>0, <1>1 DEF ReplayInputIntact
    <3>2. \A v \in evaluations' : v.mode = "hot" => v = HotEvaluation(v.receipt)
      BY <1>3 DEF RowsFollowHooks, HotEvaluation
    <3>3. /\ event[q] \in Event
          /\ \/ \A v \in evaluations' : ~(v.receipt = q /\ v.mode = "hot")
             \/ deferred'[q].state = "pending"
      BY <2>1, <3>2 DEF TypeOK
    <3>4. input' = clearTerminalInput(event[r], evaluations', deferred')
      BY DEF CommitHotEvaluation
    <3> QED  BY <1>0, <3>1, <3>3, <3>4, ClearKeeps
  <2> QED  BY <1>0, <2>1 DEF ReplayInputIntact, HotEvaluation
<1>7. AuditMatchesEvaluations'
  <2>1. \A v \in audited : v.mode = "hot" => v.receipt # r
    BY <1>0 DEF AuditMatchesEvaluations
  <2>2. \A v \in audited : v.mode = "hot" =>
            hook'[v.receipt] = "answered" /\ deferred'[v.receipt].state # "none"
    BY <1>0, <1>1, <2>1 DEF AuditMatchesEvaluations, TypeOK, Evaluation
  <2>3. hook'[r] = "answered"
    BY <1>0 DEF TypeOK
  <2>4. \/ audited' = audited
        \/ /\ audited' = audited \cup {HotEvaluation(r)}
           /\ deferredPending
    BY DEF CommitHotEvaluation
  <2>5. deferredPending => deferred'[r].state = "pending"
    BY <1>0, RowFields DEF CommitHotEvaluation, TypeOK
  <2> QED  BY <1>0, <1>2, <2>2, <2>3, <2>4, <2>5 DEF AuditMatchesEvaluations
<1> QED  BY <1>3, <1>4, <1>5, <1>6, <1>7

\* The hot commit failed, and the fallback record is stored or fails as well.
LEMMA DiscardStep ==
    ASSUME Inv, TypeOK', NEW r \in Receipt, NEW recorded \in BOOLEAN,
           DiscardVerdict(r, recorded)
    PROVE  Inv'
<1> USE DEF Inv
<1>0. /\ hook[r] = "evaluating"
      /\ deferred[r].state = "none"
      /\ evaluations' \in {evaluations, evaluations \cup {HotEvaluation(r)}}
      /\ hook' = [hook EXCEPT ![r] = "discarded"]
      /\ UNCHANGED <<event, input, mask, deferred, audited, job, claimOwner>>
  BY DEF DiscardVerdict, RowsFollowHooks
<1>1. /\ HotEvaluation(r).receipt = r /\ HotEvaluation(r).mode = "hot"
      /\ \A q \in Receipt : HotEvaluation(q) \in evaluations' =>
            q = r \/ HotEvaluation(q) \in evaluations
  BY <1>0 DEF HotEvaluation
<1>2. RowsFollowHooks'
  <2>1. \A v \in evaluations' : v.mode = "hot" => v = HotEvaluation(v.receipt)
    BY <1>0, <1>1 DEF RowsFollowHooks
  <2>2. ASSUME NEW q \in Receipt
        PROVE  /\ event'[q] = None <=> hook'[q] = "absent"
               /\ HotEvaluation(q) \in evaluations' =>
                     hook'[q] \in {"answered", "discarded"}
               /\ deferred'[q].state # "none" =>
                     hook'[q] = "answered" /\ HotEvaluation(q) \in evaluations'
    BY <1>0, <1>1 DEF RowsFollowHooks, TypeOK
  <2> QED  BY <1>0, <2>1, <2>2 DEF RowsFollowHooks, HotEvaluation
<1>3. CompletedOnce'
  <2>1. \A q \in Receipt : DeferredEvaluationsOf(q)' = DeferredEvaluationsOf(q)
    BY <1>0, <1>1 DEF DeferredEvaluationsOf
  <2> QED  BY <1>0, <2>1 DEF CompletedOnce, DeferredEvaluation
<1>4. AttemptsUnique'
  BY <1>0 DEF AttemptsUnique
<1>5. ReplayInputIntact'
  <2>1. \A q \in Receipt : HotEvaluation(q) \notin evaluations' =>
            HotEvaluation(q) \notin evaluations
    BY <1>0
  <2> QED  BY <1>0, <2>1 DEF ReplayInputIntact, HotEvaluation
<1>6. AuditMatchesEvaluations'
  <2>1. \A v \in audited : v.mode = "hot" => v.receipt # r
    BY <1>0 DEF AuditMatchesEvaluations
  <2> QED  BY <1>0, <2>1 DEF AuditMatchesEvaluations, TypeOK, Evaluation
<1> QED  BY <1>2, <1>3, <1>4, <1>5, <1>6

\* The claim takes an attempt number no job on the receipt has.
LEMMA ClaimStep ==
    ASSUME Inv, TypeOK', NEW w \in Worker, NEW r \in Receipt,
           ClaimDeferred(w, r)
    PROVE  Inv'
<1> USE DEF Inv
<1>0. /\ deferred[r].state = "pending"
      /\ job[w].pc = "idle"
      /\ UNCHANGED <<event, input, mask, evaluations, audited, hook, claimOwner>>
  BY DEF ClaimDeferred, Claimable
<1>1. /\ \A q \in Receipt : deferred'[q].state = deferred[q].state
      /\ \A q \in Receipt \ {r} : deferred'[q] = deferred[q]
      /\ deferred'[r].attempt = deferred[r].attempt + 1
  BY RowFields DEF ClaimDeferred, TypeOK
<1>2. /\ job'[w].pc = "claimed"
      /\ job'[w].receipt = r
      /\ job'[w].attempt = deferred[r].attempt + 1
      /\ \A u \in Worker \ {w} : job'[u] = job[u]
  BY DEF ClaimDeferred, TypeOK, IdleJob
<1>3. \A q \in Receipt : deferred[q].attempt \in Nat
  BY DEF TypeOK, DeferredRow
<1>4. RowsFollowHooks'
  BY <1>0, <1>1, <1>2 DEF RowsFollowHooks, HotEvaluation
<1>5. CompletedOnce'
  <2>1. \A q \in Receipt : DeferredEvaluationsOf(q)' = DeferredEvaluationsOf(q)
    BY <1>0 DEF DeferredEvaluationsOf
  <2>2. DeferredEvaluationsOf(r) = {}
    BY <1>0 DEF CompletedOnce
  <2> QED  BY <1>0, <1>1, <2>1, <2>2 DEF CompletedOnce, DeferredEvaluation
<1>6. AttemptsUnique'
  <2>1. \A u \in Worker : job'[u].pc # "idle" =>
            job'[u].attempt \in 1 .. deferred'[job'[u].receipt].attempt
    BY <1>1, <1>2, <1>3 DEF AttemptsUnique, RowsFollowHooks
  <2>2. \A u \in Worker \ {w} : job[u].pc # "idle" /\ job[u].receipt = r =>
            job[u].attempt # deferred[r].attempt + 1
    BY <1>3 DEF AttemptsUnique
  <2> QED  BY <1>1, <1>2, <2>1, <2>2 DEF AttemptsUnique
<1>7. ReplayInputIntact'
  BY <1>0, <1>1, <1>2 DEF ReplayInputIntact, HotEvaluation
<1>8. AuditMatchesEvaluations'
  BY <1>0, <1>1 DEF AuditMatchesEvaluations, TypeOK, Evaluation
<1> QED  BY <1>4, <1>5, <1>6, <1>7, <1>8

\* A crash ends every job and gives up the open hook calls.
LEMMA RestartStep ==
    ASSUME Inv, TypeOK', NEW owner \in Owner, Restart(owner)
    PROVE  Inv'
<1> USE DEF Inv, Restart
<1>0. \A w \in Worker : job'[w].pc = "idle"
  BY DEF IdleJob
<1>1. \A r \in Receipt : \/ hook'[r] = hook[r]
                         \/ hook[r] = "evaluating" /\ hook'[r] = "lost"
  OBVIOUS
<1>2. RowsFollowHooks'
  BY <1>0, <1>1 DEF RowsFollowHooks, HotEvaluation
<1>3. CompletedOnce'
  BY DEF CompletedOnce, DeferredEvaluationsOf, DeferredEvaluation
<1>4. AttemptsUnique' /\ ReplayInputIntact'
  BY <1>0 DEF AttemptsUnique, ReplayInputIntact, HotEvaluation
<1>5. AuditMatchesEvaluations'
  BY <1>1 DEF AuditMatchesEvaluations, TypeOK, Evaluation
<1> QED  BY <1>2, <1>3, <1>4, <1>5

\* The fence: a job that owns the row holds the newest attempt of a pending
\* receipt, so its evaluation is the first one stored.
LEMMA CommitDeferredStep ==
    ASSUME Inv, TypeOK', NEW w \in Worker, NEW written \in BOOLEAN,
           CommitDeferredEvaluation(w, written)
    PROVE  Inv'
<1> USE DEF Inv
<1>a. PICK r \in Receipt, a \in Nat : r = job[w].receipt /\ a = job[w].attempt
  BY DEF CommitDeferredEvaluation, RowsFollowHooks, TypeOK, Job
<1> DEFINE done == DeferredEvaluation(r, a)
<1>0. /\ job[w].pc # "idle"
      /\ UNCHANGED <<event, mask, hook, claimOwner>>
      /\ job'[w].pc = "idle"
      /\ \A u \in Worker \ {w} : job'[u] = job[u]
  BY DEF CommitDeferredEvaluation, RowsFollowHooks, TypeOK, IdleJob
<1>1. CASE ~OwnsClaim(w)
  <2>1. UNCHANGED <<deferred, evaluations, audited, input>>
    BY <1>1 DEF CommitDeferredEvaluation
  <2>2. \A u \in Worker :
          job[u].pc # "idle" => job[u].pc = "claimed" \/ job[u].input = Class
    BY DEF ReplayInputIntact, TypeOK, Job
  <2>3. Quiet
    BY <1>0, <2>1, <2>2 DEF Quiet
  <2> QED  BY <2>3, QuietStep
<1>2. CASE OwnsClaim(w)
  <2>0. /\ deferred[r].state = "pending"
        /\ deferred[r].attempt = a
        /\ evaluations' = evaluations \cup {done}
        /\ audited' \in {audited, audited \cup {done}}
        /\ deferred' = [deferred EXCEPT ![r] = complete(@)]
        /\ input' = clearTerminalInput(event[r], evaluations', deferred')
    BY <1>a, <1>2 DEF CommitDeferredEvaluation, OwnsClaim
  <2>1. /\ \A q \in Receipt \ {r} : deferred'[q] = deferred[q]
        /\ deferred'[r].state = "complete"
        /\ deferred'[r].attempt = a
    BY <1>0, <2>0, RowFields DEF TypeOK
  <2>2. done.receipt = r /\ done.mode # "hot"
    BY DEF DeferredEvaluation
  <2>3. /\ hook[r] = "answered" /\ event[r] \in Event
        /\ \A q \in Receipt : HotEvaluation(q) \in evaluations' <=>
                              HotEvaluation(q) \in evaluations
    <3>1. hook[r] = "answered" /\ event[r] # None
      BY <2>0 DEF RowsFollowHooks
    <3>2. \A q \in Receipt : HotEvaluation(q) # done
      BY <2>2 DEF HotEvaluation
    <3> QED  BY <2>0, <3>1, <3>2 DEF TypeOK
  <2>4. RowsFollowHooks'
    <3>1. \A q \in Receipt :
            /\ event'[q] = None <=> hook'[q] = "absent"
            /\ HotEvaluation(q) \in evaluations' =>
                  hook'[q] \in {"answered", "discarded"}
            /\ deferred'[q].state # "none" =>
                  hook'[q] = "answered" /\ HotEvaluation(q) \in evaluations'
      BY <1>0, <2>0, <2>1, <2>3 DEF RowsFollowHooks
    <3>2. \A v \in evaluations' : v.mode = "hot" => v = HotEvaluation(v.receipt)
      BY <2>0, <2>2 DEF RowsFollowHooks
    <3>3. \A u \in Worker :
            job'[u].pc # "idle" => /\ job'[u].receipt \in Receipt
                                   /\ deferred'[job'[u].receipt].state # "none"
      BY <1>0, <2>1 DEF RowsFollowHooks
    <3> QED  BY <3>1, <3>2, <3>3 DEF RowsFollowHooks, HotEvaluation
  <2>5. CompletedOnce'
    <3>1. DeferredEvaluationsOf(r)' = {done}
      BY <1>0, <2>0, <2>2 DEF CompletedOnce, DeferredEvaluationsOf
    <3>2. \A q \in Receipt \ {r} :
            DeferredEvaluationsOf(q)' = DeferredEvaluationsOf(q)
      BY <2>0, <2>2 DEF DeferredEvaluationsOf
    <3>3. ASSUME NEW q \in Receipt
          PROVE  /\ deferred'[q].state = "complete" <=>
                       DeferredEvaluationsOf(q)' # {}
                 /\ \A v \in DeferredEvaluationsOf(q)' :
                       v = DeferredEvaluation(q, deferred'[q].attempt)
      BY <2>1, <3>1, <3>2 DEF CompletedOnce
    <3> QED  BY <3>3 DEF CompletedOnce, DeferredEvaluation
  <2>6. AttemptsUnique'
    BY <1>0, <2>0, <2>1 DEF AttemptsUnique, RowsFollowHooks
  <2>7. ReplayInputIntact'
    <3>1. ASSUME NEW q \in Receipt, event[q] # None,
                 \/ HotEvaluation(q) \notin evaluations'
                 \/ deferred'[q].state = "pending"
          PROVE  input'[event[q]] = Class
      <4>1. input[event[q]] = Class
        BY <2>0, <2>1, <2>3, <3>1 DEF ReplayInputIntact
      <4>2. \A v \in evaluations' : v.mode = "hot" => v = HotEvaluation(v.receipt)
        BY <2>0, <2>2 DEF RowsFollowHooks
      <4>3. /\ event[q] \in Event
            /\ \/ \A v \in evaluations' : ~(v.receipt = q /\ v.mode = "hot")
               \/ deferred'[q].state = "pending"
        BY <3>1, <4>2 DEF TypeOK
      <4>4. /\ event[r] \in Event
            /\ input' = clearTerminalInput(event[r], evaluations', deferred')
        BY <2>0, <2>3
      <4> QED  BY <4>1, <4>3, <4>4, ClearKeeps
    <3> QED  BY <1>0, <3>1 DEF ReplayInputIntact, HotEvaluation
  <2>8. AuditMatchesEvaluations'
    <3>1. \A v \in audited : v.mode = "hot" =>
              hook'[v.receipt] = "answered" /\ deferred'[v.receipt].state # "none"
      BY <1>0, <2>1 DEF AuditMatchesEvaluations, TypeOK, Evaluation
    <3> QED  BY <2>0, <2>2, <3>1 DEF AuditMatchesEvaluations
  <2> QED  BY <2>4, <2>5, <2>6, <2>7, <2>8
<1> QED  BY <1>1, <1>2

-----------------------------------------------------------------------------
(* Theorems.                                                               *)

\* The tables are empty and nobody works.
LEMMA InvInit == Init => Inv
<1> SUFFICES ASSUME Init PROVE Inv
  OBVIOUS
<1> USE ClaimsAssumption DEF Init, NoRow, IdleJob
<1>1. TypeOK
  BY RecordTypes DEF TypeOK, HookState, NoRow, IdleJob
<1>2. RowsFollowHooks /\ CompletedOnce /\ AttemptsUnique
  BY DEF RowsFollowHooks, CompletedOnce, AttemptsUnique, DeferredEvaluationsOf
<1>3. ReplayInputIntact /\ AuditMatchesEvaluations
  BY DEF ReplayInputIntact, AuditMatchesEvaluations
<1> QED  BY <1>1, <1>2, <1>3 DEF Inv

\* Every step keeps the invariant.
LEMMA InvStep == Inv /\ [Next]_vars => Inv'
<1> SUFFICES ASSUME Inv, [Next]_vars PROVE Inv'
  OBVIOUS
<1>0. TypeOK'
  BY TypeStep DEF Inv
<1>1. ASSUME NEW r \in Receipt, HookNext(r)  PROVE  Inv'
  BY <1>0, <1>1, AppendStep, CommitHotStep, DiscardStep DEF HookNext
<1>2. ASSUME NEW w \in Worker, WorkerStep(w) \/ WorkerFails(w)  PROVE  Inv'
  BY <1>0, <1>2, ClaimStep, CommitDeferredStep, WorkerQuiet, QuietStep
     DEF WorkerStep
<1>3. CASE Tick
  BY <1>0, <1>3, WorkerQuiet, QuietStep
<1>4. CASE Disturbance
  BY <1>0, <1>4, RestartStep, WorkerQuiet, QuietStep DEF Disturbance
<1>5. CASE UNCHANGED vars
  <2>1. Quiet
    BY <1>5 DEF Quiet, Inv, ReplayInputIntact, TypeOK, Job
  <2> QED  BY <1>0, <2>1, QuietStep
<1> QED  BY <1>1, <1>2, <1>3, <1>4, <1>5 DEF Next

\* The inductive invariant holds in every reachable state.
THEOREM Invariance == Spec => []Inv
<1> QED  BY InvInit, InvStep, PTL DEF Spec

\* Tables and daemon memory stay typed, rows follow the hook calls and jobs on
\* one receipt keep apart (the store's columns and the workers' jobs), for any
\* number of receipts, events and workers.
THEOREM TypeCorrect == Spec => []ClaimsInOrder
<1>1. Inv => ClaimsInOrder
  BY DEF Inv, ClaimsInOrder
<1> QED  BY <1>1, Invariance, PTL

\* Deferred work is completed at most once and only by its newest attempt,
\* however many daemons, workers and expired leases are involved.
THEOREM ExactlyOnce == Spec => [](CompletedOnce /\ AttemptsUnique)
<1>1. Inv => CompletedOnce /\ AttemptsUnique
  BY DEF Inv
<1> QED  BY <1>1, Invariance, PTL

\* No commit clears input that a receipt of the same event still needs.
THEOREM InputSafe == Spec => []ReplayInputIntact
<1>1. Inv => ReplayInputIntact
  BY DEF Inv
<1> QED  BY <1>1, Invariance, PTL

\* Audit entries never come without their evaluation, and those of a hook call
\* only with its returned verdict and its recorded deferred work
\* (evaluation_commit.go, hot_evaluation.go).
THEOREM AuditSafe == Spec => []AuditMatchesEvaluations
<1>1. Inv => AuditMatchesEvaluations
  BY DEF Inv
<1> QED  BY <1>1, Invariance, PTL

-----------------------------------------------------------------------------
(* The store implements the ledger of deferred work.                       *)

\* Only a claim raises an attempt number, and none beyond the bound.
AttemptsBounded == \A r \in Receipt : deferred[r].attempt <= MaxAttempts

\* A claim counts one attempt, and not beyond the bound.
LEMMA AttemptsBoundedStep ==
    ASSUME Inv, AttemptsBounded, [Next]_vars
    PROVE  AttemptsBounded'
<1> USE DEF Inv
<1>0. \A r \in Receipt : deferred[r] \in DeferredRow /\ deferred[r].attempt \in Nat
  BY DEF TypeOK, DeferredRow
<1>1. ASSUME NEW r \in Receipt, HookNext(r)  PROVE  AttemptsBounded'
  <2>1. \A q \in Receipt : deferred'[q].attempt = deferred[q].attempt
    BY <1>0, <1>1, RowFields
       DEF HookNext, Append, CommitHotEvaluation, DiscardVerdict, TypeOK
  <2> QED  BY <2>1 DEF AttemptsBounded
<1>2. ASSUME NEW w \in Worker, NEW r \in Receipt, ClaimDeferred(w, r)
      PROVE  AttemptsBounded'
  <2>1. /\ deferred[r].attempt < MaxAttempts /\ claimOwner \in Owner
        /\ deferred' = [deferred EXCEPT ![r] = claim(deferred[r], claimOwner)]
    BY <1>2 DEF ClaimDeferred, TypeOK
  <2>2. claim(deferred[r], claimOwner).attempt = deferred[r].attempt + 1
    BY <1>0, <2>1, RowFields
  <2>3. deferred'[r].attempt <= MaxAttempts
    BY <1>0, <2>1, <2>2, ClaimsAssumption DEF TypeOK
  <2> QED  BY <2>1, <2>3 DEF AttemptsBounded, TypeOK
<1>3. ASSUME NEW w \in Worker, NEW written \in BOOLEAN,
             CommitDeferredEvaluation(w, written)
      PROVE  AttemptsBounded'
  <2>0. PICK r \in Receipt : r = job[w].receipt
    BY <1>3 DEF CommitDeferredEvaluation, RowsFollowHooks
  <2>1. \/ deferred' = deferred
        \/ deferred' = [deferred EXCEPT ![r] = complete(deferred[r])]
    BY <1>3, <2>0 DEF CommitDeferredEvaluation
  <2>2. complete(deferred[r]).attempt = deferred[r].attempt
    BY <1>0, RowFields
  <2>3. \A q \in Receipt : deferred'[q].attempt = deferred[q].attempt
    BY <2>1, <2>2 DEF TypeOK
  <2> QED  BY <2>3 DEF AttemptsBounded
<1>4. CASE Quiet
  BY <1>4 DEF Quiet, AttemptsBounded
<1>5. ASSUME NEW owner \in Owner, Restart(owner)  PROVE  AttemptsBounded'
  BY <1>5 DEF Restart, AttemptsBounded
<1>6. CASE UNCHANGED vars
  BY <1>6 DEF AttemptsBounded
<1> QED
  BY <1>1, <1>2, <1>3, <1>4, <1>5, <1>6, WorkerQuiet DEF Next, WorkerStep, Disturbance

\* What the ledger sees of a receipt: the state of its row, how its hook call
\* ended, and its deferred evaluations.  A step that keeps these is a stutter.
Seen(r) == /\ deferred'[r].state = deferred[r].state
           /\ \A h \in {"absent", "answered", "discarded"} : hook'[r] = h <=> hook[r] = h
           /\ DeferredEvaluationsOf(r)' = DeferredEvaluationsOf(r)

\* Receipts whose rows and evaluations stay look the same to the ledger.
LEMMA SeenKept ==
    ASSUME NEW S \in SUBSET Receipt, \A r \in S : Seen(r)
    PROVE  \A r \in S : statusBar'[r] = statusBar[r] /\ outcomeBar'[r] = outcomeBar[r]
BY DEF Seen, statusBar, outcomeBar

\* Every step of the store is a step of the ledger, or one it does not see.
LEMMA LedgerStep ==
    ASSUME Inv, AttemptsBounded, [Next]_vars
    PROVE  [Ledger!LedgerNext]_(Ledger!ledger)
<1> USE DEF Inv
<1>a. /\ statusBar = [r \in Receipt |-> statusBar[r]]
      /\ statusBar' = [r \in Receipt |-> statusBar'[r]]
      /\ outcomeBar = [r \in Receipt |-> outcomeBar[r]]
      /\ outcomeBar' = [r \in Receipt |-> outcomeBar'[r]]
  BY DEF statusBar, outcomeBar
<1>0. ASSUME \A r \in Receipt : Seen(r)
      PROVE  UNCHANGED Ledger!ledger
  BY <1>a, <1>0, SeenKept DEF Ledger!ledger
<1>b. ASSUME NEW r \in Receipt, \A q \in Receipt \ {r} : Seen(q)
      PROVE  /\ statusBar' = [statusBar EXCEPT ![r] = statusBar'[r]]
             /\ outcomeBar' = [outcomeBar EXCEPT ![r] = outcomeBar'[r]]
  <2>1. \A q \in Receipt \ {r} : statusBar'[q] = statusBar[q] /\ outcomeBar'[q] = outcomeBar[q]
    BY <1>b, SeenKept
  <2>2. statusBar' = [statusBar EXCEPT ![r] = statusBar'[r]]
    BY <1>a, <2>1
  <2>3. outcomeBar' = [outcomeBar EXCEPT ![r] = outcomeBar'[r]]
    BY <1>a, <2>1
  <2> QED BY <2>2, <2>3
<1>1. ASSUME NEW r \in Receipt, NEW e \in Event, NEW policy \in Policies,
             Append(r, e, policy)
      PROVE  Ledger!Receive(r)
  <2>1. deferred[r].state = "none" /\ hook[r] = "absent" /\ hook'[r] = "evaluating"
    BY <1>1 DEF Append, RowsFollowHooks, TypeOK
  <2>2. \A q \in Receipt \ {r} : Seen(q)
    BY <1>1 DEF Append, TypeOK, Seen, DeferredEvaluationsOf
  <2>3. statusBar[r] = "absent" /\ statusBar'[r] = "received"
    BY <1>1, <2>1 DEF Append, statusBar
  <2>4. outcomeBar'[r] = outcomeBar[r]
    BY <1>1 DEF Append, outcomeBar, DeferredEvaluationsOf
  <2> QED  BY <1>a, <1>b, <2>2, <2>3, <2>4 DEF Ledger!Receive
<1>2. ASSUME NEW r \in Receipt, NEW deferredPending \in BOOLEAN,
             NEW written \in BOOLEAN,
             CommitHotEvaluation(r, deferredPending, written)
      PROVE  Ledger!Settle(r) \/ Ledger!Defer(r)
  <2>1. /\ deferred[r].state = "none" /\ hook[r] = "evaluating"
        /\ hook' = [hook EXCEPT ![r] = "answered"]
        /\ evaluations' = evaluations \cup {HotEvaluation(r)}
    BY <1>2 DEF CommitHotEvaluation, RowsFollowHooks, TypeOK
  <2>2. \A q \in Receipt : DeferredEvaluationsOf(q)' = DeferredEvaluationsOf(q)
    BY <2>1 DEF DeferredEvaluationsOf, HotEvaluation
  <2>3. /\ \A q \in Receipt \ {r} : deferred'[q] = deferred[q]
        /\ deferred'[r].state \in {"none", "pending"}
    BY <1>2, <2>1, RowFields DEF CommitHotEvaluation, TypeOK
  <2>4. \A q \in Receipt \ {r} : Seen(q)
    BY <2>1, <2>2, <2>3 DEF Seen, TypeOK
  <2>5. /\ statusBar[r] = "received"
        /\ statusBar'[r] \in {"settled", "pending"}
    BY <2>1, <2>3 DEF statusBar, TypeOK
  <2>6. outcomeBar'[r] = outcomeBar[r]
    BY <2>2 DEF outcomeBar
  <2> QED  BY <1>a, <1>b, <2>4, <2>5, <2>6 DEF Ledger!Settle, Ledger!Defer
<1>3. ASSUME NEW r \in Receipt, NEW recorded \in BOOLEAN, DiscardVerdict(r, recorded)
      PROVE  Ledger!Settle(r)
  <2>1. /\ deferred[r].state = "none" /\ hook[r] = "evaluating"
        /\ hook' = [hook EXCEPT ![r] = "discarded"] /\ deferred' = deferred
        /\ evaluations' \in {evaluations, evaluations \cup {HotEvaluation(r)}}
    BY <1>3 DEF DiscardVerdict, RowsFollowHooks, TypeOK
  <2>2. \A q \in Receipt : DeferredEvaluationsOf(q)' = DeferredEvaluationsOf(q)
    BY <2>1 DEF DeferredEvaluationsOf, HotEvaluation
  <2>3. \A q \in Receipt \ {r} : Seen(q)
    BY <2>1, <2>2 DEF Seen, TypeOK
  <2>4. statusBar[r] = "received" /\ statusBar'[r] = "settled"
    BY <2>1 DEF statusBar, TypeOK
  <2>5. outcomeBar'[r] = outcomeBar[r]
    BY <2>2 DEF outcomeBar
  <2> QED  BY <1>a, <1>b, <2>3, <2>4, <2>5 DEF Ledger!Settle
<1>4. ASSUME NEW w \in Worker, NEW r \in Receipt, ClaimDeferred(w, r)
      PROVE  UNCHANGED Ledger!ledger
  <2>1. \A q \in Receipt : deferred'[q].state = deferred[q].state
    BY <1>4, RowFields DEF ClaimDeferred, TypeOK
  <2> QED  BY <1>0, <1>4, <2>1 DEF Seen, ClaimDeferred, DeferredEvaluationsOf
<1>5. ASSUME NEW w \in Worker, NEW written \in BOOLEAN,
             CommitDeferredEvaluation(w, written)
      PROVE  [Ledger!LedgerNext]_(Ledger!ledger)
  <2>a. PICK r \in Receipt, a \in Nat : r = job[w].receipt /\ a = job[w].attempt
    BY <1>5 DEF CommitDeferredEvaluation, RowsFollowHooks, TypeOK, Job
  <2>1. CASE ~OwnsClaim(w)
    BY <1>0, <1>5, <2>1 DEF CommitDeferredEvaluation, Seen, DeferredEvaluationsOf
  <2>2. CASE OwnsClaim(w)
    <3>1. /\ deferred[r].state = "pending" /\ deferred[r].attempt = a
          /\ evaluations' = evaluations \cup {DeferredEvaluation(r, a)}
          /\ deferred' = [deferred EXCEPT ![r] = complete(deferred[r])]
          /\ hook' = hook
      BY <1>5, <2>a, <2>2 DEF CommitDeferredEvaluation, OwnsClaim
    <3>2. a \in 1 .. MaxAttempts
      <4>1. job[w].pc # "idle"
        BY <1>5 DEF CommitDeferredEvaluation
      <4>2. 1 <= a
        BY <2>a, <4>1, <3>1 DEF AttemptsUnique, TypeOK, DeferredRow
      <4> QED  BY <2>a, <3>1, <4>2, ClaimsAssumption DEF AttemptsBounded
    <3>3. /\ \A q \in Receipt \ {r} : deferred'[q] = deferred[q]
          /\ deferred'[r].state = "complete"
      BY <3>1, RowFields DEF TypeOK
    <3>4. /\ DeferredEvaluationsOf(r) = {}
          /\ DeferredEvaluationsOf(r)' = {DeferredEvaluation(r, a)}
          /\ \A q \in Receipt \ {r} : DeferredEvaluationsOf(q)' = DeferredEvaluationsOf(q)
      BY <3>1 DEF CompletedOnce, DeferredEvaluationsOf, DeferredEvaluation
    <3>5. \A q \in Receipt \ {r} : Seen(q)
      BY <3>1, <3>3, <3>4 DEF Seen
    <3>6. statusBar[r] = "pending" /\ statusBar'[r] = "complete"
      BY <3>1, <3>3 DEF statusBar
    <3>7. outcomeBar[r] = {} /\ outcomeBar'[r] = {a}
      <4>1. DeferredEvaluation(r, a).attempt = a
        BY DEF DeferredEvaluation
      <4>2. /\ outcomeBar[r] = {v.attempt : v \in DeferredEvaluationsOf(r)}
            /\ outcomeBar'[r] = {v.attempt : v \in DeferredEvaluationsOf(r)'}
        BY DEF outcomeBar
      <4> QED  BY <3>4, <4>1, <4>2
    <3>8. Ledger!Complete(r)
      BY <1>a, <1>b, <3>2, <3>5, <3>6, <3>7 DEF Ledger!Complete
    <3> QED  BY <3>8 DEF Ledger!LedgerNext
  <2> QED  BY <2>1, <2>2
<1>6. ASSUME NEW owner \in Owner, Restart(owner)  PROVE  UNCHANGED Ledger!ledger
  BY <1>0, <1>6 DEF Restart, Seen, DeferredEvaluationsOf
<1>7. CASE Quiet
  BY <1>0, <1>7 DEF Quiet, Seen, DeferredEvaluationsOf
<1>8. CASE UNCHANGED vars
  BY <1>0, <1>8 DEF Seen, DeferredEvaluationsOf
<1>9. ASSUME NEW r \in Receipt, HookNext(r)  PROVE  Ledger!LedgerNext
  BY <1>1, <1>2, <1>3, <1>9 DEF HookNext, Ledger!LedgerNext
<1> QED
  BY <1>4, <1>5, <1>6, <1>7, <1>8, <1>9, WorkerQuiet DEF Next, WorkerStep, Disturbance

\* Claims, leases, crashes and retries implement the ledger: a receipt is
\* received, settled or deferred once, and completed once by one attempt
\* (evaluation_commit.go), for any number of workers and daemons.
THEOREM Refinement == Spec => ImplementsLedger
<1>1. Init => AttemptsBounded /\ Ledger!LedgerInit
  BY ClaimsAssumption DEF Init, AttemptsBounded, NoRow, Ledger!LedgerInit, statusBar,
     outcomeBar, DeferredEvaluationsOf
<1>2. Inv /\ AttemptsBounded /\ [Next]_vars => AttemptsBounded'
  BY AttemptsBoundedStep
<1>3. Inv /\ AttemptsBounded /\ [Next]_vars => [Ledger!LedgerNext]_(Ledger!ledger)
  BY LedgerStep
<1> QED
  BY <1>1, <1>2, <1>3, Invariance, PTL DEF Spec, ImplementsLedger, Ledger!LedgerSpec
=============================================================================
