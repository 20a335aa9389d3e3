-------------------------- MODULE MCDeferredLive --------------------------
(* What the deferred work promises in the end, for the claims in the       *)
(* database and for the queue and its recovery in the daemon.  A behaviour *)
(* is one of a single component (focus) while the other keeps still.       *)
EXTENDS MCDeferredDispatch

CONSTANTS r1, o1, e1, wire, None, ClaimWorkers

VARIABLES focus, event, input, mask, deferred, evaluations, audited,
          claimHook, job, claimOwner

Claims == INSTANCE DeferredClaims
            WITH Receipt <- {r1}, Event <- {e1}, Class <- {wire},
                 Policies <- {{}, {wire}}, Owner <- {o1},
                 Worker <- ClaimWorkers, Lease <- 2, MaxAttempts <- 3,
                 MaxJump <- 1, hook <- claimHook

claimVars == <<event, input, mask, deferred, evaluations, audited,
               claimHook, job, claimOwner>>

LiveInit == focus \in {"claims", "dispatch"} /\ Init /\ Claims!Init

OnClaims == focus = "claims"
OnDispatch == focus = "dispatch"

\* A file is pruned or something fails, not both.
OneTrouble == service.excluded = {} \/ faults = 0

\* Audit entries play no part in what ends: auditing is disabled.
ClaimsMove == OnClaims /\ Claims!Next /\ UNCHANGED <<audited, focus, vars>>
DispatchMoves == OnDispatch /\ Next /\ OneTrouble' /\ UNCHANGED <<focus, claimVars>>

\* The fairness of each component, while it is the one that moves.
ClaimsFair ==
    /\ WF_claimVars(OnClaims /\ Claims!Tick)
    /\ \A w \in ClaimWorkers :
         /\ WF_claimVars(OnClaims /\ Claims!JobEnds(w))
         /\ WF_claimVars(OnClaims /\ Claims!RenewDeferredClaim(w))
    /\ WF_claimVars(OnClaims /\ \E w \in ClaimWorkers : Claims!ClaimDeferred(w, r1))
DispatchFair ==
    /\ \A r \in Receipt : WF_vars(OnDispatch /\ submit(r))
    /\ \A r \in Receipt : WF_vars(OnDispatch /\ \E p \in BOOLEAN : CommitHot(r, p))
    /\ \A w \in Worker : WF_vars(OnDispatch /\ (TakeWork(w) \/ WorkerStep(w)))
    /\ WF_vars(OnDispatch /\ lifecycle # "none" /\ LifecycleStep)
    /\ WF_vars(OnDispatch /\ start) /\ WF_vars(OnDispatch /\ recoveryTick)
    /\ WF_vars(OnDispatch /\ Tick)

LiveSpec == /\ LiveInit
            /\ [][ClaimsMove \/ DispatchMoves]_<<focus, vars, claimVars>>
            /\ ClaimsFair /\ DispatchFair

-----------------------------------------------------------------------------
\* The promise of the claims (DeferredClaims), which stand still while
\* the dispatch moves.

\* No claim keeps a pending receipt from other workers for ever, and a pending
\* receipt is completed once nothing fails and leases are renewed.
ClaimsEnd == Claims!NoClaimStuck /\ Claims!EventuallyCompleted
=============================================================================
