-------------------------- MODULE MCDispatchFocus --------------------------
(* Two questions with bounds of their own (focus): one worker while the file *)
(* is rotated and the service pauses and starts again; and two workers while *)
(* the wall clock is set back.  One hook call at a time.  Receipts are       *)
(* numbered as they are appended, workers as they take work.                 *)
EXTENDS MCDeferredDispatch

VARIABLE focus

Calling == {r \in Receipt : hook[r] \in {"evaluating", "committed"}}

\* Any two of a pause, a rotation and a fault.
TwoEvents == ~(service.epoch > 0 /\ (current > 1 \/ service.transition) /\ faults > 0)

Within ==
    /\ hook[1] = "absent" => hook[2] = "absent"
    /\ Cardinality(Calling) <= 1
    /\ IF focus = "rotation" THEN worker[w2] = IdleWorker /\ recovery.behind = 0 /\ TwoEvents
       ELSE ~service.transition /\ service.epoch = 0 /\ service.excluded = {}

\* Idle workers are alike: the second one takes work while the first is busy.
InTurn == worker[w2] = IdleWorker /\ worker'[w2] # IdleWorker => worker[w1] # IdleWorker

MCInit == Init /\ focus \in {"rotation", "workers"}

MCNext == Next /\ InTurn /\ focus' = focus /\ Within'

MCSpec == MCInit /\ [][MCNext]_<<vars, focus>>
=============================================================================
