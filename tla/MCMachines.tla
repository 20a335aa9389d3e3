---------------------------- MODULE MCMachines ----------------------------
(* Small instances of the components that run concurrently within one      *)
(* daemon: the server's lifecycle, the audit logger and the validator      *)
(* gates.  They share no state, so a behaviour is one of a single          *)
(* component (focus) while the others keep still.                          *)
EXTENDS ServerLifecycle, AuditLogger, Gates, TLC

CONSTANTS c1, c2, j1, d1, k1, k2, e1, e2, e3

VARIABLE focus

machineVars == <<focus, daemonVars, loggerVars, gateVars>>

Good(s, d) == [kind |-> "good", storage |-> s, detail |-> d]
AllConfigs == {Good(1, 1), Good(1, 2), Good(2, 1),
               [NoConfig EXCEPT !.kind = "undecoded"],
               [NoConfig EXCEPT !.kind = "refused"]}
MovingConfigs == {c \in AllConfigs : c.detail # 2 /\ c.kind # "refused"}
\* The good ones differ only in what a later edit changes.
FirstConfigs == {c \in Configs : c.kind = "good" => c = Good(1, 1)}

AuditEvents == {[id |-> n, bytes |-> n] : n \in 1 .. 3}
SmallEvents == {[id |-> n, bytes |-> n] : n \in 1 .. 2}

Exec(ttl, shut, on, each, targets, retries) ==
    [kind |-> "exec", cached |-> ttl, closed |-> shut, budget |-> ttl, on |-> on,
     each |-> each, targets |-> targets, retries |-> retries, needs |-> FALSE]
Infer(ttl, shut, on) ==
    [Exec(ttl, shut, on, "", 1, 0) EXCEPT !.kind = "infer", !.needs = shut]
Plan(a, b, c) == e1 :> a @@ e2 :> b @@ e3 :> c

AnyTarget == Exec(TRUE, TRUE, "nonzero", "any", 2, 0)
EveryTarget == Exec(FALSE, TRUE, "match", "all", 2, 1)
OneCommand == Exec(TRUE, FALSE, "zero", "", 1, 0)
Judge == Infer(TRUE, FALSE, "match")
Unshared == Infer(FALSE, TRUE, "nonzero")

GatePlans ==
    {Plan(<<OneCommand, Judge>>, <<OneCommand>>, <<>>),
     Plan(<<Judge, Judge>>, <<Judge>>, <<>>),
     Plan(<<AnyTarget, AnyTarget>>, <<AnyTarget>>, <<>>),
     Plan(<<OneCommand, OneCommand>>, <<OneCommand>>, <<>>),
     Plan(<<Judge, Judge>>, <<Judge>>, <<Judge>>),
     Plan(<<Unshared, EveryTarget>>, <<Unshared>>, <<>>)}
LivePlans ==
    {e1 :> <<OneCommand, Judge>> @@ e2 :> <<OneCommand>>,
     e1 :> <<Judge, Judge>> @@ e2 :> <<Judge>>}

Init == /\ focus \in {"server", "logger", "gates"}
        /\ ServerInit /\ LoggerInit /\ GatesInit
        /\ focus # "gates" => plan = CHOOSE p \in Plans : TRUE
        /\ file \in IF focus = "server" THEN FirstConfigs ELSE {Good(1, 1)}

ServerMoves == /\ focus = "server" /\ ServerNext
               /\ UNCHANGED <<focus, loggerVars, gateVars>>
LoggerMoves == /\ focus = "logger" /\ LoggerNext
               /\ UNCHANGED <<focus, daemonVars, gateVars>>
GatesMove == /\ focus = "gates" /\ GatesNext
             /\ UNCHANGED <<focus, daemonVars, loggerVars>>

Next == ServerMoves \/ LoggerMoves \/ GatesMove

On(component) == focus = component

\* The fairness of each component, while it is the one that moves.
ServerFair == /\ \A c \in Calls : WF_daemonVars(On("server") /\ FairCall(c))
              /\ \A j \in Jobs : WF_daemonVars(On("server") /\ releaseDeferredJob(j))
              /\ WF_daemonVars(On("server") /\ fireReload)
              /\ SF_daemonVars(On("server") /\ ReloadStep)
              /\ WF_daemonVars(On("server") /\ (rotate \/ endReconcile))
              /\ WF_daemonVars(On("server") /\ publishRotation)
              /\ WF_daemonVars(On("server") /\ closeRotated)
              /\ WF_daemonVars(On("server") /\ endAudit)
              /\ WF_daemonVars(On("server") /\ Starts)
              /\ WF_daemonVars(On("server") /\ serveReturns)
              /\ SF_daemonVars(On("server") /\ Closes)
LoggerFair == /\ WF_loggerVars(On("logger") /\ WorkerNext)
              /\ \A d \in Durables : WF_loggerVars(On("logger") /\ DurableNext(d))
              /\ \A k \in Closers : WF_loggerVars(On("logger") /\ CloserNext(k))
GatesFair == /\ \A e \in Events : WF_gateVars(On("gates") /\ EventNext(e))
             /\ \A e \in Events, c \in Conditions :
                  WF_gateVars(On("gates") /\ FlightNext(e, c))

Safety == Init /\ [][Next]_machineVars
Spec == Safety /\ ServerFair /\ LoggerFair /\ GatesFair

\* Whatever is under way, Close of the server and of the logger return.
ShutdownEnds == CloseReturns /\ CloserReturns
===========================================================================
