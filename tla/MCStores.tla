------------------------------ MODULE MCStores ------------------------------
(* The durable claims and the hot state of the daemon.  They share nothing,  *)
(* so a behaviour is one of a single store (focus) while the other keeps     *)
(* still.                                                                    *)
EXTENDS MCDeferredClaims, MCTemporalContext

VARIABLE focus

StoresInit ==
    /\ focus \in {"claims"} \cup DOMAIN HotBounds
    /\ options \in IF focus = "claims" THEN {HotLimit(1, 1, 2, 0)} ELSE HotBounds[focus]
    /\ Init /\ ContextInit

\* Hook calls of one of the two events leave audit entries, and deferred work
\* always does.
Entries == \A v \in evaluations' \ evaluations :
               deferred'[v.receipt].state # "none" =>
                   (v \in audited' <=> v.mode # "hot" \/ event[v.receipt] = e1)

ClaimsMove == focus = "claims" /\ Next /\ Entries /\ UNCHANGED hotVars

\* The cache alone, the goroutine that prunes it, and the hook calls.
HotMoves == /\ \/ focus = "cache" /\ CacheNext /\ UNCHANGED contextVars
               \/ /\ focus = "loop" /\ PlainNext /\ UNCHANGED contextVars
                  /\ entries'[k2] = NoEntry
               \/ focus = "context" /\ ContextNext
            /\ options' \in HotBounds[focus]
            /\ UNCHANGED vars

StoresNext == (ClaimsMove \/ HotMoves) /\ UNCHANGED focus

StoresSpec == StoresInit /\ [][StoresNext]_<<focus, vars, hotVars>>
=============================================================================
