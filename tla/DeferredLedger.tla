--------------------------- MODULE DeferredLedger ---------------------------
(***************************************************************************)
(* What the durable intake promises of a receipt, without leases, workers  *)
(* or input: it is received, its hot verdict is stored or given up, and    *)
(* deferred work that the verdict asked for is completed by exactly one    *)
(* attempt.                                                                *)
(***************************************************************************)


CONSTANTS Receipt, Attempt

VARIABLES
    status,   \* where a receipt stands
    outcome   \* the attempts whose deferred evaluation is stored

ledger == <<status, outcome>>

Status == {"absent", "received", "settled", "pending", "complete"}

LedgerInit ==
    /\ status = [r \in Receipt |-> "absent"]
    /\ outcome = [r \in Receipt |-> {}]

Receive(r) ==
    /\ status[r] = "absent"
    /\ status' = [status EXCEPT ![r] = "received"]
    /\ UNCHANGED outcome

\* The hot verdict asks for no deferred work, or was discarded.
Settle(r) ==
    /\ status[r] = "received"
    /\ status' = [status EXCEPT ![r] = "settled"]
    /\ UNCHANGED outcome

Defer(r) ==
    /\ status[r] = "received"
    /\ status' = [status EXCEPT ![r] = "pending"]
    /\ UNCHANGED outcome

Complete(r) ==
    /\ status[r] = "pending"
    /\ outcome[r] = {}
    /\ status' = [status EXCEPT ![r] = "complete"]
    /\ \E attempt \in Attempt : outcome' = [outcome EXCEPT ![r] = {attempt}]

LedgerNext ==
    \E r \in Receipt : Receive(r) \/ Settle(r) \/ Defer(r) \/ Complete(r)

LedgerSpec == LedgerInit /\ [][LedgerNext]_ledger
=============================================================================
