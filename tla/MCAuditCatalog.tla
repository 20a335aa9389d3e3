--------------------------- MODULE MCAuditCatalog ---------------------------
(* Instances of AuditCatalog for TLC: two families with faults (focus        *)
(* "families"), and one file more without faults, so that old files in use   *)
(* can fill a batch (focus "batch").  The families are interchangeable.      *)
EXTENDS AuditCatalog

CONSTANTS a, b, r

VARIABLE focus

Families == Permutations(Bases)

\* A daemon that died after its third segment, and a query that began with the
\* first, the second or the third, or none.
LeftBehind == {p \in Paths : p.base = config.base /\ p.window = 0 /\ p.seq < 3}
BatchInit ==
    /\ config \in Policies
    /\ files = [p \in Paths |-> IF p \in LeftBehind
                                THEN [NoFile EXCEPT !.db = p.seq + 1, !.full = p.seq < 2]
                                ELSE NoFile]
    /\ saved = [NoState EXCEPT !.policy = config, !.seq = 2,
                               !.current = [base |-> config.base, window |-> 0, seq |-> 2]]
    /\ \E n \in 0..3 : handles = {handle(r, p, TRUE) : p \in {q \in LeftBehind : q.seq < n}}
    /\ used = 3 /\ retired = {1, 2} /\ recorded = {1, 2, 3}
    /\ staging = {} /\ op = NoOp /\ daemon = Stopped /\ targets = {}
    /\ now = 0 /\ faults = 0 /\ doomed = {} /\ lost = {}

CatalogInit == \/ focus = "families" /\ Init
               \/ focus = "batch" /\ BatchInit

\* What each focus leaves out of the bounds of the configuration: a second
\* fault comes before time has passed.
FamiliesBounds ==
    focus = "families" =>
        /\ Idle /\ op'.kind \in {"ensure", "reset"} => used + 1 < MaxFiles
        /\ op'.kind = "ensure" => op'.seq < MaxSeq
        /\ faults' > 1 => now' = 0

\* No faults, a daemon that stays, and files that are not finalized.
BatchBounds ==
    focus = "batch" =>
        /\ faults' = 0
        /\ daemon.up => daemon'.up
        /\ \A p \in LeftBehind : ~files'[p].done

CatalogNext == Next /\ FamiliesBounds /\ BatchBounds /\ UNCHANGED focus

CatalogSpec == CatalogInit /\ [][CatalogNext]_<<focus, vars>>
=============================================================================
