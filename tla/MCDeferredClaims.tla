-------------------------- MODULE MCDeferredClaims --------------------------
(* Two receipts of at most two events, two workers and one stored policy   *)
(* class, so that receipts can share an input row and workers can overlap. *)
EXTENDS DeferredClaims, TLC

CONSTANTS w1, w2, r1, r2, o1, o2, e1, e2, wire, env

MCPolicies == {{}, {wire}}

Perms == Permutations({r1, r2}) \cup Permutations({w1, w2})
            \cup Permutations({o1, o2})
=============================================================================
