------------------------ MODULE MCDeferredDispatch ------------------------
(* Two receipts in the first file and one in the next.                       *)
EXTENDS DeferredDispatch

CONSTANTS w1, w2

MCFileOf == [r \in Receipt |-> IF r <= 2 THEN 1 ELSE 2]
=============================================================================
