------------------------- MODULE MCPositionCloseLock -------------------------
(* Two processes, the first with two callers, the second with one. *)
EXTENDS PositionCloseLock

CONSTANTS p1, p2, w1, w2, w3

MCHome == [w \in Worker |-> IF w = w3 THEN p2 ELSE p1]
=============================================================================
