--------------------------- MODULE MCSellExecution ---------------------------
(* Two overlapping price ticks, the emergency tick and two user requests, of *)
(* which each configuration takes the callers it is about.                   *)
EXTENDS SellExecution, TLC

CONSTANTS p1, p2, e1, u1, u2

\* Price ticks are interchangeable.
TickSymmetry == Permutations(PriceTick)
=============================================================================
