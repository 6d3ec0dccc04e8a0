--------------------------- MODULE MCCursorFollow ---------------------------
(* Instances of CursorFollow: two monitors in a row. *)
EXTENDS CursorFollow

CONSTANTS l, r, p1, p2

TwoPositionX == [m \in {l, r} |-> IF m = l THEN 0 ELSE 3]
TwoWidth == [m \in {l, r} |-> IF m = l THEN 3 ELSE 2]
DedicatedPlanes == [m \in {l, r} |-> IF m = l THEN p1 ELSE p2]
=============================================================================
