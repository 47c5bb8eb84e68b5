------------------------- MODULE MCGdbCoordinator -------------------------
(* A small instance of GdbCoordinator for TLC. *)
EXTENDS GdbCoordinatorRefinement

CONSTANTS p1, p2, l1, l2, w1, w2

TwoPaths == {p1, p2}
TwoLeases == {l1, l2}
TwoWriters == {w1, w2}
=============================================================================
