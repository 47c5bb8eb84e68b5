--------------------------- MODULE MCUnifiedLayer ---------------------------
(* Small instances of UnifiedLayer for TLC. *)
EXTENDS UnifiedLayer, TLC

CONSTANTS p1, l1, l2, w1, w2

OnePath == {p1}
OneReader == {l1}
TwoReaders == {l1, l2}
OneWriter == {w1}
TwoWriters == {w1, w2}

\* The first Writer alters the schema, the second does not.
FirstAlters == {1}

UnifiedSymmetry == Permutations(Leases) \cup Permutations(Writers)
=============================================================================
