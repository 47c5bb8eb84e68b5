------------------------- MODULE MCAdaptiveSession -------------------------
(* Small instances of AdaptiveSession for TLC. *)
EXTENDS AdaptiveSession, TLC

CONSTANTS p1, l1, l2, w1, w2

OnePath == {p1}
OneReader == {l1}
TwoReaders == {l1, l2}
OneWriter == {w1}
TwoWriters == {w1, w2}

\* Readers are interchangeable, and so are Writers (safety runs only).
SessionSymmetry == Permutations(Leases) \cup Permutations(Writers)
=============================================================================
