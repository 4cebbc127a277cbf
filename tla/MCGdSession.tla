----------------------------- MODULE MCGdSession -----------------------------
\* GdSession for TLC: keys of one type are interchangeable.
EXTENDS GdSession, TLC

Symmetry == UNION {Permutations(t) : t \in KeyTypes}

=============================================================================
