------------------------------ MODULE MCGdPath ------------------------------
\* GdPath for TLC: the names, and the connections, are interchangeable.
EXTENDS GdPath, TLC

Symmetry == Permutations(Names) \cup Permutations(Conns)

=============================================================================
