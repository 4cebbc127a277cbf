------------------------------ MODULE MCGdConn ------------------------------
(* Finite instances of GdConn for TLC. *)
EXTENDS GdConn, TLC

\* Dispatcher threads are interchangeable, and so are handle blocks.
Symmetry == Permutations(Threads) \cup Permutations(Handles)

\* Callbacks of an instance without open handles, and of one with files.
AllOps   == PathOps \cup HandleOps
PathOnly == {"path"}
FileOps  == {"path", "open", "io", "close"}

=============================================================================
