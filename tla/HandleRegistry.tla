--------------------------- MODULE HandleRegistry ---------------------------
(***************************************************************************)
(* What a connection's handle registry promises: a set of blocks.  A block *)
(* is registered at most once, unregistering removes exactly that block,   *)
(* and unregistering it again changes nothing.                             *)
(***************************************************************************)
CONSTANT Blocks
VARIABLE registered

Init == registered = {}

Register(n) == n \notin registered /\ registered' = registered \cup {n}

Unregister(n) == registered' = registered \ {n}

Next == \E n \in Blocks : Register(n) \/ Unregister(n)

Spec == Init /\ [][Next]_registered

=============================================================================
