----------------------------- MODULE MCGdShared -----------------------------
(* GdShared and GdLink side by side: a finite instance for TLC of the data   *)
(* structures the callback threads share.  Neither reads the other's state.  *)
EXTENDS GdShared, GdLink

MCInit == SharedInit /\ Init

MCNext ==
  \/ SharedNext /\ UNCHANGED vars
  \/ Next /\ UNCHANGED sharedVars

MCSpec == MCInit /\ [][MCNext]_<<vars, sharedVars>>

=============================================================================
