----------------------------- MODULE MCPageWalk -----------------------------
(* Small instances of PageWalk for TLC. *)
EXTENDS PageWalk
=============================================================================
