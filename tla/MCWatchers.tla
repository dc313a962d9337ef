----------------------------- MODULE MCWatchers -----------------------------
(* Instance of Watchers for TLC. *)
EXTENDS Watchers

=============================================================================
