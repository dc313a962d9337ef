--------------------------- MODULE MCSessionLock ---------------------------
(* Instance of SessionLock for TLC: the keeper of a run and that of an apply. *)
EXTENDS SessionLock

CONSTANTS run, apply

=============================================================================
