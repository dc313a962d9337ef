--------------------------- MODULE MCSlowControl ---------------------------
(* Instance of SlowControl for TLC. *)
EXTENDS SlowControl, TLC

CONSTANTS c1, c2

\* Up on both channels, then one down to 0 V (switched off) while the other is
\* monitored only.
Settings == << (c1 :> 2 @@ c2 :> 1), (c1 :> 0 @@ c2 :> NoSet) >>

=============================================================================
