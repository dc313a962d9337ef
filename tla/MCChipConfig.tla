---------------------------- MODULE MCChipConfig ----------------------------
(* Instance of ChipConfig for TLC. *)
EXTENDS ChipConfig

CONSTANTS a1, r1, c1, s1

=============================================================================
