---------------------------- MODULE MCRunControl ----------------------------
(* Instance of RunControl for TLC. *)
EXTENDS RunControlInv, TLC

\* The interfaces are interchangeable: no action and no property names one.
Symmetry == Permutations(Ifaces)

=============================================================================
