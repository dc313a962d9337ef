---------------------------- MODULE MCAdaptiveScan ----------------------------
(* Two points in falling order; the channels of a chip are interchangeable.    *)
EXTENDS AdaptiveScan, TLC
Falling == <<1, 0>>
Symmetry == Permutations(CHIPS) \cup Permutations(Channels)
=============================================================================
