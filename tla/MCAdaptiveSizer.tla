--------------------------- MODULE MCAdaptiveSizer ---------------------------
(* Instances of AdaptiveSizer for TLC: the code's own step constants.      *)
EXTENDS AdaptiveSizer, TLC

Symmetry == Permutations(Workers)
=============================================================================
