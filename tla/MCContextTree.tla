--------------------------- MODULE MCContextTree ---------------------------
(* Instances of ContextTree for TLC.                                        *)
EXTENDS ContextTree, TLC

CONSTANTS v1, v2
TwoValues == {v1, v2}
Symmetry == Permutations(Values)
=============================================================================
