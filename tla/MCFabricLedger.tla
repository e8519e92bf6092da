--------------------------- MODULE MCFabricLedger ---------------------------
(* Two calls at once over two cases.                                         *)
EXTENDS FabricLedger, TLC

CONSTANTS k1, k2, c1, c2
MCCall == {k1, k2}
MCCase == {c1, c2}
Symmetry == Permutations(MCCall) \cup Permutations(MCCase)
=============================================================================
