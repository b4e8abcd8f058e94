---------------------------- MODULE MCPageCache ----------------------------
(* The symmetry of the sectors, which no definition tells apart.                *)
EXTENDS PageCache, TLC
Symmetry == Permutations(Sectors)
=============================================================================
