------------------------- MODULE MCFabricOperations -------------------------
(* A small instance of FabricOperations: more jobs than operations fit,    *)
(* more controllers than proofs fit.                                       *)
EXTENDS FabricOperations, TLC

Symmetry == Permutations(Jobs) \cup Permutations(Keys)
                \cup Permutations(Controllers) \cup Permutations(Rules)

=============================================================================
