--------------------------- MODULE MCJobRegistry ----------------------------
(* A small instance of JobRegistry: ids enough to fill the registry again  *)
(* after evictions, and a retention long enough for a parent and its       *)
(* child to expire at different times.                                     *)
EXTENDS JobRegistry, TLC

Symmetry == Permutations(JobIds) \cup Permutations(Nodes)

=============================================================================
