------------------------ MODULE MCParentAggregation -------------------------
(* Three targets, the least number with one child counted, one being      *)
(* counted and one not yet admitted, and the reaper.                       *)
EXTENDS ParentAggregation, TLC

Symmetry == Permutations(Children) \cup Permutations(Observers)

=============================================================================
