------------------------- MODULE MCUsageSettlement -------------------------
(* Instances of UsageSettlement for TLC. *)
EXTENDS UsageSettlement, TLC

Symmetry == Permutations(Requests)

=============================================================================
