--------------------------- MODULE MCSurpriseDeals ---------------------------
(* Small instances of SurpriseDeals for TLC. *)
EXTENDS SurpriseDealsProofs, TLC

Symmetry == Permutations(Workers) \union Permutations(Users)
=============================================================================
