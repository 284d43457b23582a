----------------------------- MODULE MCCheckout -----------------------------
(* Small instances of Checkout for TLC. *)
EXTENDS CheckoutProofs, TLC

Symmetry == Permutations(Workers) \union Permutations(Users)
=============================================================================
