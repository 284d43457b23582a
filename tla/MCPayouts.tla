----------------------------- MODULE MCPayouts -----------------------------
(* A small instance of Payouts for TLC: an order of one unit, one of two.  *)
EXTENDS Payouts, TLC

MCNet == [e \in Earnings |-> e]

(* Two orders of two units: half of one can be refunded and the rest paid. *)
MCNetTwo == [e \in Earnings |-> 2]

Symmetry == Permutations(Reversals) \union Permutations(Workers)
=============================================================================
