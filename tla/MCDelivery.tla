----------------------------- MODULE MCDelivery -----------------------------
(***************************************************************************)
(* TLC instances of Delivery.                                              *)
(***************************************************************************)
EXTENDS Delivery, TLC

CONSTANTS w1, w2

OneWorkload  == {w1}
TwoWorkloads == {w1, w2}
Symmetry     == Permutations({w1, w2})

=============================================================================
