----------------------------- MODULE MCCheckout -----------------------------
(***************************************************************************)
(* Checkout for TLC: the sets the configurations name.                     *)
(***************************************************************************)
EXTENDS Checkout, TLC

CONSTANTS i1, i2, w1, w2

OneIntent  == {i1}
TwoIntents == {i1, i2}
OneWorker  == {w1}
TwoWorkers == {w1, w2}

Symmetry == Permutations(Workers) \cup Permutations(Intents)

=============================================================================
