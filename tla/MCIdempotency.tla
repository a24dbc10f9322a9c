--------------------------- MODULE MCIdempotency ---------------------------
(***************************************************************************)
(* Idempotency for TLC: four calls, the last with a body of its own.       *)
(***************************************************************************)
EXTENDS Idempotency, TLC

CONSTANTS c1, c2, c3, c4, b1, b2

FourCalls  == {c1, c2, c3, c4}
LastDiffers == [c \in FourCalls |-> IF c = c4 THEN b2 ELSE b1]

Symmetry == Permutations({c1, c2, c3})

=============================================================================
