----------------------------- MODULE MCApproval -----------------------------
(***************************************************************************)
(* Approval for TLC: the sets the configurations name.                     *)
(***************************************************************************)
EXTENDS Approval

CONSTANTS a1, a2, b1, b2

OneAgent == {a1}
TwoAgents == {a1, a2}
TwoBuyers == {b1, b2}

\* The rules of the seeded merchant.
SeededRules ==
  {[type |-> "REQUIRE_ACTIVE_AGENT", bound |-> Null], [type |-> "BLOCK_SUBSCRIPTION", bound |-> Null],
   [type |-> "MAX_QUANTITY", bound |-> 3]}

=============================================================================
