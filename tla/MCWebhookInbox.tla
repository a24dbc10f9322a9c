--------------------------- MODULE MCWebhookInbox ---------------------------
(***************************************************************************)
(* WebhookInbox for TLC: the sets the configurations name.                 *)
(***************************************************************************)
EXTENDS WebhookInbox, TLC

CONSTANTS e1, e2, e3, p1, p2

TwoEvents     == {e1, e2}
ThreeEvents   == {e1, e2, e3}
OneProcessor  == {p1}
TwoProcessors == {p1, p2}

Symmetry == Permutations(Processors) \cup Permutations(EventIds)

=============================================================================
