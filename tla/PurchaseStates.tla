--------------------------- MODULE PurchaseStates ---------------------------
(***************************************************************************)
(* The lifecycle of a purchase intent, packages/commerce-core: the states  *)
(* and the table of transitions PurchaseStateMachine allows.  The module   *)
(* is pure; the services that write PurchaseIntent.status are modelled in  *)
(* the modules that extend it.                                             *)
(***************************************************************************)

(***************************************************************************)
(* allowedTransitions: the states reachable from a state in one step.      *)
(***************************************************************************)
allowedTransitions ==
  [ RECEIVED           |-> {"RESOLVING", "CANCELED", "FAILED"},
    RESOLVING          |-> {"QUOTED", "BLOCKED", "FAILED"},
    QUOTED             |-> {"POLICY_CHECK", "FAILED"},
    POLICY_CHECK       |-> {"APPROVED", "AWAITING_APPROVAL", "BLOCKED", "FAILED"},
    APPROVED           |-> {"PAYMENT_PROCESSING", "AWAITING_APPROVAL", "BLOCKED",
                            "FAILED", "CANCELED"},
    AWAITING_APPROVAL  |-> {"APPROVED", "CANCELED", "EXPIRED"},
    BLOCKED            |-> {},
    PAYMENT_PROCESSING |-> {"COMPLETED", "APPROVED", "FAILED", "CANCELED"},
    COMPLETED          |-> {},
    FAILED             |-> {},
    CANCELED           |-> {},
    EXPIRED            |-> {} ]

IntentState == DOMAIN allowedTransitions

canTransition(from, to) == to \in allowedTransitions[from]

TerminalState == {s \in IntentState : allowedTransitions[s] = {}}

=============================================================================
