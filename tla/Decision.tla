------------------------------ MODULE Decision ------------------------------
(***************************************************************************)
(* May this be bought without asking, after asking, or not at all?  The    *)
(* two deterministic engines, packages/authorization and                   *)
(* packages/policy-engine, as operators on the rows they look at.  The     *)
(* module is pure; the services that call the engines are modelled in the  *)
(* modules that extend it.                                                 *)
(*                                                                         *)
(* A field "live" says that expiresAt is in the future of the evaluation.  *)
(***************************************************************************)
EXTENDS Integers

CONSTANT Null   \* a column or field without a value

ASSUME NullAssumption == Null \notin Nat

(* What is asked for: the intent's parties and its SearchConstraints.      *)
Ask(Name) ==
  [buyer : Name, agent : Name, intent : Name, variant : Name, quantity : Nat,
   subscription : BOOLEAN, maxAmount : Nat \cup {Null}, currency : Name]

Authorization(Name) ==
  [type : {"MAX_AMOUNT", "ONE_TIME"}, live : BOOLEAN,
   status : {"ACTIVE", "CONSUMED", "REVOKED", "EXPIRED"}, buyer : Name,
   agent : Name \cup {Null}, variant : Name \cup {Null}, intent : Name \cup {Null},
   max : Nat, currency : Name, maxQuantity : Nat, subscriptions : BOOLEAN,
   uses : Nat \cup {Null}]

(* A quote has one line.                                                   *)
Quote(Name) ==
  [live : BOOLEAN, intent : Name, variant : Name, quantity : Nat, available : Nat,
   total : Nat, currency : Name]

RuleType == {"MAX_AMOUNT_REVIEW", "MAX_QUANTITY", "BLOCK_SUBSCRIPTION",
             "REQUIRE_ACTIVE_AGENT"}

(* The enabled rules of a merchant; bound: the integer of its config.      *)
Rule == [type : RuleType, bound : Nat \cup {Null}]

Covers(boundary, x) == boundary \in {Null, x}

(***************************************************************************)
(* AuthorizationService: of the authorizations that are in force for this  *)
(* buyer, agent, variant and intent, ONE_TIME before MAX_AMOUNT and then   *)
(* the newest.  rows is the table in the order of creation.                *)
(***************************************************************************)
Applies(a, ask) ==
  /\ a.status = "ACTIVE" /\ a.live
  /\ a.buyer = ask.buyer
  /\ Covers(a.agent, ask.agent)
  /\ Covers(a.variant, ask.variant)
  /\ Covers(a.intent, ask.intent)

(* The index of the authorization found, 0 if there is none: a set with    *)
(* one element.                                                            *)
Found(rows, ask) ==
  LET A == {k \in DOMAIN rows : Applies(rows[k], ask)}
      Before(j, k) == IF rows[j].type = rows[k].type THEN j > k
                      ELSE rows[j].type = "ONE_TIME" IN
  IF A = {} THEN {0} ELSE {k \in A : \A j \in A \ {k} : Before(k, j)}

(***************************************************************************)
(* DeterministicAuthorizationEngine.evaluate: the reasons against it.      *)
(***************************************************************************)
If(condition, reason) == {r \in {reason} : condition}

(* A one-time authorization is for one use of one intent and one variant,  *)
(* at exactly its amount.                                                  *)
oneTimeReasons(a, quote) ==
  If(a.uses \in {Null, 0}, "AUTHORIZATION_CONSUMED")
  \cup If(a.variant = Null, "PRODUCT_BOUNDARY_MISMATCH")
  \cup If(a.intent = Null, "INTENT_BOUNDARY_MISMATCH")
  \cup If(a.max # quote.total, "AMOUNT_BOUNDARY_MISMATCH")

boundReasons(a, ask, quote) ==
  If(~(a.buyer = ask.buyer /\ Covers(a.agent, ask.agent)), "AUTHORIZATION_NOT_FOUND")
  \cup If(a.status = "REVOKED", "AUTHORIZATION_REVOKED")
  \cup If(a.status = "CONSUMED", "AUTHORIZATION_CONSUMED")
  \cup If(a.status = "EXPIRED" \/ ~a.live, "AUTHORIZATION_EXPIRED")
  \cup If(a.currency # quote.currency, "CURRENCY_MISMATCH")
  \cup If(a.max < quote.total, "MAX_AMOUNT_EXCEEDED")
  \cup If(a.maxQuantity < ask.quantity, "MAX_QUANTITY_EXCEEDED")
  \cup If(ask.subscription /\ ~a.subscriptions, "SUBSCRIPTION_NOT_ALLOWED")
  \cup If(~Covers(a.variant, ask.variant), "PRODUCT_BOUNDARY_MISMATCH")
  \cup If(~Covers(a.intent, ask.intent), "INTENT_BOUNDARY_MISMATCH")

authorizationReasons(a, ask, quote) ==
  IF a = Null THEN {"AUTHORIZATION_NOT_FOUND"}
  ELSE boundReasons(a, ask, quote)
       \cup {r \in oneTimeReasons(a, quote) : a.type = "ONE_TIME"}

(***************************************************************************)
(* DeterministicPolicyEngine.evaluate.                                     *)
(***************************************************************************)

(* The buyer has approved exactly this: limits on the amount are waived.   *)
exactOneTimeApproval(a, reasons, quote) ==
  /\ reasons = {}
  /\ a # Null
  /\ a.type = "ONE_TIME" /\ a.status = "ACTIVE" /\ a.live
  /\ a.intent = quote.intent /\ a.variant = quote.variant
  /\ a.max = quote.total /\ a.currency = quote.currency
  /\ a.maxQuantity >= quote.quantity
  /\ a.uses \notin {Null, 0}

(* A rule without an integer in its config does not apply.                 *)
Exceeds(x, bound) == bound # Null /\ x > bound

ruleReasons(rules, ask, quote, agentActive, exact) ==
  If(~agentActive /\ \E r \in rules : r.type = "REQUIRE_ACTIVE_AGENT", "AGENT_INACTIVE")
  \cup If(ask.subscription /\ \E r \in rules : r.type = "BLOCK_SUBSCRIPTION",
          "SUBSCRIPTION_NOT_ALLOWED")
  \cup If(\E r \in rules : r.type = "MAX_QUANTITY" /\ Exceeds(ask.quantity, r.bound),
          "MAX_QUANTITY_EXCEEDED")
  \cup If(\E r \in rules : /\ r.type = "MAX_AMOUNT_REVIEW"
                           /\ Exceeds(quote.total, r.bound)
                           /\ ~exact,
          "MAX_AMOUNT_EXCEEDED")

policyReasons(a, ask, quote, agentActive, rules) ==
  LET reasons == authorizationReasons(a, ask, quote)
      exact   == exactOneTimeApproval(a, reasons, quote) IN
  reasons
  \cup If(~quote.live, "QUOTE_EXPIRED")
  \cup If(quote.available < quote.quantity, "OUT_OF_STOCK")
  \cup If(Exceeds(quote.total, ask.maxAmount) /\ ~exact, "MAX_AMOUNT_EXCEEDED")
  \cup If(ask.currency # quote.currency, "CURRENCY_MISMATCH")
  \cup If(~agentActive, "AGENT_INACTIVE")
  \cup ruleReasons(rules, ask, quote, agentActive, exact)

(* Only the amount may be overruled by the buyer.                          *)
Outcome(reasons) ==
  IF reasons = {} THEN "ALLOW"
  ELSE IF reasons = {"MAX_AMOUNT_EXCEEDED"} THEN "AWAITING_APPROVAL"
  ELSE "BLOCK"

Verdict(a, ask, quote, agentActive, rules) ==
  Outcome(policyReasons(a, ask, quote, agentActive, rules))

=============================================================================
