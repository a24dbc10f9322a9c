--------------------------- MODULE Decision_proofs ---------------------------
(***************************************************************************)
(* Theorems about Decision: what the two engines together allow, what they *)
(* ask the buyer for, and that the answer they ask for is enough.          *)
(***************************************************************************)
EXTENDS Decision, TLAPS

(* Everything but the amount is in order: the authorization is in force    *)
(* for this purchase, the quote can still be met, no rule is against it.   *)
InForce(a, ask, quote) ==
  /\ a # Null /\ a.status = "ACTIVE" /\ a.live
  /\ a.buyer = ask.buyer /\ Covers(a.agent, ask.agent)
  /\ Covers(a.variant, ask.variant) /\ Covers(a.intent, ask.intent)
  /\ a.currency = quote.currency
  /\ a.maxQuantity >= ask.quantity
  /\ ask.subscription => a.subscriptions

Sellable(ask, quote, agentActive, rules) ==
  /\ quote.live /\ quote.available >= quote.quantity
  /\ ask.currency = quote.currency
  /\ agentActive
  /\ ask.subscription => ~ \E r \in rules : r.type = "BLOCK_SUBSCRIPTION"
  /\ \A r \in rules : r.type = "MAX_QUANTITY" => ~Exceeds(ask.quantity, r.bound)

(* The amount is within the intent's budget and the merchant's limits.     *)
WithinLimits(ask, quote, rules) ==
  /\ ~Exceeds(quote.total, ask.maxAmount)
  /\ \A r \in rules : r.type = "MAX_AMOUNT_REVIEW" => ~Exceeds(quote.total, r.bound)

(* The authorization is for one use, for exactly this purchase.            *)
ForExactly(a, quote) ==
  /\ a.type = "ONE_TIME" /\ a.max = quote.total /\ a.uses \notin {Null, 0}
  /\ a.intent = quote.intent /\ a.variant = quote.variant

(* The intent, variant and quantity quoted are those asked for.            *)
QuoteOf(ask, quote) ==
  /\ quote.intent = ask.intent /\ quote.variant = ask.variant
  /\ quote.quantity = ask.quantity

(* What an approval of the quote creates.                                  *)
ApprovalOf(ask, quote) ==
  [type |-> "ONE_TIME", status |-> "ACTIVE", live |-> TRUE, buyer |-> ask.buyer,
   agent |-> ask.agent, variant |-> ask.variant, intent |-> ask.intent,
   max |-> quote.total, currency |-> quote.currency, maxQuantity |-> ask.quantity,
   subscriptions |-> FALSE, uses |-> 1]

LEMMA ReasonGiven ==
  ASSUME NEW c \in BOOLEAN, NEW r, NEW s
  PROVE  /\ s \in If(c, r) <=> s = r /\ c
         /\ If(c, r) = {} <=> ~c
BY DEF If

(* The outcome in terms of the reasons.                                    *)
LEMMA OutcomeOfReasons ==
  ASSUME NEW reasons
  PROVE  /\ Outcome(reasons) \in {"ALLOW", "AWAITING_APPROVAL", "BLOCK"}
         /\ Outcome(reasons) = "ALLOW" <=> reasons = {}
         /\ Outcome(reasons) = "AWAITING_APPROVAL" <=> reasons = {"MAX_AMOUNT_EXCEEDED"}
BY DEF Outcome

(* No reason against the authorization: it is in force for the purchase    *)
(* and its amount suffices, or for one-time use is the amount.             *)
LEMMA AuthorizationReasons ==
  ASSUME NEW Name, NEW a \in Authorization(Name) \cup {Null},
         NEW ask \in Ask(Name), NEW quote \in Quote(Name)
  PROVE  authorizationReasons(a, ask, quote) = {} <=>
           /\ InForce(a, ask, quote)
           /\ a.max >= quote.total
           /\ a.type = "ONE_TIME" =>
                /\ a.max = quote.total /\ a.uses \notin {Null, 0}
                /\ a.variant # Null /\ a.intent # Null
<1>1. CASE a = Null
  BY <1>1 DEF authorizationReasons, InForce
<1>2. CASE a # Null
  <2>1. boundReasons(a, ask, quote) = {} <=>
          InForce(a, ask, quote) /\ a.max >= quote.total
    BY <1>2 DEF boundReasons, If, InForce, Authorization, Ask, Quote
  <2>2. oneTimeReasons(a, quote) = {} <=>
          /\ a.max = quote.total /\ a.uses \notin {Null, 0}
          /\ a.variant # Null /\ a.intent # Null
    BY DEF oneTimeReasons, If
  <2> QED
    BY <1>2, <2>1, <2>2 DEF authorizationReasons
<1> QED
  BY <1>1, <1>2

LEMMA ExactApproval ==
  ASSUME NEW Name, NEW a \in Authorization(Name) \cup {Null},
         NEW ask \in Ask(Name), NEW quote \in Quote(Name)
  PROVE  LET reasons == authorizationReasons(a, ask, quote) IN
         /\ exactOneTimeApproval(a, reasons, quote) => reasons = {} /\ ForExactly(a, quote)
         /\ reasons = {} /\ a.type = "ONE_TIME" /\ QuoteOf(ask, quote) =>
              exactOneTimeApproval(a, reasons, quote)
<1>1. exactOneTimeApproval(a, authorizationReasons(a, ask, quote), quote) =>
        authorizationReasons(a, ask, quote) = {} /\ ForExactly(a, quote)
  BY DEF exactOneTimeApproval, ForExactly
<1>2. ASSUME authorizationReasons(a, ask, quote) = {}, a.type = "ONE_TIME", QuoteOf(ask, quote)
      PROVE  exactOneTimeApproval(a, authorizationReasons(a, ask, quote), quote)
  <2>1. InForce(a, ask, quote) /\ a.max = quote.total /\ a.uses \notin {Null, 0}
    BY <1>2, AuthorizationReasons
  <2>2. a.intent = quote.intent /\ a.variant = quote.variant
    BY <1>2, <2>1, AuthorizationReasons DEF InForce, Covers, QuoteOf
  <2> QED
    BY <1>2, <2>1, <2>2 DEF exactOneTimeApproval, InForce, QuoteOf
<1> QED
  BY <1>1, <1>2

(* The reasons the policy adds to the authorization's.                     *)
LEMMA PolicyReasons ==
  ASSUME NEW Name, NEW a \in Authorization(Name) \cup {Null},
         NEW ask \in Ask(Name), NEW quote \in Quote(Name),
         NEW agentActive \in BOOLEAN, NEW rules \in SUBSET Rule
  PROVE  LET reasons == authorizationReasons(a, ask, quote)
             exact   == exactOneTimeApproval(a, reasons, quote)
             all     == policyReasons(a, ask, quote, agentActive, rules) IN
         /\ reasons \subseteq all
         /\ all \subseteq {"MAX_AMOUNT_EXCEEDED"} => Sellable(ask, quote, agentActive, rules)
         /\ Sellable(ask, quote, agentActive, rules) =>
              all \subseteq reasons \cup {"MAX_AMOUNT_EXCEEDED"}
         /\ "MAX_AMOUNT_EXCEEDED" \in all <=>
              \/ "MAX_AMOUNT_EXCEEDED" \in reasons
              \/ ~WithinLimits(ask, quote, rules) /\ ~exact
<1> DEFINE reasons == authorizationReasons(a, ask, quote)
           exact   == exactOneTimeApproval(a, reasons, quote)
           all     == policyReasons(a, ask, quote, agentActive, rules)
           ofRules == ruleReasons(rules, ask, quote, agentActive, exact)
<1>1. all = reasons \cup If(~quote.live, "QUOTE_EXPIRED")
              \cup If(quote.available < quote.quantity, "OUT_OF_STOCK")
              \cup If(Exceeds(quote.total, ask.maxAmount) /\ ~exact, "MAX_AMOUNT_EXCEEDED")
              \cup If(ask.currency # quote.currency, "CURRENCY_MISMATCH")
              \cup If(~agentActive, "AGENT_INACTIVE")
              \cup ofRules
  BY DEF policyReasons
<1>2. /\ ofRules \subseteq {"MAX_AMOUNT_EXCEEDED"} =>
           /\ ask.subscription => ~ \E r \in rules : r.type = "BLOCK_SUBSCRIPTION"
           /\ \A r \in rules : r.type = "MAX_QUANTITY" => ~Exceeds(ask.quantity, r.bound)
      /\ Sellable(ask, quote, agentActive, rules) => ofRules \subseteq {"MAX_AMOUNT_EXCEEDED"}
      /\ "MAX_AMOUNT_EXCEEDED" \in ofRules <=>
           ~exact /\ \E r \in rules : /\ r.type = "MAX_AMOUNT_REVIEW"
                                      /\ Exceeds(quote.total, r.bound)
  BY DEF ruleReasons, If, Sellable
<1> HIDE DEF reasons, exact, all, ofRules
<1>3. reasons \subseteq all
  BY <1>1
<1>4. ASSUME all \subseteq {"MAX_AMOUNT_EXCEEDED"}
      PROVE  Sellable(ask, quote, agentActive, rules)
  <2>1. /\ If(~quote.live, "QUOTE_EXPIRED") \subseteq {"MAX_AMOUNT_EXCEEDED"}
        /\ If(quote.available < quote.quantity, "OUT_OF_STOCK") \subseteq {"MAX_AMOUNT_EXCEEDED"}
        /\ If(ask.currency # quote.currency, "CURRENCY_MISMATCH") \subseteq {"MAX_AMOUNT_EXCEEDED"}
        /\ If(~agentActive, "AGENT_INACTIVE") \subseteq {"MAX_AMOUNT_EXCEEDED"}
        /\ ofRules \subseteq {"MAX_AMOUNT_EXCEEDED"}
    BY <1>1, <1>4
  <2> QED
    BY <2>1, <1>2 DEF If, Sellable, Quote
<1>5. ASSUME Sellable(ask, quote, agentActive, rules)
      PROVE  all \subseteq reasons \cup {"MAX_AMOUNT_EXCEEDED"}
  BY <1>1, <1>2, <1>5 DEF If, Sellable, Quote
<1>6. "MAX_AMOUNT_EXCEEDED" \in all <=>
        \/ "MAX_AMOUNT_EXCEEDED" \in reasons
        \/ ~WithinLimits(ask, quote, rules) /\ ~exact
  BY <1>1, <1>2 DEF If, WithinLimits
<1> QED
  BY <1>3, <1>4, <1>5, <1>6 DEF reasons, exact, all

(* What an ALLOW needs, whatever the names are.                            *)
LEMMA AllowNeeds ==
  ASSUME NEW Name, NEW a \in Authorization(Name) \cup {Null},
         NEW ask \in Ask(Name), NEW quote \in Quote(Name),
         NEW agentActive \in BOOLEAN, NEW rules \in SUBSET Rule,
         Verdict(a, ask, quote, agentActive, rules) = "ALLOW"
  PROVE  /\ a # Null /\ a.max >= quote.total
         /\ a.type = "ONE_TIME" => a.max = quote.total
         /\ WithinLimits(ask, quote, rules) \/ a.type = "ONE_TIME"
<1>1. policyReasons(a, ask, quote, agentActive, rules) = {}
  BY OutcomeOfReasons DEF Verdict
<1>2. /\ authorizationReasons(a, ask, quote) = {}
      /\ \/ WithinLimits(ask, quote, rules)
         \/ exactOneTimeApproval(a, authorizationReasons(a, ask, quote), quote)
  BY <1>1, PolicyReasons
<1>3. InForce(a, ask, quote) /\ a.max >= quote.total
      /\ (a.type = "ONE_TIME" => a.max = quote.total)
  BY <1>2, AuthorizationReasons
<1>4. WithinLimits(ask, quote, rules) \/ ForExactly(a, quote)
  BY <1>2, ExactApproval
<1> QED
  BY <1>3, <1>4 DEF InForce, ForExactly

(* The authorization found applies, and there is no second one.            *)
LEMMA FoundApplies ==
  ASSUME NEW rows, NEW ask, DOMAIN rows \subseteq Nat,
         NEW k \in Found(rows, ask)
  PROVE  /\ k # 0 => k \in DOMAIN rows /\ Applies(rows[k], ask)
         /\ \A j \in Found(rows, ask) : j = k
<1> DEFINE A == {j \in DOMAIN rows : Applies(rows[j], ask)}
<1>1. CASE A = {}
  BY <1>1 DEF Found
<1>2. CASE A # {}
  <2>1. \A j \in Found(rows, ask) :
          /\ j \in A
          /\ \A i \in A \ {j} : IF rows[j].type = rows[i].type THEN j > i
                                ELSE rows[j].type = "ONE_TIME"
    BY <1>2 DEF Found
  <2> QED
    BY <2>1
<1> QED
  BY <1>1, <1>2

(* ALLOW is said exactly if there is an authorization in force for the     *)
(* purchase, everything else is in order, and the amount is within the     *)
(* authorization, the budget and the merchant's limits or, beyond budget   *)
(* and limits, is exactly what a one-time authorization is for.            *)
THEOREM AllowIffAuthorized ==
  ASSUME NEW Name, Null \notin Name, NEW a \in Authorization(Name) \cup {Null},
         NEW ask \in Ask(Name), NEW quote \in Quote(Name), QuoteOf(ask, quote),
         NEW agentActive \in BOOLEAN, NEW rules \in SUBSET Rule
  PROVE  Verdict(a, ask, quote, agentActive, rules) = "ALLOW" <=>
           /\ InForce(a, ask, quote) /\ Sellable(ask, quote, agentActive, rules)
           /\ \/ ForExactly(a, quote)
              \/ /\ a.type = "MAX_AMOUNT" /\ a.max >= quote.total
                 /\ WithinLimits(ask, quote, rules)
<1> DEFINE reasons == authorizationReasons(a, ask, quote)
           exact   == exactOneTimeApproval(a, reasons, quote)
           all     == policyReasons(a, ask, quote, agentActive, rules)
<1>1. Verdict(a, ask, quote, agentActive, rules) = "ALLOW" <=> all = {}
  BY OutcomeOfReasons DEF Verdict
<1>2. all = {} <=> /\ reasons = {} /\ Sellable(ask, quote, agentActive, rules)
                   /\ WithinLimits(ask, quote, rules) \/ exact
  BY PolicyReasons
<1>3. reasons = {} => (exact <=> ForExactly(a, quote)) /\ (a.type = "ONE_TIME" <=> exact)
  BY ExactApproval DEF ForExactly
<1>4. InForce(a, ask, quote) /\ ForExactly(a, quote) => reasons = {}
  <2>1. ASSUME InForce(a, ask, quote), ForExactly(a, quote)
        PROVE  reasons = {}
    <3>1. a.max >= quote.total
      BY <2>1 DEF ForExactly, Quote
    <3>2. a.variant # Null /\ a.intent # Null
      BY <2>1 DEF ForExactly, Quote
    <3> QED
      BY <2>1, <3>1, <3>2, AuthorizationReasons DEF ForExactly
  <2> QED
    BY <2>1
<1>5. InForce(a, ask, quote) => a.type \in {"MAX_AMOUNT", "ONE_TIME"}
  BY DEF InForce, Authorization
<1> HIDE DEF reasons, exact, all
<1>6. reasons = {} => InForce(a, ask, quote) /\ a.max >= quote.total
  BY AuthorizationReasons DEF reasons
<1>7. InForce(a, ask, quote) /\ a.type = "MAX_AMOUNT" /\ a.max >= quote.total => reasons = {}
  BY AuthorizationReasons DEF reasons
<1> QED
  BY <1>1, <1>2, <1>3, <1>4, <1>5, <1>6, <1>7

(* The buyer is asked only about the amount: everything else is in order,  *)
(* there is a standing authorization in force, and it, the budget or a     *)
(* limit of the merchant is exceeded.  A one-time authorization never      *)
(* makes the engines ask again: with another amount they refuse.           *)
THEOREM AskedOnlyForAmount ==
  ASSUME NEW Name, Null \notin Name, NEW a \in Authorization(Name) \cup {Null},
         NEW ask \in Ask(Name), NEW quote \in Quote(Name), QuoteOf(ask, quote),
         NEW agentActive \in BOOLEAN, NEW rules \in SUBSET Rule,
         Verdict(a, ask, quote, agentActive, rules) = "AWAITING_APPROVAL"
  PROVE  /\ InForce(a, ask, quote) /\ Sellable(ask, quote, agentActive, rules)
         /\ a.type = "MAX_AMOUNT"
         /\ a.max < quote.total \/ ~WithinLimits(ask, quote, rules)
<1> DEFINE reasons == authorizationReasons(a, ask, quote)
           exact   == exactOneTimeApproval(a, reasons, quote)
           all     == policyReasons(a, ask, quote, agentActive, rules)
<1>1. all = {"MAX_AMOUNT_EXCEEDED"}
  BY OutcomeOfReasons DEF Verdict
<1>2. /\ reasons \subseteq {"MAX_AMOUNT_EXCEEDED"}
      /\ Sellable(ask, quote, agentActive, rules)
      /\ reasons # {} \/ (~WithinLimits(ask, quote, rules) /\ ~exact)
  <2>1. /\ reasons \subseteq all
        /\ all \subseteq {"MAX_AMOUNT_EXCEEDED"} => Sellable(ask, quote, agentActive, rules)
        /\ "MAX_AMOUNT_EXCEEDED" \in all <=>
             \/ "MAX_AMOUNT_EXCEEDED" \in reasons
             \/ ~WithinLimits(ask, quote, rules) /\ ~exact
    BY PolicyReasons
  <2> HIDE DEF reasons, exact, all
  <2> QED
    BY <1>1, <2>1
<1>3. a # Null
  BY <1>2 DEF authorizationReasons
<1>4. boundReasons(a, ask, quote) \subseteq {"MAX_AMOUNT_EXCEEDED"}
  BY <1>2, <1>3 DEF authorizationReasons
<1>5. InForce(a, ask, quote)
  BY <1>3, <1>4 DEF boundReasons, If, InForce, Authorization, Ask, Quote
<1>6. a.type # "ONE_TIME"
  <2>1. SUFFICES ASSUME a.type = "ONE_TIME" PROVE FALSE
    OBVIOUS
  <2>2. oneTimeReasons(a, quote) \subseteq {"MAX_AMOUNT_EXCEEDED"}
    BY <2>1, <1>2, <1>3 DEF authorizationReasons
  <2>3. /\ a.max = quote.total /\ a.uses \notin {Null, 0}
        /\ a.variant # Null /\ a.intent # Null
    BY <2>2 DEF oneTimeReasons, If
  <2>4. a.max >= quote.total
    BY <2>3 DEF Quote
  <2>5. reasons = {}
    BY <1>5, <2>3, <2>4, AuthorizationReasons
  <2>6. exact
    BY <2>1, <2>5, ExactApproval
  <2> QED
    BY <1>2, <2>5, <2>6
<1>7. a.type = "MAX_AMOUNT"
  BY <1>3, <1>6 DEF Authorization
<1>8. a.max < quote.total \/ ~WithinLimits(ask, quote, rules)
  <2>1. CASE reasons = {}
    BY <1>2, <2>1
  <2>2. CASE reasons # {}
    <3>1. ~(a.max >= quote.total)
      BY <1>5, <1>7, <2>2, AuthorizationReasons
    <3> QED
      BY <3>1, <1>3 DEF Authorization, Quote
  <2> QED
    BY <2>1, <2>2
<1> QED
  BY <1>2, <1>5, <1>7, <1>8

(* The approval that is asked for suffices: whatever the engines ask the   *)
(* buyer for is allowed once there is a one-time authorization for exactly *)
(* the quote, if neither price nor anything else changes.  Subscriptions   *)
(* are the exception: an approval never covers one.                        *)
THEOREM ApprovalSuffices ==
  ASSUME NEW Name, Null \notin Name, NEW a \in Authorization(Name) \cup {Null},
         NEW ask \in Ask(Name), NEW quote \in Quote(Name), QuoteOf(ask, quote),
         NEW agentActive \in BOOLEAN, NEW rules \in SUBSET Rule,
         Verdict(a, ask, quote, agentActive, rules) = "AWAITING_APPROVAL",
         ~ask.subscription, ApprovalOf(ask, quote) # Null
  PROVE  Verdict(ApprovalOf(ask, quote), ask, quote, agentActive, rules) = "ALLOW"
<1> DEFINE g == ApprovalOf(ask, quote)
<1>1. g \in Authorization(Name)
  BY DEF ApprovalOf, Authorization, Ask, Quote
<1>2. InForce(g, ask, quote)
  <2>1. ask.quantity >= ask.quantity
    BY DEF Ask
  <2> QED
    BY <2>1 DEF ApprovalOf, InForce, Covers
<1>3. ForExactly(g, quote)
  <2>1. 1 \notin {Null, 0}
    BY NullAssumption
  <2> QED
    BY <2>1 DEF ApprovalOf, ForExactly, QuoteOf
<1>4. Sellable(ask, quote, agentActive, rules)
  BY AskedOnlyForAmount
<1> HIDE DEF g
<1> QED
  BY <1>1, <1>2, <1>3, <1>4, AllowIffAuthorized DEF g

=============================================================================
