------------------------------ MODULE Checkout ------------------------------
(***************************************************************************)
(* From an approved purchase intent to a confirmed order: the execution of *)
(* payment attempts by concurrent API requests, inventory reservations,    *)
(* the buyer's checkout verification, the payment provider's webhooks and  *)
(* the demo reset, over one product variant sold one unit at a time.       *)
(*                                                                         *)
(* A database transaction of the code is one step; a request that runs     *)
(* several transactions is a process with a program counter, and every     *)
(* other actor may step between any two of them.  Of the reservations of   *)
(* an intent the model keeps the row that is or was last ACTIVE: the code  *)
(* reads no other.  The time limits (quote 120 s, reservation 15 min,      *)
(* one-time authorization) are steps that may come at any moment.          *)
(*                                                                         *)
(* A definition whose name begins with Slip is not the code: it is the     *)
(* definition after it with a plausible bug, which a property must notice. *)
(***************************************************************************)
EXTENDS Integers, FiniteSets, PurchaseStates

CONSTANTS
  Intents,        \* purchase intents, one unit of the variant each
  Workers,        \* slots for execute requests running in the API
  NoIntent,       \* not an intent: what an idle slot works on
  Prices,         \* prices the variant may have, in minor units
  BaselinePrice,  \* the price at the start and after a demo reset
  Limit,          \* largest amount the standing authorization and policy allow
  InitialStock,   \* units of the variant at the start
  MaxVersion,     \* bound: version of the variant row, hence of price changes
  MaxAttempts,    \* bound: payment attempts per order
  MaxTries,       \* bound: provider payments the buyer tries per attempt
  Production,     \* TRUE: the demo reset is refused (assertGoldenDemoAccess)
  OneRequest,     \* TRUE: a client has one execute request per intent in flight
  Faults,         \* TRUE: a request or the processor may die or lose its database
  Lapses,         \* TRUE: reservations and one-time authorizations may outlive their time
  LateCapture,    \* TRUE: the provider may capture a payment it reported as failed
  ProviderFails   \* TRUE: the provider may fail to create an order

ASSUME ConstantsAssumption ==
  /\ IsFiniteSet(Intents)
  /\ NoIntent \notin Intents
  /\ Prices \subseteq Nat \ {0}
  /\ BaselinePrice \in Prices
  /\ Limit \in Nat
  /\ InitialStock \in Nat
  /\ MaxVersion \in Nat \ {0}
  /\ MaxAttempts \in Nat
  /\ MaxTries \in Nat
  /\ {Production, OneRequest, Faults, Lapses, LateCapture, ProviderFails}
       \subseteq BOOLEAN

VARIABLES
  status,    \* PurchaseIntent.status
  bound,     \* PurchaseIntent.authorizationId: the standing one or the intent's grant
  grant,     \* the ONE_TIME authorization an approval created for the intent
  price,     \* ProductVariant.priceMinor
  version,   \* ProductVariant.version
  stock,     \* ProductVariant.stock
  res,       \* the intent's inventory reservation
  order,     \* the intent's order
  pay,       \* the order's payment rows, one per attempt
  checkout,  \* attempts whose provider order reached the buyer
  prov,      \* the provider's latest payment on the attempt's provider order
  inbox,     \* verified webhook events still to be processed
  req,       \* the execute requests
  ver        \* the buyer's checkout verification requests, one per intent

moneyVars == <<order, pay, checkout>>
shopVars  == <<price, version, stock>>
authVars  == <<status, bound, grant>>
vars == <<authVars, shopVars, moneyVars, res, prov, inbox, req, ver>>

Attempts == 1..MaxAttempts
Payments == Intents \X Attempts

GrantRow == [status : {"NONE", "ACTIVE", "CONSUMED", "REVOKED"}, amount : Nat,
             lapsed : BOOLEAN]
ReservationRow == [status : {"NONE", "ACTIVE", "RELEASED", "EXPIRED", "CONVERTED"},
                   attached : BOOLEAN, lapsed : BOOLEAN, known : SUBSET Workers]
OrderRow == [status : {"NONE", "PENDING_PAYMENT", "CONFIRMED", "CANCELED"}, total : Nat]
PaymentStatus == {"NONE", "CREATED", "AUTHORIZED", "CAPTURED", "FAILED"}
PaymentRow == [status : PaymentStatus, amount : Nat, id : 0..MaxTries]
ProviderPayment == [id : 0..MaxTries,
                    status : {"none", "authorized", "captured", "failed"}]
Events == [kind : {"authorized", "captured", "failed"}, pay : Payments, id : 0..MaxTries]

Attempting == {"create", "start", "answer", "failPayment", "failRelease"}
Request == [pc : {"idle", "quote", "decide", "refuse", "release", "bind", "reserve",
                  "prepare", "create", "start", "answer", "failPayment", "failRelease"},
            intent : Intents \cup {NoIntent}, price : Nat, version : 0..MaxVersion,
            fresh : BOOLEAN, inStock : BOOLEAN,
            outcome : {"ALLOW", "ALLOW_EXACT", "AWAITING_APPROVAL", "BLOCK"},
            attempt : 0..MaxAttempts]
Verification == [pc : {"idle", "write"}, attempt : 0..MaxAttempts, id : 0..MaxTries,
                 seen : PaymentStatus]

Idle == [pc |-> "idle", intent |-> NoIntent, price |-> 0, version |-> 0,
         fresh |-> FALSE, inStock |-> FALSE, outcome |-> "BLOCK", attempt |-> 0]
NotVerifying == [pc |-> "idle", attempt |-> 0, id |-> 0, seen |-> "NONE"]
NoReservation == [status |-> "NONE", attached |-> FALSE, lapsed |-> FALSE, known |-> {}]

(***************************************************************************)
(* Inventory reservations.                                                 *)
(***************************************************************************)

(* A row that is no longer ACTIVE is never read again: nothing of it is    *)
(* kept but its status.  known: the requests that hold the row's id.       *)
Closed(s) == [NoReservation EXCEPT !.status = s]

Held(i) == res[i].status = "ACTIVE"

(* Slip: reservations of other intents are not subtracted.                 *)
SlipAvailable(i) == stock

(* The units other intents hold: ACTIVE and unexpired.                     *)
Available(i) ==
  stock - Cardinality({j \in Intents \ {i} : Held(j) /\ ~res[j].lapsed})

(* releaseForIntent: every ACTIVE reservation of the intent.               *)
releaseForIntent(i) ==
  res' = [res EXCEPT ![i] = IF @.status = "ACTIVE" THEN Closed("RELEASED") ELSE @]

(***************************************************************************)
(* Authorization and policy, as far as a payment of price p depends on     *)
(* them.  An unexpired one-time authorization is preferred to the standing *)
(* one; it allows exactly its amount.  Anything else the engines look at   *)
(* (the agent, the quote's age, the rules of the merchant) may block.      *)
(***************************************************************************)
GrantUsable(i) == grant[i].status = "ACTIVE" /\ ~grant[i].lapsed

Exact(i, p) == GrantUsable(i) /\ grant[i].amount = p

Outcomes(i, p, inStock) ==
  {"BLOCK"} \cup
  (IF ~inStock \/ (GrantUsable(i) /\ ~Exact(i, p)) THEN {}
   ELSE IF p <= Limit \/ Exact(i, p) THEN {"ALLOW"}
   ELSE {"AWAITING_APPROVAL"})

(***************************************************************************)
(* POST /execute, PaymentExecutionService.execute.                         *)
(***************************************************************************)
Goto(w, r) == req' = [req EXCEPT ![w] = r]
Step(w, pc) == Goto(w, [req[w] EXCEPT !.pc = pc])
At(w, pc) == req[w].pc = pc
Attempt(w) == <<req[w].intent, req[w].attempt>>

(* The request reads the intent and is refused unless it is APPROVED.      *)
Execute(w, i) ==
  /\ At(w, "idle")
  /\ status[i] = "APPROVED"
  /\ OneRequest => \A x \in Workers : req[x].intent # i
  /\ Goto(w, [Idle EXCEPT !.pc = "quote", !.intent = i])
  /\ UNCHANGED <<authVars, shopVars, moneyVars, res, prov, inbox, ver>>

(* createFreshQuote: supersedes the intent's ACTIVE quote.                 *)
Superseded(i) ==
  [x \in Workers |-> IF req[x].intent = i THEN [req[x] EXCEPT !.fresh = FALSE]
                                          ELSE req[x]]

RefreshQuote(w) ==
  LET i == req[w].intent IN
  /\ At(w, "quote")
  /\ req' = [Superseded(i) EXCEPT ![w] =
               [req[w] EXCEPT !.pc = "decide", !.price = price, !.version = version,
                              !.fresh = TRUE, !.inStock = Available(i) >= 1]]
  /\ UNCHANGED <<authVars, shopVars, moneyVars, res, prov, inbox, ver>>

(* 120 s after it was made; reserve is the last to read it.                *)
QuoteExpires(w) ==
  /\ req[w].fresh /\ req[w].pc \in {"decide", "refuse", "bind", "reserve"}
  /\ Goto(w, [req[w] EXCEPT !.fresh = FALSE])
  /\ UNCHANGED <<authVars, shopVars, moneyVars, res, prov, inbox, ver>>

(* The authorization and the policy are evaluated on the quote.            *)
Decide(w) ==
  LET i == req[w].intent IN
  /\ At(w, "decide")
  /\ \E o \in Outcomes(i, req[w].price, req[w].inStock) :
       Goto(w, [req[w] EXCEPT !.pc = IF o = "ALLOW" THEN "bind" ELSE "refuse",
                              !.outcome = IF o = "ALLOW" /\ Exact(i, req[w].price)
                                          THEN "ALLOW_EXACT" ELSE o])
  /\ UNCHANGED <<authVars, shopVars, moneyVars, res, prov, inbox, ver>>

(* transition(APPROVED -> BLOCKED or AWAITING_APPROVAL), then, in another  *)
(* transaction, releaseForIntent.                                          *)
Refuse(w) ==
  LET i == req[w].intent IN
  /\ At(w, "refuse")
  /\ IF status[i] = "APPROVED"
     THEN /\ status' = [status EXCEPT ![i] =
                          IF req[w].outcome = "BLOCK" THEN "BLOCKED" ELSE "AWAITING_APPROVAL"]
          /\ Step(w, "release")
     ELSE /\ Goto(w, Idle)
          /\ UNCHANGED status
  /\ UNCHANGED <<bound, grant, shopVars, moneyVars, res, prov, inbox, ver>>

ReleaseRefused(w) ==
  /\ At(w, "release")
  /\ releaseForIntent(req[w].intent)
  /\ Goto(w, Idle)
  /\ UNCHANGED <<authVars, shopVars, moneyVars, prov, inbox, ver>>

(* Slips: the intent is bound to the same authorization whichever allowed. *)
SlipBindStanding(w) ==
  /\ At(w, "bind")
  /\ bound' = [bound EXCEPT ![req[w].intent] = "standing"]
  /\ Step(w, "reserve")
  /\ UNCHANGED <<status, grant, shopVars, moneyVars, res, prov, inbox, ver>>

SlipBindGrant(w) ==
  /\ At(w, "bind")
  /\ bound' = [bound EXCEPT ![req[w].intent] = "grant"]
  /\ Step(w, "reserve")
  /\ UNCHANGED <<status, grant, shopVars, moneyVars, res, prov, inbox, ver>>

(* The authorization that allowed the payment is bound to the intent.      *)
BindAuthorization(w) ==
  LET i == req[w].intent IN
  /\ At(w, "bind")
  /\ bound' = [bound EXCEPT ![i] =
                 IF status[i] # "APPROVED" THEN @
                 ELSE IF req[w].outcome = "ALLOW_EXACT" THEN "grant" ELSE "standing"]
  /\ Step(w, "reserve")
  /\ UNCHANGED <<status, grant, shopVars, moneyVars, res, prov, inbox, ver>>

(* Slip: reserve does not read the intent's status again.                  *)
SlipCanReserve(w) ==
  LET i == req[w].intent IN
  /\ req[w].fresh
  /\ price = req[w].price /\ version = req[w].version
  /\ (Held(i) /\ ~res[i].lapsed) \/ Available(i) >= 1

(* InventoryReservationService.reserve.                                    *)
CanReserve(w) ==
  LET i == req[w].intent IN
  /\ status[i] = "APPROVED"
  /\ req[w].fresh
  /\ price = req[w].price /\ version = req[w].version
  /\ (Held(i) /\ ~res[i].lapsed) \/ Available(i) >= 1

Reserve(w) ==
  LET i == req[w].intent IN
  /\ At(w, "reserve")
  /\ CanReserve(w)
  /\ res' = [res EXCEPT ![i] =
               IF Held(i) /\ ~res[i].lapsed
               THEN [res[i] EXCEPT !.known = @ \cup {w}]
               ELSE [NoReservation EXCEPT !.status = "ACTIVE", !.known = {w}]]
  /\ Step(w, "prepare")
  /\ UNCHANGED <<authVars, shopVars, moneyVars, prov, inbox, ver>>

(* Slip: a price that changed is waited for, not refused.                  *)
SlipReserveRefused(w) ==
  /\ At(w, "reserve")
  /\ ~CanReserve(w) /\ version = req[w].version
  /\ Goto(w, Idle)
  /\ UNCHANGED <<authVars, shopVars, moneyVars, res, prov, inbox, ver>>

ReserveRefused(w) ==
  /\ At(w, "reserve")
  /\ ~CanReserve(w)
  /\ Goto(w, Idle)
  /\ UNCHANGED <<authVars, shopVars, moneyVars, res, prov, inbox, ver>>

(* prepareInternalAttempt: the order takes the quote's total, a payment    *)
(* row is added, and the reservation, if it is still the ACTIVE one the    *)
(* request reserved, is attached to the order.                             *)
NextAttempt(i) == 1 + Cardinality({k \in Attempts : pay[<<i, k>>].status # "NONE"})

CanPrepare(w) ==
  LET i == req[w].intent IN
  /\ order[i].status \in {"NONE", "PENDING_PAYMENT"}
  /\ Held(i) /\ w \in res[i].known

(* Slips: an order that exists keeps its total; the attempt charges the    *)
(* variant's price of the moment.                                          *)
SlipPrepare(w, total, amount) ==
  LET i == req[w].intent
      k == NextAttempt(i) IN
  /\ At(w, "prepare")
  /\ CanPrepare(w)
  /\ k \in Attempts
  /\ order' = [order EXCEPT ![i] = [status |-> "PENDING_PAYMENT", total |-> total]]
  /\ pay' = [pay EXCEPT ![<<i, k>>] = [status |-> "CREATED", amount |-> amount, id |-> 0]]
  /\ res' = [res EXCEPT ![i].attached = TRUE, ![i].known = @ \ {w}]
  /\ Goto(w, [req[w] EXCEPT !.pc = "create", !.attempt = k])
  /\ UNCHANGED <<authVars, shopVars, checkout, prov, inbox, ver>>

SlipKeepsTotal(w) ==
  SlipPrepare(w, IF order[req[w].intent].status = "NONE" THEN req[w].price
                 ELSE order[req[w].intent].total, req[w].price)

SlipPriceOfTheMoment(w) == SlipPrepare(w, price, price)

PrepareInternalAttempt(w) ==
  LET i == req[w].intent
      k == NextAttempt(i) IN
  /\ At(w, "prepare")
  /\ CanPrepare(w)
  /\ k \in Attempts
  /\ order' = [order EXCEPT ![i] = [status |-> "PENDING_PAYMENT", total |-> req[w].price]]
  /\ pay' = [pay EXCEPT ![<<i, k>>] =
               [status |-> "CREATED", amount |-> req[w].price, id |-> 0]]
  /\ res' = [res EXCEPT ![i].attached = TRUE, ![i].known = @ \ {w}]
  /\ Goto(w, [req[w] EXCEPT !.pc = "create", !.attempt = k])
  /\ UNCHANGED <<authVars, shopVars, checkout, prov, inbox, ver>>

PrepareRefused(w) ==
  /\ At(w, "prepare")
  /\ ~CanPrepare(w) \/ NextAttempt(req[w].intent) \notin Attempts
  /\ Goto(w, Idle)
  /\ UNCHANGED <<authVars, shopVars, moneyVars, res, prov, inbox, ver>>

(* gateway.createOrder: the provider's order exists, or the call fails.    *)
CreateProviderOrder(w) ==
  /\ At(w, "create")
  /\ \/ Step(w, "start")
     \/ ProviderFails /\ Step(w, "failPayment")
  /\ UNCHANGED <<authVars, shopVars, moneyVars, res, prov, inbox, ver>>

(* Slips: the payment starts with the intent left APPROVED; the status is  *)
(* written without comparing it with APPROVED.                             *)
SlipStartUnmarked(w) ==
  /\ At(w, "start")
  /\ Step(w, "answer")
  /\ UNCHANGED <<authVars, shopVars, moneyVars, res, prov, inbox, ver>>

SlipStartProcessing(w) ==
  /\ At(w, "start")
  /\ status' = [status EXCEPT ![req[w].intent] = "PAYMENT_PROCESSING"]
  /\ Step(w, "answer")
  /\ UNCHANGED <<bound, grant, shopVars, moneyVars, res, prov, inbox, ver>>

(* transition(APPROVED -> PAYMENT_PROCESSING); a conflict is caught.       *)
StartProcessing(w) ==
  LET i == req[w].intent IN
  /\ At(w, "start")
  /\ IF status[i] = "APPROVED"
     THEN /\ status' = [status EXCEPT ![i] = "PAYMENT_PROCESSING"]
          /\ Step(w, "answer")
     ELSE /\ Step(w, "failPayment")
          /\ UNCHANGED status
  /\ UNCHANGED <<bound, grant, shopVars, moneyVars, res, prov, inbox, ver>>

(* The audit of the provider order is appended and the checkout returned.  *)
AnswerCheckout(w) ==
  /\ At(w, "answer")
  /\ checkout' = checkout \cup {Attempt(w)}
  /\ Goto(w, Idle)
  /\ UNCHANGED <<authVars, shopVars, order, pay, res, prov, inbox, ver>>

(* The catch block: the payment row, if still CREATED, is FAILED, then the *)
(* ACTIVE reservation of the intent is released.                           *)
FailPayment(w) ==
  /\ At(w, "failPayment")
  /\ pay' = [pay EXCEPT ![Attempt(w)].status = IF @ = "CREATED" THEN "FAILED" ELSE @]
  /\ Step(w, "failRelease")
  /\ UNCHANGED <<authVars, shopVars, order, checkout, res, prov, inbox, ver>>

FailRelease(w) ==
  /\ At(w, "failRelease")
  /\ releaseForIntent(req[w].intent)
  /\ Goto(w, Idle)
  /\ UNCHANGED <<authVars, shopVars, moneyVars, prov, inbox, ver>>

(* Before the try block a request may end at any step: a transaction that  *)
(* keeps losing its serialization race, a provider that is not configured. *)
(* After a refusal and in the catch block only a failing database ends it. *)
Abandon(w) ==
  /\ \/ req[w].pc \in {"quote", "decide", "bind", "reserve", "prepare"}
     \/ Faults /\ req[w].pc \in {"refuse", "release", "failPayment", "failRelease"}
  /\ Goto(w, Idle)
  /\ UNCHANGED <<authVars, shopVars, moneyVars, res, prov, inbox, ver>>

(* A statement inside the try block fails after it: the catch block runs.  *)
StatementFails(w) ==
  /\ Faults
  /\ req[w].pc \in {"start", "answer"}
  /\ Step(w, "failPayment")
  /\ UNCHANGED <<authVars, shopVars, moneyVars, res, prov, inbox, ver>>

(* The process dies with every request in it.                              *)
Crash ==
  /\ Faults
  /\ req' = [w \in Workers |-> Idle]
  /\ ver' = [i \in Intents |-> NotVerifying]
  /\ UNCHANGED <<authVars, shopVars, moneyVars, res, prov, inbox>>

ExecuteStep(w) ==
  \/ RefreshQuote(w) \/ Decide(w) \/ Refuse(w) \/ ReleaseRefused(w)
  \/ BindAuthorization(w) \/ Reserve(w) \/ ReserveRefused(w)
  \/ PrepareInternalAttempt(w) \/ PrepareRefused(w) \/ CreateProviderOrder(w)
  \/ StartProcessing(w) \/ AnswerCheckout(w) \/ FailPayment(w) \/ FailRelease(w)

(***************************************************************************)
(* The payment provider (external): the buyer pays in the checkout that    *)
(* reached him; each change is announced by a signed webhook.              *)
(***************************************************************************)
Announce(kind, p, n) == inbox' = inbox \cup {[kind |-> kind, pay |-> p, id |-> n]}

(* The buyer tries a payment, a further one only after a failed one.       *)
Pays(p, outcome) ==
  LET n == prov[p].id + 1 IN
  /\ p \in checkout
  /\ prov[p].status \in {"none", "failed"}
  /\ n <= MaxTries
  /\ prov' = [prov EXCEPT ![p] = [id |-> n, status |-> outcome]]
  /\ Announce(outcome, p, n)
  /\ UNCHANGED <<authVars, shopVars, moneyVars, res, req, ver>>

(* An authorized payment is captured or fails; with LateCapture a failed   *)
(* one may still be captured.                                              *)
Settles(p, outcome) ==
  /\ \/ prov[p].status = "authorized"
     \/ LateCapture /\ prov[p].status = "failed" /\ outcome = "captured"
  /\ prov' = [prov EXCEPT ![p].status = outcome]
  /\ Announce(outcome, p, prov[p].id)
  /\ UNCHANGED <<authVars, shopVars, moneyVars, res, req, ver>>

ProviderStep ==
  \E p \in Payments :
    \/ \E o \in {"authorized", "failed"} : Pays(p, o)
    \/ \E o \in {"captured", "failed"} : Settles(p, o)

(***************************************************************************)
(* POST /payments/verify, CheckoutVerificationService.verify: the payment  *)
(* is read outside the transaction that writes it.                         *)
(***************************************************************************)
VerifyRead(p) ==
  LET i == p[1] IN
  /\ ver[i].pc = "idle"
  /\ prov[p].status \in {"authorized", "captured"}
  /\ pay[p].id \in {0, prov[p].id}
  /\ ver' = [ver EXCEPT ![i] = [pc |-> "write", attempt |-> p[2],
                                id |-> prov[p].id, seen |-> pay[p].status]]
  /\ UNCHANGED <<authVars, shopVars, moneyVars, res, prov, inbox, req>>

VerifyWrite(i) ==
  LET p == <<i, ver[i].attempt>> IN
  /\ ver[i].pc = "write"
  /\ pay' = [pay EXCEPT ![p].id = ver[i].id,
                        ![p].status = IF ver[i].seen = "CREATED" THEN "AUTHORIZED" ELSE @]
  /\ ver' = [ver EXCEPT ![i] = NotVerifying]
  /\ UNCHANGED <<authVars, shopVars, order, checkout, res, prov, inbox, req>>

(***************************************************************************)
(* RazorpayWebhookProcessor: one event at a time, each in a transaction.   *)
(* A handled event leaves the inbox, unless the process dies before the    *)
(* event is marked PROCESSED or, for a capture, the other of the two       *)
(* events that announce it (payment.captured, order.paid) is still to      *)
(* come.  An event whose handler throws is tried again (no step) until its *)
(* attempts are spent.                                                     *)
(***************************************************************************)
Handled(e) ==
  \/ inbox' = inbox \ {e}
  \/ (e.kind = "captured" \/ Faults) /\ UNCHANGED inbox

(* assertProviderIdentifiers                                               *)
SameProviderPayment(e) == pay[e.pay].id \in {0, e.id}

applyAuthorized(e) ==
  /\ e.kind = "authorized"
  /\ SameProviderPayment(e)
  /\ pay' = [pay EXCEPT ![e.pay] =
               IF @.status = "CAPTURED" THEN @
               ELSE [@ EXCEPT !.status = "AUTHORIZED", !.id = e.id]]
  /\ Handled(e)
  /\ UNCHANGED <<authVars, shopVars, order, checkout, res, prov, req, ver>>

(* Slips: the capture asks for no reservation; nor for a unit.             *)
SlipNoReservation(i) ==
  /\ stock > 0
  /\ bound[i] = "grant" => grant[i].status = "ACTIVE"

SlipUnreserved(i) == bound[i] = "grant" => grant[i].status = "ACTIVE"

(* What a first capture needs: a reservation attached to the order, a unit *)
(* in stock and, if the intent is bound to a one-time authorization, that  *)
(* it can be consumed.                                                     *)
Capturable(i) ==
  /\ Held(i) /\ res[i].attached
  /\ stock > 0
  /\ bound[i] = "grant" => grant[i].status = "ACTIVE"

(* Slip: the reservation is left ACTIVE.                                   *)
SlipCapturedUnconverted(e) ==
  LET i == e.pay[1] IN
  /\ e.kind = "captured"
  /\ SameProviderPayment(e)
  /\ pay[e.pay].status # "CAPTURED"
  /\ Capturable(i)
  /\ stock' = stock - 1
  /\ pay' = [pay EXCEPT ![e.pay].status = "CAPTURED", ![e.pay].id = e.id]
  /\ order' = [order EXCEPT ![i].status = "CONFIRMED"]
  /\ status' = [status EXCEPT ![i] = IF @ = "PAYMENT_PROCESSING" THEN "COMPLETED" ELSE @]
  /\ grant' = IF bound[i] = "grant" THEN [grant EXCEPT ![i].status = "CONSUMED"] ELSE grant
  /\ Handled(e)
  /\ UNCHANGED <<bound, price, version, checkout, res, prov, req, ver>>

applyCaptured(e) ==
  LET i == e.pay[1] IN
  /\ e.kind = "captured"
  /\ SameProviderPayment(e)
  /\ pay[e.pay].status # "CAPTURED"
  /\ Capturable(i)
  /\ stock' = stock - 1
  /\ res' = [res EXCEPT ![i] = Closed("CONVERTED")]
  /\ pay' = [pay EXCEPT ![e.pay].status = "CAPTURED", ![e.pay].id = e.id]
  /\ order' = [order EXCEPT ![i].status = "CONFIRMED"]
  /\ status' = [status EXCEPT ![i] = IF @ = "PAYMENT_PROCESSING" THEN "COMPLETED" ELSE @]
  /\ grant' = IF bound[i] = "grant" THEN [grant EXCEPT ![i].status = "CONSUMED"] ELSE grant
  /\ Handled(e)
  /\ UNCHANGED <<bound, price, version, checkout, prov, req, ver>>

ignoreDuplicateCapture(e) ==
  /\ e.kind = "captured"
  /\ SameProviderPayment(e)
  /\ pay[e.pay].status = "CAPTURED"
  /\ inbox' = inbox \ {e}
  /\ UNCHANGED <<authVars, shopVars, moneyVars, res, prov, req, ver>>

(* Slip: the intent is not re-opened.                                      *)
SlipFailed(e) ==
  LET i == e.pay[1] IN
  /\ e.kind = "failed"
  /\ SameProviderPayment(e)
  /\ pay[e.pay].status # "CAPTURED"
  /\ pay' = [pay EXCEPT ![e.pay].status = "FAILED", ![e.pay].id = e.id]
  /\ res' = [res EXCEPT ![i] = IF @.status = "ACTIVE" /\ @.attached
                               THEN Closed("RELEASED") ELSE @]
  /\ Handled(e)
  /\ UNCHANGED <<authVars, shopVars, order, checkout, prov, req, ver>>

(* A failure releases the reservation of the order and re-opens the intent *)
applyFailed(e) ==
  LET i == e.pay[1]
      ignored == pay[e.pay].status = "CAPTURED" IN
  /\ e.kind = "failed"
  /\ SameProviderPayment(e)
  /\ IF ignored THEN UNCHANGED <<pay, res, status>>
     ELSE /\ pay' = [pay EXCEPT ![e.pay].status = "FAILED", ![e.pay].id = e.id]
          /\ res' = [res EXCEPT ![i] = IF @.status = "ACTIVE" /\ @.attached
                                       THEN Closed("RELEASED") ELSE @]
          /\ status' = [status EXCEPT ![i] =
                          IF @ = "PAYMENT_PROCESSING" THEN "APPROVED" ELSE @]
  /\ Handled(e)
  /\ UNCHANGED <<bound, grant, shopVars, order, checkout, prov, req, ver>>

(* The handler throws: the identifiers differ or the capture cannot be     *)
(* applied.  After five attempts the event is left FAILED.                 *)
Throws(e) ==
  \/ ~SameProviderPayment(e)
  \/ e.kind = "captured" /\ pay[e.pay].status # "CAPTURED" /\ ~Capturable(e.pay[1])

GiveUp(e) ==
  /\ Throws(e)
  /\ inbox' = inbox \ {e}
  /\ UNCHANGED <<authVars, shopVars, moneyVars, res, prov, req, ver>>

ProcessEvent(e) ==
  \/ applyAuthorized(e) \/ applyCaptured(e) \/ ignoreDuplicateCapture(e) \/ applyFailed(e)

(***************************************************************************)
(* The surroundings: the price, the buyer's approval, time, the demo.      *)
(***************************************************************************)

(* setGoldenPrice, or any other change of the row: the trigger             *)
(* bump_product_variant_version counts the versions.  Bound: MaxVersion,   *)
(* of which the last is kept for the demo reset where there is one.        *)
ChangePrice(p) ==
  /\ p # price
  /\ version < IF Production THEN MaxVersion ELSE MaxVersion - 1
  /\ price' = p
  /\ version' = version + 1
  /\ UNCHANGED <<authVars, stock, moneyVars, res, prov, inbox, req, ver>>

(* ApprovalService.approve run to its end: a fresh quote at the current    *)
(* price, a one-time authorization for exactly that amount.  Bound: one    *)
(* approval per intent.                                                    *)
BuyerApproves(i) ==
  /\ status[i] = "AWAITING_APPROVAL"
  /\ grant[i].status = "NONE"
  /\ price > Limit
  /\ Available(i) >= 1
  /\ status' = [status EXCEPT ![i] = "APPROVED"]
  /\ grant' = [grant EXCEPT ![i] = [status |-> "ACTIVE", amount |-> price, lapsed |-> FALSE]]
  /\ bound' = [bound EXCEPT ![i] = "grant"]
  /\ req' = Superseded(i)
  /\ UNCHANGED <<shopVars, moneyVars, res, prov, inbox, ver>>

ReservationLapses(i) ==
  /\ Lapses
  /\ Held(i) /\ ~res[i].lapsed
  /\ res' = [res EXCEPT ![i].lapsed = TRUE]
  /\ UNCHANGED <<authVars, shopVars, moneyVars, prov, inbox, req, ver>>

GrantLapses(i) ==
  /\ Lapses
  /\ GrantUsable(i)
  /\ grant' = [grant EXCEPT ![i].lapsed = TRUE]
  /\ UNCHANGED <<status, bound, shopVars, moneyVars, res, prov, inbox, req, ver>>

(* DemoService.reset: one transaction over everything that is open.        *)
OpenIntent == {"RECEIVED", "RESOLVING", "QUOTED", "POLICY_CHECK", "APPROVED",
               "AWAITING_APPROVAL", "PAYMENT_PROCESSING"}

DemoReset ==
  /\ ~Production
  /\ price = BaselinePrice \/ version < MaxVersion
  /\ res' = [i \in Intents |-> IF Held(i) THEN Closed("RELEASED") ELSE res[i]]
  /\ pay' = [p \in Payments |-> IF pay[p].status \in {"CREATED", "AUTHORIZED"}
                                THEN [pay[p] EXCEPT !.status = "FAILED"] ELSE pay[p]]
  /\ order' = [i \in Intents |-> IF order[i].status = "PENDING_PAYMENT"
                                 THEN [order[i] EXCEPT !.status = "CANCELED"] ELSE order[i]]
  /\ grant' = [i \in Intents |-> IF grant[i].status = "ACTIVE"
                                 THEN [grant[i] EXCEPT !.status = "REVOKED"] ELSE grant[i]]
  /\ status' = [i \in Intents |-> IF status[i] \in OpenIntent THEN "CANCELED" ELSE status[i]]
  /\ price' = BaselinePrice
  /\ version' = IF price = BaselinePrice THEN version ELSE version + 1
  /\ stock' = InitialStock
  /\ UNCHANGED <<bound, checkout, prov, inbox, req, ver>>

(***************************************************************************)
(* The specification.  An intent enters as IntentOrchestrationService      *)
(* leaves it: APPROVED, or AWAITING_APPROVAL if the price is above Limit.  *)
(***************************************************************************)
Init ==
  /\ status = [i \in Intents |-> IF BaselinePrice <= Limit THEN "APPROVED"
                                                           ELSE "AWAITING_APPROVAL"]
  /\ bound = [i \in Intents |-> "standing"]
  /\ grant = [i \in Intents |-> [status |-> "NONE", amount |-> 0, lapsed |-> FALSE]]
  /\ price = BaselinePrice
  /\ version = 1
  /\ stock = InitialStock
  /\ res = [i \in Intents |-> NoReservation]
  /\ order = [i \in Intents |-> [status |-> "NONE", total |-> 0]]
  /\ pay = [p \in Payments |-> [status |-> "NONE", amount |-> 0, id |-> 0]]
  /\ checkout = {}
  /\ prov = [p \in Payments |-> [id |-> 0, status |-> "none"]]
  /\ inbox = {}
  /\ req = [w \in Workers |-> Idle]
  /\ ver = [i \in Intents |-> NotVerifying]

RequestStep ==
  \E w \in Workers :
    \/ \E i \in Intents : Execute(w, i)
    \/ ExecuteStep(w)
    \/ QuoteExpires(w) \/ Abandon(w) \/ StatementFails(w)

BuyerStep ==
  \/ \E p \in Payments : VerifyRead(p)
  \/ \E i \in Intents : VerifyWrite(i) \/ BuyerApproves(i)

ProcessorStep == \E e \in inbox : ProcessEvent(e) \/ GiveUp(e)

SurroundingStep ==
  \/ \E p \in Prices : ChangePrice(p)
  \/ \E i \in Intents : ReservationLapses(i) \/ GrantLapses(i)
  \/ DemoReset
  \/ Crash

Next == RequestStep \/ BuyerStep \/ ProviderStep \/ ProcessorStep \/ SurroundingStep

Spec == Init /\ [][Next]_vars

(***************************************************************************)
(* Fairness.  The API goes on running a request it accepted, the processor *)
(* polls the inbox every 500 ms, and the provider captures or fails what   *)
(* it authorized.  The provider need not answer createOrder, which the API *)
(* awaits without a timeout.  Nobody has to execute, pay, verify, approve, *)
(* expire or crash.                                                        *)
(***************************************************************************)
Fairness ==
  /\ \A w \in Workers : WF_vars(~At(w, "create") /\ ExecuteStep(w))
  /\ \A e \in Events : WF_vars(e \in inbox /\ ProcessEvent(e))
  /\ \A p \in Payments : WF_vars(\E o \in {"captured", "failed"} : Settles(p, o))

FairSpec == Spec /\ Fairness

(***************************************************************************)
(* Properties.                                                             *)
(***************************************************************************)

(* Every variable has the shape of the row or request it stands for, and a *)
(* request past a step holds what that step gave it.                       *)
TypeOK ==
  /\ status \in [Intents -> IntentState]
  /\ bound \in [Intents -> {"standing", "grant"}]
  /\ grant \in [Intents -> GrantRow]
  /\ price \in Prices /\ version \in 1..MaxVersion /\ stock \in Nat
  /\ res \in [Intents -> ReservationRow]
  /\ order \in [Intents -> OrderRow]
  /\ pay \in [Payments -> PaymentRow]
  /\ checkout \subseteq Payments
  /\ prov \in [Payments -> ProviderPayment]
  /\ inbox \subseteq Events
  /\ req \in [Workers -> Request]
  /\ \A w \in Workers : (req[w].pc # "idle" => req[w].intent \in Intents)
                       /\ (req[w].pc \in Attempting => req[w].attempt \in Attempts)
  /\ ver \in [Intents -> Verification]

Sold == {i \in Intents : order[i].status = "CONFIRMED"}

(* Every confirmed order took exactly one unit out of the stock, and no    *)
(* unit left the stock otherwise, however captures are duplicated, late or *)
(* reprocessed (applyCaptured).                                            *)
StockLedger == Production => stock + Cardinality(Sold) = InitialStock

(* A payment is recorded as CAPTURED only if the provider captured it and  *)
(* its order is CONFIRMED, and at most one payment of an order is recorded *)
(* so, however captures are late, duplicated or reprocessed                *)
(* (applyCaptured).  This is about the rows: two attempts whose failure    *)
(* the provider reported too early may both be captured there.             *)
CapturedOnce ==
  /\ \A p \in Payments : pay[p].status = "CAPTURED" =>
       p[1] \in Sold /\ prov[p].status = "captured"
  /\ \A p, q \in Payments :
       p[1] = q[1] /\ pay[p].status = "CAPTURED" /\ pay[q].status = "CAPTURED" => p = q

(* An order that was confirmed or canceled has no reservation left that a  *)
(* further capture could convert: what makes the ledger inductive.         *)
ClosedOrderHoldsNothing ==
  \A i \in Intents : order[i].status \in {"CONFIRMED", "CANCELED"} =>
    ~(Held(i) /\ res[i].attached)

(* An intent whose payment is in progress holds an ACTIVE reservation      *)
(* attached to its pending order: without it the capture of the buyer's    *)
(* money cannot be applied (applyCaptured throws).                         *)
ProcessingHoldsReservation ==
  \A i \in Intents : status[i] = "PAYMENT_PROCESSING" =>
    Held(i) /\ res[i].attached /\ order[i].status = "PENDING_PAYMENT"

(* An attempt in the buyer's hands is open until the provider's report of  *)
(* its failure has been handled: its money may still come.                 *)
Open(p) ==
  /\ p \in checkout
  /\ \/ prov[p].status # "failed"
     \/ \E e \in inbox : e.kind = "failed" /\ e.pay = p

(* The buyer never has two attempts to pay for one intent: an intent that  *)
(* may be executed again has none that is open (applyFailed re-opens the   *)
(* intent, but asks only that it is in payment, not in which attempt).     *)
OnePaymentOpen ==
  \A i \in Intents :
    /\ status[i] \in {"APPROVED", "AWAITING_APPROVAL"} =>
         \A k \in Attempts : ~Open(<<i, k>>)
    /\ status[i] = "PAYMENT_PROCESSING" =>
         \A k, l \in Attempts : Open(<<i, k>>) /\ Open(<<i, l>>) => k = l

(* The units promised: ACTIVE, unexpired reservations.                     *)
Promised == {i \in Intents : Held(i) /\ ~res[i].lapsed}
Overpromised == Cardinality(Promised) - stock

(* The unexpired reservations never promise more than is in stock.         *)
ReservationsCovered == Overpromised <= 0

(* No step promises more units than are in stock, with one exception: the  *)
(* capture of a payment whose reservation had outlived its time takes a    *)
(* unit that by then may be promised to another intent (reserve,           *)
(* applyCaptured).                                                         *)
OnlyLapsedOverpromises ==
  [][Overpromised' > 0 /\ Overpromised' > Overpromised =>
       \E i \in Intents :
         /\ order[i].status # "CONFIRMED" /\ order'[i].status = "CONFIRMED"
         /\ res[i].lapsed]_vars

(* A closed intent holds no reservation, except while the request that     *)
(* closed it is about to release it.                                       *)
ClosedHoldsNothing ==
  \A i \in Intents : status[i] \in TerminalState /\ Held(i) =>
    \E w \in Workers : req[w].intent = i /\ At(w, "release")

(* What the buyer paid is what the order says: a confirmed order's total   *)
(* is the amount of an attempt the provider captured.                      *)
PaidAsOrdered ==
  \A i \in Sold : \E k \in Attempts :
    /\ prov[<<i, k>>].status = "captured"
    /\ pay[<<i, k>>].amount = order[i].total

(* No attempt to charge more than the limit exists without the buyer's     *)
(* approval of exactly that amount, whatever changed between the quote,    *)
(* the decision and the creation of the attempt.                           *)
NoUnapprovedAttempt ==
  \A p \in Payments : pay[p].status # "NONE" /\ pay[p].amount > Limit =>
    grant[p[1]].status # "NONE" /\ grant[p[1]].amount = pay[p].amount

(* An order above the limit was backed by the buyer's one-time approval    *)
(* for exactly its total, and an approval is spent only by an order.       *)
ApprovalBacksOrder ==
  \A i \in Intents :
    /\ i \in Sold /\ order[i].total > Limit =>
         grant[i].status = "CONSUMED" /\ grant[i].amount = order[i].total
    /\ grant[i].status = "CONSUMED" => i \in Sold

(* The intent's status moves only along the table of PurchaseStateMachine, *)
(* although the processor, the approval and the demo reset write it        *)
(* without asking the machine.                                             *)
FollowsTable ==
  [][\A i \in Intents :
       status'[i] # status[i] => canTransition(status[i], status'[i])]_vars

(* An order that was confirmed or canceled stays so.                       *)
OrderOutcomeFinal ==
  [][\A i \in Intents :
       order[i].status \in {"CONFIRMED", "CANCELED"} => order'[i] = order[i]]_vars

(* A payment recorded as captured stays captured: the webhook is           *)
(* authoritative, nothing the checkout page reports later overrides it.    *)
CapturedIsFinal ==
  [][\A p \in Payments :
       pay[p].status = "CAPTURED" => pay'[p].status = "CAPTURED"]_vars

(* An execute request that fails because the intent is already in payment  *)
(* leaves that payment's reservation alone: "The purchase intent changed   *)
(* concurrently; the operation was not applied."                           *)
ConflictAppliesNothing ==
  [][\A w \in Workers :
       At(w, "failRelease") /\ status[req[w].intent] = "PAYMENT_PROCESSING" =>
         req'[w] = req[w] \/ res' = res]_vars

(* Every execute request ends with an answer or waits for the provider's,  *)
(* whatever it loses to others: createOrder, awaited without a timeout, is *)
(* the only place where it may stay.                                       *)
RequestEnds ==
  \A w \in Workers : ~At(w, "idle") ~> At(w, "idle") \/ At(w, "create")

(* Money the provider captured ends in a confirmed order.                  *)
PaidIsConfirmed ==
  \A p \in Payments : prov[p].status = "captured" ~> order[p[1]].status = "CONFIRMED"

(* Checkout sells as Sale promises.                                        *)
S == INSTANCE Sale WITH Orders <- Intents, sold <- Sold
SellsAsPromised == S!Spec

=============================================================================
