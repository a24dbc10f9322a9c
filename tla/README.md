# ProtocolBridge: TLA+ specifications

ProtocolBridge lets a software agent buy for a person: the agent states what it
wants, the API resolves and quotes it, checks it against a bounded authorization
and the merchant's policy, asks the buyer if it must, reserves the goods, opens a
checkout with the payment provider (Razorpay test mode) and confirms the order when
the provider's webhook says the money was captured. This directory models what may
go wrong in that chain when requests, the buyer, the provider's webhooks, timeouts
and crashes interleave; TLC checks it on small instances, TLAPS proves the main
results for all.

Paths are relative to the repository; `api/` stands for `apps/api/src/`.

## 1. The system

| component | code | state | operations |
|---|---|---|---|
| intent lifecycle | `packages/commerce-core`, `api/intents/intent-state.service.ts` | `PurchaseIntent.status` | table of transitions; compare-and-set transition |
| preparation | `api/intents/intent-orchestration.service.ts`, `api/catalog`, `packages/ai` | intent, items, quote | receive, resolve, quote, authorize, decide |
| quotes | `api/quote` | quotes with versions, one ACTIVE per intent, 120 s | fresh quote (supersedes) |
| authorization, policy | `packages/authorization`, `packages/policy-engine`, `api/authorization`, `api/policy` | authorizations, rules | choose and judge an authorization; ALLOW, AWAITING_APPROVAL, BLOCK |
| buyer approval | `api/approvals` | approval requests, one-time authorizations | create link, inspect, approve |
| payment execution | `api/payments/payment-execution.service.ts` | orders, payments | execute: re-quote, re-decide, bind, reserve, prepare attempt, provider order, transition |
| reservations | `api/inventory` | reservations, 15 min | reserve, release |
| checkout verification | `api/payments/checkout-verification.service.ts` | payment row | verify the buyer's signature |
| webhooks | `api/webhooks` | webhook events with attempts | ingest, drain, apply authorized / captured / failed |
| idempotency | `api/idempotency` | records per key | run once, replay, reclaim after 2 min |
| demo controls | `api/demo` | everything of the demo merchant | change price, reset |
| audit, auth, config, types, UI | `api/audit`, `packages/auth`, ... | log, keys | stateless or write-only |

All components share one PostgreSQL database and interact through its rows; nothing is
kept in memory but the `running` flag of the webhook processor. The API runs many
requests at once, each a sequence of transactions; the processor takes one event every
500 ms. `execute`, `approve`, `verify`, intent creation and the demo controls are wrapped
by idempotency; creating an approval link is not.

What is hard: two requests for one intent between whose transactions anything may
happen; values read before a transaction and used in it; provider events that are
duplicated, late, reordered or reprocessed after a crash; reservations, quotes and
authorizations that expire while something relies on them; partial failure inside
`execute`; an operator's reset in the middle. `PROJECT.json` lists each hazard at its
line, with the properties that cover it.

What makes the components correct: an order is sold once and takes exactly one unit; no unit
is promised twice but by a reservation that outlived its time; nothing above the limit is
charged without the buyer's approval of exactly that amount; a link is exchanged once, and
the exchange stands; what is charged is what the order says; an intent moves only along the
table, and out of preparation; what is final stays final; captured money becomes an order.

## 2. Modules

| module | models |
|---|---|
| `PurchaseStates` | states and transition table of an intent (pure) |
| `Sale` | what checkout promises of the goods: each order sold at most once, one unit each, never without stock |
| `Checkout` | the core: execution, reservations, verification, webhook effects, price changes, approval, expiry, demo reset, crashes |
| `MCCheckout` | instances of `Checkout` for TLC |
| `Checkout_proofs`, `CheckoutReservation_proofs`, `CheckoutPayment_proofs` | theorems about `Checkout`: the order and its payments; reservations; what the buyer's money buys |
| `WebhookInbox` | delivery of webhooks: deduplication, claim, attempts, marks, recovery at startup |
| `MCWebhookInbox`, `WebhookInbox_proofs` | its instances for TLC, its theorems |
| `OncePerKey` | what an idempotency key promises a client |
| `Idempotency` | `IdempotencyService.execute`, concurrent calls with one key |
| `MCIdempotency`, `Idempotency_proofs` | its instances for TLC, its theorems |
| `Decision` | the authorization and policy engines, as operators (pure) |
| `Decision_proofs` | what the engines decide, stated without their reasons |
| `Preparation` | `prepare`: from a prompt to APPROVED, AWAITING_APPROVAL or BLOCKED |
| `Approval` | extends `Preparation`: links, concurrent approvals, and what becomes of the intent |
| `MCApproval`, `Approval_proofs`, `ApprovalRace_proofs` | its instances for TLC, its theorems: types and consent; races |

### Checkout

One variant, one unit per intent, one payment provider. State and code:

- `status`, `bound`, `grant`: `PurchaseIntent.status`, `.authorizationId`, and the
  ONE_TIME `Authorization` an approval made for the intent. The standing authorization
  is the constant `Limit`.
- `price`, `version`, `stock`: the `ProductVariant` row; `ChangePrice` bumps the version
  as the trigger `bump_product_variant_version` does.
- `res`: the intent's reservation that is or was last ACTIVE. `lapsed` says that
  `expiresAt` has passed; `attached` that `orderId` is set; `known` which requests hold
  its id (`prepareInternalAttempt` updates by id).
- `order`, `pay`: the `Order` and its `Payment` rows, one per attempt; `id` is
  `razorpayPaymentId` (0: null).
- `checkout`, `prov`: provider side; which attempts' provider orders reached the buyer and
  the latest payment on each. `inbox`: verified events not yet PROCESSED or given up.
- `req`: the execute requests, each with the step it will take next and its local
  variables (the quote, the decision, the attempt). `ver`: the verify requests.

A step is a transaction. `execute` becomes `Execute` (read and check, lines 50-74),
`RefreshQuote` (83), `Decide` (96-112), `Refuse` and `ReleaseRefused` (two transactions,
123-130), `BindAuthorization` (140), `Reserve`/`ReserveRefused` (159),
`PrepareInternalAttempt`/`PrepareRefused` (164), `CreateProviderOrder` (173),
`StartProcessing` (194), `AnswerCheckout` (201-230), and the catch block `FailPayment`,
`FailRelease` (232-240). `Abandon` is a request that ends outside the try block on an error
of the database or an unconfigured provider; with `Faults` also between the transactions of
a refusal and in the catch block. `StatementFails` is an error inside the try block.
`verify` is `VerifyRead` (46-83) and `VerifyWrite` (85). The processor's handlers are one
transaction each; `Handled` keeps the event in the inbox when the other event of a capture
is still to come, or when the process dies before the mark PROCESSED; a handler that throws
changes nothing, and `GiveUp` is its fifth time.

The authorization and policy engines appear as `Outcomes`: what they can say of an amount.
They may BLOCK for reasons outside the model, so BLOCK is always possible; they ALLOW only
up to `Limit` or exactly the amount of a usable grant. `BuyerApproves` is an approval that
ran to its end. One that fails to finalize may leave a claimed authorization behind, ACTIVE
and unbound, which a later execute finds: that is in `Approval`, not here.

### WebhookInbox

`row` is the `WebhookEvent` table by event id (NONE: no row) and `arrival` its order by
`receivedAt`; `stale` says that `updatedAt` is more than five minutes ago. `job` is what
the processor of each API instance is doing: the event `findFirst` gave it, with the status
and attempts it saw. `acked` is what the provider knows, `commits` a history of the effects.
Each statement of `drainOnce` is a step: `Find` (69-77), `Claim` (78-82), `Handle` (86: the
handler's transaction commits or it throws), `MarkProcessed` (87), `MarkFailed` (93);
`MarkFails` is the write of PROCESSED failing into the catch block. `ingest` answers a
duplicate like a first delivery, and the answer may be lost. `Crash` is the death of an
instance, also by a failed statement outside the inner `try`: `void this.drainOnce()` leaves
the rejection unhandled. `onModuleInit` takes back what is PROCESSING and stale.

What `Checkout` keeps as an inbox with duplicates and retries is this module: `Handled`
and `GiveUp` there stand for the marks here, and `CommitsWithinAttempts` is why a finite
number of repetitions is all a handler has to stand. Ties of `receivedAt`, and rows whose
default timestamp disagrees with the order of their commits, are left out.

### Idempotency and OncePerKey

`record` is the one `IdempotencyRecord` of a key, `stale` says that `lockedAt` is more than
two minutes ago; `call` has each call's next statement and `answer` what it got. `Create`
(61), `Read` (78-111), `Reclaim` (113-127), `Operation` (131), `Complete` (132), `Fail`
(149) are the statements; `CompleteFails` is the write of COMPLETED failing into the catch
block, without having committed; `FailFails` the write of FAILED failing; `Die` the death of
the process. The operation is opaque: it takes effect and answers, or throws. That a thrown
operation may have changed something is the business of the module of that operation.
A result carries the call that ran it, so that two runs never look alike.

`OncePerKey` is the promise: the first call takes the key for its body, the key gets at most
one outcome, a call with that body is answered with it or refused. `Idempotency` implements
it with `body`, `outcome` the record's and `reply` the answers.

### Decision

The engines as operators on the rows they look at: `authorizationReasons` and
`policyReasons` collect the reasons of `DeterministicAuthorizationEngine` and
`DeterministicPolicyEngine`, `Outcome` turns them into ALLOW, AWAITING_APPROVAL or BLOCK,
`Found` is the query of `AuthorizationService` with its order. An expiry date is the bit
`live`; amounts, quantities and the five boundaries are compared as in the code. Left out:
the merchant (every query and row has the same), several lines (a quote has one), the order
and repetition of reasons.

### Preparation

One intent of one unit. `status`, `bound` (`authorizationId` as an index of `auths`, 0 for
null), `auths` the `Authorization` table in the order of creation (row 1 is the standing
one), `prep` the request with its next step and local variables. Each statement of
`prepare` that others can see is a step: `Receive` (65), `StartResolving` (86),
`resolveVariant` (96-149), `createFreshQuote` (157), `MarkQuoted` (170), `Authorize`
(176-201), `EvaluatePolicy` (202), `FinishDecision` (223), `StoreAuthorization` (230-242),
and the catch block `FailPreparation` (244). `StatementThrows` is any statement or audit
append failing: inside the try block it leads to the catch block; before it (65-93) and in
the catch block itself nobody catches the error, the request is over (`"uncaught"`) and the
process lives on. `Die` is the death of the process. `transition` is the compare-and-set of
`IntentStateService`. The price of the variant and its free units change at any moment, so a
quote finds any price, and `Verdicts` includes what the engines say if there is no unit, the
quote is too old or the agent suspended. The intent's id is in no answer before that of
`prepare`, so that until then only `prepare` itself and the demo reset touch the intent.

### Approval

`request` is the intent's `ApprovalRequest` row. A link is what its token signs that differs
between links: the amount and the expiry. `linking` and `approving` are the calls of
`createLink` and `approve`, any number at once. `createLink` is `CreateLink` (52-97: read;
a live PENDING link is issued again, no step), `QuoteLink` (100), `DecideLink` (106-128),
`SaveLink` (143: the upsert). `approve` is `Approve` (228-243), `Claim` or `Resume` (247:
the first claim creates the authorization, whose id is made from the link; a later one finds
it), `RefreshQuote` (385), `Revalidate` (392-421), then `Revoke` (422) or `Finalize` (449).
A refused claim or finalization, an error and the death of the process leave the rows alone:
`AbandonLink`, `AbandonApproval`. Old links need no memory: a token whose hash is not the
row's is refused, and a call that is past that check keeps its link. `consented` is the
history of the amounts buyers asked to approve.

`Execute`, `PaymentFails` and `PaymentCaptured` are what `Checkout` does, reduced to the
status, the binding and the authorization: an execute is one step here, from its quote to
its transition. In turn `BuyerApproves` of `Checkout` is an approval here that ran to
`Finalize`.

Definitions whose name starts with `Slip` are not the code: each is a definition with a
plausible bug. A run in which the definition is replaced by its slip must report the
property `PROJECT.json` pairs it with; this is how we know the property can fail.

## 3. Runs

`cd tla; tlc -config <cfg> <module>`. All runs are exhaustive within their bounds.
They allow deadlock: a shop in which every intent is closed, an inbox without due events
and calls that were all answered may stop.

| run | instance | shows |
|---|---|---|
| `checkout_single` | 1 intent, 1 request at a time, prices 1 and 2 over a limit of 1, 3 versions, 2 attempts, fair scheduling | `OnePaymentOpen`, `ProcessingHoldsReservation`, `PaidAsOrdered`, `ApprovalBacksOrder`; `RequestEnds`, `PaidIsConfirmed` |
| `checkout_race` | 1 intent, 2 concurrent requests, 3 versions, demo reset at any moment, expiry, 1 attempt, 2 provider payments | `NoUnapprovedAttempt`, `ClosedHoldsNothing`, `FollowsTable`, `OrderOutcomeFinal` |
| `checkout_crash` | 1 intent, crashes and database failures at every step, reprocessed events, late captures, 2 attempts, 2 units | `StockLedger`, `ClosedOrderHoldsNothing`, `CapturedOnce` |
| `checkout_contention` | 2 intents, 2 requests, 1 unit, reservations that may outlive their time, provider failures | `TypeOK`; `OnlyLapsedOverpromises`, `SellsAsPromised` (refinement of `Sale`) |
| `checkout_verify` | 1 intent, 1 attempt | violates `CapturedIsFinal` |
| `checkout_conflict` | 1 intent, 2 concurrent requests | violates `ConflictAppliesNothing` |
| `inbox_takeover` | 2 events, 2 instances, 3 attempts, crashes, handlers within five minutes | `TypeOK`, `OneWorker`, `CommitsWithinAttempts`, `ProcessedIsFinal` |
| `inbox_live` | 3 events, 1 instance, 3 attempts, fair scheduling, no crash | `InOrder`, `AcceptedIsSettled` |
| `idempotency_crash` | 4 calls, the last with another body, calls die and statements fail, operations within two minutes | `TypeOK`, `OneRunner`, `RunsOneBody`, `OneOutcome` (refinement of `OncePerKey`) |
| `idempotency_slow` | 4 calls, nothing fails, operations of any length | violates `TakesEffectOnce` |
| `approval_race` | 1 call of `createLink`, 2 of `approve` at once, any number one after the other; prices 1 to 3, limit 1, links that expire, the seeded rules, fair preparation | `TypeOK`, `AllowsOnlyConsented`, `ClaimIsResumable`, `ExchangedOnce`, `KnownApprovalIsBound`; `FollowsTableButReset`, `PreparationEnds` |
| `approval_loser` | the same with prices 1 and 2 | violates `ExchangeStands` |

Bounds. Two requests are enough for every race of the code: each conflict is between a
request and one other writer of the same rows. Two prices, one on each side of the limit, and
three versions let the price change and change back between any two steps. With the demo
reset the last version is kept for it (`ChangePrice`), so that it is possible in every state,
also after a price change and an approval at the new price. Two attempts let an event of the
first meet the second. One or two units make the last unit the normal case. `MaxTries` bounds
provider payments per attempt. `BuyerApproves` is bounded to one approval per intent: the
code lets the buyer approve again once the first approval has lapsed or been revoked, and
`Approval` has any number of them; but there an execute is one step, so that concurrent
requests together with a second approval are in neither module. The properties of `Checkout`
about approvals (`NoUnapprovedAttempt`, `ApprovalBacksOrder`, `PaidAsOrdered`), and their
theorems, are within that bound. Three attempts (the code: five) let an event be taken over
twice; the theorems cover every number. Three calls with the body of the key are the one that
took it, one that reclaims and one that meets both. In `approval_race` one price is within
the limit and two are above it, so that a link can be outdated by another that also needs
approval; one tick with links that live one tick lets a link expire between any two steps.
Two calls of `createLink` at once are beyond this run; the theorems cover any number of
calls.

Conditions. Some properties hold only in a regime; the constants of their run and the
assumptions of their theorem say which. That the promises never exceed the stock
(`ReservationsCovered`) needs that no reservation lapses: a lapsed ACTIVE one is still
converted by a capture, while others already count on its unit. `OnlyLapsedOverpromises`
needs nothing: it says that this is the only way. `OnePaymentOpen`,
`ProcessingHoldsReservation` and `PaidAsOrdered` need calm weather (`Calm`), and each part of
it:

- one request per intent: a second one releases the reservation of the first and adds an
  attempt to its order (`checkout_conflict`);
- no faults: a failure event applied again after a crash re-opens the intent while a later
  attempt is open, and a request that dies after its transition leaves the intent in payment
  without a checkout;
- no late capture: otherwise an attempt reported failed may be paid after the next one was
  prepared;
- one provider payment per attempt: otherwise `verify`, which compares the provider's id
  before its transaction, binds a second payment's id to a row whose first one was captured.

`ApprovalBacksOrder` needs one request per intent, and not faults together with lapses: a
crash between the attempt and its start leaves a reservation attached to the approved order;
the approval lapses, a later request binds the intent to the standing authorization, and a
capture of an old attempt finds the attached reservation. `StockLedger`, `SellsAsPromised`,
`CapturedOnce`, `NoUnapprovedAttempt` and `FollowsTable` need none of this: see the theorems.
`CapturedOnce` is about the payment rows: with late captures the provider may capture two
attempts of an order, and only one is recorded; the capture of the other throws until its
tries are spent. `StockLedger` and `SellsAsPromised` are about `Production`: the demo reset
refills the stock. `OneWorker` and `ProcessedIsFinal` need handlers within five minutes
(`SlowHandlers` FALSE): otherwise a start takes back an event that is still being handled,
and the late mark overwrites the other's. `OneRunner` and `OneOutcome` need operations within
two minutes (`Slow` FALSE). `CommitsWithinAttempts` and `RunsOneBody` need neither, as their
theorems say. That a key takes effect once (`TakesEffectOnce`) is more than the code gives:
it needs operations within two minutes, and that no call dies between the effect and its
record, which a retry then reclaims.

Fairness (`FairSpec`). Weak fairness of each request's next step (the API runs what it
accepted) except the answer to `createOrder`: the provider is awaited without a timeout, so a
request may stay at `CreateProviderOrder`, and `RequestEnds` says that it may stay nowhere
else. Weak fairness of processing each event that can be processed (the processor polls every
500 ms and retries), and of the provider settling what it authorized. Nothing is assumed of
agents, buyers, expiry or crashes. In `WebhookInbox`, weak fairness of each processor (the
timer calls it every 500 ms) and of starting an instance that is down; the provider need not
deliver anything. `InOrder` is for one instance: with two, a younger event may overtake an
older one that is being handled. In `Approval`, weak fairness of the next step of `prepare`
(the API runs what it accepted; the one call that leaves it, to the language model, ends by
the default timeout of the OpenAI client or in the deterministic fallback), and of nothing
else. `PreparationEnds` names its two exceptions: the death of the process, and an error that
nothing catches, which leaves the intent RECEIVED if it is thrown before the try block, and
where it was if it is thrown in the catch block.

### What the four violations show

- `checkout_verify`. `verify` reads the payment outside its transaction and writes
  AUTHORIZED if it *was* CREATED. A capture applied in between is overwritten, so that a
  CAPTURED payment of a CONFIRMED order is AUTHORIZED, against the README's "a verified
  Razorpay webhook is authoritative"; a failure event that follows marks it FAILED.
- `checkout_conflict`. Of two execute requests with different idempotency keys both pass
  the check of the status; the loser of the transition runs the catch block, which
  releases *every* ACTIVE reservation of the intent, the winner's too. The winner's buyer
  can pay, and the capture then finds no reservation.
- `idempotency_slow`. A record IN_PROGRESS for two minutes is taken for abandoned, though its
  operation may only be waiting for the provider, a call without a timeout of its own. The
  next call with the key starts the operation again: "Idempotent payment and approval
  mutations" (README) holds up to two minutes. For execute this is the race of
  `checkout_conflict` from one key.
- `approval_loser`. Two calls of `approve` with one link and different idempotency keys both
  pass the claim, the second by resuming it. The price changes for a moment; the call that
  re-quotes at the other price is to revoke, the other finalizes first. The revocation names
  the authorization by its id and does not ask whether the intent is bound to it by now: the
  buyer was answered APPROVED, and the authorization is REVOKED. "Can be exchanged once"
  (README) fails in that the second exchange undoes the first. The next execute asks the
  buyer again; a payment already in progress would find nothing to consume.

## 4. Proofs

`tlapm <module>_proofs.tla` checks the theorems of a module, for all values of the
constants that satisfy its `ConstantsAssumption`. A theorem that holds only in a regime
assumes it; the others hold with or without crashes, lapses and late captures, for any
number of intents, requests, attempts and prices.

`Checkout_proofs`:

- `TypeCorrect`: `TypeOK` is inductive as it stands, because it also says that a request
  past a step holds an intent and an attempt.
- `LedgerBalances` (`StockLedger`), `OutcomeFinal` (`OrderOutcomeFinal`). Induction needs to
  know why a second capture of an order cannot apply: `ClosedOrderHoldsNothing` (a closed
  order has no ACTIVE reservation attached). `LedgerInv == TypeOK /\ ClosedOrderHoldsNothing`
  is inductive: only `prepareInternalAttempt` attaches, and only to an order that is not
  closed; every step that closes an order also converts or releases.
- `ClosedOrderReleased` (`ClosedOrderHoldsNothing`) is half of that invariant.
- `ImplementsSale`: with `LedgerInv`, the capture is the only step that changes stock or
  the confirmed orders in production, and it is `Sale!Sell`.
- `OneCapturePerOrder` (`CapturedOnce`): a payment becomes CAPTURED only together with
  its order becoming CONFIRMED, and an order becomes CONFIRMED once. That the provider
  captured it needs `CapturesReported`: a capture to be processed was one at the provider,
  where a capture is final (`CaptureStays`).
- `AttemptsApproved` (`NoUnapprovedAttempt`): the invariant follows the amount from the
  decision to the attempt: a request past `Decide` holds a price within the limit or equal
  to the intent's grant, and a grant's amount never changes once it exists.
- `TableFollowed` (`FollowsTable`): each writer of the status, also those that do not ask
  the state machine, changes it along the table.

`CheckoutReservation_proofs`:

- `ClosedReleased` (`ClosedHoldsNothing`) assumes `~Faults`: the code closes an intent in one
  transaction and releases its reservation in another, and a process that dies in between
  leaves it to the expiry. Only `reserve` makes a reservation ACTIVE, and only for an intent
  that is APPROVED then; whoever closes an intent releases in the same step, or is the
  refusal about to release.
- `OverpromisedByLapse` (`OnlyLapsedOverpromises`), in every regime. `PromiseStep` lists what
  a step does to the unexpired reservations: it adds none, or is `reserve` while a unit is
  available, or the capture, which takes the unit together with its promise, or the reset,
  which empties both; or it is the capture of a reservation that lapsed, and then the unit
  may be one that was promised to another intent. That the capture confirms an order which
  was not confirmed before needs `LedgerInv`.
- `PromisesCovered` (`ReservationsCovered`) assumes `~Lapses` and follows from the same lemma
  (`PromisesKept`), as then no reservation is late (`InTime`). No run checks this property:
  `checkout_contention` has lapses.

`CheckoutPayment_proofs`. All of it is about clients that have one execute request per intent
in flight (`OneRequest`). `OneRequestInv` says what this gives: a request is alone with its
intent (`Alone`), so the intent keeps the status the request found, unless the demo is reset
(`StatusOfRequest`). A request moves along `Flow`, and every other lemma about requests is
read off it. The first three theorems assume `Calm`:

- `OneOpenAttempt` (`OnePaymentOpen`). That a failed webhook re-opens the intent whichever
  attempt it is about is harmless because `Reported` holds: a capture or failure still to be
  processed is of an attempt that is open, and there is one. An attempt opens only with the
  answer, when the intent is in payment (`Answering`), and an open one is closed by handling
  its failure (`FailureCloses`), the step that re-opens the intent.
- `ReservationOutlastsPayment` (`ProcessingHoldsReservation`). `BackedStays` lists what parts
  an order from its reservation: a request's release, a new reservation for one that lapsed,
  a capture, a failure, the reset. None happens between the attempt and its payment, and
  expiry is not among them: nothing sweeps reservations.
- `PaidAmount` (`PaidAsOrdered`). A new attempt overwrites the order's total. It is made only
  while no attempt is open, so that an open one always charges the total (`OpenAsOrdered`).
- `OrdersApproved` (`ApprovalBacksOrder`) assumes only that not both `Faults` and `Lapses`;
  late captures and several payments per attempt are allowed. The order above the limit
  that holds a reservation is the one the intent's grant approved (`BackedByGrant`). What could
  break it is binding the intent to another authorization afterwards. Without faults an
  attached reservation belongs to a request about to start or to give up (`Leftover`), so
  that nobody binds; without lapses (`GrantsInTime`) a usable grant is never passed over for
  the standing authorization (`AllowedBy`).

`Idempotency_proofs`, for any number of calls and bodies:

- `TypeCorrect`, and `OneBodyRuns` (`RunsOneBody`) without any condition: the strengthening
  is that a call past `Read` into the reclaim has the record's body, and that a record's body
  never changes.
- `OneRunnerAtATime` (`OneRunner`) and `ImplementsOncePerKey` (`OneOutcome`) assume `~Slow`.
  The invariant is the lock: there is at most one running call, and while there is one the
  record is IN_PROGRESS, young and without a result; only a call that ended has an answer.

`WebhookInbox_proofs`, for any number of events, instances and attempts:

- `TypeCorrect`: the bound on `attempts` needs that the row a processor claims is as it was
  found, and that it was found due.
- `AttemptsBoundCommits` (`CommitsWithinAttempts`), also with slow handlers: commits and
  processors about to commit together never exceed the attempts, since `Claim` charges one
  before it adds a processor.
- `OneWorkerPerEvent` (`OneWorker`) and `ProcessedStays` (`ProcessedIsFinal`) assume
  `~SlowHandlers`. The invariant: the event a processor works on is PROCESSING and too
  young to be taken back.

- `AppliedInOrder` (`InOrder`) assumes one instance (`\A p, q \in Processors : p = q`), which
  may crash and recover. The invariant `OrderInv`: the event that was found is older than
  every one that is due, until it is handled. New events are the youngest
  (`IngestIsYoungest`), and with one instance nothing becomes due between finding and
  handling: that takes a mark, or a start after a crash.

`Decision_proofs`, for any rows, quotes and rules:

- `AllowIffAuthorized`: the reference definition of ALLOW. An authorization in force covers
  the purchase, everything is in order, and the amount is within every limit, or it is a
  one-time authorization for exactly this quote.
- `AskedOnlyForAmount`: AWAITING_APPROVAL means that only an amount is exceeded, and that
  there is a standing authorization in force; without any the engines refuse.
- `ApprovalSuffices`: with the authorization an approval creates, what was asked for is
  allowed. Subscriptions are excluded: an approval is made with `subscriptionsAllowed`
  false, so that one for a subscription would be refused in the revalidation.

`Approval_proofs` and `ApprovalRace_proofs`, for any number of calls of `createLink` and
`approve`, any prices, limit, budget and rules:

- `TypeCorrect`, with the invariant `TypeInv`: links are for prices; the first row stays the
  standing authorization, every other was made for an amount in `consented`; rows are
  rewritten (`Rewritten`) but keep what identifies them.
- `ConsentRequired` (`AllowsOnlyConsented`): from `TypeInv` and `AllowNeeds` of
  `Decision_proofs`. No assumption about which calls run to their end is needed: an
  authorization left behind by a failed finalization is still for a consented amount.
- `LinkExchangedOnce` (`ExchangedOnce`): rewriting keeps rows distinct, and the first claim
  asks that no row is of the link.
- `KnownApprovalBound` (`KnownApprovalIsBound`): the invariant is `Prepared`: before the
  answer nobody else has touched the intent, and an ALLOW that is about to be written has an
  authorization, since without one the engines refuse.
- `ClaimResumable` (`ClaimIsResumable`): inductive with `Prepared`. The revocation may hit
  another link's row, but takes APPROVED from it together with what it revokes.
- `MovesByTable` (`FollowsTableButReset`): each writer of the status, with the reset's
  cancellation of what is in preparation as the one move the table does not have.

Only model-checked: liveness (`RequestEnds`, `PaidIsConfirmed`, `AcceptedIsSettled`,
`PreparationEnds`), which the prover does not treat. Every safety property of a passing run
is a theorem.

## 5. Plan and what is not modelled

1. `PurchaseStates`, `Sale`, `Checkout`, its runs and proofs (done).
2. `WebhookInbox`, its runs and proofs (done).
3. `OncePerKey`, `Idempotency`, its runs and proofs (done).
4. `Decision`: the two engines as operators, and what they decide (done).
5. `Preparation` and `Approval`: their runs and proofs (done).
6. Proofs of the properties of `Checkout` that hold in a regime: `ReservationsCovered` and,
   without one, `OnlyLapsedOverpromises`; `OnePaymentOpen`, `ProcessingHoldsReservation`,
   `PaidAsOrdered`, `ApprovalBacksOrder` (done).
7. A weaker form of `PaidAsOrdered` and `ProcessingHoldsReservation` with crashes, that says
   what is left of them.

Not modelled:

- the audit log: append-only, read by nobody but a reader; where an append is part of a
  transaction its failure is the failure of the transaction;
- natural-language resolution: text to constraints, without state; `Preparation` has its
  outcome, a variant or an error;
- authentication, tenancy, roles and the arithmetic of signatures and tokens: stateless
  checks of cryptographic values. The models start behind them: a webhook is verified, a
  token is the link it was made from, every row is the same merchant's;
- configuration, type declarations, seed data, user interfaces;
- the provider's API beyond what the webhooks and the checkout show of it: external actions
  of `Checkout`;
- several variants or quantities above one: no two variants share a row that the properties
  are about.
