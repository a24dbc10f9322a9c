---------------------------- MODULE Preparation ----------------------------
(***************************************************************************)
(* POST /agent/intents, IntentOrchestrationService.prepare: from a prompt  *)
(* to an intent that is APPROVED, AWAITING_APPROVAL or BLOCKED, while      *)
(* prices and stock change, the demo is reset, statements fail and the     *)
(* process may die.                                                        *)
(*                                                                         *)
(* The module follows one intent of one unit.  A transaction is one step.  *)
(* The price and the free units of the variant change at any moment (demo  *)
(* controls, other intents): a transaction that reads them finds anything. *)
(* Idempotency runs prepare once per key, and the intent's id leaves the   *)
(* API only in the answer: nobody acts on the intent before it.            *)
(*                                                                         *)
(* A definition whose name begins with Slip is not the code: it is the     *)
(* definition after it with a plausible bug, which a property must notice. *)
(***************************************************************************)
EXTENDS Integers, Sequences, PurchaseStates, Decision

CONSTANTS
  Prices,   \* prices the variant may have, in minor units
  Limit,    \* amount of the standing MAX_AMOUNT authorization
  Budget,   \* constraints.maxAmountMinor, or Null
  Rules,    \* the merchant's enabled policy rules
  MaxTime   \* bound: how long the model looks

ASSUME PreparationAssumption ==
  /\ Prices \subseteq Nat /\ Limit \in Nat /\ Budget \in Nat \cup {Null}
  /\ Rules \subseteq Rule
  /\ MaxTime \in Nat

VARIABLES
  status,   \* PurchaseIntent.status, "NONE" before the row exists
  bound,    \* PurchaseIntent.authorizationId: a row of auths, 0 for null
  auths,    \* the Authorization table in the order of creation
  clock,    \* the time
  prep      \* the request that prepares the intent

preparationVars == <<status, bound, auths, clock, prep>>

Never == MaxTime + 1   \* 2099

AuthRow == [type : {"MAX_AMOUNT", "ONE_TIME"},
            status : {"ACTIVE", "CONSUMED", "REVOKED"}, max : Nat, expires : Nat]

Standing == [type |-> "MAX_AMOUNT", status |-> "ACTIVE", max |-> Limit, expires |-> Never]

(* The steps inside the try block, and those outside; how it may be over.  *)
Trying == {"catalog", "quote", "quoted", "authorize", "decide", "finish", "store"}
Outside == {"receive", "resolve", "catch"}
Over == {"answered", "ended", "uncaught", "dead"}
Request == [pc : Trying \cup Outside \cup Over,
            price : Prices \cup {0}, authorization : Nat,
            outcome : {"ALLOW", "AWAITING_APPROVAL", "BLOCK"}]

(***************************************************************************)
(* What the engines are given.  ask: the intent with its constraints.      *)
(***************************************************************************)
ask == [buyer |-> "buyer", agent |-> "agent", intent |-> "intent", variant |-> "variant",
        quantity |-> 1, subscription |-> FALSE, maxAmount |-> Budget, currency |-> "INR"]

Snapshot(k) ==
  LET one == auths[k].type = "ONE_TIME" IN
  IF k = 0 THEN Null ELSE
  [type |-> auths[k].type, status |-> auths[k].status, max |-> auths[k].max,
   live |-> auths[k].expires > clock, buyer |-> "buyer", agent |-> "agent",
   variant |-> IF one THEN "variant" ELSE Null,
   intent |-> IF one THEN "intent" ELSE Null,
   currency |-> "INR", maxQuantity |-> 1, subscriptions |-> FALSE,
   uses |-> IF one THEN (IF auths[k].status = "CONSUMED" THEN 0 ELSE 1) ELSE Null]

QuoteFor(total, fit) ==
  [live |-> fit, intent |-> "intent", variant |-> "variant", quantity |-> 1,
   available |-> IF fit THEN 1 ELSE 0, total |-> total, currency |-> "INR"]

(* AuthorizationService.evaluate: the authorization it finds.              *)
FoundNow == Found([k \in DOMAIN auths |-> Snapshot(k)], ask)

(* What policy says of a quote with the authorization found for it.  The   *)
(* quote may have found no unit or be too old, the agent be suspended:     *)
(* "fit" says that none of this is so.                                     *)
Verdicts(k, total) ==
  {Verdict(Snapshot(k), ask, QuoteFor(total, fit), fit, Rules) : fit \in BOOLEAN}

(***************************************************************************)
(* prepare.                                                                *)
(***************************************************************************)
At(pc) == prep.pc = pc
Goto(pc) == prep' = [prep EXCEPT !.pc = pc]
Answered == At("answered")

(* Locals are kept while the request runs.                                 *)
Fresh == [pc |-> "receive", price |-> 0, authorization |-> 0, outcome |-> "BLOCK"]
End(pc) == prep' = [Fresh EXCEPT !.pc = pc]

(* The row is created; requestId is unique.                                *)
Receive ==
  /\ At("receive")
  /\ status' = "RECEIVED"
  /\ Goto("resolve")
  /\ UNCHANGED <<bound, auths, clock>>

(* IntentStateService.transition: compare and set; a conflict throws.      *)
transition(from, to, next, conflict) ==
  /\ IF status = from THEN status' = to /\ Goto(next)
                      ELSE UNCHANGED status /\ End(conflict)
  /\ UNCHANGED <<bound, auths, clock>>

(* RECEIVED -> RESOLVING is outside the try block.                         *)
StartResolving == At("resolve") /\ transition("RECEIVED", "RESOLVING", "catalog", "ended")

(* The prompt is resolved, the cheapest active variant that matches it is  *)
(* found and stored as the intent's item, or there is none.                *)
resolveVariant ==
  /\ At("catalog")
  /\ Goto("quote") \/ End("catch")
  /\ UNCHANGED <<status, bound, auths, clock>>

createFreshQuote ==
  /\ At("quote")
  /\ \E p \in Prices : prep' = [prep EXCEPT !.pc = "quoted", !.price = p]
  /\ UNCHANGED <<status, bound, auths, clock>>

MarkQuoted == At("quoted") /\ transition("RESOLVING", "QUOTED", "authorize", "catch")

(* The authorization is found and judged, then QUOTED -> POLICY_CHECK.     *)
Authorize ==
  /\ At("authorize")
  /\ IF status = "QUOTED"
     THEN /\ status' = "POLICY_CHECK"
          /\ \E k \in FoundNow :
               prep' = [prep EXCEPT !.pc = "decide", !.authorization = k]
     ELSE UNCHANGED status /\ End("catch")
  /\ UNCHANGED <<bound, auths, clock>>

(* On the row as it was found: before the answer there is only the         *)
(* standing one, which nothing changes.                                    *)
EvaluatePolicy ==
  /\ At("decide")
  /\ \E o \in Verdicts(prep.authorization, prep.price) :
       prep' = [prep EXCEPT !.pc = "finish", !.outcome = o, !.price = 0]
  /\ UNCHANGED <<status, bound, auths, clock>>

StatusOf(outcome) ==
  IF outcome = "ALLOW" THEN "APPROVED" ELSE IF outcome = "BLOCK" THEN "BLOCKED" ELSE outcome

(* Slip: the outcome is written whatever the status is by now.             *)
SlipFinishDecision ==
  /\ At("finish")
  /\ status' = StatusOf(prep.outcome)
  /\ Goto("store")
  /\ UNCHANGED <<bound, auths, clock>>

FinishDecision ==
  At("finish") /\ transition("POLICY_CHECK", StatusOf(prep.outcome), "store", "catch")

(* Slip: the answer does not wait for the authorization to be stored.      *)
SlipStore ==
  /\ At("store")
  /\ End("answered")
  /\ UNCHANGED <<status, bound, auths, clock>>

(* The authorization found is stored, whatever the status is by now, and   *)
(* the request answered.                                                   *)
StoreAuthorization ==
  /\ At("store")
  /\ bound' = IF prep.authorization = 0 THEN bound ELSE prep.authorization
  /\ End("answered")
  /\ UNCHANGED <<status, auths, clock>>

(* Slip: an intent in POLICY_CHECK is forgotten.                           *)
SlipFailPreparation ==
  /\ At("catch")
  /\ status' = IF status \in {"RESOLVING", "QUOTED"} THEN "FAILED" ELSE status
  /\ End("ended")
  /\ UNCHANGED <<bound, auths, clock>>

(* The catch block: what is still in preparation has FAILED.               *)
FailPreparation ==
  /\ At("catch")
  /\ status' = IF status \in {"RESOLVING", "QUOTED", "POLICY_CHECK"} THEN "FAILED"
               ELSE status
  /\ End("ended")
  /\ UNCHANGED <<bound, auths, clock>>

(* A statement or an audit append throws: into the catch block from inside *)
(* the try block; before it and in the catch block itself nobody catches.  *)
StatementThrows ==
  /\ prep.pc \in Trying \cup Outside
  /\ End(IF prep.pc \in Trying THEN "catch" ELSE "uncaught")
  /\ UNCHANGED <<status, bound, auths, clock>>

(* The process dies; as after any error nobody learns the intent's id.     *)
Die ==
  /\ prep.pc \notin Over
  /\ End("dead")
  /\ UNCHANGED <<status, bound, auths, clock>>

PrepareStep ==
  \/ Receive \/ StartResolving \/ resolveVariant \/ createFreshQuote \/ MarkQuoted
  \/ Authorize \/ EvaluatePolicy \/ FinishDecision \/ StoreAuthorization
  \/ FailPreparation

(***************************************************************************)
(* The surroundings.                                                       *)
(***************************************************************************)
Tick ==
  /\ clock < MaxTime
  /\ clock' = clock + 1
  /\ UNCHANGED <<status, bound, auths, prep>>

(* DemoService.reset, its part in the intent and in the authorizations:    *)
(* CANCELED without asking the table of transitions.                       *)
OpenIntent == {"RECEIVED", "RESOLVING", "QUOTED", "POLICY_CHECK", "APPROVED",
               "AWAITING_APPROVAL", "PAYMENT_PROCESSING"}

ResetIntent ==
  /\ status' = IF status \in OpenIntent THEN "CANCELED" ELSE status
  /\ auths' = [k \in DOMAIN auths |->
                 IF k = 1 THEN Standing
                 ELSE IF auths[k].status = "ACTIVE"
                      THEN [auths[k] EXCEPT !.status = "REVOKED"] ELSE auths[k]]
  /\ UNCHANGED <<bound, clock, prep>>

PreparationInit ==
  /\ status = "NONE" /\ bound = 0 /\ auths = <<Standing>>
  /\ clock = 0 /\ prep = Fresh

PreparationNext == PrepareStep \/ StatementThrows \/ Die \/ Tick

=============================================================================
