--------------------------- MODULE Checkout_proofs ---------------------------
(***************************************************************************)
(* Theorems about Checkout, for every set of intents and requests, every   *)
(* price, stock and bound, and every combination of the regimes.           *)
(***************************************************************************)
EXTENDS Checkout, FiniteSetTheorems, TLAPS

(***************************************************************************)
(* Types.                                                                  *)
(***************************************************************************)

(* The rows and requests Checkout writes are of their types.               *)
LEMMA IdleType == Idle \in Request
  BY ConstantsAssumption DEF Request, Idle

LEMMA VerificationType == NotVerifying \in Verification
  BY ConstantsAssumption DEF Verification, NotVerifying, PaymentStatus

LEMMA ReservationType == NoReservation \in ReservationRow
  BY DEF ReservationRow, NoReservation

LEMMA ClosedType ==
  /\ Closed("RELEASED") \in ReservationRow
  /\ Closed("CONVERTED") \in ReservationRow
  BY DEF ReservationRow, NoReservation, Closed

LEMMA StateType ==
  {"APPROVED", "AWAITING_APPROVAL", "BLOCKED", "PAYMENT_PROCESSING", "COMPLETED",
   "CANCELED"} \subseteq IntentState
  BY DEF IntentState, allowedTransitions

(* A request goes on at a step of the program, or ends.  Requests' types   *)
(* include that a started one has its intent and a late one its attempt.   *)
Running(r) ==
  /\ r \in Request
  /\ r.pc # "idle" => r.intent \in Intents
  /\ r.pc \in Attempting => r.attempt \in Attempts

RequestsOK(f) == f \in [Workers -> Request] /\ \A w \in Workers : Running(f[w])

LEMMA GotoType ==
  ASSUME TypeOK, NEW w \in Workers, NEW r, Running(r), Goto(w, r)
  PROVE  RequestsOK(req')
  BY DEF TypeOK, Goto, Running, RequestsOK

LEMMA StepType ==
  ASSUME TypeOK, NEW w \in Workers, req[w].pc # "idle",
         NEW pc \in {"release", "reserve", "prepare", "start", "answer", "failPayment",
                     "failRelease"},
         pc \in Attempting => req[w].pc \in Attempting,
         Step(w, pc)
  PROVE  RequestsOK(req')
  <1>1. [req[w] EXCEPT !.pc = pc] \in Request
    BY DEF TypeOK, Request
  <1>2. Running([req[w] EXCEPT !.pc = pc])
    <2>1. req[w] \in Request
      BY DEF TypeOK
    <2> DEFINE r == [req[w] EXCEPT !.pc = pc]
    <2>2. r.pc = pc /\ r.intent = req[w].intent /\ r.attempt = req[w].attempt
      BY <2>1 DEF Request
    <2> QED
      BY <1>1, <2>2 DEF TypeOK, Running
  <1> QED
    BY <1>2, GotoType DEF Step

LEMMA EndType ==
  ASSUME TypeOK, NEW w \in Workers, Goto(w, Idle)
  PROVE  RequestsOK(req')
  <1>1. Running(Idle)
    BY IdleType DEF Running, Idle, Attempting
  <1> QED
    BY <1>1, GotoType

LEMMA ReleaseType ==
  ASSUME TypeOK, NEW i, releaseForIntent(i)
  PROVE  res' \in [Intents -> ReservationRow]
  BY ClosedType DEF TypeOK, releaseForIntent

LEMMA SupersededType ==
  ASSUME TypeOK, NEW i
  PROVE  RequestsOK(Superseded(i))
  <1>1. ASSUME NEW r, Running(r) PROVE Running([r EXCEPT !.fresh = FALSE])
    BY <1>1 DEF Running, Request
  <1> QED
    BY <1>1 DEF TypeOK, Superseded, Running, RequestsOK

LEMMA TypeInit == Init => TypeOK
  <1> SUFFICES ASSUME Init PROVE TypeOK
    OBVIOUS
  <1>1. status \in [Intents -> IntentState] /\ bound \in [Intents -> {"standing", "grant"}]
    BY StateType DEF Init
  <1>2. price \in Prices /\ version \in 1..MaxVersion /\ stock \in Nat
    BY ConstantsAssumption DEF Init
  <1>3. grant \in [Intents -> GrantRow] /\ res \in [Intents -> ReservationRow]
    BY ReservationType DEF Init, GrantRow
  <1>4. order \in [Intents -> OrderRow] /\ pay \in [Payments -> PaymentRow]
    BY ConstantsAssumption DEF Init, OrderRow, PaymentRow, PaymentStatus
  <1>5. prov \in [Payments -> ProviderPayment]
    BY ConstantsAssumption DEF Init, ProviderPayment
  <1>6. RequestsOK(req)
    BY IdleType DEF Init, RequestsOK, Running, Idle, Attempting
  <1>7. checkout \subseteq Payments /\ inbox \subseteq Events
        /\ ver \in [Intents -> Verification]
    BY VerificationType DEF Init
  <1> QED
    BY <1>1, <1>2, <1>3, <1>4, <1>5, <1>6, <1>7 DEF TypeOK, RequestsOK, Running

(* A step of an execute request keeps the types.                           *)
LEMMA TypeExecute ==
  ASSUME TypeOK, NEW w \in Workers, NEW i \in Intents, Execute(w, i)
  PROVE  TypeOK'
  <1> DEFINE r == [Idle EXCEPT !.pc = "quote", !.intent = i]
  <1>1. r \in Request
    <2>1. ASSUME NEW q \in Request
          PROVE  [q EXCEPT !.pc = "quote", !.intent = i] \in Request
      BY DEF Request
    <2> QED
      BY <2>1, IdleType
  <1>2. Running(r)
    BY <1>1 DEF Running, Idle, Attempting
  <1>3. RequestsOK(req')
    BY <1>2, GotoType DEF Execute
  <1> QED
    BY <1>3 DEF TypeOK, RequestsOK, Running, Execute, authVars, shopVars, moneyVars

LEMMA TypeExecuteStep ==
  ASSUME TypeOK, NEW w \in Workers, ExecuteStep(w)
  PROVE  TypeOK'
  <1> USE DEF authVars, shopVars, moneyVars
  <1>0. req[w] \in Request /\ Running(req[w])
    BY DEF TypeOK, Running
  <1>1. CASE RefreshQuote(w)
    <2> DEFINE i == req[w].intent
               r == [req[w] EXCEPT !.pc = "decide", !.price = price, !.version = version,
                            !.fresh = TRUE, !.inStock = Available(i) >= 1]
    <2>1. r \in Request
      <3>1. price \in Nat /\ version \in 0..MaxVersion
        BY ConstantsAssumption DEF TypeOK
      <3>2. (Available(req[w].intent) >= 1) \in BOOLEAN
        OBVIOUS
      <3> QED
        BY <1>0, <3>1, <3>2 DEF Request
    <2>2. r.pc = "decide" /\ r.intent = req[w].intent
      BY <1>0 DEF Request
    <2>3. Running(r)
      BY <1>0, <1>1, <2>1, <2>2 DEF Running, RefreshQuote, At, Attempting
    <2>4. req' = [Superseded(i) EXCEPT ![w] = r]
      BY <1>1 DEF RefreshQuote
    <2> HIDE DEF r
    <2>5. RequestsOK(req')
      BY <2>1, <2>3, <2>4, SupersededType DEF RequestsOK
    <2> QED
      BY <1>1, <2>5 DEF TypeOK, RequestsOK, Running, RefreshQuote
  <1>2. CASE Decide(w)
    <2> DEFINE i == req[w].intent
               r(o) == [req[w] EXCEPT !.pc = IF o = "ALLOW" THEN "bind" ELSE "refuse",
                              !.outcome = IF o = "ALLOW" /\ Exact(i, req[w].price)
                                          THEN "ALLOW_EXACT" ELSE o]
    <2>1. PICK o \in Outcomes(i, req[w].price, req[w].inStock) : Goto(w, r(o))
      BY <1>2 DEF Decide
    <2>2. o \in {"ALLOW", "AWAITING_APPROVAL", "BLOCK"}
      BY DEF Outcomes
    <2>3. r(o) \in Request /\ r(o).pc \in {"bind", "refuse"} /\ r(o).intent = i
      BY <1>0, <2>2 DEF Request
    <2>4. Running(r(o))
      BY <1>0, <1>2, <2>3 DEF Running, Decide, At, Attempting
    <2>5. RequestsOK(req')
      BY <2>1, <2>4, GotoType
    <2> QED
      BY <1>2, <2>5 DEF TypeOK, RequestsOK, Running, Decide
  <1>3. CASE Refuse(w)
    <2>1. RequestsOK(req')
      BY <1>3, StepType, EndType DEF At, Attempting, Refuse
    <2>2. status' \in [Intents -> IntentState]
      BY <1>3, StateType DEF TypeOK, Refuse
    <2> QED
      BY <1>3, <2>1, <2>2 DEF TypeOK, RequestsOK, Running, Refuse
  <1>4. CASE ReleaseRefused(w)
    <2>1. RequestsOK(req') /\ res' \in [Intents -> ReservationRow]
      BY <1>4, EndType, ReleaseType DEF At, Attempting, ReleaseRefused
    <2> QED
      BY <1>4, <2>1 DEF TypeOK, RequestsOK, Running, ReleaseRefused
  <1>5. CASE BindAuthorization(w)
    <2>1. RequestsOK(req')
      BY <1>5, StepType DEF At, Attempting, BindAuthorization
    <2>2. bound' \in [Intents -> {"standing", "grant"}]
      BY <1>5 DEF TypeOK, BindAuthorization
    <2> QED
      BY <1>5, <2>1, <2>2 DEF TypeOK, RequestsOK, Running, BindAuthorization
  <1>6. CASE Reserve(w)
    <2>1. RequestsOK(req')
      BY <1>6, StepType DEF At, Attempting, Reserve
    <2>2. ASSUME NEW r \in ReservationRow PROVE [r EXCEPT !.known = @ \cup {w}] \in ReservationRow
      BY DEF ReservationRow
    <2>3. [NoReservation EXCEPT !.status = "ACTIVE", !.known = {w}] \in ReservationRow
      BY DEF NoReservation, ReservationRow
    <2> DEFINE i == req[w].intent
               r == IF Held(i) /\ ~res[i].lapsed
                    THEN [res[i] EXCEPT !.known = @ \cup {w}]
                    ELSE [NoReservation EXCEPT !.status = "ACTIVE", !.known = {w}]
    <2>4. res' \in [Intents -> ReservationRow]
      <3>1. res[i] \in ReservationRow
        BY <1>0, <1>6 DEF TypeOK, Running, Reserve, At
      <3>2. r \in ReservationRow
        BY <3>1, <2>2, <2>3
      <3>3. res' = [res EXCEPT ![i] = r]
        BY <1>6 DEF Reserve
      <3> QED
        BY <3>2, <3>3 DEF TypeOK
    <2> QED
      BY <1>6, <2>1, <2>4 DEF TypeOK, RequestsOK, Running, Reserve
  <1>7. CASE ReserveRefused(w) \/ PrepareRefused(w)
    <2>1. RequestsOK(req')
      BY <1>7, EndType DEF At, Attempting, ReserveRefused, PrepareRefused
    <2> QED
      BY <1>7, <2>1 DEF TypeOK, RequestsOK, Running, ReserveRefused, PrepareRefused
  <1>8. CASE PrepareInternalAttempt(w)
    <2> DEFINE i == req[w].intent
               k == NextAttempt(i)
    <2>1. k \in Attempts
      BY <1>8 DEF PrepareInternalAttempt
    <2>2. [req[w] EXCEPT !.pc = "create", !.attempt = k] \in Request
      <3>1. k \in 0..MaxAttempts
        BY <2>1, ConstantsAssumption DEF Attempts
      <3> QED
        BY <1>0, <3>1 DEF Request
    <2>3. RequestsOK(req')
      <3>1. Running([req[w] EXCEPT !.pc = "create", !.attempt = k])
        BY <1>0, <1>8, <2>1, <2>2 DEF Request, Running, PrepareInternalAttempt, At, Attempting
      <3> QED
        BY <1>8, <3>1, GotoType DEF PrepareInternalAttempt
    <2>4. req[w].price \in Nat
      BY <1>0 DEF Request
    <2>5. order' \in [Intents -> OrderRow]
      BY <1>8, <2>4 DEF TypeOK, RequestsOK, Running, PrepareInternalAttempt, OrderRow
    <2>6. pay' \in [Payments -> PaymentRow]
      <3>1. [status |-> "CREATED", amount |-> req[w].price, id |-> 0] \in PaymentRow
        BY <2>4, ConstantsAssumption DEF PaymentRow, PaymentStatus
      <3> QED
        BY <1>8, <3>1 DEF TypeOK, RequestsOK, Running, PrepareInternalAttempt
    <2>7. res' \in [Intents -> ReservationRow]
      <3>1. ASSUME NEW r \in ReservationRow
            PROVE  [r EXCEPT !.attached = TRUE, !.known = @ \ {w}] \in ReservationRow
        BY DEF ReservationRow
      <3> QED
        BY <1>8, <3>1 DEF TypeOK, RequestsOK, Running, PrepareInternalAttempt
    <2> QED
      BY <1>8, <2>3, <2>5, <2>6, <2>7 DEF TypeOK, RequestsOK, Running, PrepareInternalAttempt
  <1>9. CASE CreateProviderOrder(w)
    <2>1. RequestsOK(req')
      BY <1>9, StepType DEF At, Attempting, CreateProviderOrder
    <2> QED
      BY <1>9, <2>1 DEF TypeOK, RequestsOK, Running, CreateProviderOrder
  <1>10. CASE StartProcessing(w)
    <2>1. RequestsOK(req')
      BY <1>10, StepType DEF At, Attempting, StartProcessing
    <2>2. status' \in [Intents -> IntentState]
      BY <1>10, StateType DEF TypeOK, StartProcessing
    <2> QED
      BY <1>10, <2>1, <2>2 DEF TypeOK, RequestsOK, Running, StartProcessing
  <1>11. CASE AnswerCheckout(w)
    <2>1. RequestsOK(req')
      BY <1>11, EndType DEF At, Attempting, AnswerCheckout
    <2>2. checkout' \subseteq Payments
      BY <1>0, <1>11 DEF TypeOK, Running, AnswerCheckout, At, Attempting, Attempt, Payments
    <2> QED
      BY <1>11, <2>1, <2>2 DEF TypeOK, RequestsOK, Running, AnswerCheckout
  <1>12. CASE FailPayment(w)
    <2>1. RequestsOK(req')
      BY <1>12, StepType DEF At, Attempting, FailPayment
    <2>2. pay' \in [Payments -> PaymentRow]
      BY <1>12 DEF TypeOK, FailPayment, PaymentRow, PaymentStatus
    <2> QED
      BY <1>12, <2>1, <2>2 DEF TypeOK, RequestsOK, Running, FailPayment
  <1>13. CASE FailRelease(w)
    <2>1. RequestsOK(req') /\ res' \in [Intents -> ReservationRow]
      BY <1>13, EndType, ReleaseType DEF At, Attempting, FailRelease
    <2> QED
      BY <1>13, <2>1 DEF TypeOK, RequestsOK, Running, FailRelease
  <1> QED
    BY <1>1, <1>2, <1>3, <1>4, <1>5, <1>6, <1>7, <1>8, <1>9, <1>10, <1>11, <1>12, <1>13
    DEF ExecuteStep

(* A step of the buyer's verification keeps the types.                     *)
LEMMA TypeVerify ==
  ASSUME TypeOK,
         \/ \E p \in Payments : VerifyRead(p)
         \/ \E i \in Intents : VerifyWrite(i)
  PROVE  TypeOK'
  <1> USE DEF authVars, shopVars, moneyVars
  <1>1. ASSUME NEW p \in Payments, VerifyRead(p) PROVE TypeOK'
    <2>1. pay[p] \in PaymentRow /\ prov[p] \in ProviderPayment /\ p[2] \in 0..MaxAttempts
      BY ConstantsAssumption DEF TypeOK, Payments, Attempts
    <2>2. [pc |-> "write", attempt |-> p[2], id |-> prov[p].id, seen |-> pay[p].status]
            \in Verification
      BY <2>1 DEF Verification, PaymentRow, ProviderPayment
    <2>3. ver' \in [Intents -> Verification]
      BY <1>1, <2>2 DEF TypeOK, VerifyRead
    <2> QED
      BY <1>1, <2>3 DEF TypeOK, VerifyRead
  <1>2. ASSUME NEW i \in Intents, VerifyWrite(i) PROVE TypeOK'
    <2>1. ver[i].id \in 0..MaxTries
      BY DEF TypeOK, Verification
    <2>2. pay' \in [Payments -> PaymentRow]
      <3> DEFINE p == <<i, ver[i].attempt>>
      <3>1. ASSUME NEW r \in PaymentRow
            PROVE  [r EXCEPT !.id = ver[i].id,
                             !.status = IF ver[i].seen = "CREATED" THEN "AUTHORIZED" ELSE @]
                     \in PaymentRow
        BY <2>1 DEF PaymentRow, PaymentStatus
      <3> DEFINE written == [pay[p] EXCEPT !.id = ver[i].id,
                               !.status = IF ver[i].seen = "CREATED" THEN "AUTHORIZED" ELSE @]
      <3>2. pay \in [Payments -> PaymentRow]
        BY DEF TypeOK
      <3>3. pay' = [pay EXCEPT ![p] = written]
        BY <1>2, <3>2 DEF VerifyWrite
      <3>4. p \in Payments => written \in PaymentRow
        BY <3>1, <3>2
      <3> HIDE DEF p, written
      <3> QED
        BY <3>2, <3>3, <3>4
    <2>3. ver' \in [Intents -> Verification]
      BY <1>2, VerificationType DEF TypeOK, VerifyWrite
    <2> QED
      BY <1>2, <2>2, <2>3 DEF TypeOK, VerifyWrite
  <1> QED
    BY <1>1, <1>2

(* The handling of a webhook event keeps the types.                        *)
LEMMA EventType ==
  ASSUME TypeOK, NEW e \in inbox
  PROVE  /\ e.pay \in Payments /\ e.pay[1] \in Intents
         /\ e.id \in 0..MaxTries
         /\ Handled(e) => inbox' \subseteq Events
  BY DEF TypeOK, Events, Payments, Handled

LEMMA TypeEvent ==
  ASSUME TypeOK, NEW e \in inbox, ProcessEvent(e) \/ GiveUp(e)
  PROVE  TypeOK'
  <1> USE DEF authVars, shopVars, moneyVars
  <1>0. e.pay \in Payments /\ e.pay[1] \in Intents /\ e.id \in 0..MaxTries
    BY EventType
  <1>1. ASSUME NEW r \in PaymentRow, NEW s \in PaymentStatus
        PROVE  [r EXCEPT !.status = s, !.id = e.id] \in PaymentRow
    BY <1>0 DEF PaymentRow
  <1>2. CASE applyAuthorized(e)
    <2>1. pay' \in [Payments -> PaymentRow]
      BY <1>1, <1>2 DEF TypeOK, applyAuthorized, PaymentStatus
    <2> QED
      BY <1>2, <2>1, EventType DEF TypeOK, applyAuthorized
  <1>3. CASE applyCaptured(e)
    <2> DEFINE i == e.pay[1]
    <2>1. pay' \in [Payments -> PaymentRow]
      BY <1>1, <1>3 DEF TypeOK, applyCaptured, PaymentStatus
    <2>2. stock' \in Nat
      BY <1>3 DEF TypeOK, applyCaptured, Capturable
    <2>3. res' \in [Intents -> ReservationRow]
      BY <1>3, ClosedType DEF TypeOK, applyCaptured
    <2>4. order' \in [Intents -> OrderRow]
      <3>1. ASSUME NEW r \in OrderRow PROVE [r EXCEPT !.status = "CONFIRMED"] \in OrderRow
        BY DEF OrderRow
      <3> QED
        BY <1>3, <3>1 DEF TypeOK, applyCaptured
    <2>5. grant' \in [Intents -> GrantRow]
      <3>1. ASSUME NEW r \in GrantRow PROVE [r EXCEPT !.status = "CONSUMED"] \in GrantRow
        BY DEF GrantRow
      <3> QED
        BY <1>3, <3>1 DEF TypeOK, applyCaptured
    <2>6. status' \in [Intents -> IntentState]
      BY <1>3, StateType DEF TypeOK, applyCaptured
    <2> QED
      BY <1>3, <2>1, <2>2, <2>3, <2>4, <2>5, <2>6, EventType DEF TypeOK, applyCaptured
  <1>4. CASE ignoreDuplicateCapture(e) \/ GiveUp(e)
    BY <1>4 DEF TypeOK, ignoreDuplicateCapture, GiveUp
  <1>5. CASE applyFailed(e)
    <2>1. pay' \in [Payments -> PaymentRow]
      <3>1. CASE pay[e.pay].status = "CAPTURED"
        BY <1>5, <3>1 DEF TypeOK, applyFailed
      <3>2. CASE pay[e.pay].status # "CAPTURED"
        <4>1. pay' = [pay EXCEPT ![e.pay].status = "FAILED", ![e.pay].id = e.id]
          BY <1>5, <3>2 DEF applyFailed
        <4> QED
          BY <1>1, <4>1 DEF TypeOK, PaymentStatus
      <3> QED
        BY <3>1, <3>2
    <2>2. res' \in [Intents -> ReservationRow]
      BY <1>5, ClosedType DEF TypeOK, applyFailed
    <2>3. status' \in [Intents -> IntentState]
      BY <1>5, StateType DEF TypeOK, applyFailed
    <2> QED
      BY <1>5, <2>1, <2>2, <2>3, EventType DEF TypeOK, applyFailed
  <1> QED
    BY <1>2, <1>3, <1>4, <1>5 DEF ProcessEvent

(* A step of the provider keeps the types.                                 *)
LEMMA TypeProvider ==
  ASSUME TypeOK, ProviderStep
  PROVE  TypeOK'
  <1> USE DEF authVars, shopVars, moneyVars
  <1>1. ASSUME NEW p \in Payments, NEW o \in {"authorized", "failed"}, Pays(p, o)
        PROVE  TypeOK'
    <2>1. prov[p].id \in Nat
      BY DEF TypeOK, ProviderPayment
    <2>2. prov[p].id + 1 \in 0..MaxTries
      BY <1>1, <2>1, ConstantsAssumption DEF Pays
    <2>3. prov' \in [Payments -> ProviderPayment]
      BY <1>1, <2>2 DEF TypeOK, Pays, ProviderPayment
    <2>4. inbox' \subseteq Events
      BY <1>1, <2>2 DEF TypeOK, Pays, Announce, Events
    <2> QED
      BY <1>1, <2>3, <2>4 DEF TypeOK, Pays
  <1>2. ASSUME NEW p \in Payments, NEW o \in {"captured", "failed"}, Settles(p, o)
        PROVE  TypeOK'
    <2>1. prov' \in [Payments -> ProviderPayment]
      BY <1>2 DEF TypeOK, Settles, ProviderPayment
    <2>2. inbox' \subseteq Events
      BY <1>2 DEF TypeOK, Settles, Announce, Events, ProviderPayment
    <2> QED
      BY <1>2, <2>1, <2>2 DEF TypeOK, Settles
  <1> QED
    BY <1>1, <1>2 DEF ProviderStep

(* A step of the surroundings keeps the types.                             *)
LEMMA TypeSurrounding ==
  ASSUME TypeOK, SurroundingStep \/ \E i \in Intents : BuyerApproves(i)
  PROVE  TypeOK'
  <1> USE DEF authVars, shopVars, moneyVars
  <1>1. ASSUME NEW p \in Prices, ChangePrice(p) PROVE TypeOK'
    <2>1. version' \in 1..MaxVersion
      BY <1>1, ConstantsAssumption DEF TypeOK, ChangePrice
    <2> QED
      BY <1>1, <2>1 DEF TypeOK, ChangePrice
  <1>2. ASSUME NEW i \in Intents, BuyerApproves(i) PROVE TypeOK'
    <2>1. RequestsOK(req')
      BY <1>2, SupersededType DEF BuyerApproves
    <2>2. status' \in [Intents -> IntentState]
      BY <1>2, StateType DEF TypeOK, BuyerApproves
    <2>3. [status |-> "ACTIVE", amount |-> price, lapsed |-> FALSE] \in GrantRow
      BY ConstantsAssumption DEF TypeOK, GrantRow
    <2>4. grant' \in [Intents -> GrantRow] /\ bound' \in [Intents -> {"standing", "grant"}]
      BY <1>2, <2>3 DEF TypeOK, BuyerApproves
    <2> QED
      BY <1>2, <2>1, <2>2, <2>4 DEF TypeOK, RequestsOK, Running, BuyerApproves
  <1>3. ASSUME NEW i \in Intents, ReservationLapses(i) PROVE TypeOK'
    <2>1. ASSUME NEW r \in ReservationRow PROVE [r EXCEPT !.lapsed = TRUE] \in ReservationRow
      BY DEF ReservationRow
    <2>2. res' \in [Intents -> ReservationRow]
      BY <1>3, <2>1 DEF TypeOK, ReservationLapses
    <2> QED
      BY <1>3, <2>2 DEF TypeOK, ReservationLapses
  <1>4. ASSUME NEW i \in Intents, GrantLapses(i) PROVE TypeOK'
    <2>1. ASSUME NEW r \in GrantRow PROVE [r EXCEPT !.lapsed = TRUE] \in GrantRow
      BY DEF GrantRow
    <2>2. grant' \in [Intents -> GrantRow]
      BY <1>4, <2>1 DEF TypeOK, GrantLapses
    <2> QED
      BY <1>4, <2>2 DEF TypeOK, GrantLapses
  <1>5. CASE DemoReset
    <2>1. res' \in [Intents -> ReservationRow]
      BY <1>5, ClosedType DEF TypeOK, DemoReset
    <2>2. pay' \in [Payments -> PaymentRow]
      <3>1. ASSUME NEW r \in PaymentRow PROVE [r EXCEPT !.status = "FAILED"] \in PaymentRow
        BY DEF PaymentRow, PaymentStatus
      <3> QED
        BY <1>5, <3>1 DEF TypeOK, DemoReset
    <2>3. order' \in [Intents -> OrderRow]
      <3>1. ASSUME NEW r \in OrderRow PROVE [r EXCEPT !.status = "CANCELED"] \in OrderRow
        BY DEF OrderRow
      <3> QED
        BY <1>5, <3>1 DEF TypeOK, DemoReset
    <2>4. grant' \in [Intents -> GrantRow]
      <3>1. ASSUME NEW r \in GrantRow PROVE [r EXCEPT !.status = "REVOKED"] \in GrantRow
        BY DEF GrantRow
      <3> QED
        BY <1>5, <3>1 DEF TypeOK, DemoReset
    <2>5. status' \in [Intents -> IntentState]
      BY <1>5, StateType DEF TypeOK, DemoReset
    <2>6. price' \in Prices /\ version' \in 1..MaxVersion /\ stock' \in Nat
      BY <1>5, ConstantsAssumption DEF TypeOK, DemoReset
    <2> QED
      BY <1>5, <2>1, <2>2, <2>3, <2>4, <2>5, <2>6 DEF TypeOK, DemoReset
  <1>6. CASE Crash
    <2>1. RequestsOK(req')
      BY <1>6, IdleType DEF Crash, RequestsOK, Running, Idle, Attempting
    <2>2. ver' \in [Intents -> Verification]
      BY <1>6, VerificationType DEF Crash
    <2> QED
      BY <1>6, <2>1, <2>2 DEF TypeOK, RequestsOK, Running, Crash
  <1> QED
    BY <1>1, <1>2, <1>3, <1>4, <1>5, <1>6 DEF SurroundingStep

(* A request that is interrupted keeps the types.                          *)
LEMMA TypeInterrupted ==
  ASSUME TypeOK, NEW w \in Workers, QuoteExpires(w) \/ Abandon(w) \/ StatementFails(w)
  PROVE  TypeOK'
  <1> USE DEF authVars, shopVars, moneyVars
  <1>1. CASE QuoteExpires(w)
    <2>1. Running(req[w])
      BY DEF TypeOK, Running
    <2>2. Running([req[w] EXCEPT !.fresh = FALSE])
      BY <2>1 DEF Running, Request
    <2>3. RequestsOK(req')
      BY <1>1, <2>2, GotoType DEF QuoteExpires
    <2> QED
      BY <1>1, <2>3 DEF TypeOK, RequestsOK, Running, QuoteExpires
  <1>2. CASE Abandon(w)
    <2>1. RequestsOK(req')
      BY <1>2, EndType DEF Abandon
    <2> QED
      BY <1>2, <2>1 DEF TypeOK, RequestsOK, Running, Abandon
  <1>3. CASE StatementFails(w)
    <2>1. RequestsOK(req')
      BY <1>3, StepType DEF StatementFails, Attempting
    <2> QED
      BY <1>3, <2>1 DEF TypeOK, RequestsOK, Running, StatementFails
  <1> QED
    BY <1>1, <1>2, <1>3

(* TypeOK is inductive.                                                    *)
LEMMA TypeNext == TypeOK /\ [Next]_vars => TypeOK'
  <1> SUFFICES ASSUME TypeOK, [Next]_vars PROVE TypeOK'
    OBVIOUS
  <1>1. CASE RequestStep
    BY <1>1, TypeExecute, TypeExecuteStep, TypeInterrupted DEF RequestStep
  <1>2. CASE BuyerStep
    BY <1>2, TypeVerify, TypeSurrounding DEF BuyerStep
  <1>3. CASE ProviderStep
    BY <1>3, TypeProvider
  <1>4. CASE ProcessorStep
    BY <1>4, TypeEvent DEF ProcessorStep
  <1>5. CASE SurroundingStep
    BY <1>5, TypeSurrounding
  <1>6. CASE UNCHANGED vars
    BY <1>6 DEF TypeOK, vars, authVars, shopVars, moneyVars
  <1> QED
    BY <1>1, <1>2, <1>3, <1>4, <1>5, <1>6 DEF Next

(* Every reachable state is one the database and the requests can be in.   *)
THEOREM TypeCorrect == Spec => []TypeOK
  BY TypeInit, TypeNext, PTL DEF Spec

(***************************************************************************)
(* Orders and the stock.                                                   *)
(***************************************************************************)

(* Orders and the stock are written by three steps only.                   *)
LEMMA OrderWriters ==
  ASSUME [Next]_vars
  PROVE  \/ UNCHANGED <<order, stock>>
         \/ \E w \in Workers : PrepareInternalAttempt(w)
         \/ \E e \in inbox : applyCaptured(e)
         \/ DemoReset
  <1> USE DEF authVars, shopVars, moneyVars
  <1>1. CASE RequestStep
    BY <1>1 DEF RequestStep, Execute, ExecuteStep, QuoteExpires, Abandon, StatementFails,
       RefreshQuote, Decide, Refuse, ReleaseRefused, BindAuthorization, Reserve,
       ReserveRefused, PrepareRefused, CreateProviderOrder, StartProcessing,
       AnswerCheckout, FailPayment, FailRelease
  <1>2. CASE BuyerStep
    BY <1>2 DEF BuyerStep, VerifyRead, VerifyWrite, BuyerApproves
  <1>3. CASE ProviderStep
    BY <1>3 DEF ProviderStep, Pays, Settles
  <1>4. CASE ProcessorStep
    BY <1>4 DEF ProcessorStep, ProcessEvent, applyAuthorized, ignoreDuplicateCapture,
       applyFailed, GiveUp
  <1>5. CASE SurroundingStep
    BY <1>5 DEF SurroundingStep, ChangePrice, ReservationLapses, GrantLapses, Crash
  <1>6. CASE UNCHANGED vars
    BY <1>6 DEF vars
  <1> QED
    BY <1>1, <1>2, <1>3, <1>4, <1>5, <1>6 DEF Next

(* A closed order is not touched again.                                    *)
LEMMA ClosedOrderStays ==
  ASSUME TypeOK, ClosedOrderHoldsNothing, [Next]_vars,
         NEW i \in Intents, order[i].status \in {"CONFIRMED", "CANCELED"}
  PROVE  order'[i] = order[i]
  <1>1. ASSUME NEW w \in Workers, PrepareInternalAttempt(w) PROVE order'[i] = order[i]
    BY <1>1 DEF TypeOK, PrepareInternalAttempt, CanPrepare
  <1>2. ASSUME NEW e \in inbox, applyCaptured(e) PROVE order'[i] = order[i]
    BY <1>2 DEF TypeOK, applyCaptured, Capturable, ClosedOrderHoldsNothing
  <1>3. CASE DemoReset
    BY <1>3 DEF DemoReset
  <1> QED
    BY <1>1, <1>2, <1>3, OrderWriters

(* Under Production a step sells one order for one unit or none.           *)
LEMMA StepSells ==
  ASSUME TypeOK, ClosedOrderHoldsNothing, Production, [Next]_vars
  PROVE  UNCHANGED <<stock, Sold>> \/ \E i \in Intents : S!Sell(i)
  <1>1. ASSUME NEW w \in Workers, PrepareInternalAttempt(w)
        PROVE  UNCHANGED <<stock, Sold>>
    <2> DEFINE i == req[w].intent
    <2>1. order[i].status # "CONFIRMED"
      BY <1>1 DEF PrepareInternalAttempt, CanPrepare
    <2>2. order' = [order EXCEPT ![i] = [status |-> "PENDING_PAYMENT", total |-> req[w].price]]
          /\ stock' = stock
      BY <1>1 DEF PrepareInternalAttempt, shopVars
    <2> QED
      BY <2>1, <2>2 DEF TypeOK, Sold
  <1>2. ASSUME NEW e \in inbox, applyCaptured(e)
        PROVE  \E i \in Intents : S!Sell(i)
    <2> DEFINE i == e.pay[1]
    <2>1. i \in Intents
      BY EventType
    <2>2. order[i].status # "CONFIRMED" /\ stock > 0
      BY <1>2, <2>1 DEF applyCaptured, Capturable, ClosedOrderHoldsNothing
    <2>3. order' = [order EXCEPT ![i].status = "CONFIRMED"] /\ stock' = stock - 1
      BY <1>2 DEF applyCaptured
    <2>4. i \notin Sold /\ Sold' = Sold \cup {i}
      BY <2>1, <2>2, <2>3 DEF TypeOK, Sold, OrderRow
    <2> QED
      BY <2>1, <2>2, <2>3, <2>4 DEF S!Sell
  <1>3. ~DemoReset
    BY DEF DemoReset
  <1>4. UNCHANGED <<order, stock>> => UNCHANGED <<stock, Sold>>
    BY DEF Sold
  <1> QED
    BY <1>1, <1>2, <1>3, <1>4, OrderWriters

(***************************************************************************)
(* The inductive invariant behind the ledger: the types, and that a closed *)
(* order holds nothing a capture could convert.                            *)
(***************************************************************************)
LedgerInv == TypeOK /\ ClosedOrderHoldsNothing

LEMMA LedgerInit == Init => LedgerInv
  BY TypeInit DEF Init, LedgerInv, ClosedOrderHoldsNothing, Held, NoReservation

(* After a step an attached ACTIVE reservation was one before, or it was   *)
(* attached just now to an order that awaits its payment.                  *)
LEMMA AttachedBefore ==
  ASSUME TypeOK, [Next]_vars, NEW i \in Intents,
         res'[i].status = "ACTIVE", res'[i].attached
  PROVE  \/ res[i].status = "ACTIVE" /\ res[i].attached
         \/ order'[i].status = "PENDING_PAYMENT"
  <1> USE DEF authVars, shopVars, moneyVars
  <1>0. res[i] \in ReservationRow /\ order[i] \in OrderRow
    BY DEF TypeOK
  <1>1. CASE RequestStep
    <2>1. PICK w \in Workers :
            \/ \E j \in Intents : Execute(w, j)
            \/ ExecuteStep(w)
            \/ QuoteExpires(w) \/ Abandon(w) \/ StatementFails(w)
      BY <1>1 DEF RequestStep
    <2>2. CASE ReleaseRefused(w) \/ FailRelease(w)
      BY <2>2 DEF TypeOK, ReleaseRefused, FailRelease, releaseForIntent, Closed, NoReservation
    <2>3. CASE Reserve(w)
      BY <2>3 DEF TypeOK, Reserve, Held, NoReservation, ReservationRow
    <2>4. CASE PrepareInternalAttempt(w)
      BY <2>4 DEF TypeOK, PrepareInternalAttempt, ReservationRow
    <2>5. CASE UNCHANGED res
      BY <2>5
    <2> QED
      BY <2>1, <2>2, <2>3, <2>4, <2>5 DEF Execute, ExecuteStep, QuoteExpires, Abandon,
         StatementFails, RefreshQuote, Decide, Refuse, BindAuthorization, ReserveRefused,
         PrepareRefused, CreateProviderOrder, StartProcessing, AnswerCheckout, FailPayment
  <1>2. CASE BuyerStep
    BY <1>2 DEF BuyerStep, VerifyRead, VerifyWrite, BuyerApproves
  <1>3. CASE ProviderStep
    BY <1>3 DEF ProviderStep, Pays, Settles
  <1>4. CASE ProcessorStep
    <2>1. PICK e \in inbox : ProcessEvent(e) \/ GiveUp(e)
      BY <1>4 DEF ProcessorStep
    <2>2. CASE applyCaptured(e)
      BY <2>2 DEF TypeOK, applyCaptured, Closed, NoReservation
    <2>3. CASE applyFailed(e)
      BY <2>3 DEF TypeOK, applyFailed, Closed, NoReservation
    <2> QED
      BY <2>1, <2>2, <2>3 DEF ProcessEvent, applyAuthorized, ignoreDuplicateCapture, GiveUp
  <1>5. CASE SurroundingStep
    <2>1. CASE DemoReset
      BY <2>1 DEF DemoReset, Held, Closed, NoReservation
    <2>2. ASSUME NEW j \in Intents, ReservationLapses(j)
          PROVE  res[i].status = "ACTIVE" /\ res[i].attached
      BY <1>0, <2>2 DEF TypeOK, ReservationLapses, ReservationRow
    <2> QED
      BY <1>5, <2>1, <2>2 DEF SurroundingStep, ChangePrice, GrantLapses, Crash
  <1>6. CASE UNCHANGED vars
    BY <1>6 DEF vars
  <1> QED
    BY <1>1, <1>2, <1>3, <1>4, <1>5, <1>6 DEF Next

LEMMA LedgerNext == LedgerInv /\ [Next]_vars => LedgerInv'
  <1> SUFFICES ASSUME LedgerInv, [Next]_vars PROVE LedgerInv'
    OBVIOUS
  <1>0. TypeOK /\ ClosedOrderHoldsNothing /\ TypeOK'
    BY TypeNext DEF LedgerInv
  <1>1. ASSUME NEW i \in Intents, order'[i].status \in {"CONFIRMED", "CANCELED"},
               res'[i].status = "ACTIVE", res'[i].attached
        PROVE  FALSE
    <2>1. res[i].status = "ACTIVE" /\ res[i].attached
      BY <1>0, <1>1, AttachedBefore
    <2>2. order[i].status \notin {"CONFIRMED", "CANCELED"}
      BY <1>0, <2>1 DEF ClosedOrderHoldsNothing, Held
    <2>3. ASSUME NEW w \in Workers, PrepareInternalAttempt(w) PROVE FALSE
      BY <1>0, <1>1, <2>2, <2>3 DEF TypeOK, PrepareInternalAttempt
    <2>4. ASSUME NEW e \in inbox, applyCaptured(e) PROVE FALSE
      BY <1>0, <1>1, <2>2, <2>4 DEF TypeOK, applyCaptured, Closed, NoReservation
    <2>5. CASE DemoReset
      BY <1>1, <2>5 DEF DemoReset, Held, Closed, NoReservation
    <2>6. CASE UNCHANGED <<order, stock>>
      BY <1>1, <2>2, <2>6
    <2> QED
      BY <2>3, <2>4, <2>5, <2>6, OrderWriters
  <1> QED
    BY <1>0, <1>1 DEF LedgerInv, ClosedOrderHoldsNothing, Held

LEMMA LedgerInvariant == Spec => []LedgerInv
  BY LedgerInit, LedgerNext, PTL DEF Spec

(* A confirmed or canceled order has no reservation left for a further     *)
(* capture, a later attempt or a late event to convert.                    *)
THEOREM ClosedOrderReleased == Spec => []ClosedOrderHoldsNothing
  <1>1. LedgerInv => ClosedOrderHoldsNothing
    BY DEF LedgerInv
  <1> QED
    BY <1>1, LedgerInvariant, PTL

(* A confirmed or canceled order is final: no later attempt, capture,      *)
(* failure or demo reset changes it.                                       *)
THEOREM OutcomeFinal == Spec => OrderOutcomeFinal
  <1>1. LedgerInv /\ [Next]_vars =>
          [\A i \in Intents : order[i].status \in {"CONFIRMED", "CANCELED"}
             => order'[i] = order[i]]_vars
    BY ClosedOrderStays DEF LedgerInv
  <1> QED
    BY <1>1, LedgerInvariant, PTL DEF Spec, OrderOutcomeFinal

(* Without the demo reset the stock on the shelf and the confirmed orders  *)
(* always add up to the stock at the start.                                *)
THEOREM LedgerBalances == Spec => []StockLedger
  <1>1. Init => StockLedger
    <2> SUFFICES ASSUME Init PROVE stock + Cardinality(Sold) = InitialStock
      BY DEF StockLedger
    <2>1. Sold = {}
      BY DEF Init, Sold
    <2> QED
      BY <2>1, FS_EmptySet, ConstantsAssumption DEF Init
  <1>2. LedgerInv /\ StockLedger /\ [Next]_vars => StockLedger'
    <2> SUFFICES ASSUME LedgerInv, StockLedger, [Next]_vars, Production
                 PROVE  stock' + Cardinality(Sold') = InitialStock
      BY DEF StockLedger
    <2>1. CASE UNCHANGED <<stock, Sold>>
      BY <2>1 DEF StockLedger
    <2>2. ASSUME NEW i \in Intents, S!Sell(i)
          PROVE  stock' + Cardinality(Sold') = InitialStock
      <3>1. IsFiniteSet(Sold)
        BY FS_Subset, ConstantsAssumption DEF Sold
      <3>2. Cardinality(Sold) \in Nat /\ Cardinality(Sold') = Cardinality(Sold) + 1
        BY <2>2, <3>1, FS_CardinalityType, FS_AddElement DEF S!Sell
      <3>3. stock \in Nat /\ stock' = stock - 1
        BY <2>2 DEF S!Sell, LedgerInv, TypeOK
      <3> QED
        BY <3>2, <3>3, ConstantsAssumption DEF StockLedger
    <2> QED
      BY <2>1, <2>2, StepSells DEF LedgerInv
  <1> QED
    BY <1>1, <1>2, LedgerInvariant, PTL DEF Spec

(* Without the demo reset Checkout implements Sale: it sells an order at   *)
(* most once, for one unit, and sells nothing it does not have.            *)
THEOREM ImplementsSale ==
  ASSUME Production
  PROVE  Spec => SellsAsPromised
  <1>1. Init => S!Init
    BY DEF Init, S!Init, Sold
  <1>2. LedgerInv /\ [Next]_vars => [S!Next]_(S!vars)
    BY StepSells DEF LedgerInv, S!Next, S!vars
  <1> QED
    BY <1>1, <1>2, LedgerInvariant, PTL DEF Spec, SellsAsPromised, S!Spec

(***************************************************************************)
(* Captures.                                                               *)
(***************************************************************************)

(* A payment becomes CAPTURED by applyCaptured alone.                      *)
LEMMA CaptureWriters ==
  ASSUME TypeOK, [Next]_vars, NEW p \in Payments, pay'[p].status = "CAPTURED"
  PROVE  \/ pay[p].status = "CAPTURED"
         \/ \E e \in inbox : e.pay = p /\ applyCaptured(e)
  <1> USE DEF authVars, shopVars, moneyVars
  <1>0. pay[p] \in PaymentRow
    BY DEF TypeOK
  <1>1. CASE RequestStep
    <2>1. PICK w \in Workers :
            \/ \E j \in Intents : Execute(w, j)
            \/ ExecuteStep(w)
            \/ QuoteExpires(w) \/ Abandon(w) \/ StatementFails(w)
      BY <1>1 DEF RequestStep
    <2>2. CASE PrepareInternalAttempt(w)
      BY <2>2 DEF TypeOK, PrepareInternalAttempt
    <2>3. CASE FailPayment(w)
      BY <1>0, <2>3 DEF TypeOK, FailPayment, PaymentRow
    <2>4. CASE UNCHANGED pay
      BY <2>4
    <2> QED
      BY <2>1, <2>2, <2>3, <2>4 DEF Execute, ExecuteStep, QuoteExpires, Abandon,
         StatementFails, RefreshQuote, Decide, Refuse, ReleaseRefused, BindAuthorization,
         Reserve, ReserveRefused, PrepareRefused, CreateProviderOrder, StartProcessing,
         AnswerCheckout, FailRelease
  <1>2. CASE BuyerStep
    <2>1. ASSUME NEW i \in Intents, VerifyWrite(i) PROVE pay[p].status = "CAPTURED"
      BY <1>0, <2>1 DEF TypeOK, VerifyWrite, PaymentRow
    <2> QED
      BY <1>2, <2>1 DEF BuyerStep, VerifyRead, BuyerApproves
  <1>3. CASE ProviderStep
    BY <1>3 DEF ProviderStep, Pays, Settles
  <1>4. CASE ProcessorStep
    <2>1. PICK e \in inbox : ProcessEvent(e) \/ GiveUp(e)
      BY <1>4 DEF ProcessorStep
    <2>2. CASE applyCaptured(e)
      BY <1>0, <2>2 DEF TypeOK, applyCaptured, PaymentRow
    <2>3. CASE applyAuthorized(e)
      BY <1>0, <2>3 DEF TypeOK, applyAuthorized, PaymentRow
    <2>4. CASE applyFailed(e)
      BY <1>0, <2>4 DEF TypeOK, applyFailed, PaymentRow
    <2> QED
      BY <2>1, <2>2, <2>3, <2>4 DEF ProcessEvent, ignoreDuplicateCapture, GiveUp
  <1>5. CASE SurroundingStep
    BY <1>0, <1>5 DEF SurroundingStep, ChangePrice, ReservationLapses, GrantLapses, Crash,
       DemoReset, PaymentRow
  <1>6. CASE UNCHANGED vars
    BY <1>6 DEF vars
  <1> QED
    BY <1>1, <1>2, <1>3, <1>4, <1>5, <1>6 DEF Next

(* Who writes what the buyer and the provider have in hand.                *)
LEMMA ProviderWriters ==
  ASSUME TypeOK, [Next]_vars
  PROVE  \/ prov' = prov /\ checkout' = checkout /\ inbox' \subseteq inbox
         \/ /\ prov' = prov /\ inbox' = inbox
            /\ \E w \in Workers : AnswerCheckout(w)
         \/ /\ checkout' = checkout
            /\ \E p \in Payments :
                 \/ \E o \in {"authorized", "failed"} : Pays(p, o)
                 \/ \E o \in {"captured", "failed"} : Settles(p, o)
  <1> USE DEF authVars, shopVars, moneyVars
  <1>1. CASE RequestStep
    <2>1. PICK w \in Workers :
            \/ \E j \in Intents : Execute(w, j)
            \/ ExecuteStep(w)
            \/ QuoteExpires(w) \/ Abandon(w) \/ StatementFails(w)
      BY <1>1 DEF RequestStep
    <2>2. CASE AnswerCheckout(w)
      BY <2>2 DEF AnswerCheckout
    <2>3. CASE UNCHANGED <<prov, checkout, inbox>>
      BY <2>3
    <2> QED
      BY <2>1, <2>2, <2>3 DEF Execute, ExecuteStep, QuoteExpires, Abandon,
         StatementFails, RefreshQuote, Decide, Refuse, ReleaseRefused, BindAuthorization,
         Reserve, ReserveRefused, PrepareInternalAttempt, PrepareRefused,
         CreateProviderOrder, StartProcessing, FailPayment, FailRelease
  <1>2. CASE BuyerStep
    BY <1>2 DEF BuyerStep, VerifyRead, VerifyWrite, BuyerApproves
  <1>3. CASE ProviderStep
    BY <1>3 DEF ProviderStep, Pays, Settles
  <1>4. CASE ProcessorStep
    BY <1>4 DEF ProcessorStep, ProcessEvent, applyAuthorized, applyCaptured, applyFailed,
       ignoreDuplicateCapture, GiveUp, Handled
  <1>5. CASE SurroundingStep
    BY <1>5 DEF SurroundingStep, ChangePrice, ReservationLapses, GrantLapses, DemoReset, Crash
  <1>6. CASE UNCHANGED vars
    BY <1>6 DEF vars
  <1> QED
    BY <1>1, <1>2, <1>3, <1>4, <1>5, <1>6 DEF Next

(* What waits to be processed as a capture was captured by the provider,   *)
(* for whom a capture is final.                                            *)
CapturesReported ==
  \A e \in inbox : e.kind = "captured" => prov[e.pay].status = "captured"

LEMMA CaptureStays ==
  ASSUME TypeOK, [Next]_vars, NEW p \in Payments, prov[p].status = "captured"
  PROVE  prov'[p].status = "captured"
  <1>1. ASSUME NEW q \in Payments, NEW o, Pays(q, o) PROVE prov'[p].status = "captured"
    BY <1>1 DEF TypeOK, Pays
  <1>2. ASSUME NEW q \in Payments, NEW o, Settles(q, o) PROVE prov'[p].status = "captured"
    BY <1>2 DEF TypeOK, Settles, ProviderPayment
  <1> QED
    BY <1>1, <1>2, ProviderWriters

LEMMA CapturesReportedNext ==
  ASSUME TypeOK, CapturesReported, [Next]_vars
  PROVE  CapturesReported'
  <1> SUFFICES ASSUME NEW e \in inbox', e.kind = "captured"
               PROVE  prov'[e.pay].status = "captured"
    BY DEF CapturesReported
  <1>1. CASE e \in inbox
    BY <1>1, EventType, CaptureStays DEF CapturesReported
  <1>2. ASSUME NEW q \in Payments, NEW o, Settles(q, o), e \notin inbox
        PROVE  prov'[e.pay].status = "captured"
    BY <1>2 DEF TypeOK, Settles, Announce, ProviderPayment
  <1>3. ASSUME NEW q \in Payments, NEW o \in {"authorized", "failed"}, Pays(q, o)
        PROVE  e \in inbox
    BY <1>3 DEF Pays, Announce
  <1> QED
    BY <1>1, <1>2, <1>3, ProviderWriters

(* What is recorded as captured was captured by the provider and has a     *)
(* confirmed order, and an order has at most one such payment, in every    *)
(* regime.                                                                 *)
THEOREM OneCapturePerOrder == Spec => []CapturedOnce
  <1>1. Init => CapturedOnce /\ CapturesReported
    BY DEF Init, CapturedOnce, CapturesReported
  <1>2. LedgerInv /\ CapturesReported /\ CapturedOnce /\ [Next]_vars => CapturedOnce'
    <2> SUFFICES ASSUME LedgerInv, CapturesReported, CapturedOnce, [Next]_vars
                 PROVE  CapturedOnce'
      OBVIOUS
    <2>0. TypeOK /\ ClosedOrderHoldsNothing
      BY DEF LedgerInv
    <2>1. ASSUME NEW i \in Sold PROVE i \in Sold'
      BY <2>0, ClosedOrderStays DEF Sold
    <2>2. ASSUME NEW p \in Payments, pay'[p].status = "CAPTURED"
          PROVE  p[1] \in Sold' /\ prov'[p].status = "captured"
      <3>1. CASE pay[p].status = "CAPTURED"
        BY <2>0, <2>1, <3>1, CaptureStays DEF CapturedOnce
      <3>2. ASSUME NEW e \in inbox, e.pay = p, applyCaptured(e)
            PROVE  p[1] \in Sold' /\ prov'[p].status = "captured"
        <4>1. p[1] \in Sold'
          BY <2>0, <3>2, EventType DEF applyCaptured, TypeOK, Sold, OrderRow
        <4>2. prov[p].status = "captured" /\ prov' = prov
          BY <3>2 DEF applyCaptured, CapturesReported
        <4> QED
          BY <4>1, <4>2
      <3> QED
        BY <2>0, <2>2, <3>1, <3>2, CaptureWriters
    <2>3. ASSUME NEW p \in Payments, NEW q \in Payments, p[1] = q[1],
                 pay'[p].status = "CAPTURED", pay'[q].status = "CAPTURED"
          PROVE  p = q
      <3>1. ASSUME NEW e \in inbox, e.pay = p, applyCaptured(e)
            PROVE  \A x \in Payments : x[1] = p[1] => pay[x].status # "CAPTURED"
        BY <2>0, <3>1, EventType DEF applyCaptured, Capturable, ClosedOrderHoldsNothing,
           CapturedOnce, Sold
      <3>2. ASSUME NEW e \in inbox, e.pay = q, applyCaptured(e)
            PROVE  \A x \in Payments : x[1] = q[1] => pay[x].status # "CAPTURED"
        BY <2>0, <3>2, EventType DEF applyCaptured, Capturable, ClosedOrderHoldsNothing,
           CapturedOnce, Sold
      <3>3. CASE pay[p].status = "CAPTURED" /\ pay[q].status = "CAPTURED"
        BY <2>3, <3>3 DEF CapturedOnce
      <3>4. ASSUME NEW e \in inbox, applyCaptured(e), NEW x \in Payments,
                   pay'[x].status = "CAPTURED", pay[x].status # "CAPTURED"
            PROVE  x = e.pay
        BY <2>0, <3>4, EventType DEF applyCaptured, TypeOK
      <3> QED
        BY <2>0, <2>3, <3>1, <3>2, <3>3, <3>4, CaptureWriters
    <2> QED
      BY <2>2, <2>3 DEF CapturedOnce
  <1>3. LedgerInv /\ CapturesReported /\ [Next]_vars => CapturesReported'
    BY CapturesReportedNext DEF LedgerInv
  <1> QED
    BY <1>1, <1>2, <1>3, LedgerInvariant, PTL DEF Spec

(***************************************************************************)
(* Approvals.                                                              *)
(***************************************************************************)

(* The buyer approved exactly the amount a of intent i, or a needs none.   *)
Covered(i, a) == a <= Limit \/ (grant[i].status # "NONE" /\ grant[i].amount = a)

(* A request that was allowed carries a covered price up to the attempt.   *)
AllowedIsCovered ==
  \A w \in Workers : req[w].pc \in {"bind", "reserve", "prepare"} =>
    Covered(req[w].intent, req[w].price)

AttemptIsCovered == \A p \in Payments : Covered(p[1], pay[p].amount)

CoverInv == TypeOK /\ AllowedIsCovered /\ AttemptIsCovered

(* What was covered stays covered: an approval is never replaced.          *)
LEMMA CoverStays ==
  ASSUME TypeOK, [Next]_vars, NEW i \in Intents, grant[i].status # "NONE"
  PROVE  grant'[i].status # "NONE" /\ grant'[i].amount = grant[i].amount
  <1> USE DEF authVars, shopVars, moneyVars
  <1>0. grant[i] \in GrantRow
    BY DEF TypeOK
  <1>1. CASE RequestStep
    BY <1>1 DEF RequestStep, Execute, ExecuteStep, QuoteExpires, Abandon, StatementFails,
       RefreshQuote, Decide, Refuse, ReleaseRefused, BindAuthorization, Reserve,
       ReserveRefused, PrepareInternalAttempt, PrepareRefused, CreateProviderOrder,
       StartProcessing, AnswerCheckout, FailPayment, FailRelease
  <1>2. CASE BuyerStep
    <2>1. ASSUME NEW j \in Intents, BuyerApproves(j) PROVE grant'[i] = grant[i]
      BY <2>1 DEF TypeOK, BuyerApproves
    <2> QED
      BY <1>2, <2>1 DEF BuyerStep, VerifyRead, VerifyWrite
  <1>3. CASE ProviderStep
    BY <1>3 DEF ProviderStep, Pays, Settles
  <1>4. CASE ProcessorStep
    <2>1. PICK e \in inbox : ProcessEvent(e) \/ GiveUp(e)
      BY <1>4 DEF ProcessorStep
    <2>2. CASE applyCaptured(e)
      BY <1>0, <2>2 DEF TypeOK, applyCaptured, GrantRow
    <2> QED
      BY <2>1, <2>2 DEF ProcessEvent, applyAuthorized, applyFailed, ignoreDuplicateCapture,
         GiveUp
  <1>5. CASE SurroundingStep
    <2>1. ASSUME NEW j \in Intents, GrantLapses(j)
          PROVE  grant'[i].status # "NONE" /\ grant'[i].amount = grant[i].amount
      BY <1>0, <2>1 DEF TypeOK, GrantLapses, GrantRow
    <2>2. CASE DemoReset
      BY <1>0, <2>2 DEF DemoReset, GrantRow
    <2> QED
      BY <1>5, <2>1, <2>2 DEF SurroundingStep, ChangePrice, ReservationLapses, Crash
  <1>6. CASE UNCHANGED vars
    BY <1>6 DEF vars
  <1> QED
    BY <1>1, <1>2, <1>3, <1>4, <1>5, <1>6 DEF Next

(* A request that is between the decision and the attempt after a step was *)
(* there before with the same price, or was allowed in this step.          *)
LEMMA AllowedBefore ==
  ASSUME TypeOK, [Next]_vars, NEW w \in Workers,
         req'[w].pc \in {"bind", "reserve", "prepare"}
  PROVE  \/ /\ req[w].pc \in {"bind", "reserve", "prepare"}
            /\ req'[w].intent = req[w].intent /\ req'[w].price = req[w].price
         \/ /\ Decide(w)
            /\ req'[w].intent = req[w].intent /\ req'[w].price = req[w].price
            /\ "ALLOW" \in Outcomes(req[w].intent, req[w].price, req[w].inStock)
  <1> USE DEF authVars, shopVars, moneyVars, Goto, Step, At
  <1>0. \A x \in Workers : req[x] \in Request
    BY DEF TypeOK
  <1>1. CASE RequestStep
    <2>1. PICK x \in Workers :
            \/ \E j \in Intents : Execute(x, j)
            \/ ExecuteStep(x)
            \/ QuoteExpires(x) \/ Abandon(x) \/ StatementFails(x)
      BY <1>1 DEF RequestStep
    <2>2. CASE \E j \in Intents : Execute(x, j)
      BY <1>0, <2>2 DEF TypeOK, Execute, Idle
    <2>3. CASE RefreshQuote(x)
      BY <1>0, <2>3 DEF TypeOK, RefreshQuote, Superseded, Request
    <2>4. CASE Decide(x)
      <3>1. PICK o \in Outcomes(req[x].intent, req[x].price, req[x].inStock) :
              req' = [req EXCEPT ![x] =
                 [req[x] EXCEPT !.pc = IF o = "ALLOW" THEN "bind" ELSE "refuse",
                                !.outcome = IF o = "ALLOW" /\ Exact(req[x].intent, req[x].price)
                                            THEN "ALLOW_EXACT" ELSE o]]
        BY <2>4 DEF Decide
      <3>2. CASE w = x
        BY <1>0, <2>4, <3>1, <3>2 DEF TypeOK, Request
      <3>3. CASE w # x
        BY <3>1, <3>3 DEF TypeOK
      <3> QED
        BY <3>2, <3>3
    <2>5. CASE BindAuthorization(x)
      BY <1>0, <2>5 DEF TypeOK, BindAuthorization, Request
    <2>6. CASE Reserve(x)
      BY <1>0, <2>6 DEF TypeOK, Reserve, Request
    <2>7. CASE PrepareInternalAttempt(x)
      BY <1>0, <2>7 DEF TypeOK, PrepareInternalAttempt, Request
    <2>8. CASE QuoteExpires(x)
      BY <1>0, <2>8 DEF TypeOK, QuoteExpires, Request
    <2>9. CASE Refuse(x) \/ ReleaseRefused(x) \/ ReserveRefused(x) \/ PrepareRefused(x)
               \/ CreateProviderOrder(x) \/ StartProcessing(x) \/ AnswerCheckout(x)
               \/ FailPayment(x) \/ FailRelease(x) \/ Abandon(x) \/ StatementFails(x)
      <3>1. \/ Goto(x, Idle)
            \/ \E pc \in {"release", "start", "answer", "failPayment", "failRelease"} :
                 Step(x, pc)
        BY <2>9 DEF Refuse, ReleaseRefused, ReserveRefused, PrepareRefused,
           CreateProviderOrder, StartProcessing, AnswerCheckout, FailPayment, FailRelease,
           Abandon, StatementFails
      <3> QED
        BY <1>0, <3>1 DEF TypeOK, Request, Idle
    <2> QED
      BY <2>1, <2>2, <2>3, <2>4, <2>5, <2>6, <2>7, <2>8, <2>9 DEF ExecuteStep
  <1>2. CASE BuyerStep
    <2>1. ASSUME NEW j \in Intents, BuyerApproves(j)
          PROVE  req'[w].pc = req[w].pc /\ req'[w].intent = req[w].intent
                 /\ req'[w].price = req[w].price
      BY <1>0, <2>1 DEF BuyerApproves, Superseded, Request
    <2> QED
      BY <1>2, <2>1 DEF BuyerStep, VerifyRead, VerifyWrite
  <1>3. CASE ProviderStep
    BY <1>3 DEF ProviderStep, Pays, Settles
  <1>4. CASE ProcessorStep
    BY <1>4 DEF ProcessorStep, ProcessEvent, applyAuthorized, applyCaptured, applyFailed,
       ignoreDuplicateCapture, GiveUp
  <1>5. CASE SurroundingStep
    BY <1>5 DEF SurroundingStep, ChangePrice, ReservationLapses, GrantLapses, Crash,
       DemoReset, Idle
  <1>6. CASE UNCHANGED vars
    BY <1>6 DEF vars
  <1> QED
    BY <1>1, <1>2, <1>3, <1>4, <1>5, <1>6 DEF Next

(* The amount of a payment row is written once, by the request that        *)
(* creates the row, at the price of its quote.                             *)
LEMMA AmountWriters ==
  ASSUME TypeOK, [Next]_vars, NEW p \in Payments
  PROVE  \/ pay'[p].amount = pay[p].amount
         \/ \E w \in Workers : /\ PrepareInternalAttempt(w)
                               /\ req[w].pc = "prepare" /\ p[1] = req[w].intent
                               /\ pay'[p].amount = req[w].price
  <1> USE DEF authVars, shopVars, moneyVars
  <1>0. pay[p] \in PaymentRow
    BY DEF TypeOK
  <1>1. CASE RequestStep
    <2>1. PICK w \in Workers :
            \/ \E j \in Intents : Execute(w, j)
            \/ ExecuteStep(w)
            \/ QuoteExpires(w) \/ Abandon(w) \/ StatementFails(w)
      BY <1>1 DEF RequestStep
    <2>2. CASE PrepareInternalAttempt(w)
      <3>1. \/ pay'[p].amount = pay[p].amount
            \/ /\ req[w].pc = "prepare" /\ p[1] = req[w].intent
               /\ pay'[p].amount = req[w].price
        BY <2>2 DEF TypeOK, PrepareInternalAttempt, At
      <3> QED
        BY <2>2, <3>1
    <2>3. CASE FailPayment(w)
      BY <1>0, <2>3 DEF TypeOK, FailPayment, PaymentRow
    <2> QED
      BY <2>1, <2>2, <2>3 DEF Execute, ExecuteStep, QuoteExpires, Abandon,
         StatementFails, RefreshQuote, Decide, Refuse, ReleaseRefused, BindAuthorization,
         Reserve, ReserveRefused, PrepareRefused, CreateProviderOrder, StartProcessing,
         AnswerCheckout, FailRelease
  <1>2. CASE BuyerStep
    <2>1. ASSUME NEW i \in Intents, VerifyWrite(i) PROVE pay'[p].amount = pay[p].amount
      BY <1>0, <2>1 DEF TypeOK, VerifyWrite, PaymentRow
    <2> QED
      BY <1>2, <2>1 DEF BuyerStep, VerifyRead, BuyerApproves
  <1>3. CASE ProviderStep
    BY <1>3 DEF ProviderStep, Pays, Settles
  <1>4. CASE ProcessorStep
    <2>1. PICK e \in inbox : ProcessEvent(e) \/ GiveUp(e)
      BY <1>4 DEF ProcessorStep
    <2>2. CASE applyCaptured(e)
      BY <1>0, <2>2 DEF TypeOK, applyCaptured, PaymentRow
    <2>3. CASE applyAuthorized(e)
      BY <1>0, <2>3 DEF TypeOK, applyAuthorized, PaymentRow
    <2>4. CASE applyFailed(e)
      BY <1>0, <2>4 DEF TypeOK, applyFailed, PaymentRow
    <2> QED
      BY <2>1, <2>2, <2>3, <2>4 DEF ProcessEvent, ignoreDuplicateCapture, GiveUp
  <1>5. CASE SurroundingStep
    BY <1>0, <1>5 DEF SurroundingStep, ChangePrice, ReservationLapses, GrantLapses, Crash,
       DemoReset, PaymentRow
  <1>6. CASE UNCHANGED vars
    BY <1>6 DEF vars
  <1> QED
    BY <1>1, <1>2, <1>3, <1>4, <1>5, <1>6 DEF Next

LEMMA CoverInit == Init => CoverInv
  <1> SUFFICES ASSUME Init PROVE AllowedIsCovered /\ AttemptIsCovered
    BY TypeInit DEF CoverInv
  <1>1. AllowedIsCovered
    BY DEF Init, Idle, AllowedIsCovered
  <1>2. AttemptIsCovered
    BY ConstantsAssumption DEF Init, AttemptIsCovered, Covered
  <1> QED
    BY <1>1, <1>2

LEMMA CoverNext == CoverInv /\ [Next]_vars => CoverInv'
  <1> SUFFICES ASSUME CoverInv, [Next]_vars PROVE CoverInv'
    OBVIOUS
  <1>0. TypeOK /\ AllowedIsCovered /\ AttemptIsCovered /\ TypeOK'
    BY TypeNext DEF CoverInv
  <1>1. ASSUME NEW w \in Workers, req'[w].pc \in {"bind", "reserve", "prepare"}
        PROVE  Covered(req[w].intent, req[w].price)'
    <2>1. req[w].pc # "idle" => req[w].intent \in Intents
      BY <1>0 DEF TypeOK
    <2>2. CASE /\ req[w].pc \in {"bind", "reserve", "prepare"}
               /\ req'[w].intent = req[w].intent /\ req'[w].price = req[w].price
      <3>1. Covered(req[w].intent, req[w].price) /\ req[w].intent \in Intents
        BY <1>0, <2>1, <2>2 DEF AllowedIsCovered
      <3> QED
        BY <1>0, <2>2, <3>1, CoverStays DEF Covered
    <2>3. CASE /\ Decide(w)
               /\ req'[w].intent = req[w].intent /\ req'[w].price = req[w].price
               /\ "ALLOW" \in Outcomes(req[w].intent, req[w].price, req[w].inStock)
      <3>1. req[w].price <= Limit \/ Exact(req[w].intent, req[w].price)
        BY <2>3 DEF Outcomes
      <3>2. Covered(req[w].intent, req[w].price)
        BY <3>1 DEF Exact, GrantUsable, Covered
      <3> QED
        BY <2>3, <3>2 DEF Covered, Decide, authVars
    <2> QED
      BY <1>0, <1>1, <2>2, <2>3, AllowedBefore
  <1>2. ASSUME NEW p \in Payments PROVE Covered(p[1], pay[p].amount)'
    <2>1. p[1] \in Intents
      BY DEF Payments
    <2>2. CASE pay'[p].amount = pay[p].amount
      BY <1>0, <2>1, <2>2, CoverStays DEF AttemptIsCovered, Covered
    <2>3. ASSUME NEW w \in Workers, req[w].pc = "prepare", p[1] = req[w].intent,
                 pay'[p].amount = req[w].price
          PROVE  Covered(p[1], pay[p].amount)'
      <3>1. Covered(p[1], req[w].price)
        BY <1>0, <2>3 DEF AllowedIsCovered
      <3> QED
        BY <1>0, <2>1, <2>3, <3>1, CoverStays DEF Covered
    <2> QED
      BY <1>0, <2>2, <2>3, AmountWriters
  <1> QED
    BY <1>0, <1>1, <1>2 DEF CoverInv, AllowedIsCovered, AttemptIsCovered

(* However requests, price changes and expiries interleave, no attempt     *)
(* above the limit exists without the buyer's approval of its amount.      *)
THEOREM AttemptsApproved == Spec => []NoUnapprovedAttempt
  <1>1. CoverInv => NoUnapprovedAttempt
    BY ConstantsAssumption
    DEF CoverInv, AttemptIsCovered, Covered, NoUnapprovedAttempt, TypeOK, PaymentRow
  <1> QED
    BY <1>1, CoverInit, CoverNext, PTL DEF Spec

(***************************************************************************)
(* The lifecycle of the intents.                                           *)
(***************************************************************************)

(* The states an intent is in once it was prepared.                        *)
Prepared == {"APPROVED", "AWAITING_APPROVAL", "BLOCKED", "PAYMENT_PROCESSING",
             "COMPLETED", "CANCELED"}

PreparedInv == TypeOK /\ \A i \in Intents : status[i] \in Prepared

(* The moves of the table the steps of Checkout make.                      *)
Moves == { <<"APPROVED", "BLOCKED">>, <<"APPROVED", "AWAITING_APPROVAL">>,
           <<"APPROVED", "PAYMENT_PROCESSING">>, <<"AWAITING_APPROVAL", "APPROVED">>,
           <<"PAYMENT_PROCESSING", "COMPLETED">>, <<"PAYMENT_PROCESSING", "APPROVED">>,
           <<"APPROVED", "CANCELED">>, <<"AWAITING_APPROVAL", "CANCELED">>,
           <<"PAYMENT_PROCESSING", "CANCELED">> }

LEMMA MovesAllowed ==
  ASSUME NEW from, NEW to, <<from, to>> \in Moves
  PROVE  canTransition(from, to) /\ to \in Prepared
  BY DEF Moves, canTransition, allowedTransitions, Prepared

LEMMA StatusWriters ==
  ASSUME PreparedInv, [Next]_vars, NEW i \in Intents, status'[i] # status[i]
  PROVE  <<status[i], status'[i]>> \in Moves
  <1> USE DEF authVars, shopVars, moneyVars
  <1>0. TypeOK /\ status[i] \in Prepared
    BY DEF PreparedInv
  <1>1. CASE RequestStep
    <2>1. PICK w \in Workers :
            \/ \E j \in Intents : Execute(w, j)
            \/ ExecuteStep(w)
            \/ QuoteExpires(w) \/ Abandon(w) \/ StatementFails(w)
      BY <1>1 DEF RequestStep
    <2>2. CASE Refuse(w)
      BY <1>0, <2>2 DEF TypeOK, Refuse, Moves
    <2>3. CASE StartProcessing(w)
      BY <1>0, <2>3 DEF TypeOK, StartProcessing, Moves
    <2> QED
      BY <2>1, <2>2, <2>3 DEF Execute, ExecuteStep, QuoteExpires, Abandon,
         StatementFails, RefreshQuote, Decide, ReleaseRefused, BindAuthorization,
         Reserve, ReserveRefused, PrepareInternalAttempt, PrepareRefused,
         CreateProviderOrder, AnswerCheckout, FailPayment, FailRelease
  <1>2. CASE BuyerStep
    <2>1. ASSUME NEW j \in Intents, BuyerApproves(j)
          PROVE  <<status[i], status'[i]>> \in Moves
      BY <1>0, <2>1 DEF TypeOK, BuyerApproves, Moves
    <2> QED
      BY <1>2, <2>1 DEF BuyerStep, VerifyRead, VerifyWrite
  <1>3. CASE ProviderStep
    BY <1>3 DEF ProviderStep, Pays, Settles
  <1>4. CASE ProcessorStep
    <2>1. PICK e \in inbox : ProcessEvent(e) \/ GiveUp(e)
      BY <1>4 DEF ProcessorStep
    <2>2. CASE applyCaptured(e)
      BY <1>0, <2>2 DEF TypeOK, applyCaptured, Moves
    <2>3. CASE applyFailed(e)
      BY <1>0, <2>3 DEF TypeOK, applyFailed, Moves
    <2> QED
      BY <2>1, <2>2, <2>3 DEF ProcessEvent, applyAuthorized, ignoreDuplicateCapture, GiveUp
  <1>5. CASE SurroundingStep
    <2>1. CASE DemoReset
      BY <1>0, <2>1 DEF DemoReset, OpenIntent, Prepared, Moves
    <2> QED
      BY <1>5, <2>1 DEF SurroundingStep, ChangePrice, ReservationLapses, GrantLapses, Crash
  <1>6. CASE UNCHANGED vars
    BY <1>6 DEF vars
  <1> QED
    BY <1>1, <1>2, <1>3, <1>4, <1>5, <1>6 DEF Next

(* Every write of an intent's status, guarded by the state machine or not, *)
(* is a transition of its table.                                           *)
THEOREM TableFollowed == Spec => FollowsTable
  <1>1. Init => PreparedInv
    BY TypeInit DEF Init, PreparedInv, Prepared
  <1>2. PreparedInv /\ [Next]_vars => PreparedInv'
    BY TypeNext, StatusWriters, MovesAllowed DEF PreparedInv
  <1>3. PreparedInv /\ [Next]_vars =>
          [\A i \in Intents :
             status'[i] # status[i] => canTransition(status[i], status'[i])]_vars
    BY StatusWriters, MovesAllowed
  <1> QED
    BY <1>1, <1>2, <1>3, PTL DEF Spec, FollowsTable
=============================================================================
