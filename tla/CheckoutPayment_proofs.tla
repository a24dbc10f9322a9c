----------------------- MODULE CheckoutPayment_proofs -----------------------
(***************************************************************************)
(* What a buyer's money buys, when a client has one execute request per    *)
(* intent in flight: the reservation is there when the capture comes, the  *)
(* order says what was paid, and an amount above the limit was approved.   *)
(***************************************************************************)
EXTENDS CheckoutReservation_proofs

(***************************************************************************)
(* Who writes requests, statuses and reservations.                         *)
(***************************************************************************)

(* What the invariants read of a request.                                  *)
Same(w) ==
  /\ req'[w].pc = req[w].pc /\ req'[w].intent = req[w].intent
  /\ req'[w].price = req[w].price /\ req'[w].outcome = req[w].outcome
  /\ req'[w].attempt = req[w].attempt

(* A request stays as it was, ends, begins or takes its next step.         *)
LEMMA RequestMoves ==
  ASSUME TypeOK, [Next]_vars, NEW w \in Workers
  PROVE  \/ Same(w)
         \/ req'[w] = Idle
         \/ \E i \in Intents : Execute(w, i)
         \/ ExecuteStep(w)
         \/ StatementFails(w)
  <1> USE DEF authVars, shopVars, moneyVars
  <1>0. \A x \in Workers : req[x] \in Request
    BY DEF TypeOK
  <1>1. CASE RequestStep
    <2>1. PICK x \in Workers :
            \/ \E j \in Intents : Execute(x, j)
            \/ ExecuteStep(x)
            \/ QuoteExpires(x) \/ Abandon(x) \/ StatementFails(x)
      BY <1>1 DEF RequestStep
    <2>2. CASE QuoteExpires(x)
      BY <1>0, <2>2 DEF TypeOK, QuoteExpires, Goto, Same, Request
    <2>3. CASE Abandon(x)
      BY <1>0, <2>3 DEF TypeOK, Abandon, Goto, Same
    <2>4. CASE x = w
      BY <2>1, <2>2, <2>3, <2>4
    <2>5. CASE x # w
      <3>1. CASE RefreshQuote(x)
        BY <1>0, <2>5, <3>1 DEF TypeOK, RefreshQuote, Superseded, Same, Request
      <3>2. CASE \E r : Goto(x, r)
        BY <1>0, <2>5, <3>2 DEF TypeOK, Goto, Same
      <3> QED
        BY <2>1, <2>2, <2>3, <3>1, <3>2 DEF Execute, ExecuteStep, Decide, Refuse, StatementFails,
           ReleaseRefused, BindAuthorization, Reserve, ReserveRefused, Step,
           PrepareInternalAttempt, PrepareRefused, CreateProviderOrder, StartProcessing,
           AnswerCheckout, FailPayment, FailRelease
    <2> QED
      BY <2>4, <2>5
  <1>2. CASE BuyerStep
    <2>1. ASSUME NEW j \in Intents, BuyerApproves(j) PROVE Same(w)
      BY <1>0, <2>1 DEF BuyerApproves, Superseded, Request, Same
    <2> QED
      BY <1>2, <2>1 DEF BuyerStep, VerifyRead, VerifyWrite, Same
  <1>3. CASE ProviderStep
    BY <1>3 DEF ProviderStep, Pays, Settles, Same
  <1>4. CASE ProcessorStep
    BY <1>4 DEF ProcessorStep, ProcessEvent, applyAuthorized, applyCaptured, applyFailed,
       ignoreDuplicateCapture, GiveUp, Same
  <1>5. CASE SurroundingStep
    BY <1>5 DEF SurroundingStep, ChangePrice, ReservationLapses, GrantLapses, DemoReset,
       Crash, Same
  <1>6. CASE UNCHANGED vars
    BY <1>6 DEF vars, Same
  <1> QED
    BY <1>1, <1>2, <1>3, <1>4, <1>5, <1>6 DEF Next

(* A status changes in six places.                                         *)
StatusStep(i) ==
  \/ status'[i] = status[i]
  \/ \E w \in Workers :
       /\ Refuse(w) /\ req[w].intent = i /\ req'[w].pc = "release"
       /\ status[i] = "APPROVED" /\ status'[i] \in {"BLOCKED", "AWAITING_APPROVAL"}
  \/ \E w \in Workers :
       /\ StartProcessing(w) /\ req[w].intent = i /\ req'[w].pc = "answer"
       /\ status[i] = "APPROVED" /\ status'[i] = "PAYMENT_PROCESSING"
  \/ BuyerApproves(i) /\ status[i] = "AWAITING_APPROVAL" /\ status'[i] = "APPROVED"
  \/ \E e \in inbox :
       /\ applyCaptured(e) /\ e.pay[1] = i
       /\ status[i] = "PAYMENT_PROCESSING" /\ status'[i] = "COMPLETED"
  \/ \E e \in inbox :
       /\ applyFailed(e) /\ e.pay[1] = i /\ pay[e.pay].status # "CAPTURED"
       /\ status[i] = "PAYMENT_PROCESSING" /\ status'[i] = "APPROVED"
  \/ DemoReset /\ status[i] \in OpenIntent /\ status'[i] = "CANCELED"

LEMMA StatusSteps ==
  ASSUME TypeOK, [Next]_vars, NEW i \in Intents
  PROVE  StatusStep(i)
  <1> USE DEF authVars, shopVars, moneyVars, StatusStep
  <1>0. \A x \in Workers : req[x] \in Request
    BY DEF TypeOK
  <1>1. CASE RequestStep
    <2>1. PICK x \in Workers :
            \/ \E j \in Intents : Execute(x, j)
            \/ ExecuteStep(x)
            \/ QuoteExpires(x) \/ Abandon(x) \/ StatementFails(x)
      BY <1>1 DEF RequestStep
    <2>2. CASE Refuse(x)
      BY <1>0, <2>2 DEF TypeOK, Refuse, Step, Goto, Request
    <2>3. CASE StartProcessing(x)
      BY <1>0, <2>3 DEF TypeOK, StartProcessing, Step, Goto, Request
    <2>4. CASE UNCHANGED status
      BY <2>4
    <2> QED
      BY <2>1, <2>2, <2>3, <2>4 DEF Execute, ExecuteStep, QuoteExpires, Abandon,
         StatementFails, RefreshQuote, Decide, ReleaseRefused, BindAuthorization, Reserve,
         ReserveRefused, PrepareInternalAttempt, PrepareRefused, CreateProviderOrder,
         AnswerCheckout, FailPayment, FailRelease
  <1>2. CASE BuyerStep
    BY <1>2 DEF TypeOK, BuyerStep, VerifyRead, VerifyWrite, BuyerApproves
  <1>3. CASE ProviderStep
    BY <1>3 DEF ProviderStep, Pays, Settles
  <1>4. CASE ProcessorStep
    <2>1. PICK e \in inbox : ProcessEvent(e) \/ GiveUp(e)
      BY <1>4 DEF ProcessorStep
    <2>2. CASE applyCaptured(e)
      BY <2>2 DEF TypeOK, applyCaptured
    <2>3. CASE applyFailed(e)
      BY <2>3 DEF TypeOK, applyFailed
    <2> QED
      BY <2>1, <2>2, <2>3 DEF ProcessEvent, applyAuthorized, ignoreDuplicateCapture, GiveUp
  <1>5. CASE SurroundingStep
    <2>1. CASE DemoReset
      BY <2>1 DEF DemoReset
    <2> QED
      BY <1>5, <2>1 DEF SurroundingStep, ChangePrice, ReservationLapses, GrantLapses, Crash
  <1>6. CASE UNCHANGED vars
    BY <1>6 DEF vars
  <1> QED
    BY <1>1, <1>2, <1>3, <1>4, <1>5, <1>6 DEF Next

(* What a step may do to the reservation of an intent: keep what counts of *)
(* it, end it, or one of the two steps that make and attach it.            *)
LEMMA ReservationWriters ==
  ASSUME TypeOK, [Next]_vars, NEW i \in Intents, Held(i)'
  PROVE  \/ /\ Held(i) /\ res'[i].attached = res[i].attached
            /\ \A w \in Workers : w \in res'[i].known => w \in res[i].known
         \/ \E w \in Workers : Reserve(w) /\ req[w].intent = i
         \/ \E w \in Workers : PrepareInternalAttempt(w) /\ req[w].intent = i
  <1> USE DEF authVars, shopVars, moneyVars, Held
  <1>0. res[i] \in ReservationRow
    BY DEF TypeOK
  <1>1. CASE RequestStep
    <2>1. PICK w \in Workers :
            \/ \E j \in Intents : Execute(w, j)
            \/ ExecuteStep(w)
            \/ QuoteExpires(w) \/ Abandon(w) \/ StatementFails(w)
      BY <1>1 DEF RequestStep
    <2>2. CASE ReleaseRefused(w) \/ FailRelease(w)
      BY <2>2 DEF TypeOK, ReleaseRefused, FailRelease, releaseForIntent, Closed, NoReservation
    <2>3. CASE Reserve(w)
      BY <2>3 DEF TypeOK, Reserve
    <2>4. CASE PrepareInternalAttempt(w)
      BY <2>4 DEF TypeOK, PrepareInternalAttempt
    <2>5. CASE UNCHANGED res
      BY <2>5
    <2> QED
      BY <2>1, <2>2, <2>3, <2>4, <2>5 DEF Execute, ExecuteStep, QuoteExpires, Abandon,
         StatementFails, RefreshQuote, Decide, Refuse, BindAuthorization, ReserveRefused,
         PrepareRefused, CreateProviderOrder, StartProcessing, AnswerCheckout, FailPayment
  <1>2. CASE BuyerStep
    BY <1>2 DEF BuyerStep, VerifyRead, VerifyWrite, BuyerApproves
  <1>3. CASE ProviderStep
    BY <1>3 DEF ProviderStep, Pays, Settles
  <1>4. CASE ProcessorStep
    <2>1. PICK e \in inbox : ProcessEvent(e) \/ GiveUp(e)
      BY <1>4 DEF ProcessorStep
    <2>2. CASE applyCaptured(e)
      BY <2>2 DEF TypeOK, applyCaptured, Closed, NoReservation
    <2>3. CASE applyFailed(e)
      BY <2>3 DEF TypeOK, applyFailed, Closed, NoReservation
    <2> QED
      BY <2>1, <2>2, <2>3 DEF ProcessEvent, applyAuthorized, ignoreDuplicateCapture, GiveUp
  <1>5. CASE SurroundingStep
    <2>1. CASE DemoReset
      BY <2>1 DEF DemoReset, Closed, NoReservation
    <2>2. ASSUME NEW j \in Intents, ReservationLapses(j)
          PROVE  /\ Held(i) /\ res'[i].attached = res[i].attached
                 /\ res'[i].known = res[i].known
      BY <1>0, <2>2 DEF TypeOK, ReservationLapses, ReservationRow
    <2> QED
      BY <1>5, <2>1, <2>2 DEF SurroundingStep, ChangePrice, GrantLapses, Crash
  <1>6. CASE UNCHANGED vars
    BY <1>6 DEF vars
  <1> QED
    BY <1>1, <1>2, <1>3, <1>4, <1>5, <1>6 DEF Next

(* Who writes one-time authorizations and the intent's choice of one.      *)
LEMMA GrantWriters ==
  ASSUME TypeOK, [Next]_vars, NEW i \in Intents
  PROVE  \/ grant'[i] = grant[i]
         \/ BuyerApproves(i)
         \/ \E e \in inbox : /\ applyCaptured(e) /\ e.pay[1] = i /\ bound[i] = "grant"
                             /\ grant'[i].status = "CONSUMED"
                             /\ grant'[i].lapsed = grant[i].lapsed
         \/ /\ GrantLapses(i) /\ Lapses
            /\ grant'[i].status = grant[i].status
         \/ /\ DemoReset /\ grant[i].status = "ACTIVE"
            /\ grant'[i].status = "REVOKED" /\ grant'[i].lapsed = grant[i].lapsed
  <1> USE DEF authVars, shopVars, moneyVars
  <1>0. grant[i] \in GrantRow
    BY DEF TypeOK
  <1>1. CASE RequestStep
    BY <1>1 DEF RequestStep, Execute, ExecuteStep, QuoteExpires, Abandon, StatementFails,
       RefreshQuote, Decide, Refuse, ReleaseRefused, BindAuthorization, Reserve,
       ReserveRefused, PrepareInternalAttempt, PrepareRefused, CreateProviderOrder,
       StartProcessing, AnswerCheckout, FailPayment, FailRelease
  <1>2. CASE BuyerStep
    <2>1. ASSUME NEW j \in Intents, BuyerApproves(j), j # i PROVE grant'[i] = grant[i]
      BY <2>1 DEF TypeOK, BuyerApproves
    <2> QED
      BY <1>2, <2>1 DEF BuyerStep, VerifyRead, VerifyWrite
  <1>3. CASE ProviderStep
    BY <1>3 DEF ProviderStep, Pays, Settles
  <1>4. CASE ProcessorStep
    <2>1. PICK e \in inbox : ProcessEvent(e) \/ GiveUp(e)
      BY <1>4 DEF ProcessorStep
    <2>2. CASE applyCaptured(e)
      BY <1>0, <2>2 DEF TypeOK, applyCaptured, GrantRow
    <2> QED
      BY <2>1, <2>2 DEF ProcessEvent, applyAuthorized, applyFailed, ignoreDuplicateCapture,
         GiveUp
  <1>5. CASE SurroundingStep
    <2>1. ASSUME NEW j \in Intents, GrantLapses(j)
          PROVE  \/ grant'[i] = grant[i]
                 \/ GrantLapses(i) /\ Lapses /\ grant'[i].status = grant[i].status
      BY <1>0, <2>1 DEF TypeOK, GrantLapses, GrantRow
    <2>2. CASE DemoReset
      BY <1>0, <2>2 DEF DemoReset, GrantRow
    <2> QED
      BY <1>5, <2>1, <2>2 DEF SurroundingStep, ChangePrice, ReservationLapses, Crash
  <1>6. CASE UNCHANGED vars
    BY <1>6 DEF vars
  <1> QED
    BY <1>1, <1>2, <1>3, <1>4, <1>5, <1>6 DEF Next

LEMMA BoundWriters ==
  ASSUME TypeOK, [Next]_vars, NEW i \in Intents
  PROVE  \/ bound'[i] = bound[i]
         \/ \E w \in Workers : BindAuthorization(w) /\ req[w].intent = i
         \/ BuyerApproves(i)
  <1> USE DEF authVars, shopVars, moneyVars
  <1>1. CASE RequestStep
    <2>1. ASSUME NEW w \in Workers, BindAuthorization(w), req[w].intent # i
          PROVE  bound'[i] = bound[i]
      BY <2>1 DEF TypeOK, BindAuthorization
    <2> QED
      BY <1>1, <2>1 DEF RequestStep, Execute, ExecuteStep, QuoteExpires, Abandon,
         StatementFails, RefreshQuote, Decide, Refuse, ReleaseRefused, Reserve,
         ReserveRefused, PrepareInternalAttempt, PrepareRefused, CreateProviderOrder,
         StartProcessing, AnswerCheckout, FailPayment, FailRelease
  <1>2. CASE BuyerStep
    <2>1. ASSUME NEW j \in Intents, BuyerApproves(j), j # i PROVE bound'[i] = bound[i]
      BY <2>1 DEF TypeOK, BuyerApproves
    <2> QED
      BY <1>2, <2>1 DEF BuyerStep, VerifyRead, VerifyWrite
  <1>3. CASE ProviderStep
    BY <1>3 DEF ProviderStep, Pays, Settles
  <1>4. CASE ProcessorStep
    BY <1>4 DEF ProcessorStep, ProcessEvent, applyAuthorized, applyCaptured, applyFailed,
       ignoreDuplicateCapture, GiveUp
  <1>5. CASE SurroundingStep
    BY <1>5 DEF SurroundingStep, ChangePrice, ReservationLapses, GrantLapses, DemoReset, Crash
  <1>6. CASE UNCHANGED vars
    BY <1>6 DEF vars
  <1> QED
    BY <1>1, <1>2, <1>3, <1>4, <1>5, <1>6 DEF Next

(***************************************************************************)
(* A request and its intent, when the intent has one request at a time.    *)
(***************************************************************************)

(* The order in which a request takes its steps.                           *)
Flow == { <<"quote", "decide">>, <<"decide", "bind">>, <<"decide", "refuse">>,
          <<"refuse", "release">>, <<"bind", "reserve">>, <<"reserve", "prepare">>,
          <<"prepare", "create">>, <<"create", "start">>, <<"create", "failPayment">>,
          <<"start", "answer">>, <<"start", "failPayment">>,
          <<"failPayment", "failRelease">> }

Begins(w) ==
  \E i \in Intents : Execute(w, i) /\ req'[w].intent = i /\ req'[w].pc = "quote"

Proceeds(w) ==
  /\ ExecuteStep(w)
  /\ <<req[w].pc, req'[w].pc>> \in Flow
  /\ req'[w].intent = req[w].intent
  /\ req[w].pc # "prepare" => req'[w].attempt = req[w].attempt

(* A statement failed: the catch block runs.                               *)
Catches(w) ==
  /\ Faults
  /\ req[w].pc \in {"start", "answer"} /\ req'[w].pc = "failPayment"
  /\ req'[w].intent = req[w].intent

LEMMA RequestFlow ==
  ASSUME TypeOK, [Next]_vars, NEW w \in Workers
  PROVE  Same(w) \/ req'[w] = Idle \/ Begins(w) \/ Proceeds(w) \/ Catches(w)
  <1>0. req[w] \in Request
    BY DEF TypeOK
  <1>1. ASSUME NEW i \in Intents, Execute(w, i) PROVE Begins(w)
    BY <1>1 DEF TypeOK, Execute, Goto, Idle, Begins
  <1>2. CASE StatementFails(w)
    BY <1>0, <1>2 DEF TypeOK, StatementFails, Step, Goto, Request, Catches
  <1>3. CASE ExecuteStep(w)
    <2> USE DEF At, Step, Goto, Flow
    <2>1. CASE RefreshQuote(w)
      BY <1>0, <1>3, <2>1 DEF TypeOK, RefreshQuote, Request, Proceeds, Superseded
    <2>2. CASE Decide(w)
      BY <1>0, <1>3, <2>2 DEF TypeOK, Decide, Request, Proceeds
    <2>3. CASE PrepareInternalAttempt(w)
      BY <1>0, <1>3, <2>3 DEF TypeOK, PrepareInternalAttempt, Request, Proceeds
    <2>4. CASE Refuse(w) \/ BindAuthorization(w) \/ Reserve(w)
      BY <1>0, <1>3, <2>4
      DEF TypeOK, Refuse, BindAuthorization, Reserve, Request, Proceeds
    <2>5. CASE CreateProviderOrder(w) \/ StartProcessing(w) \/ FailPayment(w)
      BY <1>0, <1>3, <2>5
      DEF TypeOK, CreateProviderOrder, StartProcessing, FailPayment, Request, Proceeds
    <2>6. CASE ReleaseRefused(w) \/ ReserveRefused(w) \/ PrepareRefused(w)
               \/ AnswerCheckout(w) \/ FailRelease(w)
      BY <2>6 DEF TypeOK, ReleaseRefused, ReserveRefused, PrepareRefused, AnswerCheckout,
         FailRelease
    <2> QED
      BY <1>3, <2>1, <2>2, <2>3, <2>4, <2>5, <2>6 DEF ExecuteStep
  <1> QED
    BY <1>1, <1>2, <1>3, RequestMoves

(* Two requests never work on one intent.                                  *)
Alone ==
  \A w, x \in Workers :
    req[w].intent \in Intents /\ req[x].intent = req[w].intent => x = w

LEMMA AloneNext ==
  ASSUME OneRequest, TypeOK, Alone, [Next]_vars
  PROVE  Alone'
  <1>1. ASSUME NEW w \in Workers, req'[w].intent \in Intents
        PROVE  \/ req'[w].intent = req[w].intent
               \/ Execute(w, req'[w].intent)
    <2>1. req'[w] # Idle
      BY <1>1, ConstantsAssumption DEF Idle
    <2>2. CASE Begins(w)
      BY <2>2 DEF Begins
    <2> QED
      BY <2>1, <2>2, RequestFlow DEF Same, Proceeds, Catches
  <1>2. ASSUME NEW w \in Workers, NEW x \in Workers, x # w, NEW i \in Intents, Execute(w, i)
        PROVE  req'[x].intent = req[x].intent /\ req[x].intent # i
    BY <1>2 DEF TypeOK, Execute, Goto
  <1> QED
    BY <1>1, <1>2 DEF Alone

Early == {"quote", "decide", "refuse", "bind", "reserve", "prepare", "create", "start"}
Failing == {"failPayment", "failRelease"}

(* What a request can count on of its intent's status, although it never   *)
(* locks the intent: the others that write it stay away.                   *)
StatusOfRequest ==
  \A w \in Workers :
    /\ req[w].pc \in Early => status[req[w].intent] \in {"APPROVED", "CANCELED"}
    /\ req[w].pc \notin {"idle", "release"} => status[req[w].intent] # "AWAITING_APPROVAL"
    /\ req[w].pc = "release" => status[req[w].intent] # "PAYMENT_PROCESSING"
    /\ req[w].pc \in Failing /\ ~Faults =>
         status[req[w].intent] \in {"APPROVED", "CANCELED"}

(* As long as a request does not write the status itself, only the demo    *)
(* reset does.                                                             *)
LEMMA OwnStatus ==
  ASSUME TypeOK, Alone, [Next]_vars, NEW w \in Workers, NEW i \in Intents,
         req[w].intent = i, status[i] \in {"APPROVED", "CANCELED"},
         req'[w].pc \notin {"release", "answer"}
  PROVE  status'[i] = status[i] \/ status'[i] = "CANCELED"
  BY StatusSteps DEF StatusStep, Alone

LEMMA StatusOfRequestNext ==
  ASSUME TypeOK, Alone, StatusOfRequest, [Next]_vars
  PROVE  StatusOfRequest'
  <1> SUFFICES ASSUME NEW w \in Workers, req'[w].pc # "idle"
               PROVE  LET j == req'[w].intent IN
                      /\ req'[w].pc \in Early => status'[j] \in {"APPROVED", "CANCELED"}
                      /\ req'[w].pc # "release" => status'[j] # "AWAITING_APPROVAL"
                      /\ req'[w].pc = "release" => status'[j] # "PAYMENT_PROCESSING"
                      /\ req'[w].pc \in Failing /\ ~Faults =>
                           status'[j] \in {"APPROVED", "CANCELED"}
    BY DEF StatusOfRequest, Early, Failing
  <1>0. req'[w] # Idle
    BY DEF Idle
  <1>1. CASE Begins(w)
    BY <1>1 DEF Begins, Execute, authVars, Early, Failing
  <1>2. ASSUME req'[w].intent = req[w].intent, req[w].pc # "idle",
               req'[w].pc = req[w].pc \/ <<req[w].pc, req'[w].pc>> \in Flow \/ Catches(w)
        PROVE  LET j == req'[w].intent IN
               /\ req'[w].pc \in Early => status'[j] \in {"APPROVED", "CANCELED"}
               /\ req'[w].pc # "release" => status'[j] # "AWAITING_APPROVAL"
               /\ req'[w].pc = "release" => status'[j] # "PAYMENT_PROCESSING"
               /\ req'[w].pc \in Failing /\ ~Faults =>
                    status'[j] \in {"APPROVED", "CANCELED"}
    <2>0. PICK i \in Intents : i = req[w].intent
      BY <1>2 DEF TypeOK
    <2>1. ASSUME req'[w].pc \in Early PROVE status'[i] \in {"APPROVED", "CANCELED"}
      <3>1. req[w].pc \in Early
        BY <1>2, <2>1 DEF Early, Flow, Catches
      <3> QED
        BY <2>0, <2>1, <3>1, OwnStatus DEF StatusOfRequest, Early
    <2>2. ASSUME req'[w].pc # "release" PROVE status'[i] # "AWAITING_APPROVAL"
      <3>1. req[w].pc \notin {"idle", "release"}
        BY <1>2, <2>2 DEF Flow, Catches
      <3>2. status[i] # "AWAITING_APPROVAL"
        BY <2>0, <3>1 DEF StatusOfRequest
      <3>3. ASSUME NEW x \in Workers, req[x].intent = i, req'[x].pc = "release" PROVE FALSE
        BY <2>0, <2>2, <3>3 DEF Alone
      <3> QED
        BY <3>2, <3>3, StatusSteps DEF StatusStep
    <2>3. ASSUME req'[w].pc = "release" PROVE status'[i] # "PAYMENT_PROCESSING"
      <3>1. ASSUME NEW x \in Workers, req[x].intent = i, req'[x].pc = "answer" PROVE FALSE
        BY <2>0, <2>3, <3>1 DEF Alone
      <3>2. req[w].pc \in {"refuse", "release"}
        BY <1>2, <2>3 DEF Flow, Catches
      <3>3. status[i] # "PAYMENT_PROCESSING"
        BY <2>0, <3>2 DEF StatusOfRequest, Early
      <3> QED
        BY <3>1, <3>3, StatusSteps DEF StatusStep
    <2>4. ASSUME req'[w].pc \in Failing, ~Faults
          PROVE  status'[i] \in {"APPROVED", "CANCELED"}
      <3>1. req[w].pc \in {"create", "start"} \cup Failing
        BY <1>2, <2>4 DEF Flow, Catches, Failing
      <3>2. status[i] \in {"APPROVED", "CANCELED"}
        BY <2>0, <2>4, <3>1 DEF StatusOfRequest, Early
      <3> QED
        BY <2>0, <2>4, <3>2, OwnStatus DEF Failing
    <2> QED
      BY <1>2, <2>0, <2>1, <2>2, <2>3, <2>4
  <1>3. Same(w) => req[w].pc # "idle"
    BY DEF Same
  <1>4. Proceeds(w) \/ Catches(w) => req[w].pc # "idle"
    BY DEF Proceeds, Catches, Flow
  <1> QED
    BY <1>0, <1>1, <1>2, <1>3, <1>4, RequestFlow DEF Same, Proceeds, Catches

(***************************************************************************)
(* What a reservation goes with.                                           *)
(***************************************************************************)
CanceledHoldsNothing == \A i \in Intents : status[i] = "CANCELED" => ~Held(i)

LEMMA CanceledNext ==
  ASSUME TypeOK, CanceledHoldsNothing, [Next]_vars
  PROVE  CanceledHoldsNothing'
  <1> SUFFICES ASSUME NEW i \in Intents, status'[i] = "CANCELED", res'[i].status = "ACTIVE"
               PROVE  FALSE
    BY DEF CanceledHoldsNothing, Held
  <1>1. CASE status[i] = "CANCELED"
    BY <1>1, HeldBefore DEF CanceledHoldsNothing, Held
  <1>2. CASE DemoReset
    BY <1>2 DEF DemoReset, Held, Closed, NoReservation
  <1> QED
    BY <1>1, <1>2, StatusSteps DEF StatusStep

AttachedIsOrdered == \A i \in Intents : Held(i) /\ res[i].attached => order[i].status # "NONE"

LEMMA OrderStays ==
  ASSUME TypeOK, [Next]_vars, NEW i \in Intents, order[i].status # "NONE"
  PROVE  order'[i].status # "NONE"
  <1>0. order[i] \in OrderRow
    BY DEF TypeOK
  <1>1. ASSUME NEW w \in Workers, PrepareInternalAttempt(w) PROVE order'[i].status # "NONE"
    BY <1>1 DEF TypeOK, PrepareInternalAttempt
  <1>2. ASSUME NEW e \in inbox, applyCaptured(e) PROVE order'[i].status # "NONE"
    BY <1>0, <1>2 DEF TypeOK, applyCaptured, OrderRow
  <1>3. CASE DemoReset
    BY <1>0, <1>3 DEF DemoReset, OrderRow
  <1> QED
    BY <1>1, <1>2, <1>3, OrderWriters

LEMMA AttachedNext ==
  ASSUME TypeOK, AttachedIsOrdered, [Next]_vars
  PROVE  AttachedIsOrdered'
  BY AttachedBefore, OrderStays DEF AttachedIsOrdered, Held

(* The invariant of a client with one request per intent in flight.        *)
OneRequestInv ==
  /\ LedgerInv /\ Alone /\ StatusOfRequest
  /\ CanceledHoldsNothing /\ AttachedIsOrdered

LEMMA OneRequestInit == Init => OneRequestInv
  <1> SUFFICES ASSUME Init PROVE OneRequestInv
    OBVIOUS
  <1>1. \A w \in Workers : req[w].intent \notin Intents /\ req[w].pc = "idle"
    BY ConstantsAssumption DEF Init, Idle
  <1>2. \A i \in Intents : ~Held(i)
    BY DEF Init, Held, NoReservation
  <1> QED
    BY <1>1, <1>2, LedgerInit DEF OneRequestInv, Alone, StatusOfRequest, Early, Failing,
       CanceledHoldsNothing, AttachedIsOrdered

LEMMA OneRequestNext ==
  ASSUME OneRequest, OneRequestInv, [Next]_vars
  PROVE  OneRequestInv'
  BY LedgerNext, AloneNext, StatusOfRequestNext, CanceledNext, AttachedNext
  DEF OneRequestInv, LedgerInv

(***************************************************************************)
(* Calm weather: no process dies, the buyer tries one payment per attempt  *)
(* and the provider keeps to what it reported.  Reservations may outlive   *)
(* their time, prices change and the demo be reset.                        *)
(***************************************************************************)
Calm == OneRequest /\ ~Faults /\ ~LateCapture /\ MaxTries <= 1

(* Every webhook that is still to be processed reports the payment as it   *)
(* is at the provider, in an attempt that reached the buyer.               *)
Reported ==
  /\ \A p \in Payments :
       /\ prov[p].id = 0 <=> prov[p].status = "none"
       /\ prov[p].id # 0 => p \in checkout
  /\ \A e \in inbox :
       /\ e.id = prov[e.pay].id /\ e.id # 0
       /\ e.kind \in {"captured", "failed"} => prov[e.pay].status = e.kind

LEMMA ReportedNext ==
  ASSUME Calm, TypeOK, Reported, [Next]_vars
  PROVE  Reported'
  <1>1. CASE prov' = prov /\ checkout' = checkout /\ inbox' \subseteq inbox
    BY <1>1 DEF Reported
  <1>2. ASSUME prov' = prov, inbox' = inbox, NEW w \in Workers, AnswerCheckout(w)
        PROVE  Reported'
    BY <1>2 DEF Reported, AnswerCheckout
  <1>3. ASSUME checkout' = checkout, NEW p \in Payments, NEW o \in {"authorized", "failed"},
               Pays(p, o)
        PROVE  Reported'
    <2>1. prov[p] \in ProviderPayment /\ prov[p].id = 0 /\ p \in checkout
      <3>1. prov[p] \in ProviderPayment /\ prov[p].id + 1 <= MaxTries /\ p \in checkout
        BY <1>3 DEF TypeOK, Pays
      <3> QED
        BY <3>1, ConstantsAssumption DEF Calm, ProviderPayment
    <2>2. prov' = [prov EXCEPT ![p] = [id |-> 1, status |-> o]]
      BY <1>3, <2>1 DEF Pays
    <2>3. inbox' = inbox \cup {[kind |-> o, pay |-> p, id |-> 1]}
      BY <1>3, <2>1 DEF Pays, Announce
    <2>4. \A e \in inbox : e.pay # p /\ e.pay \in Payments
      BY <2>1, EventType DEF Reported
    <2> QED
      BY <1>3, <2>1, <2>2, <2>3, <2>4 DEF TypeOK, Reported
  <1>4. ASSUME checkout' = checkout, NEW p \in Payments, NEW o \in {"captured", "failed"},
               Settles(p, o)
        PROVE  Reported'
    <2>1. prov[p] \in ProviderPayment /\ prov[p].status = "authorized"
      BY <1>4 DEF TypeOK, Settles, Calm
    <2>2. prov' = [prov EXCEPT ![p] = [prov[p] EXCEPT !.status = o]]
      BY <1>4 DEF Settles
    <2>3. inbox' = inbox \cup {[kind |-> o, pay |-> p, id |-> prov[p].id]}
      BY <1>4 DEF Settles, Announce
    <2>4. prov[p].id # 0 /\ p \in checkout
      BY <2>1 DEF Reported
    <2>5. prov'[p].id = prov[p].id /\ prov'[p].status = o
          /\ \A q \in Payments \ {p} : prov'[q] = prov[q]
      BY <2>1, <2>2 DEF TypeOK, ProviderPayment
    <2>6. \A e \in inbox : e.pay \in Payments
            /\ (e.pay = p => e.kind \notin {"captured", "failed"})
      BY <2>1, EventType DEF Reported
    <2>7. ASSUME NEW e \in inbox'
          PROVE  /\ e.id = prov'[e.pay].id /\ e.id # 0
                 /\ e.kind \in {"captured", "failed"} => prov'[e.pay].status = e.kind
      <3>1. CASE e \in inbox
        BY <2>5, <2>6, <3>1 DEF Reported
      <3>2. CASE e = [kind |-> o, pay |-> p, id |-> prov[p].id]
        BY <2>4, <2>5, <3>2
      <3> QED
        BY <2>3, <3>1, <3>2
    <2>8. ASSUME NEW q \in Payments
          PROVE  /\ prov'[q].id = 0 <=> prov'[q].status = "none"
                 /\ prov'[q].id # 0 => q \in checkout'
      BY <1>4, <2>4, <2>5 DEF Reported
    <2> QED
      BY <2>7, <2>8 DEF Reported
  <1> QED
    BY <1>1, <1>2, <1>3, <1>4, ProviderWriters

(* An attempt is opened by the answer of its request and by nothing else.  *)
LEMMA OpenBefore ==
  ASSUME Calm, TypeOK, Reported, [Next]_vars, NEW p \in Payments, Open(p)'
  PROVE  \/ Open(p)
         \/ \E w \in Workers : AnswerCheckout(w) /\ p = Attempt(w)
  <1>1. CASE prov' = prov /\ checkout' = checkout /\ inbox' \subseteq inbox
    BY <1>1 DEF Open
  <1>2. ASSUME prov' = prov, inbox' = inbox, NEW w \in Workers, AnswerCheckout(w)
        PROVE  Open(p) \/ p = Attempt(w)
    BY <1>2 DEF Open, AnswerCheckout
  <1>3. ASSUME checkout' = checkout, NEW q \in Payments, NEW o \in {"authorized", "failed"},
               Pays(q, o)
        PROVE  Open(p)
    <2>1. prov[q] \in ProviderPayment /\ prov[q].id + 1 <= MaxTries /\ q \in checkout
      BY <1>3 DEF TypeOK, Pays
    <2>2. prov[q].id = 0
      BY <2>1, ConstantsAssumption DEF Calm, ProviderPayment
    <2>3. Open(q)
      BY <2>1, <2>2 DEF Reported, Open
    <2>4. \A e \in inbox' : e \in inbox \/ e.pay = q
      BY <1>3 DEF Pays, Announce
    <2>5. p # q => prov'[p] = prov[p]
      BY <1>3 DEF TypeOK, Pays
    <2> QED
      BY <1>3, <2>3, <2>4, <2>5 DEF Open
  <1>4. ASSUME checkout' = checkout, NEW q \in Payments, NEW o \in {"captured", "failed"},
               Settles(q, o)
        PROVE  Open(p)
    <2>1. prov[q] \in ProviderPayment /\ prov[q].status = "authorized"
      BY <1>4 DEF TypeOK, Settles, Calm
    <2>2. Open(q)
      BY <2>1 DEF ProviderPayment, Reported, Open
    <2>3. \A e \in inbox' : e \in inbox \/ e.pay = q
      BY <1>4 DEF Settles, Announce
    <2>4. p # q => prov'[p] = prov[p]
      BY <1>4 DEF TypeOK, Settles
    <2> QED
      BY <1>4, <2>2, <2>3, <2>4 DEF Open
  <1> QED
    BY <1>1, <1>2, <1>3, <1>4, ProviderWriters

(* A capture or a failure that is still to be processed is of an attempt   *)
(* that is open, and processing the failure closes it.                     *)
LEMMA EventOpen ==
  ASSUME TypeOK, Reported, NEW e \in inbox, e.kind \in {"captured", "failed"}
  PROVE  e.pay \in Payments /\ e.pay = <<e.pay[1], e.pay[2]>> /\ e.pay[2] \in Attempts
         /\ Open(e.pay)
  <1>1. e.pay \in Payments
    BY EventType
  <1>2. e.pay \in checkout /\ prov[e.pay].status = e.kind
    BY <1>1 DEF Reported
  <1> QED
    BY <1>1, <1>2 DEF Open, Payments

LEMMA FailureCloses ==
  ASSUME Calm, TypeOK, Reported, NEW e \in inbox, applyFailed(e)
  PROVE  ~Open(e.pay)'
  <1>1. e.kind = "failed" /\ prov' = prov /\ inbox' = inbox \ {e}
    BY DEF applyFailed, Handled, Calm
  <1>2. ASSUME NEW d \in inbox, d.kind = "failed", d.pay = e.pay PROVE d = e
    <2>1. d.id = e.id
      BY <1>2 DEF Reported
    <2> QED
      BY <1>1, <1>2, <2>1 DEF TypeOK, Events
  <1>3. prov[e.pay].status = "failed"
    BY <1>1 DEF Reported
  <1> QED
    BY <1>1, <1>2, <1>3 DEF Open

NoneOpen(i) == \A k \in Attempts : ~Open(<<i, k>>)

(* Until the request has answered, its intent has no attempt to pay.       *)
Answering ==
  \A w \in Workers : req[w].pc = "answer" =>
    /\ status[req[w].intent] \in {"PAYMENT_PROCESSING", "CANCELED"}
    /\ status[req[w].intent] = "PAYMENT_PROCESSING" => NoneOpen(req[w].intent)

PaymentInv == OneRequestInv /\ Reported /\ OnePaymentOpen /\ Answering

(* Without an open attempt there is nothing to capture or to fail.         *)
LEMMA NothingToApply ==
  ASSUME TypeOK, Reported, NEW i \in Intents, NoneOpen(i)
  PROVE  \A e \in inbox : (applyCaptured(e) \/ applyFailed(e)) => e.pay[1] # i
  <1> SUFFICES ASSUME NEW e \in inbox, applyCaptured(e) \/ applyFailed(e), e.pay[1] = i
               PROVE  FALSE
    OBVIOUS
  <1>1. e.kind \in {"captured", "failed"}
    BY DEF applyCaptured, applyFailed
  <1> QED
    BY <1>1, EventOpen DEF NoneOpen

LEMMA OnePaymentNext ==
  ASSUME Calm, PaymentInv, [Next]_vars
  PROVE  OnePaymentOpen'
  <1>0. TypeOK /\ Alone /\ Reported /\ OnePaymentOpen /\ Answering
    BY DEF PaymentInv, OneRequestInv, LedgerInv
  <1>1. ASSUME NEW i \in Intents, NEW k \in Attempts, Open(<<i, k>>)'
        PROVE  \/ Open(<<i, k>>)
               \/ \E w \in Workers : /\ AnswerCheckout(w) /\ <<i, k>> = Attempt(w)
                                     /\ req[w].intent = i /\ status' = status
                                     /\ status[i] \in {"PAYMENT_PROCESSING", "CANCELED"}
                                     /\ status[i] = "PAYMENT_PROCESSING" => NoneOpen(i)
    <2>1. <<i, k>> \in Payments
      BY DEF Payments
    <2>2. CASE Open(<<i, k>>)
      BY <2>2
    <2>3. ASSUME NEW w \in Workers, AnswerCheckout(w), <<i, k>> = Attempt(w)
          PROVE  /\ req[w].intent = i /\ status' = status
                 /\ status[i] \in {"PAYMENT_PROCESSING", "CANCELED"}
                 /\ status[i] = "PAYMENT_PROCESSING" => NoneOpen(i)
      BY <1>0, <2>3 DEF AnswerCheckout, At, Attempt, Answering, authVars
    <2> QED
      BY <1>0, <1>1, <2>1, <2>2, <2>3, OpenBefore
  <1>2. ASSUME NEW i \in Intents, NEW k \in Attempts, Open(<<i, k>>)',
               status'[i] \in {"APPROVED", "AWAITING_APPROVAL"}
        PROVE  FALSE
    <2>1. Open(<<i, k>>)
      BY <1>1, <1>2
    <2>2. status[i] \notin {"APPROVED", "AWAITING_APPROVAL"}
      BY <1>0, <2>1 DEF OnePaymentOpen
    <2>3. PICK e \in inbox : /\ applyFailed(e) /\ e.pay[1] = i
                             /\ status[i] = "PAYMENT_PROCESSING"
      BY <1>0, <1>2, <2>2, StatusSteps DEF StatusStep
    <2>4. e.kind \in {"captured", "failed"}
      BY <2>3 DEF applyFailed
    <2>5. e.pay = <<i, k>>
      BY <1>0, <2>1, <2>3, <2>4, EventOpen DEF OnePaymentOpen
    <2> QED
      BY <1>0, <1>2, <2>3, <2>5, FailureCloses
  <1>3. ASSUME NEW i \in Intents, NEW k \in Attempts, NEW l \in Attempts,
               Open(<<i, k>>)', Open(<<i, l>>)', status'[i] = "PAYMENT_PROCESSING"
        PROVE  k = l
    <2>1. CASE Open(<<i, k>>) \/ Open(<<i, l>>)
      <3>1. status[i] = "PAYMENT_PROCESSING"
        BY <1>0, <1>3, <2>1, StatusSteps DEF StatusStep, OnePaymentOpen
      <3>2. Open(<<i, k>>) /\ Open(<<i, l>>)
        BY <1>1, <1>3, <2>1, <3>1 DEF NoneOpen
      <3> QED
        BY <1>0, <3>1, <3>2 DEF OnePaymentOpen
    <2>2. CASE ~Open(<<i, k>>) /\ ~Open(<<i, l>>)
      <3>1. PICK w \in Workers : <<i, k>> = Attempt(w) /\ req[w].intent = i
        BY <1>1, <1>3, <2>2
      <3>2. PICK x \in Workers : <<i, l>> = Attempt(x) /\ req[x].intent = i
        BY <1>1, <1>3, <2>2
      <3>3. x = w
        BY <1>0, <3>1, <3>2 DEF Alone
      <3> QED
        BY <3>1, <3>2, <3>3 DEF Attempt
    <2> QED
      BY <2>1, <2>2
  <1> QED
    BY <1>2, <1>3 DEF OnePaymentOpen

LEMMA AnsweringNext ==
  ASSUME Calm, PaymentInv, [Next]_vars
  PROVE  Answering'
  <1>0. TypeOK /\ Alone /\ Reported /\ OnePaymentOpen /\ Answering
    BY DEF PaymentInv, OneRequestInv, LedgerInv
  <1> SUFFICES ASSUME NEW w \in Workers, req'[w].pc = "answer"
               PROVE  /\ status'[req'[w].intent] \in {"PAYMENT_PROCESSING", "CANCELED"}
                      /\ status'[req'[w].intent] = "PAYMENT_PROCESSING" =>
                           NoneOpen(req[w].intent)'
    BY DEF Answering
  <1>1. CASE Same(w)
    <2>0. PICK i \in Intents : i = req[w].intent
      BY <1>0, <1>1 DEF Same, TypeOK
    <2>1. /\ status[i] \in {"PAYMENT_PROCESSING", "CANCELED"}
          /\ status[i] = "PAYMENT_PROCESSING" => NoneOpen(i)
      BY <1>0, <1>1, <2>0 DEF Same, Answering
    <2>2. status'[i] \in {status[i], "CANCELED"}
      BY <1>0, <2>1, StatusSteps, NothingToApply DEF StatusStep
    <2>3. ASSUME NEW k \in Attempts, Open(<<i, k>>)', status[i] = "PAYMENT_PROCESSING"
          PROVE  FALSE
      <3>1. <<i, k>> \in Payments /\ ~Open(<<i, k>>)
        BY <2>1, <2>3 DEF Payments, NoneOpen
      <3>2. PICK x \in Workers : AnswerCheckout(x) /\ <<i, k>> = Attempt(x)
        BY <1>0, <2>3, <3>1, OpenBefore
      <3>3. x = w
        BY <1>0, <2>0, <3>2 DEF Alone, Attempt
      <3>4. req'[w].pc = "idle"
        BY <1>0, <3>2, <3>3 DEF TypeOK, AnswerCheckout, Goto, Idle
      <3> QED
        BY <3>4
    <2> QED
      BY <1>1, <2>0, <2>1, <2>2, <2>3 DEF Same, NoneOpen
  <1>2. CASE Proceeds(w)
    <2>1. req[w].pc = "start" /\ ExecuteStep(w)
      BY <1>2 DEF Proceeds, Flow
    <2>2. StartProcessing(w)
      BY <2>1 DEF ExecuteStep, RefreshQuote, Decide, Refuse, ReleaseRefused,
         BindAuthorization, Reserve, ReserveRefused, PrepareInternalAttempt, PrepareRefused,
         CreateProviderOrder, AnswerCheckout, FailPayment, FailRelease, At
    <2>3. PICK i \in Intents : i = req[w].intent
      BY <1>0, <2>1 DEF TypeOK
    <2>4. status[i] = "APPROVED" /\ status'[i] = "PAYMENT_PROCESSING"
      BY <1>0, <2>2, <2>3 DEF TypeOK, StartProcessing, Step, Goto, Request
    <2>5. ASSUME NEW k \in Attempts, Open(<<i, k>>)' PROVE FALSE
      <3>1. <<i, k>> \in Payments /\ ~Open(<<i, k>>)
        BY <1>0, <2>4 DEF Payments, OnePaymentOpen
      <3>2. PICK x \in Workers : AnswerCheckout(x)
        BY <1>0, <2>5, <3>1, OpenBefore
      <3>3. status' = status
        BY <3>2 DEF AnswerCheckout, authVars
      <3> QED
        BY <2>4, <3>3
    <2> QED
      BY <1>2, <2>3, <2>4, <2>5 DEF Proceeds, NoneOpen
  <1> QED
    BY <1>0, <1>1, <1>2, RequestFlow DEF Idle, Begins, Catches

LEMMA PaymentInit == Init => PaymentInv
  BY OneRequestInit
  DEF Init, Idle, PaymentInv, Reported, OnePaymentOpen, Open, Answering

LEMMA PaymentNext ==
  ASSUME Calm, PaymentInv, [Next]_vars
  PROVE  PaymentInv'
  BY OneRequestNext, ReportedNext, OnePaymentNext, AnsweringNext
  DEF Calm, PaymentInv, OneRequestInv, LedgerInv

(* The buyer is never left with two attempts to pay for one intent: an     *)
(* attempt opens only when the last one was reported failed, although a    *)
(* failed webhook re-opens the intent whichever attempt it is about.       *)
THEOREM OneOpenAttempt ==
  ASSUME Calm
  PROVE  Spec => []OnePaymentOpen
  <1>1. PaymentInv /\ [Next]_vars => PaymentInv'
    BY PaymentNext
  <1>2. PaymentInv => OnePaymentOpen
    BY DEF PaymentInv
  <1> QED
    BY <1>1, <1>2, PaymentInit, PTL DEF Spec

(***************************************************************************)
(* The reservation is there when the money comes.                          *)
(***************************************************************************)
Backed(i) == Held(i) /\ res[i].attached /\ order[i].status = "PENDING_PAYMENT"

(* From the attempt's creation to the start of the payment the order keeps *)
(* its reservation, unless the demo is reset.                              *)
StartHolds ==
  \A w \in Workers :
    req[w].pc \in {"create", "start"} /\ status[req[w].intent] = "APPROVED" =>
      Backed(req[w].intent)

HoldsInv == PaymentInv /\ StartHolds /\ ProcessingHoldsReservation

(* What can part an order from its reservation: a release by a request, a  *)
(* new reservation for one that lapsed, a capture, a failure, the reset.   *)
LEMMA BackedStays ==
  ASSUME TypeOK, [Next]_vars, NEW i \in Intents, Backed(i)
  PROVE  \/ Backed(i)'
         \/ \E w \in Workers : /\ req[w].intent = i
                               /\ ReleaseRefused(w) \/ FailRelease(w) \/ Reserve(w)
         \/ \E e \in inbox : e.pay[1] = i /\ applyCaptured(e)
         \/ \E e \in inbox : e.pay[1] = i /\ applyFailed(e) /\ pay[e.pay].status # "CAPTURED"
         \/ DemoReset
  <1> USE DEF authVars, shopVars, moneyVars, Backed, Held
  <1>0. res[i] \in ReservationRow /\ order[i] \in OrderRow
    BY DEF TypeOK
  <1>1. CASE RequestStep
    <2>1. PICK w \in Workers :
            \/ \E j \in Intents : Execute(w, j)
            \/ ExecuteStep(w)
            \/ QuoteExpires(w) \/ Abandon(w) \/ StatementFails(w)
      BY <1>1 DEF RequestStep
    <2>2. CASE ReleaseRefused(w) \/ FailRelease(w)
      BY <2>2 DEF TypeOK, ReleaseRefused, FailRelease, releaseForIntent
    <2>3. CASE Reserve(w)
      BY <2>3 DEF TypeOK, Reserve
    <2>4. CASE PrepareInternalAttempt(w)
      BY <1>0, <2>4 DEF TypeOK, PrepareInternalAttempt, ReservationRow
    <2>5. CASE UNCHANGED <<res, order>>
      BY <2>5
    <2> QED
      BY <2>1, <2>2, <2>3, <2>4, <2>5 DEF Execute, ExecuteStep, QuoteExpires, Abandon,
         StatementFails, RefreshQuote, Decide, Refuse, BindAuthorization, ReserveRefused,
         PrepareRefused, CreateProviderOrder, StartProcessing, AnswerCheckout, FailPayment
  <1>2. CASE BuyerStep
    BY <1>2 DEF BuyerStep, VerifyRead, VerifyWrite, BuyerApproves
  <1>3. CASE ProviderStep
    BY <1>3 DEF ProviderStep, Pays, Settles
  <1>4. CASE ProcessorStep
    <2>1. PICK e \in inbox : ProcessEvent(e) \/ GiveUp(e)
      BY <1>4 DEF ProcessorStep
    <2>2. CASE applyCaptured(e)
      BY <2>2 DEF TypeOK, applyCaptured
    <2>3. CASE applyFailed(e)
      BY <2>3 DEF TypeOK, applyFailed
    <2> QED
      BY <2>1, <2>2, <2>3 DEF ProcessEvent, applyAuthorized, ignoreDuplicateCapture, GiveUp
  <1>5. CASE SurroundingStep
    <2>1. ASSUME NEW j \in Intents, ReservationLapses(j) PROVE Backed(i)'
      BY <1>0, <2>1 DEF TypeOK, ReservationLapses, ReservationRow
    <2> QED
      BY <1>5, <2>1 DEF SurroundingStep, ChangePrice, GrantLapses, Crash
  <1>6. CASE UNCHANGED vars
    BY <1>6 DEF vars
  <1> QED
    BY <1>1, <1>2, <1>3, <1>4, <1>5, <1>6 DEF Next

(* A request goes on from "prepare" by creating the attempt.               *)
LEMMA PreparesAttempt ==
  ASSUME TypeOK, NEW w \in Workers, Proceeds(w), req[w].pc = "prepare"
  PROVE  PrepareInternalAttempt(w)
  <1>1. ExecuteStep(w) /\ req'[w].pc = "create"
    BY DEF Proceeds, Flow
  <1>2. ~PrepareRefused(w)
    BY <1>1 DEF TypeOK, PrepareRefused, Goto, Idle
  <1> QED
    BY <1>1, <1>2 DEF ExecuteStep, RefreshQuote, Decide, Refuse, ReleaseRefused,
       BindAuthorization, Reserve, ReserveRefused, CreateProviderOrder,
       StartProcessing, AnswerCheckout, FailPayment, FailRelease, At

LEMMA StartHoldsNext ==
  ASSUME Calm, HoldsInv, [Next]_vars
  PROVE  StartHolds'
  <1>0. TypeOK /\ Alone /\ StatusOfRequest /\ Reported /\ OnePaymentOpen /\ StartHolds
    BY DEF HoldsInv, PaymentInv, OneRequestInv, LedgerInv
  <1> SUFFICES ASSUME NEW w \in Workers, req'[w].pc \in {"create", "start"},
                      NEW i \in Intents, req'[w].intent = i, status'[i] = "APPROVED"
               PROVE  Backed(i)'
    <2>1. \A w \in Workers : req'[w].pc # "idle" => req'[w].intent \in Intents
      BY <1>0, TypeNext DEF TypeOK
    <2> QED
      BY <2>1 DEF StartHolds, Backed, Held
  <1>1. CASE \/ Same(w)
             \/ Proceeds(w) /\ req[w].pc = "create" /\ req'[w].pc = "start"
    <2>1. req[w].pc \in {"create", "start"}
      BY <1>1 DEF Same
    <2>2. req[w].intent = i
      BY <1>1 DEF Same, Proceeds
    <2>3. status[i] = "APPROVED"
      <3>1. status[i] \in {"APPROVED", "CANCELED"}
        BY <1>0, <2>1, <2>2 DEF StatusOfRequest, Early
      <3> QED
        BY <1>0, <2>1, <2>2, <3>1, OwnStatus
    <2>4. Backed(i) /\ NoneOpen(i)
      BY <1>0, <2>1, <2>2, <2>3 DEF StartHolds, OnePaymentOpen, NoneOpen
    <2>5. ~DemoReset
      BY <2>1, <2>2, <2>3 DEF DemoReset, OpenIntent
    <2>6. ASSUME NEW x \in Workers, req[x].intent = i,
                 ReleaseRefused(x) \/ FailRelease(x) \/ Reserve(x)
          PROVE  FALSE
      <3>1. x = w
        BY <1>0, <2>2, <2>6 DEF Alone
      <3> QED
        BY <2>1, <2>6, <3>1 DEF ReleaseRefused, FailRelease, Reserve, At
    <2> QED
      BY <1>0, <2>4, <2>5, <2>6, BackedStays, NothingToApply
  <1>2. CASE Proceeds(w) /\ req[w].pc = "prepare"
    <2>1. PrepareInternalAttempt(w)
      BY <1>0, <1>2, PreparesAttempt
    <2>2. req[w].intent = i
      BY <1>2 DEF Proceeds
    <2> QED
      BY <1>0, <2>1, <2>2
      DEF TypeOK, PrepareInternalAttempt, CanPrepare, Backed, Held, ReservationRow
  <1> QED
    BY <1>0, <1>1, <1>2, RequestFlow DEF Idle, Begins, Proceeds, Flow, Catches

LEMMA ProcessingHoldsNext ==
  ASSUME Calm, HoldsInv, [Next]_vars
  PROVE  ProcessingHoldsReservation'
  <1>0. TypeOK /\ StatusOfRequest /\ StartHolds /\ ProcessingHoldsReservation
    BY DEF HoldsInv, PaymentInv, OneRequestInv, LedgerInv
  <1> SUFFICES ASSUME NEW i \in Intents, status'[i] = "PAYMENT_PROCESSING"
               PROVE  Backed(i)'
    BY DEF ProcessingHoldsReservation, Backed
  <1>1. CASE status[i] = "PAYMENT_PROCESSING"
    <2>1. Backed(i)
      BY <1>0, <1>1 DEF ProcessingHoldsReservation, Backed
    <2>2. ASSUME NEW x \in Workers, req[x].intent = i,
                 ReleaseRefused(x) \/ FailRelease(x) \/ Reserve(x)
          PROVE  FALSE
      BY <1>0, <1>1, <2>2
      DEF StatusOfRequest, Failing, Calm, ReleaseRefused, FailRelease, Reserve, CanReserve, At
    <2>3. ASSUME NEW e \in inbox, e.pay[1] = i,
                 applyCaptured(e) \/ (applyFailed(e) /\ pay[e.pay].status # "CAPTURED")
          PROVE  FALSE
      BY <1>0, <1>1, <2>3 DEF TypeOK, applyCaptured, applyFailed
    <2>4. ~DemoReset
      BY <1>1 DEF DemoReset, OpenIntent
    <2> QED
      BY <1>0, <2>1, <2>2, <2>3, <2>4, BackedStays
  <1>2. ASSUME NEW w \in Workers, StartProcessing(w), req[w].intent = i,
               status[i] = "APPROVED"
        PROVE  Backed(i)'
    BY <1>0, <1>2
    DEF StartProcessing, At, StartHolds, Backed, Held, moneyVars
  <1> QED
    BY <1>0, <1>1, <1>2, StatusSteps DEF StatusStep

LEMMA HoldsInit == Init => HoldsInv
  BY PaymentInit DEF Init, Idle, HoldsInv, StartHolds, ProcessingHoldsReservation

LEMMA HoldsNext ==
  ASSUME Calm, HoldsInv, [Next]_vars
  PROVE  HoldsInv'
  BY PaymentNext, StartHoldsNext, ProcessingHoldsNext DEF HoldsInv

(* While a payment is in progress its reservation is held, attached to an  *)
(* order that awaits it, even past its time: the capture can be applied.   *)
THEOREM ReservationOutlastsPayment ==
  ASSUME Calm
  PROVE  Spec => []ProcessingHoldsReservation
  <1>1. HoldsInv /\ [Next]_vars => HoldsInv'
    BY HoldsNext
  <1>2. HoldsInv => ProcessingHoldsReservation
    BY DEF HoldsInv
  <1> QED
    BY <1>1, <1>2, HoldsInit, PTL DEF Spec

(***************************************************************************)
(* The buyer pays what the order says.                                     *)
(***************************************************************************)
Pending(i) == order[i].status = "PENDING_PAYMENT"

(* An attempt the buyer can pay, or is about to get, charges the total of  *)
(* its order: the total changes only while there is none.                  *)
OpenAsOrdered ==
  /\ \A p \in Payments : Open(p) /\ Pending(p[1]) => pay[p].amount = order[p[1]].total
  /\ \A w \in Workers :
       req[w].pc \in {"create", "start", "answer"} /\ Pending(req[w].intent) =>
         pay[Attempt(w)].amount = order[req[w].intent].total

PaidInv == PaymentInv /\ OpenAsOrdered /\ PaidAsOrdered

(* Without a new attempt neither the total nor an amount changes.          *)
LEMMA TotalStays ==
  ASSUME TypeOK, [Next]_vars, NEW i \in Intents, Pending(i)',
         \A w \in Workers : PrepareInternalAttempt(w) => req[w].intent # i
  PROVE  /\ Pending(i) /\ order'[i].total = order[i].total
         /\ \A p \in Payments : p[1] = i => pay'[p].amount = pay[p].amount
  <1>0. order[i] \in OrderRow
    BY DEF TypeOK
  <1>1. ASSUME NEW w \in Workers, PrepareInternalAttempt(w) PROVE order'[i] = order[i]
    <2>1. req[w].intent # i
      BY <1>1
    <2>2. order' = [order EXCEPT ![req[w].intent] =
                      [status |-> "PENDING_PAYMENT", total |-> req[w].price]]
      BY <1>1 DEF PrepareInternalAttempt
    <2> QED
      BY <2>1, <2>2 DEF TypeOK
  <1>2. ASSUME NEW e \in inbox, applyCaptured(e) PROVE order'[i] = order[i]
    <2>1. order' = [order EXCEPT ![e.pay[1]].status = "CONFIRMED"]
      BY <1>2 DEF applyCaptured
    <2>2. e.pay[1] # i
      BY <1>0, <2>1 DEF TypeOK, Pending, OrderRow
    <2> QED
      BY <2>1, <2>2 DEF TypeOK
  <1>3. ~DemoReset
    BY <1>0 DEF DemoReset, Pending, OrderRow
  <1>4. order'[i] = order[i]
    BY <1>1, <1>2, <1>3, OrderWriters
  <1> QED
    BY <1>4, AmountWriters DEF Pending

(* A new attempt is created only when the intent has none that is open.    *)
LEMMA PreparedAlone ==
  ASSUME PaymentInv, NEW w \in Workers, PrepareInternalAttempt(w)
  PROVE  req[w].intent \in Intents /\ req[w].pc = "prepare" /\ NoneOpen(req[w].intent)
  <1>0. /\ TypeOK /\ StatusOfRequest /\ CanceledHoldsNothing /\ OnePaymentOpen
    BY DEF PaymentInv, OneRequestInv, LedgerInv
  <1>1. /\ req[w].pc = "prepare" /\ req[w].intent \in Intents /\ Held(req[w].intent)
    BY <1>0 DEF TypeOK, PrepareInternalAttempt, CanPrepare, At
  <1>2. status[req[w].intent] = "APPROVED"
    BY <1>0, <1>1 DEF StatusOfRequest, Early, CanceledHoldsNothing
  <1> QED
    BY <1>0, <1>1, <1>2 DEF OnePaymentOpen, NoneOpen

LEMMA OpenAsOrderedNext ==
  ASSUME Calm, PaidInv, [Next]_vars
  PROVE  OpenAsOrdered'
  <1>0. /\ TypeOK /\ TypeOK' /\ Alone /\ Reported /\ PaymentInv /\ OpenAsOrdered
    BY TypeNext DEF PaidInv, PaymentInv, OneRequestInv, LedgerInv
  <1>1. ASSUME NEW p \in Payments, Open(p)', Pending(p[1])'
        PROVE  pay'[p].amount = order'[p[1]].total
    <2>0. PICK i \in Intents : p[1] = i
      BY DEF Payments
    <2>1. CASE Open(p)
      <3>1. ASSUME NEW w \in Workers, PrepareInternalAttempt(w), req[w].intent = i
            PROVE  FALSE
        BY <1>0, <2>0, <2>1, <3>1, PreparedAlone DEF NoneOpen, Payments
      <3> QED
        BY <1>0, <1>1, <2>0, <2>1, <3>1, TotalStays DEF OpenAsOrdered
    <2>2. ASSUME NEW x \in Workers, AnswerCheckout(x), p = Attempt(x)
          PROVE  pay'[p].amount = order'[p[1]].total
      <3>1. req[x].pc = "answer" /\ req[x].intent = i /\ pay' = pay /\ order' = order
        BY <2>0, <2>2 DEF AnswerCheckout, At, Attempt
      <3> QED
        BY <1>0, <1>1, <2>0, <2>2, <3>1 DEF OpenAsOrdered, Pending
    <2> QED
      BY <1>0, <1>1, <2>1, <2>2, OpenBefore
  <1>2. ASSUME NEW w \in Workers, req'[w].pc \in {"create", "start", "answer"},
               NEW i \in Intents, req'[w].intent = i, Pending(i)'
        PROVE  pay'[<<i, req'[w].attempt>>].amount = order'[i].total
    <2>1. CASE \/ Same(w)
               \/ Proceeds(w) /\ req[w].pc \in {"create", "start"}
      <3>1. /\ req[w].pc \in {"create", "start", "answer"} /\ req[w].intent = i
            /\ req'[w].attempt = req[w].attempt
        BY <1>2, <2>1 DEF Same, Proceeds
      <3>2. ASSUME NEW x \in Workers, PrepareInternalAttempt(x), req[x].intent = i
            PROVE  FALSE
        BY <1>0, <3>1, <3>2 DEF Alone, PrepareInternalAttempt, At
      <3>3. Attempt(w) \in Payments /\ Attempt(w) = <<i, req[w].attempt>>
        BY <1>0, <3>1 DEF TypeOK, Attempting, Attempt, Payments
      <3> QED
        BY <1>0, <1>2, <3>1, <3>2, <3>3, TotalStays DEF OpenAsOrdered
    <2>2. CASE Proceeds(w) /\ req[w].pc = "prepare"
      <3>1. PrepareInternalAttempt(w) /\ req[w].intent = i
        BY <1>0, <1>2, <2>2, PreparesAttempt DEF Proceeds
      <3> DEFINE k == NextAttempt(i)
      <3>2. k \in Attempts /\ req'[w].attempt = k
        BY <1>0, <3>1 DEF TypeOK, PrepareInternalAttempt, Goto, Request
      <3>3. pay'[<<i, k>>].amount = req[w].price /\ order'[i].total = req[w].price
        BY <1>0, <3>1, <3>2 DEF TypeOK, PrepareInternalAttempt, Payments
      <3> QED
        BY <3>2, <3>3
    <2> QED
      BY <1>0, <1>2, <2>1, <2>2, RequestFlow DEF Idle, Begins, Proceeds, Flow, Catches
  <1>3. \A w \in Workers : req'[w].pc # "idle" => req'[w].intent \in Intents
    BY <1>0 DEF TypeOK
  <1> QED
    BY <1>1, <1>2, <1>3 DEF OpenAsOrdered, Attempt, Pending

LEMMA PaidAsOrderedNext ==
  ASSUME Calm, PaidInv, [Next]_vars
  PROVE  PaidAsOrdered'
  <1>0. /\ TypeOK /\ ClosedOrderHoldsNothing /\ AttachedIsOrdered /\ Reported
        /\ OpenAsOrdered /\ PaidAsOrdered
    BY DEF PaidInv, PaymentInv, OneRequestInv, LedgerInv
  <1> SUFFICES ASSUME NEW i \in Intents, order'[i].status = "CONFIRMED"
               PROVE  \E k \in Attempts : /\ prov'[<<i, k>>].status = "captured"
                                          /\ pay'[<<i, k>>].amount = order'[i].total
    BY DEF PaidAsOrdered, Sold
  <1>1. CASE order[i].status = "CONFIRMED"
    <2>1. order'[i] = order[i]
      BY <1>0, <1>1, ClosedOrderStays
    <2>2. PICK k \in Attempts : /\ prov[<<i, k>>].status = "captured"
                                /\ pay[<<i, k>>].amount = order[i].total
      BY <1>0, <1>1 DEF PaidAsOrdered, Sold
    <2>3. <<i, k>> \in Payments
      BY DEF Payments
    <2>4. prov'[<<i, k>>].status = "captured"
      BY <1>0, <2>2, <2>3, ProviderWriters DEF TypeOK, Pays, Settles, Calm
    <2>5. pay'[<<i, k>>].amount = pay[<<i, k>>].amount
      BY <1>0, <1>1, <2>3, AmountWriters DEF PrepareInternalAttempt, CanPrepare
    <2> QED
      BY <2>1, <2>2, <2>4, <2>5
  <1>2. CASE order[i].status # "CONFIRMED"
    <2>1. PICK e \in inbox : applyCaptured(e) /\ e.pay[1] = i
      <3>1. ASSUME NEW w \in Workers, PrepareInternalAttempt(w) PROVE FALSE
        BY <1>0, <1>2, <3>1 DEF TypeOK, PrepareInternalAttempt
      <3>2. ASSUME NEW e \in inbox, applyCaptured(e) PROVE e.pay[1] = i
        BY <1>0, <1>2, <3>2, EventType DEF TypeOK, applyCaptured
      <3>3. ~DemoReset
        BY <1>0, <1>2 DEF TypeOK, DemoReset, OrderRow
      <3> QED
        BY <1>2, <3>1, <3>2, <3>3, OrderWriters
    <2>2. /\ e.pay \in Payments /\ e.pay = <<i, e.pay[2]>> /\ e.pay[2] \in Attempts
          /\ Open(e.pay) /\ prov[e.pay].status = "captured"
      BY <1>0, <2>1, EventOpen DEF applyCaptured, Reported
    <2>3. Held(i) /\ res[i].attached
      BY <2>1 DEF applyCaptured, Capturable
    <2>4. Pending(i)
      BY <1>0, <2>3 DEF TypeOK, OrderRow, Pending, ClosedOrderHoldsNothing, AttachedIsOrdered
    <2>5. pay[e.pay].amount = order[i].total
      BY <1>0, <2>1, <2>2, <2>4 DEF OpenAsOrdered
    <2>6. pay'[e.pay].amount = pay[e.pay].amount /\ order'[i].total = order[i].total
          /\ prov' = prov
      BY <1>0, <2>1, <2>2 DEF TypeOK, applyCaptured, PaymentRow, OrderRow
    <2> QED
      BY <2>2, <2>5, <2>6
  <1> QED
    BY <1>1, <1>2

LEMMA PaidInit == Init => PaidInv
  BY PaymentInit
  DEF Init, Idle, PaidInv, OpenAsOrdered, Open, PaidAsOrdered, Sold

LEMMA PaidNext ==
  ASSUME Calm, PaidInv, [Next]_vars
  PROVE  PaidInv'
  BY PaymentNext, OpenAsOrderedNext, PaidAsOrderedNext DEF PaidInv

(* A confirmed order was paid with its total, although the price, the      *)
(* quote and the total move while the buyer is at the checkout.            *)
THEOREM PaidAmount ==
  ASSUME Calm
  PROVE  Spec => []PaidAsOrdered
  <1>1. PaidInv /\ [Next]_vars => PaidInv'
    BY PaidNext
  <1>2. PaidInv => PaidAsOrdered
    BY DEF PaidInv
  <1> QED
    BY <1>1, <1>2, PaidInit, PTL DEF Spec

(***************************************************************************)
(* The buyer's approval behind an order.  Either no process dies, or       *)
(* one-time authorizations stay within their time: with both, an attempt   *)
(* cut short leaves a reservation attached to an order the buyer approved, *)
(* and a later request binds the intent to the standing authorization.     *)
(***************************************************************************)
Approved(i, a) == bound[i] = "grant" /\ grant[i].status # "NONE" /\ grant[i].amount = a

RevokedIsClosed ==
  \A i \in Intents : grant[i].status = "REVOKED" => status[i] \in TerminalState /\ ~Held(i)

ConsumedIsSold == \A i \in Intents : grant[i].status = "CONSUMED" => i \in Sold

GrantsInTime == ~Lapses => \A i \in Intents : ~grant[i].lapsed

(* What a request was allowed by, and whether that can still be bound.     *)
AllowedBy ==
  \A w \in Workers : req[w].pc = "bind" =>
    LET i == req[w].intent IN
    \/ /\ req[w].outcome = "ALLOW" /\ req[w].price <= Limit
       /\ ~Lapses => grant[i].status # "ACTIVE"
    \/ /\ req[w].outcome = "ALLOW_EXACT"
       /\ grant[i].status # "NONE" /\ grant[i].amount = req[w].price

BoundToGrant ==
  \A w \in Workers :
    /\ req[w].pc \in {"reserve", "prepare"} /\ status[req[w].intent] = "APPROVED"
    /\ req[w].price > Limit
    => Approved(req[w].intent, req[w].price)

(* An attached reservation of an intent that may be executed belongs to a  *)
(* request that is about to start its payment or to give up.               *)
LateStep == {"create", "start", "failPayment", "failRelease"}
Leftover ==
  ~Faults => \A i \in Intents :
    status[i] \in {"APPROVED", "AWAITING_APPROVAL"} /\ Held(i) /\ res[i].attached =>
      \E w \in Workers : req[w].intent = i /\ req[w].pc \in LateStep

BackedByGrant ==
  \A i \in Intents : Held(i) /\ res[i].attached /\ order[i].total > Limit =>
    Approved(i, order[i].total)

GrantInv ==
  /\ OneRequestInv /\ PreparedInv /\ RevokedIsClosed /\ ConsumedIsSold /\ GrantsInTime
  /\ AllowedBy /\ BoundToGrant /\ Leftover /\ BackedByGrant /\ ApprovalBacksOrder

LEMMA RevokedNext ==
  ASSUME PreparedInv, RevokedIsClosed, [Next]_vars
  PROVE  RevokedIsClosed'
  <1>0. TypeOK /\ \A i \in Intents : status[i] \in Prepared
    BY DEF PreparedInv
  <1> SUFFICES ASSUME NEW i \in Intents, grant'[i].status = "REVOKED"
               PROVE  status'[i] \in TerminalState /\ ~Held(i)'
    BY DEF RevokedIsClosed, Held
  <1>1. CASE grant[i].status = "REVOKED"
    <2>1. status[i] \in TerminalState /\ ~Held(i)
      BY <1>1 DEF RevokedIsClosed
    <2>2. status'[i] \in TerminalState
      BY <1>0, <2>1, StatusSteps, Terminals DEF StatusStep, OpenIntent
    <2>3. res'[i].status # "ACTIVE"
      BY <1>0, <2>1, HeldBefore, Terminals DEF Held
    <2> QED
      BY <2>2, <2>3 DEF Held
  <1>2. CASE DemoReset
    <2>1. status'[i] \in TerminalState
      BY <1>0, <1>2, Terminals DEF DemoReset, OpenIntent, Prepared
    <2>2. res'[i].status # "ACTIVE"
      BY <1>2 DEF DemoReset, Held, Closed, NoReservation
    <2> QED
      BY <2>1, <2>2 DEF Held
  <1>3. ~BuyerApproves(i)
    BY <1>0 DEF TypeOK, BuyerApproves
  <1> QED
    BY <1>0, <1>1, <1>2, <1>3, GrantWriters

LEMMA ConsumedNext ==
  ASSUME LedgerInv, ConsumedIsSold, [Next]_vars
  PROVE  ConsumedIsSold'
  <1>0. TypeOK /\ ClosedOrderHoldsNothing
    BY DEF LedgerInv
  <1> SUFFICES ASSUME NEW i \in Intents, grant'[i].status = "CONSUMED"
               PROVE  order'[i].status = "CONFIRMED"
    BY DEF ConsumedIsSold, Sold
  <1>1. CASE grant[i].status = "CONSUMED"
    BY <1>0, <1>1, ClosedOrderStays DEF ConsumedIsSold, Sold
  <1>2. ASSUME NEW e \in inbox, applyCaptured(e), e.pay[1] = i
        PROVE  order'[i].status = "CONFIRMED"
    BY <1>0, <1>2 DEF TypeOK, applyCaptured, OrderRow
  <1>3. ~BuyerApproves(i)
    BY <1>0 DEF TypeOK, BuyerApproves
  <1> QED
    BY <1>0, <1>1, <1>2, <1>3, GrantWriters

LEMMA GrantsInTimeNext ==
  ASSUME TypeOK, GrantsInTime, [Next]_vars
  PROVE  GrantsInTime'
  <1> SUFFICES ASSUME ~Lapses, NEW i \in Intents PROVE ~grant'[i].lapsed
    BY DEF GrantsInTime
  <1>1. ~grant[i].lapsed
    BY DEF GrantsInTime
  <1>2. BuyerApproves(i) => ~grant'[i].lapsed
    BY DEF TypeOK, BuyerApproves
  <1> QED
    BY <1>1, <1>2, GrantWriters

(* An intent with a request before its payment is not waiting for approval *)
LEMMA EarlyNotApproving ==
  ASSUME StatusOfRequest, NEW w \in Workers, req[w].pc \in Early
  PROVE  ~BuyerApproves(req[w].intent)
  BY DEF StatusOfRequest, BuyerApproves

LEMMA AllowedByNext ==
  ASSUME TypeOK, StatusOfRequest, GrantsInTime, AllowedBy, [Next]_vars
  PROVE  AllowedBy'
  <1>0. \A w \in Workers : req'[w].pc # "idle" => req'[w].intent \in Intents
    BY TypeNext DEF TypeOK
  <1> SUFFICES ASSUME NEW w \in Workers, req'[w].pc = "bind",
                      NEW i \in Intents, req'[w].intent = i
               PROVE  \/ /\ req'[w].outcome = "ALLOW" /\ req'[w].price <= Limit
                         /\ ~Lapses => grant'[i].status # "ACTIVE"
                      \/ /\ req'[w].outcome = "ALLOW_EXACT"
                         /\ grant'[i].status # "NONE" /\ grant'[i].amount = req'[w].price
    BY <1>0 DEF AllowedBy
  <1>1. CASE Same(w)
    <2>1. /\ req[w].pc = "bind" /\ req[w].intent = i
          /\ req'[w].outcome = req[w].outcome /\ req'[w].price = req[w].price
      BY <1>1 DEF Same
    <2>2. ~BuyerApproves(i)
      BY <2>1, EarlyNotApproving DEF Early
    <2>3. grant[i].status # "ACTIVE" => grant'[i].status # "ACTIVE"
      BY <2>2, GrantWriters
    <2> QED
      BY <2>1, <2>3, CoverStays DEF AllowedBy
  <1>2. CASE Proceeds(w)
    <2>1. req[w].pc = "decide" /\ ExecuteStep(w) /\ req[w].intent = i
      BY <1>2 DEF Proceeds, Flow
    <2>2. Decide(w)
      BY <2>1 DEF ExecuteStep, RefreshQuote, Refuse, ReleaseRefused,
         BindAuthorization, Reserve, ReserveRefused, PrepareInternalAttempt, PrepareRefused,
         CreateProviderOrder, StartProcessing, AnswerCheckout, FailPayment, FailRelease, At
    <2>3. PICK o \in Outcomes(i, req[w].price, req[w].inStock) :
            req' = [req EXCEPT ![w] =
               [req[w] EXCEPT !.pc = IF o = "ALLOW" THEN "bind" ELSE "refuse",
                              !.outcome = IF o = "ALLOW" /\ Exact(i, req[w].price)
                                          THEN "ALLOW_EXACT" ELSE o]]
      BY <2>1, <2>2 DEF Decide, Goto
    <2>4. o = "ALLOW"
      BY <2>3 DEF TypeOK, Request
    <2>5. /\ req'[w].outcome = IF Exact(i, req[w].price) THEN "ALLOW_EXACT" ELSE "ALLOW"
          /\ req'[w].price = req[w].price /\ grant' = grant
      BY <2>2, <2>3, <2>4 DEF TypeOK, Request, Decide, authVars
    <2>6. CASE Exact(i, req[w].price)
      BY <2>5, <2>6 DEF Exact, GrantUsable
    <2>7. CASE ~Exact(i, req[w].price)
      <3>1. ~GrantUsable(i) /\ req[w].price <= Limit
        BY <2>3, <2>4, <2>7 DEF Outcomes
      <3> QED
        BY <2>5, <2>7, <3>1 DEF GrantUsable, GrantsInTime
    <2> QED
      BY <2>6, <2>7
  <1> QED
    BY <1>1, <1>2, RequestFlow DEF Idle, Begins, Catches

LEMMA BoundToGrantNext ==
  ASSUME TypeOK, Alone, StatusOfRequest, AllowedBy, BoundToGrant, [Next]_vars
  PROVE  BoundToGrant'
  <1>0. \A w \in Workers : /\ req'[w].pc # "idle" => req'[w].intent \in Intents
                            /\ req'[w].price \in Nat
    BY TypeNext DEF TypeOK, Request
  <1> SUFFICES ASSUME NEW w \in Workers, req'[w].pc \in {"reserve", "prepare"},
                      NEW i \in Intents, req'[w].intent = i, status'[i] = "APPROVED",
                      NEW a \in Nat, req'[w].price = a, a > Limit
               PROVE  Approved(i, a)'
    BY <1>0 DEF BoundToGrant, Approved
  <1>1. /\ req[w].pc \in {"bind", "reserve", "prepare"}
        /\ req[w].intent = i /\ req[w].price = a
    <2>1. req'[w] # Idle
      BY DEF Idle
    <2>2. ~Begins(w) /\ ~Catches(w)
      BY DEF Begins, Catches
    <2>3. ~Decide(w)
      <3>1. req[w].pc # "decide"
        BY <2>1, <2>2, RequestFlow DEF Same, Proceeds, Flow
      <3> QED
        BY <3>1 DEF Decide, At
    <2> QED
      BY <2>3, AllowedBefore
  <1>2. status[i] = "APPROVED"
    <2>1. status[i] \in {"APPROVED", "CANCELED"}
      BY <1>1 DEF StatusOfRequest, Early
    <2> QED
      BY <1>1, <2>1, OwnStatus
  <1>3. ~BuyerApproves(i)
    BY <1>1, EarlyNotApproving DEF Early
  <1>4. CASE req[w].pc \in {"reserve", "prepare"}
    <2>1. Approved(i, a)
      BY <1>1, <1>2, <1>4 DEF BoundToGrant
    <2>2. ASSUME NEW x \in Workers, BindAuthorization(x), req[x].intent = i PROVE FALSE
      BY <1>1, <1>4, <2>2 DEF Alone, BindAuthorization, At
    <2>3. bound'[i] = bound[i]
      BY <1>3, <2>2, BoundWriters
    <2> QED
      BY <1>1, <2>1, <2>3, CoverStays DEF Approved
  <1>5. CASE req[w].pc = "bind"
    <2>1. Proceeds(w)
      BY <1>5, RequestFlow DEF Same, Idle, Begins, Catches
    <2>2. BindAuthorization(w)
      BY <1>5, <2>1 DEF Proceeds, ExecuteStep, RefreshQuote, Decide, Refuse, ReleaseRefused,
         Reserve, ReserveRefused, PrepareInternalAttempt, PrepareRefused,
         CreateProviderOrder, StartProcessing, AnswerCheckout, FailPayment, FailRelease, At
    <2>3. req[w].outcome = "ALLOW_EXACT" /\ grant[i].status # "NONE"
          /\ grant[i].amount = a
      <3>1. ~(req[w].price <= Limit)
        BY <1>1, ConstantsAssumption
      <3> QED
        BY <1>1, <1>5, <3>1 DEF AllowedBy
    <2>4. bound'[i] = "grant" /\ grant' = grant
      BY <1>1, <1>2, <2>2, <2>3 DEF TypeOK, BindAuthorization
    <2> QED
      BY <1>1, <2>3, <2>4 DEF Approved
  <1> QED
    BY <1>1, <1>4, <1>5

(* While nothing dies, a request that created its attempt starts the       *)
(* payment or goes through both steps of the catch block.                  *)
LEMMA LateStepGoesOn ==
  ASSUME TypeOK, [Next]_vars, ~Faults, NEW w \in Workers, req[w].pc \in LateStep
  PROVE  \/ req'[w].intent = req[w].intent /\ req'[w].pc \in LateStep
         \/ StartProcessing(w) /\ status[req[w].intent] = "APPROVED"
         \/ FailRelease(w)
  <1> USE DEF authVars, shopVars, moneyVars
  <1>0. \A x \in Workers : req[x] \in Request
    BY DEF TypeOK
  <1>1. CASE Same(w)
    BY <1>1 DEF Same
  <1>2. CASE ExecuteStep(w)
    <2> USE DEF LateStep, At
    <2>1. CASE CreateProviderOrder(w) \/ FailPayment(w)
      BY <1>0, <2>1 DEF TypeOK, CreateProviderOrder, FailPayment, Step, Goto, Request
    <2>2. CASE StartProcessing(w)
      BY <1>0, <2>2 DEF TypeOK, StartProcessing, Step, Goto, Request
    <2> QED
      BY <1>2, <2>1, <2>2 DEF ExecuteStep, RefreshQuote, Decide, Refuse, ReleaseRefused,
         BindAuthorization, Reserve, ReserveRefused, PrepareInternalAttempt, PrepareRefused,
         AnswerCheckout
  <1>3. ~StatementFails(w) /\ \A i \in Intents : ~Execute(w, i)
    BY DEF StatementFails, Execute, At, LateStep
  <1>4. CASE req'[w] = Idle
    <2>1. req' # req
      BY <1>4 DEF Idle, LateStep
    <2>2. ASSUME NEW x \in Workers, x # w,
                 \/ \E j \in Intents : Execute(x, j)
                 \/ ExecuteStep(x)
                 \/ QuoteExpires(x) \/ Abandon(x) \/ StatementFails(x)
          PROVE  FALSE
      <3>1. req'[w].pc = "idle"
        BY <1>4 DEF Idle
      <3>2. CASE RefreshQuote(x)
        BY <1>0, <2>2, <3>1, <3>2 DEF TypeOK, RefreshQuote, Superseded, Request, LateStep
      <3>3. CASE \E r : Goto(x, r)
        BY <2>2, <3>1, <3>3 DEF TypeOK, Goto, LateStep
      <3> QED
        BY <2>2, <3>2, <3>3 DEF Execute, ExecuteStep, QuoteExpires, Abandon, StatementFails,
           Decide, Refuse, ReleaseRefused, BindAuthorization, Reserve, ReserveRefused, Step,
           PrepareInternalAttempt, PrepareRefused, CreateProviderOrder, StartProcessing,
           AnswerCheckout, FailPayment, FailRelease
    <2>3. ~QuoteExpires(w) /\ ~Abandon(w)
      BY DEF QuoteExpires, Abandon, LateStep
    <2>4. CASE RequestStep
      <3>1. PICK x \in Workers :
              \/ \E j \in Intents : Execute(x, j)
              \/ ExecuteStep(x)
              \/ QuoteExpires(x) \/ Abandon(x) \/ StatementFails(x)
        BY <2>4 DEF RequestStep
      <3>2. x = w
        BY <2>2, <3>1
      <3> QED
        BY <1>2, <1>3, <2>3, <3>1, <3>2
    <2>5. CASE BuyerStep
      <3>1. ASSUME NEW j \in Intents, BuyerApproves(j) PROVE FALSE
        <4>1. req'[w].pc = req[w].pc
          BY <1>0, <3>1 DEF BuyerApproves, Superseded, Request
        <4> QED
          BY <1>4, <4>1 DEF Idle, LateStep
      <3> QED
        BY <2>1, <2>5, <3>1 DEF BuyerStep, VerifyRead, VerifyWrite
    <2>6. CASE ProviderStep
      BY <2>1, <2>6 DEF ProviderStep, Pays, Settles
    <2>7. CASE ProcessorStep
      BY <2>1, <2>7 DEF ProcessorStep, ProcessEvent, applyAuthorized, applyCaptured,
         applyFailed, ignoreDuplicateCapture, GiveUp
    <2>8. CASE SurroundingStep
      BY <2>1, <2>8 DEF SurroundingStep, ChangePrice, ReservationLapses, GrantLapses,
         DemoReset, Crash
    <2> QED
      BY <2>1, <2>4, <2>5, <2>6, <2>7, <2>8 DEF Next, vars
  <1> QED
    BY <1>1, <1>2, <1>3, <1>4, RequestMoves

(* An attached reservation was one before, or an attempt was just created. *)
LEMMA AttachedWriters ==
  ASSUME TypeOK, [Next]_vars, NEW i \in Intents, Held(i)', res'[i].attached
  PROVE  \/ Held(i) /\ res[i].attached
         \/ \E w \in Workers : PrepareInternalAttempt(w) /\ req[w].intent = i
  <1>1. ASSUME NEW w \in Workers, Reserve(w), req[w].intent = i
        PROVE  Held(i) /\ res[i].attached
    <2>1. CASE Held(i) /\ ~res[i].lapsed
      BY <1>1, <2>1 DEF TypeOK, Reserve, ReservationRow
    <2>2. CASE ~(Held(i) /\ ~res[i].lapsed)
      <3>1. res'[i] = [NoReservation EXCEPT !.status = "ACTIVE", !.known = {w}]
        BY <1>1, <2>2 DEF TypeOK, Reserve
      <3> QED
        BY <3>1 DEF NoReservation
    <2> QED
      BY <2>1, <2>2
  <1> QED
    BY <1>1, ReservationWriters

LEMMA LeftoverNext ==
  ASSUME TypeOK, Alone, Leftover, [Next]_vars
  PROVE  Leftover'
  <1> SUFFICES ASSUME ~Faults, NEW i \in Intents,
                      status'[i] \in {"APPROVED", "AWAITING_APPROVAL"},
                      Held(i)', res'[i].attached
               PROVE  \E w \in Workers : req'[w].intent = i /\ req'[w].pc \in LateStep
    BY DEF Leftover, Held
  <1>1. ASSUME NEW w \in Workers, PrepareInternalAttempt(w), req[w].intent = i
        PROVE  req'[w].intent = i /\ req'[w].pc \in LateStep
    BY <1>1 DEF TypeOK, PrepareInternalAttempt, Goto, Request, LateStep
  <1>2. CASE Held(i) /\ res[i].attached
    <2>1. ASSUME status[i] \in {"APPROVED", "AWAITING_APPROVAL"}
          PROVE  \E w \in Workers : req[w].intent = i /\ req[w].pc \in LateStep
      BY <1>2, <2>1 DEF Leftover
    <2>2. ASSUME NEW e \in inbox, applyFailed(e), e.pay[1] = i,
                 pay[e.pay].status # "CAPTURED"
          PROVE  FALSE
      BY <1>2, <2>2 DEF TypeOK, applyFailed, Held, Closed, NoReservation
    <2>3. status[i] \in {"APPROVED", "AWAITING_APPROVAL"}
      BY <2>2, StatusSteps DEF StatusStep
    <2>4. PICK w \in Workers : req[w].intent = i /\ req[w].pc \in LateStep
      BY <2>1, <2>3
    <2>5. ~(StartProcessing(w) /\ status[i] = "APPROVED")
      BY <2>4 DEF TypeOK, StartProcessing
    <2>6. ~FailRelease(w)
      BY <2>4 DEF TypeOK, FailRelease, releaseForIntent, Held, Closed, NoReservation
    <2> QED
      BY <2>4, <2>5, <2>6, LateStepGoesOn
  <1> QED
    BY <1>1, <1>2, AttachedWriters

LEMMA BackedByGrantNext ==
  ASSUME OneRequest, ~Faults \/ ~Lapses, GrantInv, [Next]_vars
  PROVE  BackedByGrant'
  <1>0. /\ TypeOK /\ ClosedOrderHoldsNothing /\ Alone /\ StatusOfRequest
        /\ CanceledHoldsNothing /\ RevokedIsClosed /\ ConsumedIsSold /\ AllowedBy
        /\ BoundToGrant /\ Leftover /\ BackedByGrant
    BY DEF GrantInv, OneRequestInv, LedgerInv
  <1>00. Limit \in Nat
    BY ConstantsAssumption
  <1> SUFFICES ASSUME NEW i \in Intents, Held(i)', res'[i].attached,
                      NEW a, order'[i].total = a, a > Limit
               PROVE  Approved(i, a)'
    BY DEF BackedByGrant, Held, Approved
  <1>1. ASSUME NEW w \in Workers, PrepareInternalAttempt(w), req[w].intent = i
        PROVE  Approved(i, a)'
    <2>1. req[w].pc = "prepare" /\ Held(i) /\ order'[i].total = req[w].price
      BY <1>0, <1>1 DEF TypeOK, PrepareInternalAttempt, CanPrepare, At
    <2>2. status[i] = "APPROVED"
      BY <1>0, <1>1, <2>1 DEF StatusOfRequest, Early, CanceledHoldsNothing
    <2>3. Approved(i, a)
      BY <1>0, <1>1, <2>1, <2>2 DEF BoundToGrant
    <2> QED
      BY <1>1, <2>3 DEF Approved, PrepareInternalAttempt, authVars
  <1>2. ASSUME Held(i), res[i].attached,
               \A w \in Workers : PrepareInternalAttempt(w) => req[w].intent # i
        PROVE  Approved(i, a)'
    <2>1. order'[i].total = order[i].total
      <3>1. ASSUME NEW w \in Workers, PrepareInternalAttempt(w)
            PROVE  order'[i].total = order[i].total
        <4>1. req[w].intent # i
          BY <1>2, <3>1
        <4>2. order' = [order EXCEPT ![req[w].intent] =
                          [status |-> "PENDING_PAYMENT", total |-> req[w].price]]
          BY <3>1 DEF PrepareInternalAttempt
        <4> QED
          BY <1>0, <4>1, <4>2 DEF TypeOK
      <3>2. ASSUME NEW e \in inbox, applyCaptured(e) PROVE order'[i].total = order[i].total
        BY <1>0, <3>2 DEF TypeOK, applyCaptured, OrderRow
      <3>3. CASE DemoReset
        BY <1>0, <3>3 DEF TypeOK, DemoReset, OrderRow
      <3> QED
        BY <3>1, <3>2, <3>3, OrderWriters
    <2>2. Approved(i, a)
      BY <1>0, <1>2, <2>1 DEF BackedByGrant
    <2>3. ~BuyerApproves(i)
      BY <2>2 DEF Approved, BuyerApproves
    <2>4. ASSUME NEW w \in Workers, BindAuthorization(w), req[w].intent = i
          PROVE  bound'[i] = "grant"
      <3>1. req[w].pc = "bind"
        BY <2>4 DEF BindAuthorization, At
      <3>2. CASE status[i] # "APPROVED" \/ req[w].outcome = "ALLOW_EXACT"
        BY <1>0, <2>2, <2>4, <3>2 DEF TypeOK, BindAuthorization, Approved
      <3>3. CASE status[i] = "APPROVED" /\ ~Faults
        <4>1. PICK x \in Workers : req[x].intent = i /\ req[x].pc \in LateStep
          BY <1>0, <1>2, <3>3 DEF Leftover
        <4> QED
          BY <1>0, <2>4, <3>1, <4>1 DEF Alone, LateStep
      <3>4. CASE req[w].outcome # "ALLOW_EXACT" /\ ~Lapses
        <4>1. grant[i].status # "ACTIVE" /\ grant[i].status # "NONE"
          BY <1>0, <2>2, <2>4, <3>1, <3>4 DEF AllowedBy, Approved
        <4>2. grant[i].status \in {"CONSUMED", "REVOKED"}
          BY <1>0, <4>1 DEF TypeOK, GrantRow
        <4> QED
          BY <1>0, <1>2, <4>2
          DEF RevokedIsClosed, ConsumedIsSold, Sold, ClosedOrderHoldsNothing
      <3> QED
        BY <3>2, <3>3, <3>4
    <2>5. bound'[i] = "grant"
      BY <1>0, <2>2, <2>3, <2>4, BoundWriters DEF Approved
    <2> QED
      BY <1>0, <2>2, <2>5, CoverStays DEF Approved
  <1> QED
    BY <1>0, <1>1, <1>2, AttachedWriters

LEMMA ApprovalBacksNext ==
  ASSUME GrantInv, [Next]_vars
  PROVE  ApprovalBacksOrder'
  <1>0. /\ TypeOK /\ LedgerInv /\ ClosedOrderHoldsNothing /\ ConsumedIsSold
        /\ BackedByGrant /\ ApprovalBacksOrder
    BY DEF GrantInv, OneRequestInv, LedgerInv
  <1>1. ConsumedIsSold'
    BY <1>0, ConsumedNext
  <1>2. ASSUME NEW i \in Intents, order'[i].status = "CONFIRMED", order'[i].total > Limit
        PROVE  grant'[i].status = "CONSUMED" /\ grant'[i].amount = order'[i].total
    <2>1. CASE order[i].status = "CONFIRMED"
      <3>1. order'[i] = order[i]
        BY <1>0, <2>1, ClosedOrderStays
      <3>2. grant[i].status = "CONSUMED" /\ grant[i].amount = order[i].total
        BY <1>0, <1>2, <2>1, <3>1 DEF ApprovalBacksOrder, Sold
      <3>3. ~BuyerApproves(i)
        BY <3>2 DEF BuyerApproves
      <3>4. grant'[i].status = "CONSUMED"
        BY <1>0, <3>2, <3>3, GrantWriters
      <3> QED
        BY <1>0, <3>1, <3>2, <3>4, CoverStays
    <2>2. CASE order[i].status # "CONFIRMED"
      <3>1. PICK e \in inbox : applyCaptured(e) /\ e.pay[1] = i
        <4>1. ASSUME NEW w \in Workers, PrepareInternalAttempt(w) PROVE FALSE
          BY <1>0, <1>2, <2>2, <4>1 DEF TypeOK, PrepareInternalAttempt
        <4>2. ASSUME NEW e \in inbox, applyCaptured(e) PROVE e.pay[1] = i
          BY <1>0, <1>2, <2>2, <4>2, EventType DEF TypeOK, applyCaptured
        <4>3. ~DemoReset
          BY <1>0, <1>2, <2>2 DEF TypeOK, DemoReset, OrderRow
        <4> QED
          BY <1>2, <2>2, <4>1, <4>2, <4>3, OrderWriters
      <3>2. Held(i) /\ res[i].attached
        BY <3>1 DEF applyCaptured, Capturable
      <3>3. order'[i].total = order[i].total
        BY <1>0, <3>1 DEF TypeOK, applyCaptured, OrderRow
      <3>4. Approved(i, order[i].total)
        BY <1>0, <1>2, <3>2, <3>3 DEF BackedByGrant
      <3>5. grant'[i].status = "CONSUMED"
        BY <1>0, <3>1, <3>4 DEF TypeOK, applyCaptured, Approved, GrantRow
      <3> QED
        BY <1>0, <3>3, <3>4, <3>5, CoverStays DEF Approved
    <2> QED
      BY <2>1, <2>2
  <1> QED
    BY <1>1, <1>2 DEF ApprovalBacksOrder, ConsumedIsSold, Sold

LEMMA GrantInit == Init => GrantInv
  <1> SUFFICES ASSUME Init PROVE GrantInv
    OBVIOUS
  <1>1. OneRequestInv /\ PreparedInv
    BY OneRequestInit, TypeInit DEF Init, PreparedInv, Prepared
  <1>2. \A w \in Workers : req[w].pc = "idle"
    BY DEF Init, Idle
  <1>3. \A i \in Intents : /\ ~Held(i) /\ i \notin Sold
                           /\ grant[i].status = "NONE" /\ ~grant[i].lapsed
    BY DEF Init, Held, NoReservation, Sold
  <1> QED
    BY <1>1, <1>2, <1>3 DEF GrantInv, RevokedIsClosed, ConsumedIsSold, GrantsInTime,
       AllowedBy, BoundToGrant, Leftover, BackedByGrant, ApprovalBacksOrder, Sold

LEMMA GrantNext ==
  ASSUME OneRequest, ~Faults \/ ~Lapses, GrantInv, [Next]_vars
  PROVE  GrantInv'
  <1>1. PreparedInv'
    BY TypeNext, StatusWriters, MovesAllowed DEF GrantInv, PreparedInv
  <1> QED
    BY <1>1, OneRequestNext, RevokedNext, ConsumedNext, GrantsInTimeNext, AllowedByNext,
       BoundToGrantNext, LeftoverNext, BackedByGrantNext, ApprovalBacksNext
    DEF GrantInv, OneRequestInv, LedgerInv

(* An order above the limit consumed the buyer's approval of exactly its   *)
(* total, whatever the price and the clock did since he gave it.           *)
THEOREM OrdersApproved ==
  ASSUME OneRequest, ~Faults \/ ~Lapses
  PROVE  Spec => []ApprovalBacksOrder
  <1>1. GrantInv /\ [Next]_vars => GrantInv'
    BY GrantNext
  <1>2. GrantInv => ApprovalBacksOrder
    BY DEF GrantInv
  <1> QED
    BY <1>1, <1>2, GrantInit, PTL DEF Spec

=============================================================================
