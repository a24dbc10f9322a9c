--------------------- MODULE CheckoutReservation_proofs ---------------------
(***************************************************************************)
(* What becomes of reservations: together they never promise more than is  *)
(* in stock, and a closed intent gives its one back, although the code     *)
(* closes the intent in one transaction and releases in another.           *)
(***************************************************************************)
EXTENDS Checkout_proofs

(***************************************************************************)
(* A closed intent holds nothing.                                          *)
(***************************************************************************)

Releasing(i) == \E w \in Workers : req[w].intent = i /\ At(w, "release")

(* Only reserve makes a reservation ACTIVE, and only for an intent that is *)
(* APPROVED.                                                               *)
LEMMA HeldBefore ==
  ASSUME TypeOK, [Next]_vars, NEW i \in Intents, res'[i].status = "ACTIVE"
  PROVE  \/ res[i].status = "ACTIVE"
         \/ status[i] = "APPROVED" /\ UNCHANGED status
  <1> USE DEF authVars, shopVars, moneyVars
  <1>0. res[i] \in ReservationRow
    BY DEF TypeOK
  <1>1. CASE RequestStep
    <2>1. PICK w \in Workers :
            \/ \E j \in Intents : Execute(w, j)
            \/ ExecuteStep(w)
            \/ QuoteExpires(w) \/ Abandon(w) \/ StatementFails(w)
      BY <1>1 DEF RequestStep
    <2>2. CASE ReleaseRefused(w) \/ FailRelease(w)
      BY <2>2 DEF TypeOK, ReleaseRefused, FailRelease, releaseForIntent, Closed, NoReservation
    <2>3. CASE Reserve(w)
      BY <2>3 DEF TypeOK, Reserve, CanReserve
    <2>4. CASE PrepareInternalAttempt(w)
      BY <2>4 DEF TypeOK, PrepareInternalAttempt, CanPrepare, Held, ReservationRow
    <2>5. CASE UNCHANGED res
      BY <2>5
    <2> QED
      BY <2>1, <2>2, <2>3, <2>4, <2>5 DEF Execute, ExecuteStep, QuoteExpires, Abandon,
         StatementFails, RefreshQuote, Decide, Refuse, BindAuthorization, ReserveRefused,
         PrepareRefused, CreateProviderOrder, StartProcessing, AnswerCheckout, FailPayment
  <1>2. CASE BuyerStep
    BY <1>2 DEF BuyerStep, VerifyRead, VerifyWrite, BuyerApproves
  <1>3. CASE ProviderStep
    BY <1>3 DEF ProviderStep, Pays, Settles
  <1>4. CASE ProcessorStep
    <2>1. PICK e \in inbox : ProcessEvent(e) \/ GiveUp(e)
      BY <1>4 DEF ProcessorStep
    <2>2. CASE applyCaptured(e)
      BY <2>2 DEF TypeOK, applyCaptured, Closed, NoReservation
    <2>3. CASE applyFailed(e)
      BY <2>3 DEF TypeOK, applyFailed, Closed, NoReservation
    <2> QED
      BY <2>1, <2>2, <2>3 DEF ProcessEvent, applyAuthorized, ignoreDuplicateCapture, GiveUp
  <1>5. CASE SurroundingStep
    <2>1. CASE DemoReset
      BY <2>1 DEF DemoReset, Held, Closed, NoReservation
    <2>2. ASSUME NEW j \in Intents, ReservationLapses(j)
          PROVE  res[i].status = "ACTIVE"
      BY <1>0, <2>2 DEF TypeOK, ReservationLapses, ReservationRow
    <2> QED
      BY <1>5, <2>1, <2>2 DEF SurroundingStep, ChangePrice, GrantLapses, Crash
  <1>6. CASE UNCHANGED vars
    BY <1>6 DEF vars
  <1> QED
    BY <1>1, <1>2, <1>3, <1>4, <1>5, <1>6 DEF Next

LEMMA Terminals == TerminalState = {"BLOCKED", "COMPLETED", "FAILED", "CANCELED", "EXPIRED"}
  BY DEF TerminalState, IntentState, allowedTransitions

(* A step that closes an intent releases what it holds, or is the refusal, *)
(* which is about to.                                                      *)
LEMMA ClosingReleases ==
  ASSUME TypeOK, [Next]_vars, NEW i \in Intents, res'[i].status = "ACTIVE",
         status'[i] \in TerminalState, status[i] \notin TerminalState
  PROVE  Releasing(i)'
  <1> USE DEF authVars, shopVars, moneyVars
  <1>0. status[i] # status'[i]
    OBVIOUS
  <1>1. CASE RequestStep
    <2>1. PICK w \in Workers :
            \/ \E j \in Intents : Execute(w, j)
            \/ ExecuteStep(w)
            \/ QuoteExpires(w) \/ Abandon(w) \/ StatementFails(w)
      BY <1>1 DEF RequestStep
    <2>2. CASE Refuse(w)
      <3>1. req[w].intent = i /\ req' = [req EXCEPT ![w] = [req[w] EXCEPT !.pc = "release"]]
        BY <1>0, <2>2 DEF TypeOK, Refuse, Step, Goto
      <3>2. req'[w].intent = i /\ req'[w].pc = "release"
        BY <3>1 DEF TypeOK, Request
      <3> QED
        BY <3>2 DEF Releasing, At
    <2>3. CASE StartProcessing(w)
      BY <1>0, <2>3, Terminals DEF TypeOK, StartProcessing
    <2>4. CASE UNCHANGED status
      BY <1>0, <2>4
    <2> QED
      BY <2>1, <2>2, <2>3, <2>4 DEF Execute, ExecuteStep, QuoteExpires, Abandon,
         StatementFails, RefreshQuote, Decide, ReleaseRefused, BindAuthorization, Reserve,
         ReserveRefused, PrepareInternalAttempt, PrepareRefused, CreateProviderOrder,
         AnswerCheckout, FailPayment, FailRelease
  <1>2. CASE BuyerStep
    <2>1. ASSUME NEW j \in Intents, BuyerApproves(j) PROVE FALSE
      BY <1>0, <2>1, Terminals DEF TypeOK, BuyerApproves
    <2> QED
      BY <1>0, <1>2, <2>1 DEF BuyerStep, VerifyRead, VerifyWrite
  <1>3. CASE ProviderStep
    BY <1>0, <1>3 DEF ProviderStep, Pays, Settles
  <1>4. CASE ProcessorStep
    <2>1. PICK e \in inbox : ProcessEvent(e) \/ GiveUp(e)
      BY <1>4 DEF ProcessorStep
    <2>2. CASE applyCaptured(e)
      <3>1. e.pay[1] = i
        BY <1>0, <2>2 DEF TypeOK, applyCaptured
      <3> QED
        BY <2>2, <3>1 DEF TypeOK, applyCaptured, Closed, NoReservation
    <2>3. CASE applyFailed(e)
      BY <1>0, <2>3, Terminals DEF TypeOK, applyFailed
    <2> QED
      BY <1>0, <2>1, <2>2, <2>3
      DEF ProcessEvent, applyAuthorized, ignoreDuplicateCapture, GiveUp
  <1>5. CASE SurroundingStep
    <2>1. CASE DemoReset
      <3>1. res'[i].status # "ACTIVE"
        BY <2>1 DEF DemoReset, Held, Closed, NoReservation
      <3> QED
        BY <3>1
    <2> QED
      BY <1>0, <1>5, <2>1 DEF SurroundingStep, ChangePrice, ReservationLapses, GrantLapses, Crash
  <1>6. CASE UNCHANGED vars
    BY <1>0, <1>6 DEF vars
  <1> QED
    BY <1>1, <1>2, <1>3, <1>4, <1>5, <1>6 DEF Next

(* A request about to release does so next.                                *)
LEMMA ReleasingReleases ==
  ASSUME TypeOK, [Next]_vars, ~Faults, NEW i \in Intents, res'[i].status = "ACTIVE",
         Releasing(i)
  PROVE  Releasing(i)'
  <1> USE DEF authVars, shopVars, moneyVars
  <1>0. PICK w \in Workers : req[w].intent = i /\ req[w].pc = "release"
    BY DEF Releasing, At
  <1> SUFFICES req'[w].intent = i /\ req'[w].pc = "release"
    BY DEF Releasing, At
  <1>1. CASE RequestStep
    <2>1. PICK x \in Workers :
            \/ \E j \in Intents : Execute(x, j)
            \/ ExecuteStep(x)
            \/ QuoteExpires(x) \/ Abandon(x) \/ StatementFails(x)
      BY <1>1 DEF RequestStep
    <2>2. CASE x = w
      <3>1. ReleaseRefused(w)
        BY <1>0, <2>1, <2>2 DEF Execute, ExecuteStep, QuoteExpires, Abandon, StatementFails,
           RefreshQuote, Decide, Refuse, BindAuthorization, Reserve, ReserveRefused, At,
           PrepareInternalAttempt, PrepareRefused, CreateProviderOrder, StartProcessing,
           AnswerCheckout, FailPayment, FailRelease
      <3>2. res'[i].status # "ACTIVE"
        BY <1>0, <3>1 DEF TypeOK, ReleaseRefused, releaseForIntent, Closed, NoReservation
      <3> QED
        BY <3>2
    <2>3. CASE x # w
      <3>1. CASE RefreshQuote(x)
        BY <1>0, <2>3, <3>1 DEF TypeOK, RefreshQuote, Superseded, Request
      <3>2. CASE \E r : Goto(x, r)
        BY <1>0, <2>3, <3>2 DEF TypeOK, Goto
      <3> QED
        BY <2>1, <3>1, <3>2 DEF Execute, ExecuteStep, QuoteExpires, Abandon, StatementFails,
           Decide, Refuse, ReleaseRefused, BindAuthorization, Reserve, ReserveRefused, Step,
           PrepareInternalAttempt, PrepareRefused, CreateProviderOrder, StartProcessing,
           AnswerCheckout, FailPayment, FailRelease
    <2> QED
      BY <2>2, <2>3
  <1>2. CASE BuyerStep
    <2>1. ASSUME NEW j \in Intents, BuyerApproves(j)
          PROVE  req'[w].intent = i /\ req'[w].pc = "release"
      BY <1>0, <2>1 DEF TypeOK, BuyerApproves, Superseded, Request
    <2> QED
      BY <1>0, <1>2, <2>1 DEF BuyerStep, VerifyRead, VerifyWrite
  <1>3. CASE ProviderStep
    BY <1>0, <1>3 DEF ProviderStep, Pays, Settles
  <1>4. CASE ProcessorStep
    BY <1>0, <1>4 DEF ProcessorStep, ProcessEvent, applyAuthorized, applyCaptured,
       ignoreDuplicateCapture, applyFailed, GiveUp
  <1>5. CASE SurroundingStep
    BY <1>0, <1>5 DEF SurroundingStep, ChangePrice, ReservationLapses, GrantLapses,
       DemoReset, Crash
  <1>6. CASE UNCHANGED vars
    BY <1>0, <1>6 DEF vars
  <1> QED
    BY <1>1, <1>2, <1>3, <1>4, <1>5, <1>6 DEF Next

(* As long as no process dies between closing the intent and releasing, a  *)
(* closed intent ends up holding nothing, whatever concurrent requests,    *)
(* webhooks and the demo reset do.                                         *)
THEOREM ClosedReleased ==
  ASSUME ~Faults
  PROVE  Spec => []ClosedHoldsNothing
  <1>1. Init => ClosedHoldsNothing
    BY DEF Init, ClosedHoldsNothing, Held, NoReservation
  <1>2. TypeOK /\ ClosedHoldsNothing /\ [Next]_vars => ClosedHoldsNothing'
    <2> SUFFICES ASSUME TypeOK, ClosedHoldsNothing, [Next]_vars, NEW i \in Intents,
                        status'[i] \in TerminalState, res'[i].status = "ACTIVE"
                 PROVE  Releasing(i)'
      BY DEF ClosedHoldsNothing, Held, Releasing, At
    <2>1. CASE status[i] \notin TerminalState
      BY <2>1, ClosingReleases
    <2>2. CASE status[i] \in TerminalState
      <3>1. res[i].status = "ACTIVE"
        BY <2>2, HeldBefore, Terminals
      <3>2. Releasing(i)
        BY <2>2, <3>1 DEF ClosedHoldsNothing, Held, Releasing
      <3> QED
        BY <3>2, ReleasingReleases
    <2> QED
      BY <2>1, <2>2
  <1> QED
    BY <1>1, <1>2, TypeCorrect, PTL DEF Spec

(***************************************************************************)
(* The reservations in force never promise more than is in stock, unless a *)
(* reservation that outlived its time is sold after all.                   *)
(***************************************************************************)

LEMMA PromisedFinite ==
  /\ IsFiniteSet(Promised)
  /\ Cardinality(Promised) \in Nat
  BY FS_Subset, FS_CardinalityType, ConstantsAssumption DEF Promised

(* The sale of a unit whose reservation had outlived its time.             *)
LapsedSale ==
  \E i \in Intents :
    /\ order[i].status # "CONFIRMED" /\ order'[i].status = "CONFIRMED"
    /\ res[i].lapsed

(* The five ways a step treats the promises: none is added, reserve adds   *)
(* one while a unit is available, the capture takes one with its unit or a *)
(* unit alone if the reservation had lapsed, the reset takes all.          *)
PromiseStep ==
  \/ stock' = stock /\ Promised' \subseteq Promised
  \/ stock' = stock /\ \E i \in Intents :
       /\ Promised' = Promised \cup {i}
       /\ Cardinality(Promised \ {i}) + 1 <= stock
  \/ stock' = stock - 1 /\ \E i \in Promised : Promised' = Promised \ {i}
  \/ LapsedSale
  \/ stock' = InitialStock /\ Promised' = {}

LEMMA ReservePromises ==
  ASSUME TypeOK, NEW w \in Workers, Reserve(w)
  PROVE  PromiseStep
  <1>1. PICK i \in Intents : i = req[w].intent
    BY DEF TypeOK, Reserve, At
  <1>2. stock' = stock
    BY DEF Reserve, shopVars
  <1>3. PICK r \in ReservationRow : /\ res' = [res EXCEPT ![i] = r]
                                  /\ r.status = "ACTIVE" /\ ~r.lapsed
    <2>1. CASE Held(i) /\ ~res[i].lapsed
      <3> DEFINE row == [res[i] EXCEPT !.known = @ \cup {w}]
      <3>1. res' = [res EXCEPT ![i] = row]
        BY <1>1, <2>1 DEF Reserve
      <3>2. res[i] \in ReservationRow /\ res[i].status = "ACTIVE"
        BY <2>1 DEF TypeOK, Held
      <3>3. res[i].known \cup {w} \in SUBSET Workers
        BY <3>2 DEF ReservationRow
      <3>4. row \in ReservationRow /\ row.status = "ACTIVE" /\ ~row.lapsed
        BY <2>1, <3>2, <3>3 DEF ReservationRow
      <3> QED
        BY <3>1, <3>4
    <2>2. CASE ~(Held(i) /\ ~res[i].lapsed)
      <3> DEFINE row == [NoReservation EXCEPT !.status = "ACTIVE", !.known = {w}]
      <3>1. res' = [res EXCEPT ![i] = row]
        BY <1>1, <2>2 DEF Reserve
      <3>2. row \in ReservationRow /\ row.status = "ACTIVE" /\ ~row.lapsed
        BY DEF NoReservation, ReservationRow
      <3> QED
        BY <3>1, <3>2
    <2> QED
      BY <2>1, <2>2
  <1>4. Promised' = Promised \cup {i}
    BY <1>1, <1>3 DEF TypeOK, Promised, Held
  <1>5. CASE i \in Promised
    BY <1>2, <1>4, <1>5 DEF PromiseStep
  <1>6. CASE i \notin Promised
    <2>1. Available(i) >= 1
      BY <1>1, <1>6 DEF Reserve, CanReserve, Promised
    <2>2. {j \in Intents \ {i} : Held(j) /\ ~res[j].lapsed} = Promised \ {i}
      BY DEF Promised
    <2>3. Cardinality(Promised \ {i}) \in Nat /\ stock \in Nat
      BY PromisedFinite, FS_Subset, FS_CardinalityType DEF TypeOK
    <2>4. stock - Cardinality(Promised \ {i}) >= 1
      BY <2>1, <2>2 DEF Available
    <2>5. Cardinality(Promised \ {i}) + 1 <= stock
      BY <2>3, <2>4
    <2> QED
      BY <1>2, <1>4, <2>5 DEF PromiseStep
  <1> QED
    BY <1>5, <1>6

(* The capture confirms an order that was not: a confirmed one has no      *)
(* attached reservation left.                                              *)
LEMMA CapturePromises ==
  ASSUME LedgerInv, NEW e \in inbox, applyCaptured(e)
  PROVE  PromiseStep
  <1> DEFINE i == e.pay[1]
  <1>1. TypeOK /\ i \in Intents
    BY EventType DEF LedgerInv
  <1>2. Held(i) /\ res[i].attached /\ stock' = stock - 1
    BY DEF applyCaptured, Capturable
  <1>3. ~Held(i)' /\ \A j \in Intents \ {i} : res'[j] = res[j]
    BY <1>1 DEF TypeOK, applyCaptured, Closed, NoReservation, Held
  <1>4. Promised' = Promised \ {i}
    BY <1>1, <1>3 DEF Promised, Held
  <1>5. order[i].status # "CONFIRMED" /\ order'[i].status = "CONFIRMED"
    BY <1>1, <1>2 DEF LedgerInv, ClosedOrderHoldsNothing, TypeOK, applyCaptured, OrderRow
  <1>6. CASE res[i].lapsed
    BY <1>1, <1>5, <1>6 DEF PromiseStep, LapsedSale
  <1>7. CASE ~res[i].lapsed
    <2>1. i \in Promised
      BY <1>1, <1>2, <1>7 DEF Promised
    <2> QED
      BY <1>2, <1>4, <2>1 DEF PromiseStep
  <1> QED
    BY <1>6, <1>7

LEMMA StepsPromise ==
  ASSUME LedgerInv, [Next]_vars
  PROVE  PromiseStep
  <1> USE DEF authVars, shopVars, moneyVars
  <1>0. ASSUME stock' = stock,
               \A i \in Intents : Held(i)' /\ ~res'[i].lapsed => Held(i) /\ ~res[i].lapsed
        PROVE  PromiseStep
    BY <1>0 DEF PromiseStep, Promised
  <1>00. ASSUME UNCHANGED <<stock, res>> PROVE PromiseStep
    BY <1>00 DEF PromiseStep, Promised, Held
  <1>000. TypeOK
    BY DEF LedgerInv
  <1>1. CASE RequestStep
    <2>1. PICK w \in Workers :
            \/ \E j \in Intents : Execute(w, j)
            \/ ExecuteStep(w)
            \/ QuoteExpires(w) \/ Abandon(w) \/ StatementFails(w)
      BY <1>1 DEF RequestStep
    <2>2. CASE ReleaseRefused(w) \/ FailRelease(w)
      <3>1. stock' = stock
        BY <2>2 DEF ReleaseRefused, FailRelease
      <3>2. \A i \in Intents : res'[i] = res[i] \/ ~Held(i)'
        BY <1>000, <2>2 DEF TypeOK, ReleaseRefused, FailRelease, releaseForIntent, Closed,
           NoReservation, Held
      <3> QED
        BY <1>0, <3>1, <3>2 DEF Held
    <2>3. CASE Reserve(w)
      BY <1>000, <2>3, ReservePromises
    <2>4. CASE PrepareInternalAttempt(w)
      <3>1. stock' = stock
        BY <2>4 DEF PrepareInternalAttempt
      <3>2. \A i \in Intents : /\ res'[i].status = res[i].status
                               /\ res'[i].lapsed = res[i].lapsed
        BY <1>000, <2>4 DEF TypeOK, PrepareInternalAttempt, ReservationRow
      <3> QED
        BY <1>0, <3>1, <3>2 DEF Held
    <2>5. CASE UNCHANGED <<stock, res>>
      BY <2>5, <1>00
    <2> QED
      BY <2>1, <2>2, <2>3, <2>4, <2>5 DEF Execute, ExecuteStep, QuoteExpires, Abandon,
         StatementFails, RefreshQuote, Decide, Refuse, BindAuthorization, ReserveRefused,
         PrepareRefused, CreateProviderOrder, StartProcessing, AnswerCheckout, FailPayment
  <1>2. CASE BuyerStep
    BY <1>00, <1>2 DEF BuyerStep, VerifyRead, VerifyWrite, BuyerApproves
  <1>3. CASE ProviderStep
    BY <1>00, <1>3 DEF ProviderStep, Pays, Settles
  <1>4. CASE ProcessorStep
    <2>1. PICK e \in inbox : ProcessEvent(e) \/ GiveUp(e)
      BY <1>4 DEF ProcessorStep
    <2>2. CASE applyCaptured(e)
      BY <2>2, CapturePromises
    <2>3. CASE applyFailed(e)
      <3>1. stock' = stock
        BY <2>3 DEF applyFailed
      <3>2. \A i \in Intents : res'[i] = res[i] \/ ~Held(i)'
        BY <1>000, <2>3 DEF TypeOK, applyFailed, Closed, NoReservation, Held
      <3> QED
        BY <1>0, <3>1, <3>2 DEF Held
    <2> QED
      BY <1>00, <2>1, <2>2, <2>3
      DEF ProcessEvent, applyAuthorized, ignoreDuplicateCapture, GiveUp
  <1>5. CASE SurroundingStep
    <2>1. CASE DemoReset
      <3>1. \A i \in Intents : ~Held(i)'
        BY <2>1 DEF DemoReset, Held, Closed, NoReservation
      <3>2. Promised' = {}
        BY <3>1 DEF Promised
      <3> QED
        BY <2>1, <3>2 DEF DemoReset, PromiseStep
    <2>2. ASSUME NEW i \in Intents, ReservationLapses(i) PROVE PromiseStep
      <3>1. stock' = stock
        BY <2>2 DEF ReservationLapses
      <3>2. \A j \in Intents : res'[j] = res[j] \/ res'[j].lapsed
        BY <1>000, <2>2 DEF TypeOK, ReservationLapses, ReservationRow
      <3> QED
        BY <1>0, <3>1, <3>2 DEF Held
    <2> QED
      BY <1>00, <1>5, <2>1, <2>2 DEF SurroundingStep, ChangePrice, GrantLapses, Crash
  <1>6. CASE UNCHANGED vars
    BY <1>00, <1>6 DEF vars
  <1> QED
    BY <1>1, <1>2, <1>3, <1>4, <1>5, <1>6 DEF Next

LEMMA OverpromisedInt ==
  ASSUME LedgerInv, [Next]_vars
  PROVE  Overpromised \in Int /\ Overpromised' \in Int
  <1>1. stock \in Nat /\ stock' \in Nat
    BY TypeNext DEF LedgerInv, TypeOK
  <1>2. Cardinality(Promised') \in Nat
    BY FS_Subset, FS_CardinalityType, ConstantsAssumption DEF Promised
  <1> QED
    BY <1>1, <1>2, PromisedFinite DEF Overpromised

(* What a step does to the promises in numbers.                            *)
LEMMA PromisesKept ==
  ASSUME LedgerInv, [Next]_vars
  PROVE  Overpromised' <= 0 \/ Overpromised' <= Overpromised \/ LapsedSale
  <1>1. PromiseStep
    BY StepsPromise
  <1>2. stock \in Nat /\ stock' \in Nat
    BY TypeNext DEF LedgerInv, TypeOK
  <1>3. CASE stock' = stock /\ Promised' \subseteq Promised
    <2>1. Cardinality(Promised') \in Nat /\ Cardinality(Promised') <= Cardinality(Promised)
      BY <1>3, PromisedFinite, FS_Subset, FS_CardinalityType
    <2> QED
      BY <1>2, <1>3, <2>1, PromisedFinite DEF Overpromised
  <1>4. ASSUME NEW i \in Intents, stock' = stock, Promised' = Promised \cup {i},
               Cardinality(Promised \ {i}) + 1 <= stock
        PROVE  Overpromised' <= 0
    <2>1. IsFiniteSet(Promised \ {i}) /\ Cardinality(Promised \ {i}) \in Nat
      BY PromisedFinite, FS_Subset, FS_CardinalityType
    <2>2. Promised' = (Promised \ {i}) \cup {i}
      BY <1>4
    <2>3. Cardinality(Promised') = Cardinality(Promised \ {i}) + 1
      BY <2>1, <2>2, FS_AddElement
    <2> QED
      BY <1>2, <1>4, <2>1, <2>3 DEF Overpromised
  <1>5. ASSUME NEW i \in Promised, stock' = stock - 1, Promised' = Promised \ {i}
        PROVE  Overpromised' <= Overpromised
    <2>1. Cardinality(Promised') = Cardinality(Promised) - 1
      BY <1>5, PromisedFinite, FS_RemoveElement
    <2> QED
      BY <1>2, <1>5, <2>1, PromisedFinite DEF Overpromised
  <1>6. CASE stock' = InitialStock /\ Promised' = {}
    BY <1>2, <1>6, FS_EmptySet DEF Overpromised
  <1> QED
    BY <1>1, <1>3, <1>4, <1>5, <1>6 DEF PromiseStep

(* However requests, captures, failures and resets meet, only the sale of  *)
(* a reservation that outlived its time promises a unit that is not there. *)
THEOREM OverpromisedByLapse == Spec => OnlyLapsedOverpromises
  <1>1. ASSUME LedgerInv, [Next]_vars
        PROVE  [Overpromised' > 0 /\ Overpromised' > Overpromised =>
                  \E i \in Intents :
                    /\ order[i].status # "CONFIRMED" /\ order'[i].status = "CONFIRMED"
                    /\ res[i].lapsed]_vars
    <2>1. Overpromised \in Int /\ Overpromised' \in Int
      BY <1>1, OverpromisedInt
    <2> QED
      BY <1>1, <2>1, PromisesKept DEF LapsedSale
  <1> QED
    BY <1>1, LedgerInvariant, PTL DEF Spec, OnlyLapsedOverpromises

(* Without lapses no reservation is late.                                  *)
InTime == \A i \in Intents : ~res[i].lapsed

LEMMA InTimeNext ==
  ASSUME ~Lapses, TypeOK, InTime, [Next]_vars
  PROVE  InTime'
  <1> USE DEF authVars, shopVars, moneyVars
  <1> SUFFICES ASSUME NEW i \in Intents PROVE ~res'[i].lapsed
    BY DEF InTime
  <1>0. ~res[i].lapsed /\ res[i] \in ReservationRow
    BY DEF InTime, TypeOK
  <1>00. ASSUME UNCHANGED res PROVE ~res'[i].lapsed
    BY <1>0, <1>00
  <1>1. CASE RequestStep
    <2>1. PICK w \in Workers :
            \/ \E j \in Intents : Execute(w, j)
            \/ ExecuteStep(w)
            \/ QuoteExpires(w) \/ Abandon(w) \/ StatementFails(w)
      BY <1>1 DEF RequestStep
    <2>2. CASE ReleaseRefused(w) \/ FailRelease(w)
      BY <1>0, <2>2 DEF TypeOK, ReleaseRefused, FailRelease, releaseForIntent, Closed,
         NoReservation
    <2>3. CASE Reserve(w)
      BY <1>0, <2>3 DEF TypeOK, Reserve, NoReservation, ReservationRow
    <2>4. CASE PrepareInternalAttempt(w)
      BY <1>0, <2>4 DEF TypeOK, PrepareInternalAttempt, ReservationRow
    <2>5. CASE UNCHANGED res
      BY <2>5, <1>00
    <2> QED
      BY <2>1, <2>2, <2>3, <2>4, <2>5 DEF Execute, ExecuteStep, QuoteExpires, Abandon,
         StatementFails, RefreshQuote, Decide, Refuse, BindAuthorization, ReserveRefused,
         PrepareRefused, CreateProviderOrder, StartProcessing, AnswerCheckout, FailPayment
  <1>2. CASE BuyerStep
    BY <1>00, <1>2 DEF BuyerStep, VerifyRead, VerifyWrite, BuyerApproves
  <1>3. CASE ProviderStep
    BY <1>00, <1>3 DEF ProviderStep, Pays, Settles
  <1>4. CASE ProcessorStep
    <2>1. PICK e \in inbox : ProcessEvent(e) \/ GiveUp(e)
      BY <1>4 DEF ProcessorStep
    <2>2. CASE applyCaptured(e) \/ applyFailed(e)
      BY <1>0, <2>2 DEF TypeOK, applyCaptured, applyFailed, Closed, NoReservation
    <2> QED
      BY <1>00, <2>1, <2>2
      DEF ProcessEvent, applyAuthorized, ignoreDuplicateCapture, GiveUp
  <1>5. CASE SurroundingStep
    <2>1. CASE DemoReset
      BY <1>0, <2>1 DEF DemoReset, Closed, NoReservation
    <2> QED
      BY <1>00, <1>5, <2>1
      DEF SurroundingStep, ChangePrice, ReservationLapses, GrantLapses, Crash
  <1>6. CASE UNCHANGED vars
    BY <1>00, <1>6 DEF vars
  <1> QED
    BY <1>1, <1>2, <1>3, <1>4, <1>5, <1>6 DEF Next

(* As long as no reservation outlives its time, the units promised to      *)
(* intents are there: no capture that is due finds the shelf empty.        *)
THEOREM PromisesCovered ==
  ASSUME ~Lapses
  PROVE  Spec => []ReservationsCovered
  <1>1. Init => InTime /\ ReservationsCovered
    <2> SUFFICES ASSUME Init PROVE InTime /\ ReservationsCovered
      OBVIOUS
    <2>1. InTime /\ Promised = {}
      BY DEF Init, InTime, Promised, Held, NoReservation
    <2> QED
      BY <2>1, FS_EmptySet, ConstantsAssumption DEF Init, ReservationsCovered, Overpromised
  <1>2. LedgerInv /\ InTime /\ ReservationsCovered /\ [Next]_vars
          => (InTime /\ ReservationsCovered)'
    <2> SUFFICES ASSUME LedgerInv, InTime, ReservationsCovered, [Next]_vars
                 PROVE  InTime' /\ ReservationsCovered'
      OBVIOUS
    <2>1. InTime'
      BY InTimeNext DEF LedgerInv
    <2>2. Overpromised \in Int /\ Overpromised' \in Int
      BY OverpromisedInt
    <2>3. ~LapsedSale
      BY DEF LapsedSale, InTime
    <2> QED
      BY <2>1, <2>2, <2>3, PromisesKept DEF ReservationsCovered
  <1> QED
    BY <1>1, <1>2, LedgerInvariant, PTL DEF Spec

=============================================================================
