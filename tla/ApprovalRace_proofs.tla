------------------------- MODULE ApprovalRace_proofs -------------------------
(***************************************************************************)
(* What Approval promises while calls of prepare, createLink, approve and  *)
(* execute and the demo reset interleave, for any number of them: the      *)
(* invariants Prepared, ExchangedOnce and ClaimIsResumable, one after the  *)
(* other, and from them the moves of the status.                           *)
(***************************************************************************)
EXTENDS Approval_proofs

(***************************************************************************)
(* A link is exchanged once.                                               *)
(***************************************************************************)

(* Steps that keep what identifies the rows keep the invariant.            *)
LEMMA RewrittenOnce ==
  ASSUME TypeOK, ExchangedOnce, Rewritten(auths, auths')
  PROVE  ExchangedOnce'
<1>1. DOMAIN auths' = 1..Len(auths) /\ DOMAIN auths = 1..Len(auths)
  BY DEF TypeOK, Rewritten
<1> QED
  BY <1>1 DEF ExchangedOnce, IsOf, Rewritten

LEMMA ClaimedOnce ==
  ASSUME TypeInv, ExchangedOnce, NEW b \in Buyers, Claim(b)
  PROVE  ExchangedOnce'
<1> DEFINE link == approving[b].link
           row == ExactAuthorization(link)
<1>1. auths' = Append(auths, row) /\ ~ \E k \in DOMAIN auths : IsOf(k, link)
  BY DEF Claim, FirstClaim
<1>2. row.type = "ONE_TIME" /\ row.max = link.amount /\ row.expires = link.expires
  BY DEF ExactAuthorization
<1> HIDE DEF row, link
<1>3. /\ DOMAIN auths' = 1..(Len(auths) + 1) /\ DOMAIN auths = 1..Len(auths)
      /\ Len(auths) \in Nat
      /\ auths'[Len(auths) + 1] = row
      /\ \A k \in DOMAIN auths : auths'[k] = auths[k]
  BY <1>1 DEF TypeInv, TypeOK
<1>4. DOMAIN auths' = DOMAIN auths \cup {Len(auths) + 1}
  BY <1>3
<1> SUFFICES ASSUME NEW j \in DOMAIN auths', NEW k \in DOMAIN auths',
                    auths'[j].type = "ONE_TIME", auths'[k].type = "ONE_TIME",
                    auths'[k].max = auths'[j].max, auths'[k].expires = auths'[j].expires
             PROVE  j = k
  BY DEF ExchangedOnce, IsOf
<1>5. CASE j \in DOMAIN auths /\ k \in DOMAIN auths
  BY <1>3, <1>5 DEF ExchangedOnce, IsOf
<1>6. CASE j \notin DOMAIN auths /\ k \notin DOMAIN auths
  BY <1>4, <1>6
<1>7. CASE j \in DOMAIN auths /\ k \notin DOMAIN auths
  BY <1>1, <1>2, <1>3, <1>4, <1>7 DEF IsOf
<1>8. CASE j \notin DOMAIN auths /\ k \in DOMAIN auths
  BY <1>1, <1>2, <1>3, <1>4, <1>8 DEF IsOf
<1> QED
  BY <1>5, <1>6, <1>7, <1>8

(* The steps that touch the table of authorizations.                       *)
LEMMA TableSteps ==
  ASSUME TypeInv, [Next]_vars
  PROVE  \/ UNCHANGED auths
         \/ Rewritten(auths, auths')
         \/ \E b \in Buyers : Claim(b)
<1> USE DEF TypeInv
<1>1. CASE UNCHANGED vars
  BY <1>1 DEF vars, preparationVars
<1>2. CASE PreparationNext
  BY <1>2, PrepareTypesNext
<1>3. ASSUME NEW a \in Agents, LinkStep(a) PROVE UNCHANGED auths
  BY <1>3 DEF LinkStep, CreateLink, QuoteLink, DecideLink, SaveLink, AbandonLink,
              preparationVars
<1>4. ASSUME NEW b \in Buyers, Revoke(b) PROVE Rewritten(auths, auths')
  BY <1>4, RevokedRewrites DEF Revoke, TypeOK
<1>5. ASSUME NEW b \in Buyers, ApproveStep(b)
      PROVE  Revoke(b) \/ Claim(b) \/ UNCHANGED auths
  BY <1>5 DEF ApproveStep, Approve, Resume, RefreshQuote, Revalidate, Finalize,
              AbandonApproval, preparationVars
<1>6. CASE Execute \/ PaymentFails
  BY <1>6 DEF Execute, PaymentFails
<1>7. CASE PaymentCaptured
  BY <1>7, CaptureRewrites DEF PaymentCaptured, TypeOK
<1>8. CASE Reset
  BY <1>8, ResetRewrites DEF Reset, TypeOK, RowsConsented
<1> QED
  BY <1>1, <1>2, <1>3, <1>4, <1>5, <1>6, <1>7, <1>8 DEF Next, IntentStep

(* However many calls of createLink issue a link and however many calls of *)
(* approve bring it, at most one authorization is made from it.            *)
THEOREM LinkExchangedOnce == Spec => []ExchangedOnce
<1>1. Init => ExchangedOnce
  BY DEF Init, PreparationInit, ExchangedOnce, IsOf, Standing
<1>2. TypeInv /\ ExchangedOnce /\ [Next]_vars => ExchangedOnce'
  <2> SUFFICES ASSUME TypeInv, ExchangedOnce, [Next]_vars PROVE ExchangedOnce'
    OBVIOUS
  <2>1. CASE UNCHANGED auths
    BY <2>1 DEF ExchangedOnce, IsOf
  <2> QED
    BY <2>1, TableSteps, RewrittenOnce, ClaimedOnce DEF TypeInv
<1> QED
  BY <1>1, <1>2, TypeInvCorrect, PTL DEF Spec

(***************************************************************************)
(* What is allowed before prepare answers has an authorization.            *)
(***************************************************************************)

LEMMA AllowedNotNone ==
  ASSUME NEW p
  PROVE  "ALLOW" \notin Verdicts(0, p)
<1> SUFFICES ASSUME NEW fit \in BOOLEAN
             PROVE  Verdict(Snapshot(0), ask, QuoteFor(p, fit), fit, Rules) # "ALLOW"
  BY DEF Verdicts
<1>1. Snapshot(0) = Null
  BY DEF Snapshot
<1>2. "AUTHORIZATION_NOT_FOUND" \in policyReasons(Null, ask, QuoteFor(p, fit), fit, Rules)
  BY DEF policyReasons, authorizationReasons
<1> QED
  BY <1>1, <1>2 DEF Verdict, Outcome

(* Until prepare answers only prepare, the clock and the reset move.       *)
LEMMA UnansweredIsPrepare ==
  ASSUME TypeInv, Prepared, [Next]_vars, ~Answered
  PROVE  \/ PreparationNext /\ UNCHANGED approvalVars
         \/ UNCHANGED vars
         \/ Reset /\ UNCHANGED approvalVars
<1>1. /\ request.status = "NONE"
      /\ \A a \in Agents : linking[a].pc = "idle"
      /\ \A b \in Buyers : approving[b].pc = "idle"
  BY DEF Prepared
<1>2. status \notin {"PAYMENT_PROCESSING"}
  BY DEF Prepared, Decided
<1>3. ~ \E a \in Agents : LinkStep(a)
  BY <1>1 DEF LinkStep, CreateLink, QuoteLink, DecideLink, SaveLink, AbandonLink
<1>4. ~ \E b \in Buyers : ApproveStep(b)
  BY <1>1 DEF ApproveStep, Approve, Claim, Resume, RefreshQuote, Revalidate, Revoke,
              Finalize, AbandonApproval
<1>5. ~Execute /\ ~PaymentFails /\ ~PaymentCaptured
  BY <1>2 DEF Execute, PaymentFails, PaymentCaptured
<1>6. Reset => UNCHANGED approvalVars
  BY <1>1 DEF Reset, approvalVars
<1> QED
  BY <1>3, <1>4, <1>5, <1>6 DEF Next, IntentStep

(* Once it has answered nothing of prepare is left.                        *)
LEMMA AnsweredStays ==
  ASSUME TypeInv, Answered, [Next]_vars
  PROVE  /\ Answered'
         /\ \/ UNCHANGED <<status, bound>>
            \/ \E b \in Buyers : Finalize(b)
            \/ IntentStep
<1>1. CASE PreparationNext
  BY <1>1 DEF PreparationNext, PrepareStep, Receive, StartResolving, resolveVariant,
     createFreshQuote, MarkQuoted, Authorize, EvaluatePolicy, FinishDecision,
     StoreAuthorization, FailPreparation, StatementThrows, Die, Tick, Answered, At, Trying,
     Outside, Over
<1>2. ASSUME NEW a \in Agents, LinkStep(a) PROVE UNCHANGED preparationVars
  BY <1>2 DEF LinkStep, CreateLink, QuoteLink, DecideLink, SaveLink, AbandonLink
<1>3. ASSUME NEW b \in Buyers, ApproveStep(b)
      PROVE  UNCHANGED prep /\ (UNCHANGED <<status, bound>> \/ Finalize(b))
  BY <1>3 DEF ApproveStep, Approve, Claim, Resume, RefreshQuote, Revalidate, Revoke,
              Finalize, AbandonApproval, preparationVars
<1>4. CASE IntentStep
  BY <1>4 DEF IntentStep, Execute, PaymentFails, PaymentCaptured, Reset, ResetIntent,
              Answered, At
<1>5. CASE UNCHANGED vars
  BY <1>5 DEF vars, preparationVars, Answered, At
<1> QED
  BY <1>1, <1>2, <1>3, <1>4, <1>5 DEF Next, preparationVars, Answered, At

(* The intent as prepare leaves it: the parts of Prepared about it.        *)
PreparedIntent ==
  /\ At("receive") => status = "NONE"
  /\ ~Answered /\ status \in Decided =>
       /\ status = "APPROVED" /\ prep.pc \in {"store", "catch"} \cup Over
       /\ At("store") => prep.authorization # 0
  /\ At("finish") /\ prep.outcome = "ALLOW" => prep.authorization # 0
  /\ KnownApprovalIsBound

LEMMA PreparationPrepares ==
  ASSUME TypeOK, PreparedIntent, ~Answered, PreparationNext
  PROVE  PreparedIntent'
<1> USE DEF TypeOK, PreparedIntent, KnownApprovalIsBound, Answered, At, Decided, Over
<1>1. ASSUME NEW pc \in {"catch"} \cup Over, End(pc)
      PROVE  prep'.pc = pc
  BY <1>1 DEF End, Fresh
<1>2. ASSUME NEW pc, Goto(pc)
      PROVE  /\ prep'.pc = pc /\ prep'.authorization = prep.authorization
             /\ prep'.outcome = prep.outcome
  BY <1>2 DEF Goto, Request
<1>3. CASE Receive
  BY <1>2, <1>3 DEF Receive
<1>4. CASE StartResolving
  BY <1>1, <1>2, <1>4 DEF StartResolving, transition
<1>5. CASE resolveVariant
  BY <1>1, <1>2, <1>5 DEF resolveVariant
<1>6. CASE createFreshQuote
  BY <1>6 DEF createFreshQuote, Request
<1>7. CASE MarkQuoted
  BY <1>1, <1>2, <1>7 DEF MarkQuoted, transition
<1>8. CASE Authorize
  BY <1>1, <1>8 DEF Authorize, Request
<1>9. CASE EvaluatePolicy
  <2>1. PICK o \in Verdicts(prep.authorization, prep.price) :
          prep' = [prep EXCEPT !.pc = "finish", !.outcome = o, !.price = 0]
    BY <1>9 DEF EvaluatePolicy
  <2>2. prep'.pc = "finish" /\ prep'.outcome = o /\ prep'.authorization = prep.authorization
    BY <2>1 DEF Request
  <2>3. o = "ALLOW" => prep.authorization # 0
    BY AllowedNotNone
  <2> QED
    BY <1>9, <2>2, <2>3 DEF EvaluatePolicy
<1>10. CASE FinishDecision
  <2>1. prep.outcome # "ALLOW" => StatusOf(prep.outcome) \in {"AWAITING_APPROVAL", "BLOCKED"}
    BY DEF StatusOf, Request
  <2>2. StatusOf(prep.outcome) \notin {"PAYMENT_PROCESSING", "COMPLETED"}
    BY DEF StatusOf, Request
  <2>3. CASE status = "POLICY_CHECK"
    <3>1. /\ status' = StatusOf(prep.outcome) /\ prep'.pc = "store"
          /\ prep'.authorization = prep.authorization
      BY <1>2, <1>10, <2>3 DEF FinishDecision, transition
    <3> QED
      BY <1>10, <2>1, <2>2, <3>1 DEF FinishDecision
  <2>4. CASE status # "POLICY_CHECK"
    <3>1. status' = status /\ prep'.pc = "catch"
      BY <1>1, <1>10, <2>4 DEF FinishDecision, transition
    <3> QED
      BY <1>10, <3>1 DEF FinishDecision
  <2> QED
    BY <2>3, <2>4
<1>11. CASE StoreAuthorization
  BY <1>1, <1>11 DEF StoreAuthorization
<1>12. CASE FailPreparation
  BY <1>1, <1>12 DEF FailPreparation
<1>13. CASE StatementThrows
  <2>1. \/ prep.pc \in Trying /\ End("catch")
        \/ prep.pc \in Outside /\ End("uncaught")
    BY <1>13 DEF StatementThrows, Trying, Outside
  <2>2. prep'.pc \in {"catch", "uncaught"}
    BY <1>1, <2>1
  <2>3. prep.pc \notin {"receive", "resolve"} \/ status \notin Decided
    OBVIOUS
  <2> QED
    BY <1>13, <2>2, <2>3 DEF StatementThrows, Trying, Outside
<1>14. CASE Die
  BY <1>1, <1>14 DEF Die
<1>15. CASE Tick
  BY <1>15 DEF Tick
<1> QED
  BY <1>3, <1>4, <1>5, <1>6, <1>7, <1>8, <1>9, <1>10, <1>11, <1>12, <1>13, <1>14, <1>15
  DEF PreparationNext, PrepareStep

(* What is bound afterwards was found in the table or made from a link.    *)
LEMMA IntentStepBound ==
  ASSUME TypeOK, KnownApprovalIsBound, Answered,
         IntentStep \/ \E b \in Buyers : Finalize(b)
  PROVE  status' \in Decided => bound' # 0
<1> USE DEF KnownApprovalIsBound, Decided
<1>1. CASE Execute
  <2>1. PICK p \in Prices, k \in FoundNow : \E o \in Verdicts(k, p) :
          IF o = "ALLOW"
          THEN bound' = k /\ status' \in {"APPROVED", "PAYMENT_PROCESSING"}
          ELSE status' = StatusOf(o) /\ UNCHANGED bound
    BY <1>1 DEF Execute
  <2>2. PICK o \in Verdicts(k, p) :
          IF o = "ALLOW"
          THEN bound' = k /\ status' \in {"APPROVED", "PAYMENT_PROCESSING"}
          ELSE status' = StatusOf(o) /\ UNCHANGED bound
    BY <2>1
  <2>3. o = "ALLOW" => k # 0
    BY AllowedNotNone
  <2>4. o # "ALLOW" => StatusOf(o) \in {"AWAITING_APPROVAL", "BLOCKED"}
    BY VerdictIsOutcome DEF StatusOf
  <2> QED
    BY <2>2, <2>3, <2>4
<1>2. CASE PaymentFails \/ PaymentCaptured
  BY <1>2 DEF PaymentFails, PaymentCaptured
<1>3. CASE Reset
  BY <1>3 DEF Reset, ResetIntent
<1>4. ASSUME NEW b \in Buyers, Finalize(b)
      PROVE  bound' # 0
  <2>1. bound' \in DOMAIN auths
    BY <1>4 DEF Finalize
  <2> QED
    BY <2>1 DEF TypeOK
<1> QED
  BY <1>1, <1>2, <1>3, <1>4 DEF IntentStep

LEMMA PreparedInit == Init => Prepared
BY DEF Init, PreparationInit, Prepared, KnownApprovalIsBound, Answered, At, Fresh, Decided,
       NotLinking, NotApproving

LEMMA PreparedNext == TypeInv /\ Prepared /\ [Next]_vars => Prepared'
<1> SUFFICES ASSUME TypeInv, Prepared, [Next]_vars PROVE Prepared'
  OBVIOUS
<1>1. PreparedIntent /\ TypeOK
  BY DEF Prepared, PreparedIntent, TypeInv
<1>2. CASE Answered
  <2>1. /\ Answered'
        /\ \/ UNCHANGED <<status, bound>>
           \/ \E b \in Buyers : Finalize(b)
           \/ IntentStep
    BY <1>2, AnsweredStays
  <2>2. status' \in Decided => bound' # 0
    BY <1>1, <1>2, <2>1, IntentStepBound
    DEF PreparedIntent, KnownApprovalIsBound, Decided
  <2> QED
    BY <2>1, <2>2 DEF Prepared, KnownApprovalIsBound, Decided, Answered, At
<1>3. CASE ~Answered
  <2>1. CASE PreparationNext /\ UNCHANGED approvalVars
    <3>1. PreparedIntent'
      BY <1>1, <1>3, <2>1, PreparationPrepares
    <3>2. UNCHANGED <<request, linking, approving>>
      BY <2>1 DEF approvalVars
    <3> QED
      BY <1>3, <3>1, <3>2 DEF Prepared, PreparedIntent
  <2>2. CASE UNCHANGED vars
    BY <2>2 DEF vars, preparationVars, approvalVars, Prepared, KnownApprovalIsBound,
                Answered, At
  <2>3. CASE Reset /\ UNCHANGED approvalVars
    BY <1>3, <2>3 DEF Reset, ResetIntent, approvalVars, Prepared, KnownApprovalIsBound,
                      Answered, At, Decided, OpenIntent
  <2> QED
    BY <1>3, <2>1, <2>2, <2>3, UnansweredIsPrepare
<1> QED
  BY <1>2, <1>3

LEMMA PreparedCorrect == Spec => [](TypeInv /\ Prepared)
<1> QED
  BY TypeInvInit, TypeInvNext, PreparedInit, PreparedNext, PTL DEF Spec

(* The authorization is stored after the last transition of prepare, and   *)
(* may be lost with the process: but an intent that anybody outside knows  *)
(* to be approved, in payment or completed has one.                        *)
THEOREM KnownApprovalBound == Spec => []KnownApprovalIsBound
<1>1. Prepared => KnownApprovalIsBound
  BY DEF Prepared
<1> QED
  BY <1>1, PreparedCorrect, PTL

(***************************************************************************)
(* A claimed link can be resumed.                                          *)
(***************************************************************************)
LEMMA ResumableNext ==
  ASSUME TypeInv, Prepared, ClaimIsResumable, [Next]_vars
  PROVE  ClaimIsResumable'
<1> USE DEF ClaimIsResumable
<1>1. CASE PreparationNext /\ UNCHANGED approvalVars
  <2>1. UNCHANGED <<request, auths>>
    BY <1>1, PrepareTypesNext DEF approvalVars, TypeInv
  <2>2. request.status = "APPROVED" => status' = status
    <3>1. CASE Answered
      BY <1>1, <3>1 DEF PreparationNext, PrepareStep, Receive, StartResolving,
         resolveVariant, createFreshQuote, MarkQuoted, Authorize, EvaluatePolicy,
         FinishDecision, StoreAuthorization, FailPreparation, StatementThrows, Die, Tick,
         Answered, At, Trying, Outside, Over
    <3> QED
      BY <3>1 DEF Prepared
  <2> QED
    BY <2>1, <2>2 DEF IsOf
<1>2. ASSUME NEW a \in Agents, LinkStep(a) PROVE ClaimIsResumable'
  <2>1. UNCHANGED <<status, auths>>
    BY <1>2 DEF LinkStep, CreateLink, QuoteLink, DecideLink, SaveLink, AbandonLink,
                preparationVars
  <2>2. request' = request \/ request'.status = "PENDING"
    <3>1. SaveLink(a) => request'.status = "PENDING"
      BY DEF SaveLink
    <3>2. CreateLink(a) \/ QuoteLink(a) \/ DecideLink(a) \/ AbandonLink(a) => request' = request
      BY DEF CreateLink, QuoteLink, DecideLink, AbandonLink
    <3> QED
      BY <1>2, <3>1, <3>2 DEF LinkStep
  <2> QED
    BY <2>1, <2>2 DEF IsOf
<1>3. ASSUME NEW b \in Buyers, Claim(b) PROVE ClaimIsResumable'
  <2> DEFINE link == approving[b].link
             row == ExactAuthorization(link)
  <2>1. /\ auths' = Append(auths, row) /\ status' = status /\ status = "AWAITING_APPROVAL"
        /\ request' = [request EXCEPT !.status = "APPROVED"] /\ request.link = link
    BY <1>3 DEF Claim, Claimable
  <2>2. /\ row.type = "ONE_TIME" /\ row.max = link.amount /\ row.expires = link.expires
        /\ row.status = "ACTIVE"
    BY DEF ExactAuthorization
  <2> HIDE DEF row, link
  <2>3. request'.link = link
    BY <2>1 DEF TypeInv, TypeOK, RequestRow
  <2>4. Len(auths) + 1 \in DOMAIN auths' /\ auths'[Len(auths) + 1] = row
    BY <2>1 DEF TypeInv, TypeOK
  <2> QED
    BY <2>1, <2>2, <2>3, <2>4 DEF IsOf
<1>4. ASSUME NEW b \in Buyers, Revoke(b) \/ Finalize(b) PROVE ClaimIsResumable'
  <2>1. request'.status # "APPROVED"
    BY <1>4 DEF Revoke, Finalize, TypeInv, TypeOK, RequestRow
  <2> QED
    BY <2>1
<1>5. ASSUME NEW b \in Buyers, ApproveStep(b), ~Claim(b), ~Revoke(b), ~Finalize(b)
      PROVE  ClaimIsResumable'
  <2>1. UNCHANGED <<status, auths, request>>
    BY <1>5 DEF ApproveStep, Approve, Resume, RefreshQuote, Revalidate, AbandonApproval,
                preparationVars
  <2> QED
    BY <2>1 DEF IsOf
<1>6. CASE Execute \/ PaymentFails \/ PaymentCaptured
  <2>1. status # "AWAITING_APPROVAL" /\ UNCHANGED request
    BY <1>6 DEF Execute, PaymentFails, PaymentCaptured, approvalVars
  <2> QED
    BY <2>1
<1>7. CASE Reset
  BY <1>7 DEF Reset, TypeInv, TypeOK, RequestRow
<1>8. CASE UNCHANGED vars
  BY <1>8 DEF vars, preparationVars, approvalVars, IsOf
<1> QED
  BY <1>1, <1>2, <1>3, <1>4, <1>5, <1>6, <1>7, <1>8 DEF Next, ApproveStep, IntentStep

(* Concurrent approvals may revoke, and concurrent calls of createLink     *)
(* replace, what another claimed: but never so that the row says APPROVED  *)
(* and nothing is there to resume.                                         *)
THEOREM ClaimResumable == Spec => []ClaimIsResumable
<1>1. Init => ClaimIsResumable
  BY DEF Init, ClaimIsResumable
<1>2. TypeInv /\ Prepared /\ ClaimIsResumable /\ [Next]_vars => ClaimIsResumable'
  BY ResumableNext
<1> QED
  BY <1>1, <1>2, PreparedCorrect, PTL DEF Spec

(***************************************************************************)
(* The moves of the status.                                                *)
(***************************************************************************)
Moves ==
  status' # status =>
    \/ status = "NONE" /\ status' = "RECEIVED"
    \/ status \in IntentState /\ canTransition(status, status')
    \/ status \in {"RESOLVING", "QUOTED", "POLICY_CHECK"} /\ status' = "CANCELED"

LEMMA PreparationMoves ==
  ASSUME TypeOK, PreparedIntent, PreparationNext
  PROVE  Moves
<1> USE States DEF Moves, canTransition, allowedTransitions
<1>1. CASE Receive
  BY <1>1 DEF Receive, PreparedIntent
<1>2. ASSUME NEW from, NEW to, NEW next, NEW conflict, transition(from, to, next, conflict)
      PROVE  status' = status \/ (status = from /\ status' = to)
  BY <1>2 DEF transition
<1>3. CASE StartResolving
  BY <1>2, <1>3 DEF StartResolving
<1>4. CASE MarkQuoted
  BY <1>2, <1>4 DEF MarkQuoted
<1>5. CASE Authorize
  <2>1. status' = status \/ (status = "QUOTED" /\ status' = "POLICY_CHECK")
    BY <1>5 DEF Authorize
  <2> QED
    BY <2>1
<1>6. CASE FinishDecision
  <2>1. StatusOf(prep.outcome) \in {"APPROVED", "AWAITING_APPROVAL", "BLOCKED"}
    BY StatusOfOutcome DEF TypeOK, Request
  <2>2. status' = status \/ (status = "POLICY_CHECK" /\ status' = StatusOf(prep.outcome))
    BY <1>2, <1>6 DEF FinishDecision
  <2> QED
    BY <2>1, <2>2
<1>7. CASE FailPreparation
  BY <1>7 DEF FailPreparation
<1>8. CASE resolveVariant \/ createFreshQuote \/ EvaluatePolicy \/ StoreAuthorization
           \/ StatementThrows \/ Die \/ Tick
  BY <1>8 DEF resolveVariant, createFreshQuote, EvaluatePolicy, StoreAuthorization,
              StatementThrows, Die, Tick
<1> QED
  BY <1>1, <1>3, <1>4, <1>5, <1>6, <1>7, <1>8 DEF PreparationNext, PrepareStep

LEMMA FromApproved ==
  ASSUME NEW to \in {"PAYMENT_PROCESSING", "AWAITING_APPROVAL", "BLOCKED"}
  PROVE  canTransition("APPROVED", to)
BY DEF canTransition, allowedTransitions

LEMMA IntentMoves ==
  ASSUME IntentStep
  PROVE  Moves
<1> USE States
<1>1. CASE Execute
  <2>1. PICK p \in Prices, k \in FoundNow : \E o \in Verdicts(k, p) :
          IF o = "ALLOW"
          THEN bound' = k /\ status' \in {"APPROVED", "PAYMENT_PROCESSING"}
          ELSE status' = StatusOf(o) /\ UNCHANGED bound
    BY <1>1 DEF Execute
  <2>2. PICK o \in Verdicts(k, p) :
          IF o = "ALLOW"
          THEN bound' = k /\ status' \in {"APPROVED", "PAYMENT_PROCESSING"}
          ELSE status' = StatusOf(o) /\ UNCHANGED bound
    BY <2>1
  <2>3. o # "ALLOW" => StatusOf(o) \in {"AWAITING_APPROVAL", "BLOCKED"}
    BY VerdictIsOutcome DEF StatusOf
  <2>4. status' \in {"APPROVED", "PAYMENT_PROCESSING", "AWAITING_APPROVAL", "BLOCKED"}
    BY <2>2, <2>3
  <2>5. status = "APPROVED"
    BY <1>1 DEF Execute
  <2>6. status \in IntentState
    BY <2>5
  <2> QED
    BY <2>4, <2>5, <2>6, FromApproved DEF Moves
<1>2. CASE PaymentFails
  BY <1>2 DEF PaymentFails, Moves, canTransition, allowedTransitions
<1>3. CASE PaymentCaptured
  BY <1>3 DEF PaymentCaptured, Moves, canTransition, allowedTransitions
<1>4. CASE Reset
  BY <1>4 DEF Reset, ResetIntent, OpenIntent, Moves, canTransition, allowedTransitions
<1> QED
  BY <1>1, <1>2, <1>3, <1>4 DEF IntentStep

(* Two requests, or a request and the reset, never move the intent along a *)
(* path the table does not have, but for the reset of what is being        *)
(* prepared.                                                               *)
THEOREM MovesByTable == Spec => FollowsTableButReset
<1>1. TypeInv /\ Prepared /\ [Next]_vars => [Moves]_vars
  <2> SUFFICES ASSUME TypeInv, Prepared, [Next]_vars PROVE Moves \/ UNCHANGED vars
    BY DEF vars
  <2>0. TypeOK /\ PreparedIntent
    BY DEF TypeInv, Prepared, PreparedIntent
  <2>1. ASSUME NEW a \in Agents, LinkStep(a) PROVE status' = status
    BY <2>1 DEF LinkStep, CreateLink, QuoteLink, DecideLink, SaveLink, AbandonLink,
                preparationVars
  <2>2. ASSUME NEW b \in Buyers, ApproveStep(b)
        PROVE  \/ status' = status
               \/ status = "AWAITING_APPROVAL" /\ status' = "APPROVED"
    BY <2>2 DEF ApproveStep, Approve, Claim, Resume, RefreshQuote, Revalidate, Revoke,
                Finalize, CanFinalize, AbandonApproval, preparationVars
  <2>3. ASSUME NEW b \in Buyers, ApproveStep(b) PROVE Moves
    BY <2>2, <2>3, States DEF Moves, canTransition, allowedTransitions
  <2>4. ASSUME NEW a \in Agents, LinkStep(a) PROVE Moves
    BY <2>1, <2>4 DEF Moves
  <2> QED
    BY <2>0, <2>3, <2>4, PreparationMoves, IntentMoves DEF Next
<1>2. [](TypeInv /\ Prepared) /\ [][Next]_vars => [][Moves]_vars
  BY <1>1, PTL
<1> QED
  BY <1>2, PreparedCorrect, PTL DEF Spec, FollowsTableButReset, Moves

=============================================================================
