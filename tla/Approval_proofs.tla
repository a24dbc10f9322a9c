--------------------------- MODULE Approval_proofs ---------------------------
(***************************************************************************)
(* Theorems about Approval, for any number of concurrent calls, any        *)
(* prices, limits, budgets and rules.                                      *)
(***************************************************************************)
EXTENDS Approval, Decision_proofs, TLAPS

(* Every link is for a price; a link a call of approve holds was given to  *)
(* it by the buyer.                                                        *)
Links ==
  /\ request.status # "NONE" => request.link.amount \in Prices
  /\ \A a \in Agents : linking[a].pc \in {"decide", "save"} => linking[a].link.amount \in Prices
  /\ \A b \in Buyers : approving[b].pc # "idle" => approving[b].link.amount \in consented

(* The standing authorization stays what it was; the others were made for  *)
(* an amount the buyer approved.                                           *)
RowsConsented ==
  /\ auths[1] = Standing
  /\ \A k \in DOMAIN auths \ {1} : auths[k].type = "ONE_TIME" /\ auths[k].max \in consented

(* Nobody but the request that prepares the intent has its id before it is *)
(* answered; what that request allows, it found an authorization for.      *)
Decided == {"APPROVED", "PAYMENT_PROCESSING", "COMPLETED"}

Prepared ==
  /\ At("receive") => status = "NONE"
  /\ ~Answered => /\ request.status = "NONE"
                  /\ \A a \in Agents : linking[a].pc = "idle"
                  /\ \A b \in Buyers : approving[b].pc = "idle"
  /\ ~Answered /\ status \in Decided =>
       /\ status = "APPROVED" /\ prep.pc \in {"store", "catch"} \cup Over
       /\ At("store") => prep.authorization # 0
  /\ At("finish") /\ prep.outcome = "ALLOW" => prep.authorization # 0
  /\ KnownApprovalIsBound

(***************************************************************************)
(* The table of authorizations and what is found in it.                    *)
(***************************************************************************)

(* A function like a sequence is a sequence of the same length.            *)
LEMMA SameLength ==
  ASSUME NEW S, NEW s \in Seq(S), NEW f \in [DOMAIN s -> S]
  PROVE  f \in Seq(S) /\ Len(f) = Len(s)
OBVIOUS

LEMMA StatusOfRow ==
  ASSUME NEW r \in AuthRow, NEW s \in {"ACTIVE", "CONSUMED", "REVOKED"}
  PROVE  /\ [r EXCEPT !.status = s] \in AuthRow
         /\ [r EXCEPT !.status = s].type = r.type
         /\ [r EXCEPT !.status = s].max = r.max
         /\ [r EXCEPT !.status = s].expires = r.expires
BY DEF AuthRow

LEMMA RowOf ==
  ASSUME auths \in Seq(AuthRow)
  PROVE  /\ DOMAIN auths = 1..Len(auths) /\ auths \in [DOMAIN auths -> AuthRow]
         /\ \A k \in DOMAIN auths : auths[k] \in AuthRow
OBVIOUS

(* The steps that rewrite rows keep what identifies them.                  *)
Rewritten(before, after) ==
  /\ after \in Seq(AuthRow) /\ Len(after) = Len(before)
  /\ \A k \in 1..Len(before) :
       /\ after[k].type = before[k].type
       /\ after[k].max = before[k].max
       /\ after[k].expires = before[k].expires

LEMMA RevokedRewrites ==
  ASSUME auths \in Seq(AuthRow), NEW link
  PROVE  Rewritten(auths, Revoked(link))
<1> DEFINE f == Revoked(link)
<1>1. f = [k \in DOMAIN auths |-> IF IsOf(k, link) /\ auths[k].status = "ACTIVE"
                                  THEN [auths[k] EXCEPT !.status = "REVOKED"] ELSE auths[k]]
  BY DEF Revoked
<1>2. \A k \in DOMAIN auths : /\ f[k] \in AuthRow
                              /\ f[k].type = auths[k].type
                              /\ f[k].max = auths[k].max
                              /\ f[k].expires = auths[k].expires
  BY <1>1, RowOf, StatusOfRow
<1>3. f \in [DOMAIN auths -> AuthRow]
  BY <1>1, <1>2
<1>4. f \in Seq(AuthRow) /\ Len(f) = Len(auths)
  BY <1>3, SameLength
<1> QED
  BY <1>2, <1>4, RowOf DEF Rewritten

LEMMA CaptureRewrites ==
  ASSUME auths \in Seq(AuthRow), NEW j
  PROVE  Rewritten(auths, [auths EXCEPT ![j].status = "CONSUMED"])
<1> DEFINE f == [auths EXCEPT ![j].status = "CONSUMED"]
<1>1. f = [k \in DOMAIN auths |-> IF k = j
                                  THEN [auths[k] EXCEPT !.status = "CONSUMED"] ELSE auths[k]]
  OBVIOUS
<1> HIDE DEF f
<1>2. \A k \in DOMAIN auths : /\ f[k] \in AuthRow
                              /\ f[k].type = auths[k].type
                              /\ f[k].max = auths[k].max
                              /\ f[k].expires = auths[k].expires
  BY <1>1, RowOf, StatusOfRow
<1>3. f \in [DOMAIN auths -> AuthRow]
  BY <1>1, <1>2
<1>4. f \in Seq(AuthRow) /\ Len(f) = Len(auths)
  BY <1>3, SameLength
<1> QED
  BY <1>2, <1>4, RowOf DEF Rewritten, f

LEMMA StandingIsRow == Standing \in AuthRow
BY PreparationAssumption DEF Standing, AuthRow, Never

LEMMA ResetRewrites ==
  ASSUME auths \in Seq(AuthRow), auths[1] = Standing, ResetIntent
  PROVE  Rewritten(auths, auths')
<1>1. auths' = [k \in DOMAIN auths |->
                 IF k = 1 THEN Standing
                 ELSE IF auths[k].status = "ACTIVE"
                      THEN [auths[k] EXCEPT !.status = "REVOKED"] ELSE auths[k]]
  BY DEF ResetIntent
<1>2. \A k \in DOMAIN auths : /\ auths'[k] \in AuthRow
                              /\ auths'[k].type = auths[k].type
                              /\ auths'[k].max = auths[k].max
                              /\ auths'[k].expires = auths[k].expires
  BY <1>1, RowOf, StatusOfRow, StandingIsRow
<1>3. auths' \in [DOMAIN auths -> AuthRow]
  BY <1>1, <1>2
<1>4. auths' \in Seq(AuthRow) /\ Len(auths') = Len(auths)
  BY <1>3, SameLength
<1> QED
  BY <1>2, <1>4, RowOf DEF Rewritten

(* The authorization found is a row in force, or there is none.            *)
LEMMA FoundInTable ==
  ASSUME TypeOK, NEW k \in FoundNow
  PROVE  /\ k \in 0..Len(auths)
         /\ k # 0 => k \in DOMAIN auths
<1> DEFINE rows == [j \in DOMAIN auths |-> Snapshot(j)]
<1>1. DOMAIN rows = 1..Len(auths)
  BY DEF TypeOK
<1>2. k \in Found(rows, ask)
  BY DEF FoundNow
<1> HIDE DEF rows
<1>3. k # 0 => k \in DOMAIN rows
  BY <1>1, <1>2, FoundApplies
<1> QED
  BY <1>1, <1>3 DEF TypeOK

LEMMA VerdictIsOutcome ==
  ASSUME NEW k, NEW p, NEW o \in Verdicts(k, p)
  PROVE  o \in {"ALLOW", "AWAITING_APPROVAL", "BLOCK"}
BY OutcomeOfReasons DEF Verdicts, Verdict

(* What is allowed is allowed by a row: within the standing limit and the  *)
(* budget, or for exactly the amount of a one-time authorization.          *)
LEMMA AllowedByRow ==
  ASSUME TypeOK, NEW k \in FoundNow, NEW p \in Prices, "ALLOW" \in Verdicts(k, p)
  PROVE  /\ k \in DOMAIN auths
         /\ \/ auths[k].type = "ONE_TIME" /\ auths[k].max = p
            \/ auths[k].type = "MAX_AMOUNT" /\ p <= auths[k].max /\ ~Exceeds(p, Budget)
<1> DEFINE Name == {"buyer", "agent", "intent", "variant", "INR"}
<1>1. PICK fit \in BOOLEAN :
        Verdict(Snapshot(k), ask, QuoteFor(p, fit), fit, Rules) = "ALLOW"
  BY DEF Verdicts
<1>2. ask \in Ask(Name)
  BY PreparationAssumption DEF ask, Ask
<1>3. QuoteFor(p, fit) \in Quote(Name)
  BY PreparationAssumption DEF QuoteFor, Quote
<1>4. Rules \in SUBSET Rule
  BY PreparationAssumption
<1>5. k \in 0..Len(auths) /\ (k # 0 => k \in DOMAIN auths /\ auths[k] \in AuthRow)
  BY FoundInTable DEF TypeOK
<1>6. Snapshot(k) \in Authorization(Name) \cup {Null}
  <2>1. CASE k = 0
    BY <2>1 DEF Snapshot
  <2>2. CASE k # 0
    BY <2>2, <1>5 DEF Snapshot, Authorization, AuthRow, TypeOK
  <2> QED
    BY <2>1, <2>2
<1>7. /\ Snapshot(k) # Null /\ Snapshot(k).max >= p
      /\ Snapshot(k).type = "ONE_TIME" => Snapshot(k).max = p
      /\ WithinLimits(ask, QuoteFor(p, fit), Rules) \/ Snapshot(k).type = "ONE_TIME"
  BY <1>1, <1>2, <1>3, <1>4, <1>6, AllowNeeds DEF QuoteFor
<1>8. k # 0
  BY <1>7 DEF Snapshot
<1>9. Snapshot(k).type = auths[k].type /\ Snapshot(k).max = auths[k].max
  BY <1>8 DEF Snapshot
<1>10. WithinLimits(ask, QuoteFor(p, fit), Rules) => ~Exceeds(p, Budget)
  BY DEF WithinLimits, QuoteFor, ask
<1> QED
  BY <1>5, <1>7, <1>8, <1>9, <1>10, PreparationAssumption DEF AuthRow

(***************************************************************************)
(* Types.                                                                  *)
(***************************************************************************)

(* The first row is the standing authorization: what TypeOK says of it.    *)
TypeInv == TypeOK /\ Links /\ RowsConsented

(* A step of prepare, in the variables it has.                             *)
PrepareTypes ==
  /\ status \in IntentState \cup {"NONE"}
  /\ bound \in 0..Len(auths)
  /\ prep \in Request /\ prep.authorization \in 0..Len(auths)

LEMMA StatusOfOutcome ==
  ASSUME NEW o \in {"ALLOW", "AWAITING_APPROVAL", "BLOCK"}
  PROVE  StatusOf(o) \in {"APPROVED", "AWAITING_APPROVAL", "BLOCKED"}
BY DEF StatusOf

LEMMA States ==
  IntentState = {"RECEIVED", "RESOLVING", "QUOTED", "POLICY_CHECK", "APPROVED",
                 "AWAITING_APPROVAL", "BLOCKED", "PAYMENT_PROCESSING", "COMPLETED",
                 "FAILED", "CANCELED", "EXPIRED"}
BY DEF IntentState, allowedTransitions

LEMMA EndTypes ==
  ASSUME auths \in Seq(AuthRow), NEW pc \in {"catch"} \cup Over, End(pc)
  PROVE  prep' \in Request /\ prep'.authorization \in 0..Len(auths)
<1>1. 0 \in 0..Len(auths)
  OBVIOUS
<1> QED
  BY <1>1 DEF End, Fresh, Request, Outside

LEMMA PrepareTypesNext ==
  ASSUME TypeOK, PreparationNext
  PROVE  PrepareTypes' /\ clock' \in 0..MaxTime /\ auths' = auths
<1> USE DEF TypeOK, PrepareTypes, Outside, Over
<1>1. CASE Receive
  BY <1>1, States DEF Receive, Goto, Request
<1>2. ASSUME NEW from, NEW to \in IntentState, NEW next, NEW conflict,
             next \in {"catalog", "authorize", "store"}, conflict \in {"catch", "ended"},
             transition(from, to, next, conflict)
      PROVE  PrepareTypes' /\ clock' \in 0..MaxTime /\ auths' = auths
  <2>1. UNCHANGED <<bound, auths, clock>> /\ status' \in {status, to}
    BY <1>2 DEF transition
  <2>2. \/ prep' = [prep EXCEPT !.pc = next]
        \/ prep' = [Fresh EXCEPT !.pc = conflict]
    BY <1>2 DEF transition, Goto, End
  <2>3. prep' \in Request /\ prep'.authorization \in 0..Len(auths)
    BY <1>2, <2>2 DEF Fresh, Request, Trying
  <2> QED
    BY <2>1, <2>3
<1>3. CASE StartResolving
  BY <1>2, <1>3, States DEF StartResolving
<1>4. CASE resolveVariant
  BY <1>4 DEF resolveVariant, Goto, End, Fresh, Request, Trying
<1>5. CASE createFreshQuote
  BY <1>5 DEF createFreshQuote, Request, Trying
<1>6. CASE MarkQuoted
  BY <1>2, <1>6, States DEF MarkQuoted
<1>7. CASE Authorize
  <2>1. CASE status = "QUOTED"
    <3>1. PICK k \in FoundNow : prep' = [prep EXCEPT !.pc = "decide", !.authorization = k]
      BY <1>7, <2>1 DEF Authorize
    <3>2. k \in 0..Len(auths)
      BY FoundInTable
    <3>3. prep' \in Request /\ prep'.authorization \in 0..Len(auths)
      <4>1. k \in Nat
        BY <3>2
      <4> QED
        BY <3>1, <3>2, <4>1 DEF Request, Trying
    <3> QED
      BY <1>7, <2>1, <3>3, States DEF Authorize
  <2>2. CASE status # "QUOTED"
    BY <1>7, <2>2 DEF Authorize, End, Fresh, Request, Trying
  <2> QED
    BY <2>1, <2>2
<1>8. CASE EvaluatePolicy
  <2>1. PICK o \in Verdicts(prep.authorization, prep.price) :
          prep' = [prep EXCEPT !.pc = "finish", !.outcome = o, !.price = 0]
    BY <1>8 DEF EvaluatePolicy
  <2>2. o \in {"ALLOW", "AWAITING_APPROVAL", "BLOCK"}
    BY VerdictIsOutcome
  <2> QED
    BY <1>8, <2>1, <2>2 DEF EvaluatePolicy, Request, Trying
<1>9. CASE FinishDecision
  <2>1. StatusOf(prep.outcome) \in IntentState
    BY StatusOfOutcome, States DEF Request
  <2> QED
    BY <1>2, <1>9, <2>1 DEF FinishDecision
<1>10. CASE StoreAuthorization
  BY <1>10, EndTypes DEF StoreAuthorization
<1>11. CASE FailPreparation
  BY <1>11, EndTypes, States DEF FailPreparation
<1>12. CASE StatementThrows
  <2>1. \E pc \in {"catch", "uncaught"} : End(pc)
    BY <1>12 DEF StatementThrows
  <2> QED
    BY <1>12, <2>1, EndTypes DEF StatementThrows
<1>13. CASE Die
  BY <1>13, EndTypes DEF Die
<1>14. CASE Tick
  BY <1>14, PreparationAssumption DEF Tick
<1> QED
  BY <1>1, <1>3, <1>4, <1>5, <1>6, <1>7, <1>8, <1>9, <1>10, <1>11, <1>12, <1>13, <1>14
  DEF PreparationNext, PrepareStep

LEMMA RewrittenRows ==
  ASSUME TypeOK, RowsConsented, Rewritten(auths, auths'), auths'[1] = Standing,
         consented' = consented
  PROVE  /\ RowsConsented'
         /\ auths' \in Seq(AuthRow) /\ Len(auths') = Len(auths)
         /\ auths' # <<>> /\ auths'[1].type = "MAX_AMOUNT"
<1>1. /\ auths' \in Seq(AuthRow) /\ Len(auths') = Len(auths)
      /\ Len(auths) > 0 /\ auths' # <<>>
  BY DEF TypeOK, Rewritten
<1>2. DOMAIN auths' = DOMAIN auths /\ DOMAIN auths = 1..Len(auths)
  BY <1>1 DEF TypeOK
<1>3. RowsConsented'
  BY <1>2 DEF RowsConsented, Rewritten
<1> QED
  BY <1>1, <1>3 DEF Standing

LEMMA PrepareTypeInv ==
  ASSUME TypeInv, PreparationNext, UNCHANGED approvalVars
  PROVE  TypeInv'
<1>1. PrepareTypes' /\ clock' \in 0..MaxTime /\ auths' = auths
  BY PrepareTypesNext DEF TypeInv
<1>2. UNCHANGED <<request, linking, approving, consented>>
  BY DEF approvalVars
<1>3. TypeOK'
  BY <1>1, <1>2 DEF TypeInv, TypeOK, PrepareTypes
<1>4. Links' /\ RowsConsented'
  BY <1>1, <1>2 DEF TypeInv, Links, RowsConsented
<1> QED
  BY <1>3, <1>4 DEF TypeInv

LEMMA LinkTypeInv ==
  ASSUME TypeInv, NEW a \in Agents, LinkStep(a)
  PROVE  TypeInv'
<1> USE DEF TypeInv
<1>1. UNCHANGED <<preparationVars, approving, consented>>
  BY DEF LinkStep, CreateLink, QuoteLink, DecideLink, SaveLink, AbandonLink
<1>2. UNCHANGED <<status, bound, auths, clock, prep>>
  BY <1>1 DEF preparationVars
<1>3. \E r \in Linking : /\ GotoLinking(a, r)
                         /\ r.pc \in {"decide", "save"} => r.link.amount \in Prices
  <2>1. NotLinking \in Linking
    BY DEF NotLinking, NoLink, Linking, Link
  <2>2. linking[a] \in Linking /\ clock + TTL \in Nat
    BY ApprovalAssumption DEF TypeOK
  <2>3. CASE CreateLink(a)
    <3> DEFINE r == [NotLinking EXCEPT !.pc = "quote", !.link.expires = clock + TTL]
    <3>1. GotoLinking(a, r) /\ r.pc = "quote"
      BY <2>3 DEF CreateLink, NotLinking
    <3>2. r \in Linking
      BY <2>1, <2>2 DEF Linking, Link
    <3> QED
      BY <3>1, <3>2
  <2>4. CASE QuoteLink(a)
    <3>1. PICK p \in Prices :
            GotoLinking(a, [linking[a] EXCEPT !.pc = "decide", !.link.amount = p])
      BY <2>4 DEF QuoteLink
    <3> DEFINE r == [linking[a] EXCEPT !.pc = "decide", !.link.amount = p]
    <3>2. r \in Linking /\ r.link.amount = p
      BY <2>2 DEF Linking, Link
    <3> QED
      BY <3>1, <3>2
  <2>5. CASE DecideLink(a)
    <3>1. linking[a].pc = "decide" /\ linking[a].link.amount \in Prices
      BY <2>5 DEF DecideLink, Links
    <3>2. \/ GotoLinking(a, [linking[a] EXCEPT !.pc = "save"])
          \/ GotoLinking(a, NotLinking)
      BY <2>5 DEF DecideLink
    <3>3. [linking[a] EXCEPT !.pc = "save"] \in Linking
      BY <2>2 DEF Linking
    <3> QED
      BY <2>1, <2>2, <3>1, <3>2, <3>3 DEF NotLinking, Linking
  <2>6. CASE SaveLink(a)
    BY <2>1, <2>6 DEF SaveLink, NotLinking
  <2>7. CASE AbandonLink(a)
    BY <2>1, <2>7 DEF AbandonLink, NotLinking
  <2> QED
    BY <2>3, <2>4, <2>5, <2>6, <2>7 DEF LinkStep
<1>4. /\ linking' \in [Agents -> Linking]
      /\ \A c \in Agents : linking'[c].pc \in {"decide", "save"} => linking'[c].link.amount \in Prices
  <2>0. PICK r \in Linking : /\ GotoLinking(a, r)
                             /\ r.pc \in {"decide", "save"} => r.link.amount \in Prices
    BY <1>3
  <2>1. linking' = [linking EXCEPT ![a] = r]
    BY <2>0 DEF GotoLinking
  <2>2. linking \in [Agents -> Linking]
    BY DEF TypeOK
  <2>3. \A c \in Agents : linking'[c] = IF c = a THEN r ELSE linking[c]
    BY <2>1, <2>2
  <2> QED
    BY <2>0, <2>1, <2>2, <2>3 DEF Links
<1>5. request' \in RequestRow /\ (request'.status # "NONE" => request'.link.amount \in Prices)
  <2>1. CASE UNCHANGED request
    BY <2>1 DEF TypeOK, Links
  <2>2. CASE SaveLink(a)
    <3>1. linking[a].pc = "save" /\ request' = [status |-> "PENDING", link |-> linking[a].link]
      BY <2>2 DEF SaveLink
    <3>2. linking[a].link \in Link /\ linking[a].link.amount \in Prices
      BY <3>1 DEF TypeOK, Links, Linking
    <3> QED
      BY <3>1, <3>2 DEF RequestRow
  <2> QED
    BY <2>1, <2>2 DEF LinkStep, CreateLink, QuoteLink, DecideLink, AbandonLink
<1>6. TypeOK'
  BY <1>1, <1>2, <1>4, <1>5 DEF TypeOK
<1>7. Links' /\ RowsConsented'
  BY <1>1, <1>2, <1>4, <1>5 DEF Links, RowsConsented
<1> QED
  BY <1>6, <1>7

LEMMA ApproveTypeInv ==
  ASSUME TypeInv, NEW b \in Buyers, ApproveStep(b)
  PROVE  TypeInv'
<1> USE DEF TypeInv
<1>1. /\ UNCHANGED <<clock, prep, linking>>
      /\ consented' \subseteq Prices /\ consented \subseteq consented'
  <2>1. CASE Approve(b)
    BY <2>1 DEF Approve, preparationVars, Links, TypeOK
  <2>2. CASE ~Approve(b)
    BY <2>2 DEF ApproveStep, Claim, Resume, RefreshQuote, Revalidate, Revoke, Finalize,
                AbandonApproval, preparationVars, TypeOK
  <2> QED
    BY <2>1, <2>2
<1>2. NotApproving \in Approving
  BY DEF NotApproving, NoLink, Approving, Link
<1>3. approving[b] \in Approving /\ (approving[b].pc # "idle" => approving[b].link.amount \in consented)
  BY DEF TypeOK, Links
<1>4. \E r \in Approving : /\ GotoApproving(b, r)
                           /\ r.pc # "idle" => r.link.amount \in consented'
  <2>1. CASE Approve(b)
    <3>1. request.link \in Link
      BY DEF TypeOK, RequestRow
    <3>2. /\ GotoApproving(b, [NotApproving EXCEPT !.pc = "claim", !.link = request.link])
          /\ request.link.amount \in consented'
      BY <2>1 DEF Approve
    <3>3. [NotApproving EXCEPT !.pc = "claim", !.link = request.link] \in Approving
      BY <3>1 DEF NotApproving, Approving
    <3> QED
      BY <3>2, <3>3 DEF NotApproving
  <2>2. CASE \E pc \in {"quote"} : approving[b].pc = "claim" /\ StepApproving(b, pc)
    <3>1. /\ GotoApproving(b, [approving[b] EXCEPT !.pc = "quote"])
          /\ approving[b].link.amount \in consented'
      BY <1>1, <1>3, <2>2 DEF StepApproving
    <3>2. /\ [approving[b] EXCEPT !.pc = "quote"] \in Approving
          /\ [approving[b] EXCEPT !.pc = "quote"].link = approving[b].link
      BY <1>3 DEF Approving
    <3> QED
      BY <3>1, <3>2
  <2>3. CASE RefreshQuote(b)
    <3>1. PICK p \in Prices :
            GotoApproving(b, [approving[b] EXCEPT !.pc = "decide", !.price = p])
      BY <2>3 DEF RefreshQuote
    <3> DEFINE r == [approving[b] EXCEPT !.pc = "decide", !.price = p]
    <3>2. r \in Approving /\ r.link = approving[b].link
      BY <1>3 DEF Approving
    <3>3. approving[b].link.amount \in consented'
      BY <1>1, <1>3, <2>3 DEF RefreshQuote
    <3> QED
      BY <3>1, <3>2, <3>3
  <2>4. CASE Revalidate(b)
    <3>1. approving[b].pc = "decide"
      BY <2>4 DEF Revalidate
    <3>2. PICK pc \in {"finalize", "revoke"} :
            GotoApproving(b, [approving[b] EXCEPT !.price = 0, !.pc = pc])
      BY <2>4 DEF Revalidate
    <3> DEFINE r == [approving[b] EXCEPT !.price = 0, !.pc = pc]
    <3>3. r \in Approving /\ r.link = approving[b].link
      BY <1>3 DEF Approving
    <3>4. approving[b].link.amount \in consented'
      BY <1>1, <1>3, <3>1
    <3> QED
      BY <3>2, <3>3, <3>4
  <2>5. CASE GotoApproving(b, NotApproving)
    BY <1>2, <2>5 DEF NotApproving
  <2> QED
    BY <2>1, <2>2, <2>3, <2>4, <2>5
    DEF ApproveStep, Claim, Resume, Revoke, Finalize, AbandonApproval
<1>5. /\ approving' \in [Buyers -> Approving]
      /\ \A c \in Buyers : approving'[c].pc # "idle" => approving'[c].link.amount \in consented'
  <2>0. PICK r \in Approving : /\ GotoApproving(b, r)
                               /\ r.pc # "idle" => r.link.amount \in consented'
    BY <1>4
  <2>1. approving' = [approving EXCEPT ![b] = r]
    BY <2>0 DEF GotoApproving
  <2>2. approving \in [Buyers -> Approving]
    BY DEF TypeOK
  <2>3. \A c \in Buyers : approving'[c] = IF c = b THEN r ELSE approving[c]
    BY <2>1, <2>2
  <2> QED
    BY <1>1, <2>0, <2>1, <2>2, <2>3 DEF Links
<1>6. request' \in RequestRow /\ (request'.status # "NONE" => request'.link.amount \in Prices)
  <2>1. \/ UNCHANGED request
        \/ /\ request.status # "NONE"
           /\ \E st \in {"APPROVED", "EXPIRED", "USED"} : request' = [request EXCEPT !.status = st]
    BY DEF ApproveStep, Approve, Claim, Resume, RefreshQuote, Revalidate, Revoke, Finalize,
           AbandonApproval, FirstClaim, CanFinalize
  <2> QED
    BY <2>1 DEF TypeOK, Links, RequestRow
<1>7. /\ RowsConsented'
      /\ auths' \in Seq(AuthRow) /\ Len(auths') >= Len(auths)
      /\ auths' # <<>> /\ auths'[1].type = "MAX_AMOUNT"
  <2>1. CASE UNCHANGED auths
    BY <1>1, <2>1 DEF RowsConsented, TypeOK
  <2>2. CASE Revoke(b)
    <3>1. auths' = Revoked(approving[b].link) /\ consented' = consented
      BY <2>2 DEF Revoke
    <3>2. Rewritten(auths, auths')
      BY <3>1, RevokedRewrites DEF TypeOK
    <3>3. auths'[1] = Standing
      BY <3>1 DEF Revoked, IsOf, TypeOK, RowsConsented
    <3> QED
      BY <3>1, <3>2, <3>3, RewrittenRows DEF TypeOK
  <2>3. CASE Claim(b)
    <3> DEFINE row == ExactAuthorization(approving[b].link)
    <3>1. auths' = Append(auths, row) /\ approving[b].pc = "claim"
      BY <2>3 DEF Claim
    <3>2. row \in AuthRow /\ row.type = "ONE_TIME" /\ row.max \in consented
      BY <1>3, <3>1, PreparationAssumption
      DEF ExactAuthorization, AuthRow, Approving, Link, TypeOK
    <3> HIDE DEF row
    <3>3. /\ auths' \in Seq(AuthRow) /\ Len(auths') = Len(auths) + 1
          /\ auths'[Len(auths) + 1] = row
          /\ \A k \in 1..Len(auths) : auths'[k] = auths[k]
      BY <3>1, <3>2 DEF TypeOK
    <3>4. Len(auths) > 0
      BY DEF TypeOK
    <3>5. auths'[1] = auths[1]
      BY <3>3, <3>4
    <3>6. RowsConsented'
      BY <1>1, <3>2, <3>3, <3>4, <3>5 DEF RowsConsented, TypeOK
    <3> QED
      BY <3>3, <3>4, <3>5, <3>6 DEF TypeOK
  <2> QED
    BY <2>1, <2>2, <2>3
    DEF ApproveStep, Approve, Resume, RefreshQuote, Revalidate, Finalize, AbandonApproval,
        preparationVars
<1>8. /\ status' \in IntentState \cup {"NONE"}
      /\ bound' \in 0..Len(auths')
      /\ prep'.authorization \in 0..Len(auths')
  <2>1. CASE Finalize(b)
    <3>1. bound' \in DOMAIN auths /\ auths' = auths /\ status' = "APPROVED"
      BY <2>1 DEF Finalize
    <3> QED
      BY <1>1, <3>1, States DEF TypeOK
  <2>2. CASE ~Finalize(b)
    <3>1. UNCHANGED <<status, bound>>
      BY <2>2 DEF ApproveStep, Approve, Claim, Resume, RefreshQuote, Revalidate, Revoke,
                  AbandonApproval, preparationVars
    <3> QED
      BY <1>1, <1>7, <3>1 DEF TypeOK
  <2> QED
    BY <2>1, <2>2
<1>9. TypeOK'
  BY <1>1, <1>5, <1>6, <1>7, <1>8 DEF TypeOK
<1>10. Links'
  BY <1>1, <1>5, <1>6 DEF Links
<1> QED
  BY <1>7, <1>9, <1>10

LEMMA IntentTypeInv ==
  ASSUME TypeInv, IntentStep
  PROVE  TypeInv'
<1> USE DEF TypeInv
<1>1. CASE Execute
  <2>0. PICK p \in Prices, k \in FoundNow : \E o \in Verdicts(k, p) :
          IF o = "ALLOW"
          THEN bound' = k /\ status' \in {"APPROVED", "PAYMENT_PROCESSING"}
          ELSE status' = StatusOf(o) /\ UNCHANGED bound
    BY <1>1 DEF Execute
  <2>1. PICK o \in Verdicts(k, p) :
          IF o = "ALLOW"
          THEN bound' = k /\ status' \in {"APPROVED", "PAYMENT_PROCESSING"}
          ELSE status' = StatusOf(o) /\ UNCHANGED bound
    BY <2>0
  <2>2. StatusOf(o) \in {"APPROVED", "AWAITING_APPROVAL", "BLOCKED"}
    BY VerdictIsOutcome, StatusOfOutcome
  <2>3. k \in 0..Len(auths)
    BY FoundInTable
  <2>4. bound' \in 0..Len(auths) /\ status' \in IntentState
    BY <2>1, <2>2, <2>3, States DEF TypeOK
  <2>5. UNCHANGED <<auths, clock, prep, request, linking, approving, consented>>
    BY <1>1 DEF Execute, approvalVars
  <2> QED
    BY <2>4, <2>5 DEF TypeOK, Links, RowsConsented
<1>2. CASE PaymentFails
  <2>1. /\ status' = "APPROVED"
        /\ UNCHANGED <<bound, auths, clock, prep, request, linking, approving, consented>>
    BY <1>2 DEF PaymentFails, approvalVars
  <2> QED
    BY <2>1, States DEF TypeOK, Links, RowsConsented
<1>3. CASE PaymentCaptured
  <2>1. /\ status' = "COMPLETED"
        /\ UNCHANGED <<bound, clock, prep, request, linking, approving, consented>>
    BY <1>3 DEF PaymentCaptured, approvalVars
  <2>2. CASE auths[bound].type = "ONE_TIME"
    <3>1. auths' = [auths EXCEPT ![bound].status = "CONSUMED"]
      BY <1>3, <2>2 DEF PaymentCaptured
    <3>2. Rewritten(auths, auths')
      BY <3>1, CaptureRewrites DEF TypeOK
    <3>3. bound # 1
      BY <2>2 DEF TypeOK
    <3>4. auths'[1] = Standing
      BY <3>1, <3>3 DEF RowsConsented, TypeOK
    <3>5. /\ RowsConsented'
          /\ auths' \in Seq(AuthRow) /\ Len(auths') = Len(auths)
          /\ auths' # <<>> /\ auths'[1].type = "MAX_AMOUNT"
      BY <2>1, <3>2, <3>4, RewrittenRows
    <3> QED
      BY <2>1, <3>5, States DEF TypeOK, Links
  <2>3. CASE auths[bound].type # "ONE_TIME"
    <3>1. auths' = auths
      BY <1>3, <2>3 DEF PaymentCaptured
    <3> QED
      BY <2>1, <3>1, States DEF TypeOK, Links, RowsConsented
  <2> QED
    BY <2>2, <2>3
<1>4. CASE Reset
  <2>1. /\ ResetIntent /\ status' \in {status, "CANCELED"}
        /\ UNCHANGED <<bound, clock, prep, linking, approving, consented>>
    BY <1>4 DEF Reset, ResetIntent
  <2>2. Rewritten(auths, auths')
    BY <2>1, ResetRewrites DEF TypeOK, RowsConsented
  <2>3. auths'[1] = Standing
    <3>1. 1 \in DOMAIN auths
      BY DEF TypeOK
    <3> QED
      BY <2>1, <3>1 DEF ResetIntent
  <2>4. /\ RowsConsented'
        /\ auths' \in Seq(AuthRow) /\ Len(auths') = Len(auths)
        /\ auths' # <<>> /\ auths'[1].type = "MAX_AMOUNT"
    BY <2>1, <2>2, <2>3, RewrittenRows
  <2>5. \/ UNCHANGED request
        \/ request.status # "NONE" /\ request' = [request EXCEPT !.status = "EXPIRED"]
    BY <1>4 DEF Reset
  <2>6. request' \in RequestRow /\ (request'.status # "NONE" => request'.link.amount \in Prices)
    BY <2>5 DEF TypeOK, Links, RequestRow
  <2> QED
    BY <2>1, <2>4, <2>6, States DEF TypeOK, Links
<1> QED
  BY <1>1, <1>2, <1>3, <1>4 DEF IntentStep

LEMMA TypeInvNext == TypeInv /\ [Next]_vars => TypeInv'
<1> SUFFICES ASSUME TypeInv, [Next]_vars PROVE TypeInv'
  OBVIOUS
<1>1. CASE UNCHANGED vars
  BY <1>1 DEF vars, preparationVars, approvalVars, TypeInv, TypeOK, Links, RowsConsented
<1>2. CASE Next
  BY <1>2, PrepareTypeInv, LinkTypeInv, ApproveTypeInv, IntentTypeInv DEF Next
<1> QED
  BY <1>1, <1>2

LEMMA TypeInvInit == Init => TypeInv
<1> SUFFICES ASSUME Init PROVE TypeInv
  OBVIOUS
<1>1. auths = <<Standing>> /\ auths \in Seq(AuthRow) /\ Len(auths) = 1
  BY StandingIsRow DEF Init, PreparationInit
<1>2. /\ NoLink \in Link
      /\ NotLinking \in Linking /\ NotLinking.pc = "idle"
      /\ NotApproving \in Approving /\ NotApproving.pc = "idle"
  BY DEF NotLinking, NotApproving, NoLink, Link, Linking, Approving
<1>3. Fresh \in Request /\ Fresh.authorization = 0
  BY DEF Fresh, Request, Outside
<1>4. TypeOK
  BY <1>1, <1>2, <1>3, PreparationAssumption
  DEF Init, PreparationInit, TypeOK, RequestRow, Standing
<1>5. Links
  BY <1>2 DEF Init, Links
<1>6. RowsConsented
  BY <1>1 DEF RowsConsented
<1> QED
  BY <1>4, <1>5, <1>6 DEF TypeInv

LEMMA TypeInvCorrect == Spec => []TypeInv
BY TypeInvInit, TypeInvNext, PTL DEF Spec

(* Every reachable state is well formed: rows are never deleted, so that   *)
(* the intent's authorization exists, and links are for prices.            *)
THEOREM TypeCorrect == Spec => []TypeOK
<1>1. TypeInv => TypeOK
  BY DEF TypeInv
<1> QED
  BY <1>1, TypeInvCorrect, PTL

(* The standing authorization allows its limit within the budget, every    *)
(* other row an amount the buyer asked to approve: nothing else is ever    *)
(* allowed, for any number of links and approvals at once.                 *)
LEMMA RowsAllowConsented == TypeInv => AllowsOnlyConsented
<1> SUFFICES ASSUME TypeInv, NEW p \in Prices, NEW k \in FoundNow, "ALLOW" \in Verdicts(k, p)
             PROVE  p \in consented \/ (p <= Limit /\ ~Exceeds(p, Budget))
  BY DEF AllowsOnlyConsented
<1>1. /\ k \in DOMAIN auths
      /\ \/ auths[k].type = "ONE_TIME" /\ auths[k].max = p
         \/ auths[k].type = "MAX_AMOUNT" /\ p <= auths[k].max /\ ~Exceeds(p, Budget)
  BY AllowedByRow DEF TypeInv
<1>2. CASE k = 1
  BY <1>1, <1>2 DEF TypeInv, RowsConsented, Standing
<1>3. CASE k # 1
  BY <1>1, <1>3 DEF TypeInv, RowsConsented
<1> QED
  BY <1>2, <1>3

THEOREM ConsentRequired == Spec => []AllowsOnlyConsented
BY RowsAllowConsented, TypeInvCorrect, PTL

=============================================================================
