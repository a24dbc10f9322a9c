------------------------------ MODULE Approval ------------------------------
(***************************************************************************)
(* The buyer's approval of a purchase above the limit, ApprovalService:    *)
(* concurrent requests for a link and concurrent approvals by link, on the *)
(* intent that Preparation left waiting, with what the payment and the     *)
(* demo reset do to it meanwhile.                                          *)
(*                                                                         *)
(* A link is a signed token over the request's id, the amount and the      *)
(* instant it expires; the intent has one ApprovalRequest row, which knows *)
(* the current link.  A transaction is one step.                           *)
(***************************************************************************)
EXTENDS Preparation

CONSTANTS
  Agents,    \* calls of createLink in progress at once
  Buyers,    \* calls of approve in progress at once
  TTL        \* the life of a link (APPROVAL_TTL_MS)

ASSUME ApprovalAssumption == TTL \in Nat \ {0}

VARIABLES
  request,    \* the intent's ApprovalRequest
  linking,    \* the calls of createLink
  approving,  \* the calls of approve
  consented   \* history: amounts the buyer asked to approve, by link

approvalVars == <<request, linking, approving, consented>>
vars == <<preparationVars, approvalVars>>

Link == [amount : Prices \cup {0}, expires : Nat]
NoLink == [amount |-> 0, expires |-> 0]
RequestRow == [status : {"NONE", "PENDING", "APPROVED", "EXPIRED", "USED"}, link : Link]
Linking == [pc : {"idle", "quote", "decide", "save"}, link : Link]
Approving == [pc : {"idle", "claim", "quote", "decide", "finalize", "revoke"},
              link : Link, price : Prices \cup {0}]

NotLinking == [pc |-> "idle", link |-> NoLink]
NotApproving == [pc |-> "idle", link |-> NoLink, price |-> 0]

Live(link) == link.expires > clock

(* The row an approval of the link creates; its id is made from the link.  *)
ExactAuthorization(link) ==
  [type |-> "ONE_TIME", status |-> "ACTIVE", max |-> link.amount, expires |-> link.expires]

IsOf(k, link) ==
  auths[k].type = "ONE_TIME" /\ auths[k].max = link.amount /\ auths[k].expires = link.expires

(***************************************************************************)
(* POST /agent/intents/:id/approval-link, createLink.                      *)
(***************************************************************************)
GotoLinking(a, r) == linking' = [linking EXCEPT ![a] = r]

(* The intent is read.  A PENDING link that has not expired is issued      *)
(* again, which changes nothing; otherwise a new one is made, to expire    *)
(* TTL from now.                                                           *)
CreateLink(a) ==
  /\ linking[a].pc = "idle"
  /\ Answered /\ status = "AWAITING_APPROVAL"
  /\ ~(request.status = "PENDING" /\ Live(request.link))
  /\ GotoLinking(a, [NotLinking EXCEPT !.pc = "quote", !.link.expires = clock + TTL])
  /\ UNCHANGED <<preparationVars, request, approving, consented>>

QuoteLink(a) ==
  /\ linking[a].pc = "quote"
  /\ \E p \in Prices :
       GotoLinking(a, [linking[a] EXCEPT !.pc = "decide", !.link.amount = p])
  /\ UNCHANGED <<preparationVars, request, approving, consented>>

(* The link is only for what stops at the amount alone.                    *)
DecideLink(a) ==
  /\ linking[a].pc = "decide"
  /\ \E k \in FoundNow : \E o \in Verdicts(k, linking[a].link.amount) :
       GotoLinking(a, IF o = "AWAITING_APPROVAL" THEN [linking[a] EXCEPT !.pc = "save"]
                      ELSE NotLinking)
  /\ UNCHANGED <<preparationVars, request, approving, consented>>

(* The row is made PENDING with the new link, whatever it has become.      *)
SaveLink(a) ==
  /\ linking[a].pc = "save"
  /\ request' = [status |-> "PENDING", link |-> linking[a].link]
  /\ GotoLinking(a, NotLinking)
  /\ UNCHANGED <<preparationVars, approving, consented>>

AbandonLink(a) ==
  /\ linking[a].pc # "idle"
  /\ GotoLinking(a, NotLinking)
  /\ UNCHANGED <<preparationVars, request, approving, consented>>

(***************************************************************************)
(* POST /approvals/:token/approve, approve.                                *)
(***************************************************************************)
GotoApproving(b, r) == approving' = [approving EXCEPT ![b] = r]
StepApproving(b, pc) == GotoApproving(b, [approving[b] EXCEPT !.pc = pc])

(* resolveToken: of all the links the buyer was ever given only the row's  *)
(* current one is accepted; the row must be one that can be approved.      *)
Approve(b) ==
  LET link == request.link IN
  /\ approving[b].pc = "idle"
  /\ request.status \in {"PENDING", "APPROVED"} /\ Live(link)
  /\ consented' = consented \cup {link.amount}
  /\ GotoApproving(b, [NotApproving EXCEPT !.pc = "claim", !.link = link])
  /\ UNCHANGED <<preparationVars, request, linking>>

(* The intent and the row are as the link says; and so is the variant, or  *)
(* the claim is refused, which AbandonApproval allows for.                 *)
Claimable(link) ==
  /\ status = "AWAITING_APPROVAL"
  /\ request.link = link /\ Live(link)

(* Slip: the authorization's id is not made from the link.                 *)
SlipFirstClaim(link) == request.status = "PENDING"

(* The first claim of a link makes the row APPROVED and the authorization; *)
(* its id must be new.                                                     *)
FirstClaim(link) ==
  /\ request.status = "PENDING"
  /\ ~ \E k \in DOMAIN auths : IsOf(k, link)

(* A later one resumes it while the authorization is in force.             *)
ResumedClaim(link) ==
  /\ request.status = "APPROVED"
  /\ \E k \in DOMAIN auths : IsOf(k, link) /\ auths[k].status = "ACTIVE"

(* Slip: the claim does not compare the buyer's link with the row's.       *)
SlipClaim(b) ==
  LET link == request.link IN
  /\ approving[b].pc = "claim"
  /\ Claimable(link) /\ FirstClaim(link)
  /\ request' = [request EXCEPT !.status = "APPROVED"]
  /\ auths' = Append(auths, ExactAuthorization(link))
  /\ GotoApproving(b, [approving[b] EXCEPT !.pc = "quote", !.link = link])
  /\ UNCHANGED <<status, bound, clock, prep, linking, consented>>

Claim(b) ==
  LET link == approving[b].link IN
  /\ approving[b].pc = "claim"
  /\ Claimable(link) /\ FirstClaim(link)
  /\ request' = [request EXCEPT !.status = "APPROVED"]
  /\ auths' = Append(auths, ExactAuthorization(link))
  /\ StepApproving(b, "quote")
  /\ UNCHANGED <<status, bound, clock, prep, linking, consented>>

Resume(b) ==
  LET link == approving[b].link IN
  /\ approving[b].pc = "claim"
  /\ Claimable(link) /\ ResumedClaim(link)
  /\ StepApproving(b, "quote")
  /\ UNCHANGED <<preparationVars, request, linking, consented>>

RefreshQuote(b) ==
  /\ approving[b].pc = "quote"
  /\ \E p \in Prices : GotoApproving(b, [approving[b] EXCEPT !.pc = "decide", !.price = p])
  /\ UNCHANGED <<preparationVars, request, linking, consented>>

(* Only a purchase allowed by the link's own authorization goes on.        *)
Revalidate(b) ==
  /\ approving[b].pc = "decide"
  /\ \E k \in FoundNow : \E o \in Verdicts(k, approving[b].price) :
       GotoApproving(b, [approving[b] EXCEPT
         !.price = 0,
         !.pc = IF o = "ALLOW" /\ k # 0 /\ IsOf(k, approving[b].link)
                THEN "finalize" ELSE "revoke"])
  /\ UNCHANGED <<preparationVars, request, linking, consented>>

Revoked(link) ==
  [k \in DOMAIN auths |-> IF IsOf(k, link) /\ auths[k].status = "ACTIVE"
                          THEN [auths[k] EXCEPT !.status = "REVOKED"] ELSE auths[k]]

(* Slip: the row stays APPROVED.                                           *)
SlipRevoke(b) ==
  /\ approving[b].pc = "revoke"
  /\ auths' = Revoked(approving[b].link)
  /\ GotoApproving(b, NotApproving)
  /\ UNCHANGED <<status, bound, clock, prep, request, linking, consented>>

(* The link's authorization is revoked and the row, if APPROVED, EXPIRED:  *)
(* whichever link the row has by now, and whatever became of the intent.   *)
Revoke(b) ==
  /\ approving[b].pc = "revoke"
  /\ auths' = Revoked(approving[b].link)
  /\ request' = IF request.status = "APPROVED" THEN [request EXCEPT !.status = "EXPIRED"]
                ELSE request
  /\ GotoApproving(b, NotApproving)
  /\ UNCHANGED <<status, bound, clock, prep, linking, consented>>

CanFinalize == request.status = "APPROVED" /\ status = "AWAITING_APPROVAL"

(* The row becomes USED and the intent APPROVED and bound, or neither.     *)
Finalize(b) ==
  /\ approving[b].pc = "finalize"
  /\ CanFinalize
  /\ request' = [request EXCEPT !.status = "USED"]
  /\ status' = "APPROVED"
  /\ \E k \in DOMAIN auths : IsOf(k, approving[b].link) /\ bound' = k
  /\ GotoApproving(b, NotApproving)
  /\ UNCHANGED <<auths, clock, prep, linking, consented>>

(* A refused claim or finalization, a failed statement, the process dying. *)
AbandonApproval(b) ==
  /\ approving[b].pc # "idle"
  /\ GotoApproving(b, NotApproving)
  /\ UNCHANGED <<preparationVars, request, linking, consented>>

(***************************************************************************)
(* What happens to the intent elsewhere.  The execution is Checkout's: all *)
(* that is kept of it here is what it decides and what becomes of the      *)
(* authorization.                                                          *)
(***************************************************************************)

(* execute: re-quoted, decided again and bound to the authorization found; *)
(* the payment may still not come about.                                   *)
Execute ==
  /\ Answered /\ status = "APPROVED"
  /\ \E p \in Prices, k \in FoundNow : \E o \in Verdicts(k, p) :
       IF o = "ALLOW"
       THEN bound' = k /\ status' \in {"APPROVED", "PAYMENT_PROCESSING"}
       ELSE status' = StatusOf(o) /\ UNCHANGED bound
  /\ UNCHANGED <<auths, clock, prep, approvalVars>>

PaymentFails ==
  /\ status = "PAYMENT_PROCESSING"
  /\ status' = "APPROVED"
  /\ UNCHANGED <<bound, auths, clock, prep, approvalVars>>

(* The capture consumes a one-time authorization, which must be ACTIVE.    *)
PaymentCaptured ==
  /\ status = "PAYMENT_PROCESSING"
  /\ status' = "COMPLETED"
  /\ IF auths[bound].type = "ONE_TIME"
     THEN /\ auths[bound].status = "ACTIVE"
          /\ auths' = [auths EXCEPT ![bound].status = "CONSUMED"]
     ELSE UNCHANGED auths
  /\ UNCHANGED <<bound, clock, prep, approvalVars>>

(* Slip: the reset deletes the one-time authorizations.                    *)
SlipReset ==
  /\ status' = IF status \in OpenIntent THEN "CANCELED" ELSE status
  /\ auths' = <<Standing>>
  /\ request' = IF request.status \in {"PENDING", "APPROVED"}
                THEN [request EXCEPT !.status = "EXPIRED"] ELSE request
  /\ UNCHANGED <<bound, clock, prep, linking, approving, consented>>

(* DemoService.reset.                                                      *)
Reset ==
  /\ ResetIntent
  /\ request' = IF request.status \in {"PENDING", "APPROVED"}
                THEN [request EXCEPT !.status = "EXPIRED"] ELSE request
  /\ UNCHANGED <<linking, approving, consented>>

Init ==
  /\ PreparationInit
  /\ request = [status |-> "NONE", link |-> NoLink]
  /\ consented = {}
  /\ linking = [a \in Agents |-> NotLinking]
  /\ approving = [b \in Buyers |-> NotApproving]

LinkStep(a) ==
  CreateLink(a) \/ QuoteLink(a) \/ DecideLink(a) \/ SaveLink(a) \/ AbandonLink(a)

ApproveStep(b) ==
  \/ Approve(b) \/ Claim(b) \/ Resume(b) \/ RefreshQuote(b) \/ Revalidate(b)
  \/ Revoke(b) \/ Finalize(b) \/ AbandonApproval(b)

IntentStep == Execute \/ PaymentFails \/ PaymentCaptured \/ Reset

Next ==
  \/ PreparationNext /\ UNCHANGED approvalVars
  \/ \E a \in Agents : LinkStep(a)
  \/ \E b \in Buyers : ApproveStep(b)
  \/ IntentStep

Spec == Init /\ [][Next]_vars

(* The API runs a prepare it accepted to its end; the one call outside the *)
(* database, to the language model, has its client's time limit.           *)
FairSpec == Spec /\ WF_vars(PrepareStep /\ UNCHANGED approvalVars)

(***************************************************************************)
(* Properties.                                                             *)
(***************************************************************************)

(* Rows and calls have their shape, and the intent's authorization exists. *)
TypeOK ==
  /\ status \in IntentState \cup {"NONE"}
  /\ auths \in Seq(AuthRow) /\ auths # <<>> /\ auths[1].type = "MAX_AMOUNT"
  /\ bound \in 0..Len(auths)
  /\ clock \in 0..MaxTime
  /\ prep \in Request /\ prep.authorization \in 0..Len(auths)
  /\ request \in RequestRow
  /\ consented \subseteq Prices
  /\ linking \in [Agents -> Linking]
  /\ approving \in [Buyers -> Approving]

(* Whatever the price does next, a payment would be allowed only within    *)
(* the standing limit and the budget, or at an amount the buyer approved   *)
(* by a link for exactly it: no sequence of links, claims, resumptions and *)
(* revocations leaves an authorization behind that allows anything else.   *)
AllowsOnlyConsented ==
  \A p \in Prices, k \in FoundNow : "ALLOW" \in Verdicts(k, p) =>
    \/ p \in consented
    \/ p <= Limit /\ ~Exceeds(p, Budget)

(* A claimed link can be resumed until it expires: while the row is        *)
(* APPROVED the intent still waits and the authorization of the row's link *)
(* is in force, whatever concurrent approvals and links do.                *)
ClaimIsResumable ==
  request.status = "APPROVED" =>
    /\ status = "AWAITING_APPROVAL"
    /\ \E k \in DOMAIN auths : IsOf(k, request.link) /\ auths[k].status = "ACTIVE"

(* A link is exchanged for an authorization at most once, although two     *)
(* calls of createLink may issue the same link twice.                      *)
ExchangedOnce ==
  \A j, k \in DOMAIN auths :
    auths[j].type = "ONE_TIME" /\ IsOf(k, [amount |-> auths[j].max, expires |-> auths[j].expires])
      => j = k

(* An intent the agent knows to be APPROVED or in payment has its          *)
(* authorization stored: the statement after the last transition of        *)
(* prepare may be lost, but then nobody can act on the intent.             *)
KnownApprovalIsBound ==
  Answered /\ status \in {"APPROVED", "PAYMENT_PROCESSING", "COMPLETED"} => bound # 0

(* The status moves along the table of PurchaseStateMachine.  The one      *)
(* exception is the demo reset, which cancels also what is being resolved, *)
(* quoted or checked; nothing revives what it canceled.                    *)
FollowsTableButReset ==
  [][status' # status =>
       \/ status = "NONE" /\ status' = "RECEIVED"
       \/ status \in IntentState /\ canTransition(status, status')
       \/ status \in {"RESOLVING", "QUOTED", "POLICY_CHECK"} /\ status' = "CANCELED"]_vars

(* An approval that succeeded stands: while the intent is APPROVED and     *)
(* bound to the authorization the link was exchanged for, only the reset   *)
(* revokes it.                                                             *)
ExchangeStands ==
  [][status = "APPROVED" /\ bound \in 2..Len(auths) /\ auths[bound].status = "ACTIVE"
       => auths'[bound].status # "REVOKED" \/ status' = "CANCELED"]_vars

(* No intent stays in preparation, RECEIVED to POLICY_CHECK: it is         *)
(* decided, canceled or FAILED.  There are two exceptions.  One is an      *)
(* error nobody catches: before the try block it leaves the intent         *)
(* RECEIVED, in the catch block itself wherever it was.  The other is the  *)
(* death of the process.                                                   *)
InPreparation == {"RECEIVED", "RESOLVING", "QUOTED", "POLICY_CHECK"}
PreparationEnds ==
  status \in InPreparation ~>
    status \notin InPreparation \/ prep.pc \in {"uncaught", "dead"}

=============================================================================
