----------------------------- MODULE OncePerKey -----------------------------
(***************************************************************************)
(* What an idempotency key promises its client.  The first call takes the  *)
(* key for its body.  The key has at most one outcome; a call with that    *)
(* body is answered with this outcome or refused, however often and        *)
(* however concurrently it is repeated; a call with another body is        *)
(* refused.                                                                *)
(***************************************************************************)
CONSTANTS Calls, BodyOf, NoBody, Results, NoResult, Refused

VARIABLES
  body,     \* the request body the key was taken for
  outcome,  \* the result of the key
  reply     \* what each call was answered

vars == <<body, outcome, reply>>

Init ==
  /\ body = NoBody
  /\ outcome = NoResult
  /\ reply = [c \in Calls |-> NoResult]

Take(c) ==
  /\ body = NoBody
  /\ body' = BodyOf[c]
  /\ UNCHANGED <<outcome, reply>>

Settle(c, r) ==
  /\ outcome = NoResult
  /\ BodyOf[c] = body
  /\ reply[c] = NoResult
  /\ outcome' = r
  /\ reply' = [reply EXCEPT ![c] = r]
  /\ UNCHANGED body

Repeat(c) ==
  /\ outcome # NoResult
  /\ BodyOf[c] = body
  /\ reply[c] = NoResult
  /\ reply' = [reply EXCEPT ![c] = outcome]
  /\ UNCHANGED <<body, outcome>>

Refuse(c) ==
  /\ reply[c] = NoResult
  /\ reply' = [reply EXCEPT ![c] = Refused]
  /\ UNCHANGED <<body, outcome>>

Next ==
  \E c \in Calls :
    \/ Take(c) \/ Repeat(c) \/ Refuse(c)
    \/ \E r \in Results : Settle(c, r)

Spec == Init /\ [][Next]_vars

=============================================================================
