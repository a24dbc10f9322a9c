---------------------------- MODULE WebhookInbox ----------------------------
(***************************************************************************)
(* The delivery of the payment provider's webhooks: ingestion with         *)
(* deduplication by event id, and the processors that claim one event at a *)
(* time, hand it to its handler, record the outcome and retry, across      *)
(* crashes and restarts.  What a handler does to orders and payments is    *)
(* module Checkout; here it commits or throws.                             *)
(*                                                                         *)
(* A statement on the WebhookEvent table is one step.  Each instance of    *)
(* the API runs one processor (its running flag), and instances share the  *)
(* table.  A definition whose name begins with Slip is not the code: it is *)
(* the definition after it with a plausible bug.                           *)
(***************************************************************************)
EXTENDS Integers, Sequences, FiniteSets

CONSTANTS
  EventIds,      \* external event ids the provider may deliver
  Processors,    \* API instances, one processor each
  NoEvent,       \* not an event
  MaxAttempts,   \* attempts an event is given (the code: 5)
  Faults,        \* TRUE: an instance may die, a statement may fail
  SlowHandlers   \* TRUE: a handler may run longer than five minutes

ASSUME InboxAssumption ==
  /\ IsFiniteSet(Processors)
  /\ NoEvent \notin EventIds
  /\ MaxAttempts \in Nat \ {0}
  /\ {Faults, SlowHandlers} \subseteq BOOLEAN

VARIABLES
  row,       \* the WebhookEvent rows
  arrival,   \* the stored events, by receivedAt
  acked,     \* events the provider got an answer for: it stops delivering
  job,       \* what each processor is doing
  commits    \* how often the handler of an event committed (history)

vars == <<row, arrival, acked, job, commits>>

RowStatus == {"NONE", "RECEIVED", "PROCESSING", "PROCESSED", "FAILED"}

(* stale: updatedAt is more than five minutes ago.                         *)
Row == [status : RowStatus, attempts : 0..MaxAttempts, stale : BOOLEAN]

Job == [pc : {"down", "idle", "claim", "handle", "processed", "failed"},
        event : EventIds \cup {NoEvent}, status : RowStatus, attempts : 0..MaxAttempts]

Ready(pc) == [pc |-> pc, event |-> NoEvent, status |-> "NONE", attempts |-> 0]

Step(p, pc) == job' = [job EXCEPT ![p].pc = pc]
Works(p, e) == job[p].event = e /\ job[p].pc \in {"handle", "processed", "failed"}

(***************************************************************************)
(* POST /webhooks/razorpay: the unique index on the event id rejects a     *)
(* duplicate, which is answered like a first delivery.  The answer may not *)
(* reach the provider, which then delivers again.                          *)
(***************************************************************************)
ingest(e) ==
  /\ e \notin acked
  /\ IF row[e].status = "NONE"
     THEN /\ row' = [row EXCEPT ![e].status = "RECEIVED"]
          /\ arrival' = Append(arrival, e)
     ELSE UNCHANGED <<row, arrival>>
  /\ acked' \in {acked, acked \cup {e}}
  /\ UNCHANGED <<job, commits>>

(***************************************************************************)
(* drainOnce, in the steps of its statements.                              *)
(***************************************************************************)

(* Slip: the attempts are not limited.                                     *)
SlipDue(e) == row[e].status \in {"RECEIVED", "FAILED"}

(* RECEIVED or FAILED with attempts left.                                  *)
Due(e) == row[e].status \in {"RECEIVED", "FAILED"} /\ row[e].attempts < MaxAttempts

Older(d, e) ==
  \E m, n \in DOMAIN arrival : m < n /\ arrival[m] = d /\ arrival[n] = e

(* Slips: the order of arrival is ignored; a failed event is not due.      *)
SlipFindUnordered(p) ==
  /\ job[p].pc = "idle"
  /\ \E e \in EventIds :
       /\ Due(e)
       /\ job' = [job EXCEPT ![p] = [pc |-> "claim", event |-> e,
                    status |-> row[e].status, attempts |-> row[e].attempts]]
  /\ UNCHANGED <<row, arrival, acked, commits>>

SlipFindReceived(p) ==
  /\ job[p].pc = "idle"
  /\ \E e \in EventIds :
       /\ Due(e) /\ row[e].status = "RECEIVED"
       /\ \A d \in EventIds : Due(d) /\ row[d].status = "RECEIVED" => ~Older(d, e)
       /\ job' = [job EXCEPT ![p] = [pc |-> "claim", event |-> e,
                    status |-> row[e].status, attempts |-> row[e].attempts]]
  /\ UNCHANGED <<row, arrival, acked, commits>>

(* findFirst: the oldest event that is due.                                *)
Find(p) ==
  /\ job[p].pc = "idle"
  /\ \E e \in EventIds :
       /\ Due(e)
       /\ \A d \in EventIds : Due(d) => ~Older(d, e)
       /\ job' = [job EXCEPT ![p] = [pc |-> "claim", event |-> e,
                    status |-> row[e].status, attempts |-> row[e].attempts]]
  /\ UNCHANGED <<row, arrival, acked, commits>>

(* updateMany, if the row is still as it was found.                        *)
Unchanged(p) ==
  /\ row[job[p].event].status = job[p].status
  /\ row[job[p].event].attempts = job[p].attempts

(* Slip: the row is claimed whatever became of it.                         *)
SlipClaim(p) ==
  /\ job[p].pc = "claim"
  /\ row' = [row EXCEPT ![job[p].event] =
               [status |-> "PROCESSING", attempts |-> job[p].attempts + 1, stale |-> FALSE]]
  /\ Step(p, "handle")
  /\ UNCHANGED <<arrival, acked, commits>>

Claim(p) ==
  /\ job[p].pc = "claim"
  /\ IF Unchanged(p)
     THEN /\ row' = [row EXCEPT ![job[p].event] =
                       [status |-> "PROCESSING", attempts |-> @.attempts + 1, stale |-> FALSE]]
          /\ Step(p, "handle")
     ELSE /\ job' = [job EXCEPT ![p] = Ready("idle")]
          /\ UNCHANGED row
  /\ UNCHANGED <<arrival, acked, commits>>

(* processPayload: the handler's transaction commits, or it throws.        *)
Handle(p) ==
  /\ job[p].pc = "handle"
  /\ \/ commits' = [commits EXCEPT ![job[p].event] = @ + 1] /\ Step(p, "processed")
     \/ UNCHANGED commits /\ Step(p, "failed")
  /\ UNCHANGED <<row, arrival, acked>>

(* The outcome is written without a look at the row's status.              *)
Mark(p, status) ==
  /\ row' = [row EXCEPT ![job[p].event].status = status, ![job[p].event].stale = FALSE]
  /\ job' = [job EXCEPT ![p] = Ready("idle")]
  /\ UNCHANGED <<arrival, acked, commits>>

MarkProcessed(p) == job[p].pc = "processed" /\ Mark(p, "PROCESSED")

MarkFailed(p) == job[p].pc = "failed" /\ Mark(p, "FAILED")

(* Writing PROCESSED fails: the catch block writes FAILED.                 *)
MarkFails(p) ==
  /\ Faults
  /\ job[p].pc = "processed"
  /\ Step(p, "failed")
  /\ UNCHANGED <<row, arrival, acked, commits>>

(***************************************************************************)
(* Crashes, restarts and time.                                             *)
(***************************************************************************)
Crash(p) ==
  /\ Faults
  /\ job[p].pc # "down"
  /\ job' = [job EXCEPT ![p] = Ready("down")]
  /\ UNCHANGED <<row, arrival, acked, commits>>

(* Slip: a start takes back every event that is PROCESSING.                *)
SlipOnModuleInit(p) ==
  /\ job[p].pc = "down"
  /\ row' = [e \in EventIds |->
               IF row[e].status = "PROCESSING"
               THEN [row[e] EXCEPT !.status = "RECEIVED", !.stale = FALSE] ELSE row[e]]
  /\ job' = [job EXCEPT ![p] = Ready("idle")]
  /\ UNCHANGED <<arrival, acked, commits>>

(* A starting instance takes back what has been PROCESSING for five        *)
(* minutes.                                                                *)
onModuleInit(p) ==
  /\ job[p].pc = "down"
  /\ row' = [e \in EventIds |->
               IF row[e].status = "PROCESSING" /\ row[e].stale
               THEN [row[e] EXCEPT !.status = "RECEIVED", !.stale = FALSE] ELSE row[e]]
  /\ job' = [job EXCEPT ![p] = Ready("idle")]
  /\ UNCHANGED <<arrival, acked, commits>>

FiveMinutesPass(e) ==
  /\ row[e].status = "PROCESSING" /\ ~row[e].stale
  /\ SlowHandlers \/ \A p \in Processors : ~Works(p, e)
  /\ row' = [row EXCEPT ![e].stale = TRUE]
  /\ UNCHANGED <<arrival, acked, job, commits>>

(***************************************************************************)
(* The specification.                                                      *)
(***************************************************************************)
Init ==
  /\ row = [e \in EventIds |-> [status |-> "NONE", attempts |-> 0, stale |-> FALSE]]
  /\ arrival = <<>>
  /\ acked = {}
  /\ job = [p \in Processors |-> Ready("down")]
  /\ commits = [e \in EventIds |-> 0]

drainOnce(p) == Find(p) \/ Claim(p) \/ Handle(p) \/ MarkProcessed(p) \/ MarkFailed(p)

Next ==
  \/ \E e \in EventIds : ingest(e) \/ FiveMinutesPass(e)
  \/ \E p \in Processors : drainOnce(p) \/ MarkFails(p) \/ Crash(p) \/ onModuleInit(p)

Spec == Init /\ [][Next]_vars

(* The timer calls drainOnce every 500 ms, and an instance that is down is *)
(* started.  The provider need not deliver; nothing has to fail.           *)
Fairness == \A p \in Processors : WF_vars(drainOnce(p)) /\ WF_vars(onModuleInit(p))

FairSpec == Spec /\ Fairness

(***************************************************************************)
(* Properties.                                                             *)
(***************************************************************************)

(* Rows and jobs have their shape, a job past findFirst has an event, and  *)
(* one about to claim it found it due.                                     *)
TypeOK ==
  /\ row \in [EventIds -> Row]
  /\ arrival \in Seq(EventIds)
  /\ acked \subseteq EventIds
  /\ job \in [Processors -> Job]
  /\ \A p \in Processors : job[p].pc \notin {"down", "idle"} => job[p].event \in EventIds
  /\ \A p \in Processors : job[p].pc = "claim" =>
       job[p].status \in {"RECEIVED", "FAILED"} /\ job[p].attempts < MaxAttempts
  /\ commits \in [EventIds -> Nat]

(* The effect of an event is applied at most as often as the event was     *)
(* claimed, and never more than MaxAttempts times: attempts are charged    *)
(* before the handler runs, so a crash cannot make a poisonous event loop. *)
CommitsWithinAttempts ==
  \A e \in EventIds :
    commits[e] + Cardinality({p \in Processors : job[p].event = e /\ job[p].pc = "handle"})
      <= row[e].attempts

(* Two instances never work on one event at the same time, although a      *)
(* starting one takes over what a dead one left.                           *)
OneWorker ==
  \A p, q \in Processors : \A e \in EventIds : Works(p, e) /\ Works(q, e) => p = q

(* An event that is PROCESSED is never handled again: the mark is final,   *)
(* whatever a second instance had found before.                            *)
ProcessedIsFinal ==
  [][\A e \in EventIds : row[e].status = "PROCESSED" =>
       row'[e] = row[e] /\ commits'[e] = commits[e]]_vars

(* A single processor applies events in the order in which they arrived:   *)
(* when one takes effect, every older one is done, has spent its attempts  *)
(* or was left PROCESSING by a crash.                                      *)
InOrder ==
  [][\A d, e \in EventIds : commits'[e] # commits[e] /\ Older(d, e) => ~Due(d)]_vars

(* Every event the provider was told is accepted is processed, or has      *)
(* spent its attempts.                                                     *)
AcceptedIsSettled ==
  \A e \in EventIds :
    e \in acked ~> \/ row[e].status = "PROCESSED"
                   \/ row[e].status = "FAILED" /\ row[e].attempts = MaxAttempts

=============================================================================
