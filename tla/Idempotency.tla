----------------------------- MODULE Idempotency -----------------------------
(***************************************************************************)
(* IdempotencyService.execute: concurrent calls with one key (one actor,   *)
(* method, path and Idempotency-Key; other keys have records of their own) *)
(* and the record they share.  Each statement on the IdempotencyRecord     *)
(* table is one step; the operation is opaque: it takes effect and answers,*)
(* or throws.                                                              *)
(*                                                                         *)
(* A definition whose name begins with Slip is not the code: it is the     *)
(* definition after it with a plausible bug.                               *)
(***************************************************************************)
EXTENDS Integers, FiniteSets

CONSTANTS
  Calls,     \* the calls clients make with the key, retries included
  BodyOf,    \* the request body of each call
  NoBody,    \* no body: the key has no record
  NoResult,  \* not answered
  Refused,   \* a conflict, or a failure nothing is known of
  Faults,    \* TRUE: a call may die, a statement may fail
  Slow       \* TRUE: an operation may run for more than two minutes

Bodies == {BodyOf[c] : c \in Calls}

(* The result of an operation carries the call that ran it: the ids of the *)
(* rows it created, the time, the error it met.                            *)
Results == {"ok", "error"} \X Calls

ASSUME CallsAssumption ==
  /\ NoBody \notin Bodies
  /\ NoResult \notin Results
  /\ {Faults, Slow} \subseteq BOOLEAN

VARIABLES
  record,   \* the IdempotencyRecord
  call,     \* each call's step, and the result of the operation it ran
  answer,   \* what execute returned or threw to each call
  effects   \* the calls whose operation took effect (history)

vars == <<record, call, answer, effects>>

(* stale: lockedAt is more than two minutes ago.                           *)
Record == [status : {"NONE", "IN_PROGRESS", "COMPLETED", "FAILED"},
           body : Bodies \cup {NoBody}, result : Results \cup {NoResult}, stale : BOOLEAN]

Call == [pc : {"create", "read", "reclaim", "operation", "complete", "fail", "end"},
         result : Results \cup {NoResult}]

Goto(c, pc) == call' = [call EXCEPT ![c].pc = pc]
At(c, pc) == call[c].pc = pc
Running(c) == call[c].pc \in {"operation", "complete", "fail"}

Ends(c, r) ==
  /\ Goto(c, "end")
  /\ answer' = [answer EXCEPT ![c] = r]

(* Insert the record, or find that the unique index has one.               *)
Create(c) ==
  /\ At(c, "create")
  /\ IF record.status = "NONE"
     THEN /\ record' = [status |-> "IN_PROGRESS", body |-> BodyOf[c],
                        result |-> NoResult, stale |-> FALSE]
          /\ Goto(c, "operation")
     ELSE Goto(c, "read") /\ UNCHANGED record
  /\ UNCHANGED <<answer, effects>>

(* Slip: the body of a request still in progress is not compared.          *)
SlipRead(c) ==
  /\ At(c, "read")
  /\ \/ record.status = "IN_PROGRESS" /\ Goto(c, "reclaim") /\ UNCHANGED answer
     \/ record.status # "IN_PROGRESS" /\ record.body # BodyOf[c] /\ Ends(c, Refused)
     \/ record.status # "IN_PROGRESS" /\ record.body = BodyOf[c] /\ Ends(c, record.result)
  /\ UNCHANGED <<record, effects>>

(* Another body is refused; a finished request is replayed, its failure    *)
(* too; one in progress may be reclaimed.                                  *)
Read(c) ==
  /\ At(c, "read")
  /\ \/ record.body # BodyOf[c] /\ Ends(c, Refused)
     \/ /\ record.body = BodyOf[c]
        /\ record.status \in {"COMPLETED", "FAILED"}
        /\ Ends(c, record.result)
     \/ /\ record.body = BodyOf[c]
        /\ record.status = "IN_PROGRESS"
        /\ Goto(c, "reclaim")
        /\ UNCHANGED answer
  /\ UNCHANGED <<record, effects>>

(* Slips: the age of the lock is not asked; the lock is not renewed.       *)
SlipReclaimYoung(c) ==
  /\ At(c, "reclaim")
  /\ IF record.status = "IN_PROGRESS"
     THEN record' = [record EXCEPT !.stale = FALSE] /\ Goto(c, "operation") /\ UNCHANGED answer
     ELSE Ends(c, Refused) /\ UNCHANGED record
  /\ UNCHANGED effects

SlipReclaimUnlocked(c) ==
  /\ At(c, "reclaim")
  /\ IF record.status = "IN_PROGRESS" /\ record.stale
     THEN Goto(c, "operation") /\ UNCHANGED answer
     ELSE Ends(c, Refused)
  /\ UNCHANGED <<record, effects>>

(* updateMany over a lock older than two minutes, which it renews.         *)
Reclaim(c) ==
  /\ At(c, "reclaim")
  /\ IF record.status = "IN_PROGRESS" /\ record.stale
     THEN /\ record' = [record EXCEPT !.stale = FALSE]
          /\ Goto(c, "operation")
          /\ UNCHANGED answer
     ELSE Ends(c, Refused) /\ UNCHANGED record
  /\ UNCHANGED effects

(* Slip: an error that is no HTTP error is not turned into a response.      *)
SlipOperation(c) ==
  /\ At(c, "operation")
  /\ \/ /\ call' = [call EXCEPT ![c] = [pc |-> "complete", result |-> <<"ok", c>>]]
        /\ effects' = effects \cup {c}
     \/ Goto(c, "fail") /\ UNCHANGED effects
  /\ UNCHANGED <<record, answer>>

Operation(c) ==
  /\ At(c, "operation")
  /\ \/ /\ call' = [call EXCEPT ![c] = [pc |-> "complete", result |-> <<"ok", c>>]]
        /\ effects' = effects \cup {c}
     \/ /\ call' = [call EXCEPT ![c] = [pc |-> "fail", result |-> <<"error", c>>]]
        /\ UNCHANGED effects
  /\ UNCHANGED <<record, answer>>

(* The record is written by its key, whoever holds the lock by now.        *)
Finish(c, status) ==
  /\ record' = [record EXCEPT !.status = status, !.result = call[c].result, !.stale = FALSE]
  /\ Ends(c, call[c].result)
  /\ UNCHANGED effects

Complete(c) == At(c, "complete") /\ Finish(c, "COMPLETED")

Fail(c) == At(c, "fail") /\ Finish(c, "FAILED")

(* Recording the result fails: the catch block records an internal error.  *)
CompleteFails(c) ==
  /\ Faults
  /\ At(c, "complete")
  /\ call' = [call EXCEPT ![c] = [pc |-> "fail", result |-> <<"error", c>>]]
  /\ UNCHANGED <<record, answer, effects>>

(* Recording the failure fails: the error of the statement is thrown.      *)
FailFails(c) ==
  /\ Faults
  /\ At(c, "fail")
  /\ Ends(c, Refused)
  /\ UNCHANGED <<record, effects>>

(* The process dies and answers nothing.                                   *)
Die(c) ==
  /\ Faults
  /\ call[c].pc \notin {"create", "end"}
  /\ Goto(c, "end")
  /\ UNCHANGED <<record, answer, effects>>

TwoMinutesPass ==
  /\ record.status = "IN_PROGRESS" /\ ~record.stale
  /\ Slow \/ \A c \in Calls : ~Running(c)
  /\ record' = [record EXCEPT !.stale = TRUE]
  /\ UNCHANGED <<call, answer, effects>>

Init ==
  /\ record = [status |-> "NONE", body |-> NoBody, result |-> NoResult, stale |-> FALSE]
  /\ call = [c \in Calls |-> [pc |-> "create", result |-> NoResult]]
  /\ answer = [c \in Calls |-> NoResult]
  /\ effects = {}

execute(c) ==
  Create(c) \/ Read(c) \/ Reclaim(c) \/ Operation(c) \/ Complete(c) \/ Fail(c)

Next ==
  \/ \E c \in Calls : execute(c) \/ CompleteFails(c) \/ FailFails(c) \/ Die(c)
  \/ TwoMinutesPass

Spec == Init /\ [][Next]_vars

(***************************************************************************)
(* Properties.                                                             *)
(***************************************************************************)

(* The record and the calls have their shape; a call about to record has a *)
(* result.                                                                 *)
TypeOK ==
  /\ record \in Record
  /\ call \in [Calls -> Call]
  /\ answer \in [Calls -> Results \cup {NoResult, Refused}]
  /\ effects \subseteq Calls
  /\ \A c \in Calls : call[c].pc \in {"complete", "fail"} => call[c].result \in Results

(* Idempotent mutations: the operation of one key takes effect once.       *)
TakesEffectOnce == \A c, d \in effects : c = d

(* Never two operations of one key at a time, although a retry may reclaim *)
(* the key of a call that died.                                            *)
OneRunner == \A c, d \in Calls : Running(c) /\ Running(d) => c = d

(* Only calls with the body the key was taken for ever run the operation,  *)
(* even when they reclaim it or finish after one another.                  *)
RunsOneBody == \A c \in Calls : Running(c) \/ c \in effects => BodyOf[c] = record.body

(* The record keeps the promise of OncePerKey to every client.             *)
P == INSTANCE OncePerKey WITH
       body <- record.body, outcome <- record.result, reply <- answer
OneOutcome == P!Spec

=============================================================================
