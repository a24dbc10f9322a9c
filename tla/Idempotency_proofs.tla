------------------------- MODULE Idempotency_proofs -------------------------
(***************************************************************************)
(* Theorems about Idempotency.  The record's body is fixed by the call     *)
(* that created it whatever the timing; what a key promises its clients    *)
(* holds as long as no operation outlives the two minutes of its lock.     *)
(***************************************************************************)
EXTENDS Idempotency, TLAPS

(* TypeOK is inductive: every statement leaves the record and the calls    *)
(* well formed.                                                            *)
LEMMA TypeNext == TypeOK /\ [Next]_vars => TypeOK'
<1> SUFFICES ASSUME TypeOK, [Next]_vars PROVE TypeOK'
  OBVIOUS
<1> USE DEF TypeOK
<1>1. ASSUME NEW c \in Calls, execute(c) PROVE TypeOK'
  <2>0. BodyOf[c] \in Bodies /\ {"ok", "error"} \X {c} \subseteq Results
    BY DEF Bodies, Results
  <2>1. CASE Create(c)
    <3>1. record' \in Record
      <4>1. \/ record' = record
            \/ record' = [status |-> "IN_PROGRESS", body |-> BodyOf[c],
                          result |-> NoResult, stale |-> FALSE]
        BY <2>1 DEF Create
      <4>2. [status |-> "IN_PROGRESS", body |-> BodyOf[c],
             result |-> NoResult, stale |-> FALSE] \in Record
        <5>1. BodyOf[c] \in Bodies \cup {NoBody} /\ NoResult \in Results \cup {NoResult}
          BY <2>0
        <5> QED
          BY <5>1, Zenon DEF Record
      <4> QED
        BY <4>1, <4>2
    <3>2. \E pc \in {"operation", "read"} : Goto(c, pc)
      BY <2>1 DEF Create
    <3>3. call' \in [Calls -> Call] /\ UNCHANGED <<answer, effects>>
      BY <2>1, <3>2 DEF Create, Goto, Call
    <3> QED
      BY <3>1, <3>2, <3>3 DEF Goto
  <2>2. CASE Read(c)
    BY <2>2 DEF Read, At, Goto, Ends, Record, Call
  <2>3. CASE Reclaim(c)
    <3>1. record' \in Record
      BY <2>3 DEF Reclaim, Record
    <3>2. \E pc \in {"operation", "end"} : Goto(c, pc)
      BY <2>3 DEF Reclaim, Ends
    <3>3. call' \in [Calls -> Call] /\ effects' = effects
      BY <2>3, <3>2 DEF Reclaim, Goto, Call
    <3>4. answer' \in [Calls -> Results \cup {NoResult, Refused}]
      BY <2>3 DEF Reclaim, Ends
    <3> QED
      BY <3>1, <3>2, <3>3, <3>4 DEF Goto
  <2>4. CASE Operation(c)
    <3>1. \E r \in Results, pc \in {"complete", "fail"} :
            call' = [call EXCEPT ![c] = [pc |-> pc, result |-> r]]
      BY <2>0, <2>4 DEF Operation, Results
    <3>2. call' \in [Calls -> Call]
      BY <3>1 DEF Call
    <3>3. effects' \subseteq Calls /\ UNCHANGED <<record, answer>>
      BY <2>4 DEF Operation
    <3> QED
      BY <3>1, <3>2, <3>3
  <2>5. CASE Complete(c)
    BY <2>5 DEF Complete, Finish, At, Goto, Ends, Record, Call
  <2>6. CASE Fail(c)
    BY <2>6 DEF Fail, Finish, At, Goto, Ends, Record, Call
  <2> QED
    BY <1>1, <2>1, <2>2, <2>3, <2>4, <2>5, <2>6 DEF execute
<1>2. ASSUME NEW c \in Calls, CompleteFails(c) PROVE TypeOK'
  <2>1. <<"error", c>> \in Results
    BY DEF Results
  <2> QED
    BY <1>2, <2>1 DEF CompleteFails, At, Call
<1>3. ASSUME NEW c \in Calls, FailFails(c) \/ Die(c) PROVE TypeOK'
  BY <1>3 DEF FailFails, Die, At, Goto, Ends, Call
<1>4. CASE TwoMinutesPass
  BY <1>4 DEF TwoMinutesPass, Record
<1>5. CASE UNCHANGED vars
  BY <1>5 DEF vars
<1> QED
  BY <1>1, <1>2, <1>3, <1>4, <1>5 DEF Next

LEMMA TypeInit == Init => TypeOK
  BY DEF Init, TypeOK, Record, Call

(* The record and the calls are well formed in every reachable state.      *)
THEOREM TypeCorrect == Spec => []TypeOK
<1> QED
  BY TypeInit, TypeNext, PTL DEF Spec

(***************************************************************************)
(* One body.  Past the comparison of the bodies a call has the body of the *)
(* record, and a record that exists keeps its body.                        *)
(***************************************************************************)
Compared(c) == call[c].pc \in {"reclaim", "operation", "complete", "fail"}

(* A call past the comparison, or one whose operation took effect, has the *)
(* body of the record; without a record nobody is past the insertion.      *)
BodyInv ==
  /\ \A c \in Calls : Compared(c) \/ c \in effects => BodyOf[c] = record.body
  /\ record.status = "NONE" =>
       record.body = NoBody /\ \A c \in Calls : call[c].pc = "create" /\ c \notin effects

LEMMA BodyNext == TypeOK /\ BodyInv /\ [Next]_vars => BodyInv'
<1> SUFFICES ASSUME TypeOK, BodyInv, [Next]_vars PROVE BodyInv'
  OBVIOUS
<1> USE DEF TypeOK, BodyInv, Compared
<1>1. ASSUME NEW c \in Calls, Create(c) PROVE BodyInv'
  BY <1>1 DEF Create, At, Goto, Call, Record
<1>2. ASSUME NEW c \in Calls, Read(c) \/ Reclaim(c) PROVE BodyInv'
  BY <1>2 DEF Read, Reclaim, At, Goto, Ends, Call, Record
<1>3. ASSUME NEW c \in Calls, Operation(c) PROVE BodyInv'
  BY <1>3 DEF Operation, At, Call
<1>4. ASSUME NEW c \in Calls, Complete(c) \/ Fail(c) PROVE BodyInv'
  BY <1>4 DEF Complete, Fail, Finish, At, Goto, Ends, Call, Record
<1>5. ASSUME NEW c \in Calls, CompleteFails(c) \/ FailFails(c) \/ Die(c) PROVE BodyInv'
  BY <1>5 DEF CompleteFails, FailFails, Die, At, Goto, Ends, Call
<1>6. CASE TwoMinutesPass
  BY <1>6 DEF TwoMinutesPass, Record
<1>7. CASE UNCHANGED vars
  BY <1>7 DEF vars
<1> QED
  BY <1>1, <1>2, <1>3, <1>4, <1>5, <1>6, <1>7 DEF Next, execute

LEMMA BodyInit == Init => BodyInv
  BY DEF Init, BodyInv, Compared

LEMMA BodyInvariant == Spec => [](TypeOK /\ BodyInv)
<1> QED
  BY TypeInit, TypeNext, BodyInit, BodyNext, PTL DEF Spec

(* Only calls with the record's body ever run the operation, even when     *)
(* operations outlive their lock and calls die.                            *)
THEOREM OneBodyRuns == Spec => []RunsOneBody
<1>1. BodyInv => RunsOneBody
  BY DEF BodyInv, RunsOneBody, Compared, Running
<1> QED
  BY <1>1, BodyInvariant, PTL

(***************************************************************************)
(* One outcome.  If no operation outlives its lock, the lock is stale only *)
(* when nobody runs, and the record is open as long as somebody does.      *)
(***************************************************************************)
LockInv ==
  /\ OneRunner
  /\ \A c \in Calls : Running(c) => record.status = "IN_PROGRESS" /\ ~record.stale
  /\ record.result = NoResult <=> record.status \in {"NONE", "IN_PROGRESS"}
  /\ \A c \in Calls : answer[c] # NoResult => call[c].pc = "end"

LEMMA LockNext ==
  ASSUME ~Slow
  PROVE  TypeOK /\ BodyInv /\ LockInv /\ [Next]_vars => LockInv'
<1> SUFFICES ASSUME TypeOK, BodyInv, LockInv, [Next]_vars PROVE LockInv'
  OBVIOUS
<1> USE DEF TypeOK, LockInv, OneRunner, Running
<1>1. ASSUME NEW c \in Calls, Create(c) PROVE LockInv'
  <2>1. CASE record.status = "NONE"
    <3>1. /\ record'.status = "IN_PROGRESS" /\ record'.result = NoResult /\ ~record'.stale
          /\ call' = [call EXCEPT ![c].pc = "operation"]
          /\ UNCHANGED answer
      BY <1>1, <2>1 DEF Create, Goto
    <3>2. \A d \in Calls : call[d].pc = "create"
      BY <2>1 DEF BodyInv
    <3>3. \A d \in Calls : d # c => call'[d] = call[d]
      BY <3>1
    <3>4. \A d \in Calls : answer'[d] = NoResult
      BY <3>1, <3>2
    <3> QED
      BY <3>1, <3>2, <3>3, <3>4
  <2>2. CASE record.status # "NONE"
    <3>1. record' = record /\ call' = [call EXCEPT ![c].pc = "read"] /\ answer' = answer
          /\ call[c].pc = "create"
      BY <1>1, <2>2 DEF Create, Goto, At
    <3>2. \A d \in Calls : d # c => call'[d] = call[d]
      BY <3>1
    <3>3. call'[c].pc = "read"
      BY <3>1 DEF Call
    <3> QED
      BY <3>1, <3>2, <3>3
  <2> QED
    BY <2>1, <2>2
<1>2. ASSUME NEW c \in Calls, Read(c) PROVE LockInv'
  BY <1>2 DEF Read, At, Goto, Ends, Call, Record
<1>3. ASSUME NEW c \in Calls, Reclaim(c) PROVE LockInv'
  <2>1. CASE record.status = "IN_PROGRESS" /\ record.stale
    <3>1. /\ record' = [record EXCEPT !.stale = FALSE]
          /\ call' = [call EXCEPT ![c].pc = "operation"]
          /\ UNCHANGED answer
          /\ call[c].pc = "reclaim"
      BY <1>3, <2>1 DEF Reclaim, Goto, At
    <3>2. \A d \in Calls : ~Running(d)
      BY <2>1
    <3>3. \A d \in Calls : Running(d)' => d = c
      BY <3>1, <3>2 DEF Call
    <3>4. record'.status = record.status /\ record'.result = record.result /\ ~record'.stale
      BY <3>1 DEF Record
    <3>5. \A d \in Calls : answer'[d] # NoResult => call'[d].pc = "end"
      BY <3>1 DEF Call
    <3> QED
      BY <2>1, <3>3, <3>4, <3>5
  <2>2. CASE ~(record.status = "IN_PROGRESS" /\ record.stale)
    BY <1>3, <2>2 DEF Reclaim, At, Goto, Ends, Call
  <2> QED
    BY <2>1, <2>2
<1>4. ASSUME NEW c \in Calls, Operation(c) PROVE LockInv'
  BY <1>4 DEF Operation, At, Call
<1>5. ASSUME NEW c \in Calls, Complete(c) \/ Fail(c) PROVE LockInv'
  <2>1. call[c].result # NoResult
    BY <1>5, CallsAssumption DEF Complete, Fail, At
  <2>2. /\ Running(c)
        /\ call' = [call EXCEPT ![c].pc = "end"]
        /\ answer' = [answer EXCEPT ![c] = call[c].result]
        /\ \E status \in {"COMPLETED", "FAILED"} :
             record' = [record EXCEPT !.status = status, !.result = call[c].result,
                                      !.stale = FALSE]
    BY <1>5 DEF Complete, Fail, Finish, At, Goto, Ends
  <2>3. record'.status \in {"COMPLETED", "FAILED"} /\ record'.result # NoResult
    BY <2>1, <2>2 DEF Record
  <2>4. \A d \in Calls : ~Running(d)'
    BY <2>2 DEF Call
  <2>5. \A d \in Calls : answer'[d] # NoResult => call'[d].pc = "end"
    BY <2>2 DEF Call
  <2> QED
    BY <2>3, <2>4, <2>5
<1>6. ASSUME NEW c \in Calls, CompleteFails(c) \/ FailFails(c) \/ Die(c) PROVE LockInv'
  BY <1>6 DEF CompleteFails, FailFails, Die, At, Goto, Ends, Call
<1>7. CASE TwoMinutesPass
  BY <1>7 DEF TwoMinutesPass, Record
<1>8. CASE UNCHANGED vars
  BY <1>8 DEF vars
<1> QED
  BY <1>1, <1>2, <1>3, <1>4, <1>5, <1>6, <1>7, <1>8 DEF Next, execute

LEMMA LockInit == Init => LockInv
  BY DEF Init, LockInv, OneRunner, Running

LEMMA LockInvariant ==
  ASSUME ~Slow
  PROVE  Spec => [](TypeOK /\ BodyInv /\ LockInv)
<1> QED
  BY TypeInit, TypeNext, BodyInit, BodyNext, LockInit, LockNext, PTL DEF Spec

(* Two operations of one key never run at the same time, although a retry  *)
(* takes over from a call that died, unless one outlives its lock.         *)
THEOREM OneRunnerAtATime ==
  ASSUME ~Slow
  PROVE  Spec => []OneRunner
<1>1. LockInv => OneRunner
  BY DEF LockInv
<1> QED
  BY <1>1, LockInvariant, PTL

(* Idempotency implements OncePerKey: one outcome per key, which every     *)
(* call with the key's body gets or is refused, under crashes and failed   *)
(* statements, unless an operation outlives its lock.                      *)
THEOREM ImplementsOncePerKey ==
  ASSUME ~Slow
  PROVE  Spec => OneOutcome
<1> USE DEF P!Init, P!Next, P!vars
<1>1. Init => P!Init
  BY DEF Init
<1>2. TypeOK /\ BodyInv /\ LockInv /\ [Next]_vars => [P!Next]_(P!vars)
  <2> SUFFICES ASSUME TypeOK, BodyInv, LockInv, [Next]_vars PROVE [P!Next]_(P!vars)
    OBVIOUS
  <2> USE DEF TypeOK, LockInv
  <2>1. ASSUME NEW c \in Calls, Create(c) PROVE P!Take(c) \/ UNCHANGED P!vars
    BY <2>1 DEF Create, BodyInv, P!Take
  <2>2. ASSUME NEW c \in Calls, Read(c) PROVE P!Repeat(c) \/ P!Refuse(c) \/ UNCHANGED P!vars
    BY <2>2 DEF Read, At, Ends, P!Repeat, P!Refuse
  <2>3. ASSUME NEW c \in Calls, Reclaim(c) PROVE P!Refuse(c) \/ UNCHANGED P!vars
    BY <2>3 DEF Reclaim, At, Ends, P!Refuse, Record
  <2>4. ASSUME NEW c \in Calls, Complete(c) \/ Fail(c)
        PROVE  \E r \in Results : P!Settle(c, r)
    <3>1. call[c].result \in Results /\ Running(c) /\ answer[c] = NoResult
      BY <2>4 DEF Complete, Fail, At, Running
    <3>2. BodyOf[c] = record.body /\ record.result = NoResult
      BY <3>1 DEF BodyInv, Compared, Running
    <3>3. record' = [record EXCEPT !.status = record'.status, !.result = call[c].result,
                                   !.stale = FALSE]
          /\ answer' = [answer EXCEPT ![c] = call[c].result]
      BY <2>4 DEF Complete, Fail, Finish, Ends, Record
    <3> QED
      BY <3>1, <3>2, <3>3 DEF P!Settle, Record
  <2>5. ASSUME NEW c \in Calls, FailFails(c) PROVE P!Refuse(c)
    BY <2>5 DEF FailFails, At, Ends, P!Refuse
  <2>6. ASSUME NEW c \in Calls, Operation(c) \/ CompleteFails(c) \/ Die(c)
        PROVE  UNCHANGED P!vars
    BY <2>6 DEF Operation, CompleteFails, Die
  <2>7. CASE TwoMinutesPass
    BY <2>7 DEF TwoMinutesPass, Record
  <2>8. CASE UNCHANGED vars
    BY <2>8 DEF vars
  <2> QED
    BY <2>1, <2>2, <2>3, <2>4, <2>5, <2>6, <2>7, <2>8 DEF Next, execute
<1> QED
  BY <1>1, <1>2, LockInvariant, PTL DEF Spec, OneOutcome, P!Spec

=============================================================================
