------------------------- MODULE WebhookInbox_proofs -------------------------
(***************************************************************************)
(* Theorems about WebhookInbox, for any number of events, instances and    *)
(* attempts, under crashes and failing statements.                         *)
(***************************************************************************)
EXTENDS WebhookInbox, FiniteSetTheorems, TLAPS

(***************************************************************************)
(* Types.                                                                  *)
(***************************************************************************)
LEMMA ReadyType ==
  \A pc \in {"down", "idle"} : Ready(pc) \in Job /\ Ready(pc).pc = pc
<1>1. 0 \in 0..MaxAttempts
  BY InboxAssumption
<1> QED
  BY <1>1 DEF Ready, Job, RowStatus

LEMMA TypeInit == Init => TypeOK
<1> SUFFICES ASSUME Init PROVE TypeOK
  OBVIOUS
<1>1. row \in [EventIds -> Row]
  BY InboxAssumption DEF Init, Row, RowStatus
<1>2. job \in [Processors -> Job] /\ \A p \in Processors : job[p].pc = "down"
  BY ReadyType DEF Init
<1> QED
  BY <1>1, <1>2 DEF Init, TypeOK

(* Every step of a processor keeps the types: it sets its own job, and     *)
(* changes at most the row of its event.                                   *)
LEMMA TypeDrain ==
  ASSUME TypeOK, NEW p \in Processors, drainOnce(p) \/ MarkFails(p)
  PROVE  TypeOK'
<1> USE DEF TypeOK
<1>1. CASE Find(p)
  <2>1. PICK e \in EventIds :
          /\ Due(e)
          /\ job' = [job EXCEPT ![p] = [pc |-> "claim", event |-> e,
                       status |-> row[e].status, attempts |-> row[e].attempts]]
    BY <1>1 DEF Find
  <2>2. row[e].status \in {"RECEIVED", "FAILED"} /\ row[e].attempts < MaxAttempts
        /\ row[e].attempts \in 0..MaxAttempts
    BY <2>1 DEF Due, Row
  <2>3. [pc |-> "claim", event |-> e, status |-> row[e].status,
         attempts |-> row[e].attempts] \in Job
    BY <2>2 DEF Job, RowStatus
  <2> QED
    BY <1>1, <2>1, <2>2, <2>3 DEF Find
<1>2. CASE Claim(p)
  <2>1. job[p].event \in EventIds /\ job[p].attempts < MaxAttempts
    BY <1>2 DEF Claim
  <2>2. CASE Unchanged(p)
    <3> DEFINE e == job[p].event
               claimed == [status |-> "PROCESSING", attempts |-> row[e].attempts + 1,
                           stale |-> FALSE]
    <3>1. row[e].attempts \in 0..MaxAttempts /\ row[e].attempts < MaxAttempts
      BY <2>1, <2>2 DEF Unchanged, Row
    <3>2. claimed \in Row
      BY <3>1, InboxAssumption DEF Row, RowStatus
    <3>3. row' = [row EXCEPT ![e] = claimed]
      BY <1>2, <2>2 DEF Claim
    <3>4. job' = [job EXCEPT ![p].pc = "handle"]
      BY <1>2, <2>2 DEF Claim, Step
    <3>5. job' \in [Processors -> Job]
      <4>1. [job[p] EXCEPT !.pc = "handle"] \in Job
        BY DEF Job
      <4> QED
        BY <3>4, <4>1
    <3>6. row' \in [EventIds -> Row]
      BY <3>2, <3>3
    <3>7. job'[p].pc = "handle" /\ job'[p].event = job[p].event
          /\ \A q \in Processors : q # p => job'[q] = job[q]
      BY <3>4 DEF Job
    <3> QED
      BY <1>2, <2>1, <3>5, <3>6, <3>7 DEF Claim
  <2>3. CASE ~Unchanged(p)
    BY <1>2, <2>3, ReadyType DEF Claim
  <2> QED
    BY <2>2, <2>3
<1>3. CASE Handle(p) \/ MarkFails(p)
  <2>1. \E pc \in {"processed", "failed"} : job' = [job EXCEPT ![p].pc = pc]
    BY <1>3 DEF Handle, MarkFails, Step
  <2>2. job' \in [Processors -> Job] /\ job[p].event \in EventIds
    <3>1. PICK pc \in {"processed", "failed"} : job' = [job EXCEPT ![p].pc = pc]
      BY <2>1
    <3>2. [job[p] EXCEPT !.pc = pc] \in Job
      BY DEF Job
    <3>3. job[p].pc \notin {"down", "idle"}
      BY <1>3 DEF Handle, MarkFails
    <3> QED
      BY <3>1, <3>2, <3>3
  <2>3. UNCHANGED <<row, arrival, acked>> /\ commits' \in [EventIds -> Nat]
    BY <1>3, <2>2 DEF Handle, MarkFails
  <2> QED
    BY <2>1, <2>2, <2>3 DEF Job
<1>4. CASE MarkProcessed(p) \/ MarkFailed(p)
  <2>1. PICK s \in {"PROCESSED", "FAILED"} : Mark(p, s)
    BY <1>4 DEF MarkProcessed, MarkFailed
  <2>2. row' \in [EventIds -> Row]
    <3>1. [row[job[p].event] EXCEPT !.status = s, !.stale = FALSE] \in Row
          \/ job[p].event \notin EventIds
      BY DEF Row, RowStatus
    <3>2. row' = [row EXCEPT ![job[p].event] = [@ EXCEPT !.status = s, !.stale = FALSE]]
      BY <2>1 DEF Mark
    <3> QED
      BY <3>1, <3>2
  <2> QED
    BY <2>1, <2>2, ReadyType DEF Mark
<1> QED
  BY <1>1, <1>2, <1>3, <1>4 DEF drainOnce

LEMMA TypeNext == TypeOK /\ [Next]_vars => TypeOK'
<1> SUFFICES ASSUME TypeOK, [Next]_vars PROVE TypeOK'
  OBVIOUS
<1>1. ASSUME NEW e \in EventIds, ingest(e) PROVE TypeOK'
  <2>1. row' = row \/ row' = [row EXCEPT ![e].status = "RECEIVED"]
    BY <1>1 DEF ingest
  <2>2. row' \in [EventIds -> Row]
    <3>1. row \in [EventIds -> Row] /\ row[e] \in Row
      BY DEF TypeOK
    <3>2. [row[e] EXCEPT !.status = "RECEIVED"] \in Row
      BY <3>1 DEF Row, RowStatus
    <3> QED
      BY <2>1, <3>1, <3>2
  <2>3. arrival' = arrival \/ arrival' = Append(arrival, e)
    BY <1>1 DEF ingest
  <2>4. arrival' \in Seq(EventIds)
    <3>1. arrival \in Seq(EventIds)
      BY DEF TypeOK
    <3>2. Append(arrival, e) \in Seq(EventIds)
      BY <3>1
    <3> QED
      BY <2>3, <3>1, <3>2
  <2>5. acked' \subseteq EventIds /\ UNCHANGED <<job, commits>>
    BY <1>1 DEF ingest, TypeOK
  <2> QED
    BY <2>2, <2>4, <2>5 DEF TypeOK
<1>2. ASSUME NEW e \in EventIds, FiveMinutesPass(e) PROVE TypeOK'
  <2>1. row' \in [EventIds -> Row]
    BY <1>2 DEF FiveMinutesPass, TypeOK, Row
  <2> QED
    BY <1>2, <2>1 DEF FiveMinutesPass, TypeOK
<1>3. ASSUME NEW p \in Processors, Crash(p) \/ onModuleInit(p) PROVE TypeOK'
  <2>1. row' \in [EventIds -> Row]
    <3>1. row \in [EventIds -> Row]
      BY DEF TypeOK
    <3>2. \A e \in EventIds : [row[e] EXCEPT !.status = "RECEIVED", !.stale = FALSE] \in Row
      BY <3>1 DEF Row, RowStatus
    <3>3. CASE Crash(p)
      BY <3>1, <3>3 DEF Crash
    <3>4. CASE onModuleInit(p)
      BY <3>1, <3>2, <3>4 DEF onModuleInit
    <3> QED
      BY <1>3, <3>3, <3>4
  <2>2. \E pc \in {"down", "idle"} : job' = [job EXCEPT ![p] = Ready(pc)]
    BY <1>3 DEF Crash, onModuleInit
  <2> QED
    BY <1>3, <2>1, <2>2, ReadyType DEF Crash, onModuleInit, TypeOK
<1>4. CASE UNCHANGED vars
  BY <1>4 DEF vars, TypeOK
<1> QED
  BY <1>1, <1>2, <1>3, <1>4, TypeDrain DEF Next

(* Rows, jobs and counters are well formed in every reachable state.       *)
THEOREM TypeCorrect == Spec => []TypeOK
<1> QED
  BY TypeInit, TypeNext, PTL DEF Spec

(***************************************************************************)
(* What a step of a processor leaves of the jobs and of the rows.          *)
(***************************************************************************)
LEMMA JobAfter ==
  ASSUME TypeOK, NEW p \in Processors
  PROVE  /\ Find(p) => job'[p].pc = "claim"
         /\ Claim(p) /\ Unchanged(p) =>
              job'[p].pc = "handle" /\ job'[p].event = job[p].event
         /\ Claim(p) /\ ~Unchanged(p) => job'[p].pc = "idle"
         /\ Handle(p) \/ MarkFails(p) =>
              job'[p].pc \in {"processed", "failed"} /\ job'[p].event = job[p].event
         /\ MarkProcessed(p) \/ MarkFailed(p) => job'[p].pc = "idle"
         /\ Crash(p) \/ onModuleInit(p) => job'[p].pc \in {"down", "idle"}
<1>0. job \in [Processors -> Job] /\ job[p] \in Job
  BY DEF TypeOK
<1>1. Find(p) => job'[p].pc = "claim"
  BY <1>0 DEF Find
<1>2. Claim(p) /\ Unchanged(p) =>
        job'[p].pc = "handle" /\ job'[p].event = job[p].event
  BY <1>0 DEF Claim, Step, Job
<1>3. Claim(p) /\ ~Unchanged(p) => job'[p].pc = "idle"
  BY <1>0 DEF Claim, Ready
<1>4. Handle(p) \/ MarkFails(p) =>
        job'[p].pc \in {"processed", "failed"} /\ job'[p].event = job[p].event
  BY <1>0 DEF Handle, MarkFails, Step, Job
<1>5. MarkProcessed(p) \/ MarkFailed(p) => job'[p].pc = "idle"
  BY <1>0 DEF MarkProcessed, MarkFailed, Mark, Ready
<1>6. Crash(p) \/ onModuleInit(p) => job'[p].pc \in {"down", "idle"}
  <2>1. Crash(p) \/ onModuleInit(p) =>
          \E pc \in {"down", "idle"} : job' = [job EXCEPT ![p] = Ready(pc)]
    BY DEF Crash, onModuleInit
  <2> QED
    BY <1>0, <2>1 DEF Ready
<1> QED
  BY <1>1, <1>2, <1>3, <1>4, <1>5, <1>6

LEMMA OthersKeep ==
  ASSUME TypeOK, NEW p \in Processors,
         drainOnce(p) \/ MarkFails(p) \/ Crash(p) \/ onModuleInit(p)
  PROVE  \A q \in Processors : q # p => job'[q] = job[q]
<1>0. job \in [Processors -> Job]
  BY DEF TypeOK
<1>1. \E j : job' = [job EXCEPT ![p] = j]
  <2>1. CASE Find(p)
    BY <2>1 DEF Find
  <2>2. CASE Claim(p)
    BY <2>2 DEF Claim, Step
  <2>3. CASE Handle(p) \/ MarkFails(p)
    BY <2>3 DEF Handle, MarkFails, Step
  <2>4. CASE MarkProcessed(p) \/ MarkFailed(p)
    BY <2>4 DEF MarkProcessed, MarkFailed, Mark
  <2>5. CASE Crash(p) \/ onModuleInit(p)
    BY <2>5 DEF Crash, onModuleInit
  <2> QED
    BY <2>1, <2>2, <2>3, <2>4, <2>5 DEF drainOnce
<1> QED
  BY <1>0, <1>1

LEMMA AttemptsKept ==
  ASSUME TypeOK, NEW e \in EventIds, NEW p \in Processors,
         \/ Claim(p) /\ (~Unchanged(p) \/ job[p].event # e)
         \/ Find(p) \/ Handle(p) \/ MarkProcessed(p) \/ MarkFailed(p)
         \/ MarkFails(p) \/ Crash(p) \/ onModuleInit(p)
  PROVE  row'[e].attempts = row[e].attempts
<1>0. row \in [EventIds -> Row] /\ row[e] \in Row
  BY DEF TypeOK
<1>1. CASE Claim(p) /\ (~Unchanged(p) \/ job[p].event # e)
  BY <1>0, <1>1 DEF Claim
<1>2. CASE Find(p) \/ Handle(p) \/ MarkFails(p) \/ Crash(p)
  BY <1>2 DEF Find, Handle, MarkFails, Crash
<1>3. CASE MarkProcessed(p) \/ MarkFailed(p)
  <2>1. PICK s \in RowStatus : Mark(p, s)
    BY <1>3 DEF MarkProcessed, MarkFailed, RowStatus
  <2> QED
    BY <1>0, <2>1 DEF Mark, Row
<1>4. CASE onModuleInit(p)
  BY <1>0, <1>4 DEF onModuleInit, Row
<1> QED
  BY <1>1, <1>2, <1>3, <1>4

(***************************************************************************)
(* Attempts.                                                               *)
(***************************************************************************)
Handling(e) == {p \in Processors : job[p].event = e /\ job[p].pc = "handle"}

LEMMA HandlingFinite ==
  \A e : IsFiniteSet(Handling(e)) /\ Cardinality(Handling(e)) \in Nat
  BY InboxAssumption, FS_Subset, FS_CardinalityType DEF Handling

(* A step that leaves the rows' attempts and the commits of an event alone *)
(* and puts no processor to handling it keeps the bound.                   *)
LEMMA FewerHandling ==
  ASSUME TypeOK, NEW e \in EventIds, Handling(e)' \subseteq Handling(e),
         commits'[e] = commits[e], row'[e].attempts = row[e].attempts,
         commits[e] + Cardinality(Handling(e)) <= row[e].attempts
  PROVE  commits'[e] + Cardinality(Handling(e)') <= row'[e].attempts
<1>1. /\ Cardinality(Handling(e)') <= Cardinality(Handling(e))
      /\ Cardinality(Handling(e)') \in Nat /\ Cardinality(Handling(e)) \in Nat
  BY HandlingFinite, FS_Subset, FS_CardinalityType
<1>2. commits[e] \in Nat /\ row[e].attempts \in Nat
  BY InboxAssumption DEF TypeOK, Row
<1> QED
  BY <1>1, <1>2

LEMMA AttemptsNext ==
  TypeOK /\ CommitsWithinAttempts /\ [Next]_vars => CommitsWithinAttempts'
<1> SUFFICES ASSUME TypeOK, CommitsWithinAttempts, [Next]_vars, NEW e \in EventIds
             PROVE  commits'[e] + Cardinality(Handling(e)') <= row'[e].attempts
  BY DEF CommitsWithinAttempts, Handling
<1>0. commits[e] + Cardinality(Handling(e)) <= row[e].attempts
  BY DEF CommitsWithinAttempts, Handling
<1>1. ASSUME NEW p \in Processors, Claim(p), Unchanged(p), job[p].event = e
      PROVE  commits'[e] + Cardinality(Handling(e)') <= row'[e].attempts
  <2>1. row'[e].attempts = row[e].attempts + 1 /\ commits' = commits
    BY <1>1 DEF Claim, TypeOK
  <2>2. job' = [job EXCEPT ![p].pc = "handle"] /\ p \notin Handling(e)
    BY <1>1 DEF Claim, Step, Handling
  <2>3. Handling(e)' = Handling(e) \cup {p}
    BY <1>1, <2>2 DEF Handling, TypeOK, Job
  <2>4. Cardinality(Handling(e)') = Cardinality(Handling(e)) + 1
    BY <2>2, <2>3, HandlingFinite, FS_AddElement
  <2>5. commits[e] \in Nat /\ row[e].attempts \in Nat /\ Cardinality(Handling(e)) \in Nat
    BY HandlingFinite, InboxAssumption DEF TypeOK, Row
  <2> QED
    BY <1>0, <2>1, <2>4, <2>5
<1>2. ASSUME NEW p \in Processors, Handle(p), job[p].event = e
      PROVE  commits'[e] + Cardinality(Handling(e)') <= row'[e].attempts
  <2>1. row' = row /\ commits'[e] <= commits[e] + 1 /\ commits'[e] \in Nat
    BY <1>2 DEF Handle, TypeOK
  <2>2. p \in Handling(e) /\ Handling(e)' = Handling(e) \ {p}
    BY <1>2 DEF Handle, Step, Handling, TypeOK, Job
  <2>3. Cardinality(Handling(e)') = Cardinality(Handling(e)) - 1
    BY <2>2, HandlingFinite, FS_RemoveElement
  <2>4. commits[e] \in Nat /\ row[e].attempts \in Nat /\ Cardinality(Handling(e)) \in Nat
    BY HandlingFinite, InboxAssumption DEF TypeOK, Row
  <2> QED
    BY <1>0, <2>1, <2>3, <2>4
<1>3. ASSUME NEW p \in Processors,
             \/ Claim(p) /\ (~Unchanged(p) \/ job[p].event # e)
             \/ Handle(p) /\ job[p].event # e
             \/ Find(p) \/ MarkProcessed(p) \/ MarkFailed(p)
             \/ MarkFails(p) \/ Crash(p) \/ onModuleInit(p)
      PROVE  /\ Handling(e)' \subseteq Handling(e)
             /\ commits'[e] = commits[e] /\ row'[e].attempts = row[e].attempts
  <2>1. \A q \in Processors : q # p => job'[q] = job[q]
    BY <1>3, OthersKeep DEF drainOnce
  <2>2. job'[p].event = e /\ job'[p].pc = "handle" => FALSE
    BY <1>3, JobAfter
  <2>3. row'[e].attempts = row[e].attempts
    BY <1>3, AttemptsKept
  <2>4. commits'[e] = commits[e]
    <3>1. CASE Handle(p) /\ job[p].event # e
      BY <3>1 DEF Handle, TypeOK
    <3>2. CASE ~Handle(p)
      BY <1>3, <3>2 DEF Claim, Find, MarkProcessed, MarkFailed, Mark, MarkFails, Crash,
                        onModuleInit
    <3> QED
      BY <1>3, <3>1, <3>2 DEF Handle, Claim, Find, MarkProcessed, MarkFailed, MarkFails,
                              Crash, onModuleInit
  <2> QED
    BY <2>1, <2>2, <2>3, <2>4 DEF Handling
<1>4. ASSUME NEW d \in EventIds, ingest(d) \/ FiveMinutesPass(d)
      PROVE  /\ Handling(e)' \subseteq Handling(e)
             /\ commits'[e] = commits[e] /\ row'[e].attempts = row[e].attempts
  <2>1. Handling(e)' = Handling(e) /\ commits' = commits
    BY <1>4 DEF ingest, FiveMinutesPass, Handling
  <2>2. row \in [EventIds -> Row] /\ row[e] \in Row
    BY DEF TypeOK
  <2>3. row'[e].attempts = row[e].attempts
    BY <1>4, <2>2 DEF ingest, FiveMinutesPass, Row
  <2> QED
    BY <2>1, <2>3
<1>5. CASE UNCHANGED vars
  BY <1>0, <1>5 DEF vars, Handling
<1> QED
  BY <1>0, <1>1, <1>2, <1>3, <1>4, <1>5, FewerHandling DEF Next, drainOnce

(* The effect of an event is applied at most once per claim and never more *)
(* often than MaxAttempts allows, even when handlers outlive the recovery  *)
(* and instances die at any step.                                          *)
THEOREM AttemptsBoundCommits == Spec => []CommitsWithinAttempts
<1>1. Init => CommitsWithinAttempts
  <2> SUFFICES ASSUME Init, NEW e \in EventIds
               PROVE  commits[e] + Cardinality(Handling(e)) <= row[e].attempts
    BY DEF CommitsWithinAttempts, Handling
  <2>1. Handling(e) = {}
    BY DEF Init, Ready, Handling
  <2> QED
    BY <2>1, FS_EmptySet DEF Init
<1> QED
  BY <1>1, AttemptsNext, TypeCorrect, PTL DEF Spec

(***************************************************************************)
(* Exclusion.  If no handler outlives the recovery, the event a processor  *)
(* works on is PROCESSING and too young to be taken back.                  *)
(***************************************************************************)
HoldInv ==
  /\ OneWorker
  /\ \A p \in Processors : \A e \in EventIds :
       Works(p, e) => row[e].status = "PROCESSING" /\ ~row[e].stale

LEMMA HoldNext ==
  ASSUME ~SlowHandlers
  PROVE  TypeOK /\ HoldInv /\ [Next]_vars => HoldInv'
<1> SUFFICES ASSUME TypeOK, HoldInv, [Next]_vars PROVE HoldInv'
  OBVIOUS
<1> USE DEF HoldInv, OneWorker, Works
<1>1. ASSUME NEW e \in EventIds, ingest(e) PROVE HoldInv'
  <2>1. job' = job
    BY <1>1 DEF ingest
  <2>2. CASE row[e].status = "NONE"
    <3>1. row' = [row EXCEPT ![e].status = "RECEIVED"] /\ row \in [EventIds -> Row]
      BY <1>1, <2>2 DEF ingest, TypeOK
    <3>2. \A d \in EventIds : d # e => row'[d] = row[d]
      BY <3>1
    <3> QED
      BY <2>1, <2>2, <3>2
  <2>3. CASE row[e].status # "NONE"
    BY <1>1, <2>1, <2>3 DEF ingest
  <2> QED
    BY <2>2, <2>3
<1>2. ASSUME NEW e \in EventIds, FiveMinutesPass(e) PROVE HoldInv'
  BY <1>2 DEF FiveMinutesPass, TypeOK, Row
<1>3. ASSUME NEW p \in Processors, Find(p) PROVE HoldInv'
  <2>1. row' = row
    BY <1>3 DEF Find
  <2>2. \A q \in Processors, e \in EventIds : Works(q, e)' => Works(q, e)
    BY <1>3, JobAfter, OthersKeep DEF drainOnce
  <2> QED
    BY <2>1, <2>2
<1>4. ASSUME NEW p \in Processors, Claim(p) PROVE HoldInv'
  <2>1. CASE Unchanged(p)
    <3>1. /\ row[job[p].event].status \in {"RECEIVED", "FAILED"}
          /\ job' = [job EXCEPT ![p].pc = "handle"]
          /\ row' = [row EXCEPT ![job[p].event] =
                       [status |-> "PROCESSING", attempts |-> @.attempts + 1, stale |-> FALSE]]
      BY <1>4, <2>1 DEF Claim, Step, Unchanged, TypeOK
    <3>2. \A q \in Processors : ~Works(q, job[p].event)
      BY <1>4, <3>1 DEF Claim, TypeOK
    <3>3. \A q \in Processors, e \in EventIds :
            Works(q, e)' => \/ q = p /\ e = job[p].event
                            \/ Works(q, e) /\ e # job[p].event
      BY <1>4, <2>1, <3>2, JobAfter, OthersKeep DEF drainOnce
    <3>4. \A e \in EventIds :
            IF e = job[p].event THEN row'[e].status = "PROCESSING" /\ ~row'[e].stale
                                ELSE row'[e] = row[e]
      BY <3>1 DEF TypeOK
    <3> QED
      BY <3>3, <3>4
  <2>2. CASE ~Unchanged(p)
    <3>1. row' = row
      BY <1>4, <2>2 DEF Claim
    <3>2. \A q \in Processors, e \in EventIds : Works(q, e)' => Works(q, e)
      BY <1>4, <2>2, JobAfter, OthersKeep DEF drainOnce
    <3> QED
      BY <3>1, <3>2
  <2> QED
    BY <2>1, <2>2
<1>5. ASSUME NEW p \in Processors, Handle(p) \/ MarkFails(p) PROVE HoldInv'
  <2>1. row' = row
    BY <1>5 DEF Handle, MarkFails
  <2>2. \A q \in Processors, e \in EventIds : Works(q, e)' => Works(q, e)
    <3>1. job[p].pc \in {"handle", "processed"}
      BY <1>5 DEF Handle, MarkFails
    <3> QED
      BY <1>5, <3>1, JobAfter, OthersKeep DEF drainOnce
  <2> QED
    BY <2>1, <2>2
<1>6. ASSUME NEW p \in Processors, MarkProcessed(p) \/ MarkFailed(p) PROVE HoldInv'
  <2>1. /\ job' = [job EXCEPT ![p] = Ready("idle")]
        /\ \A e \in EventIds : e # job[p].event => row'[e] = row[e]
        /\ job[p].event \in EventIds => Works(p, job[p].event)
    BY <1>6 DEF MarkProcessed, MarkFailed, Mark, TypeOK
  <2>2. \A q \in Processors, e \in EventIds :
          Works(q, e)' => Works(q, e) /\ e # job[p].event
    BY <1>6, <2>1, JobAfter, OthersKeep DEF drainOnce
  <2> QED
    BY <2>1, <2>2
<1>7. ASSUME NEW p \in Processors, Crash(p) \/ onModuleInit(p) PROVE HoldInv'
  <2>1. \A q \in Processors, e \in EventIds : Works(q, e)' => Works(q, e)
    BY <1>7, JobAfter, OthersKeep
  <2>2. \A e \in EventIds : row[e].stale \/ row'[e] = row[e]
    BY <1>7 DEF Crash, onModuleInit, TypeOK
  <2> QED
    BY <2>1, <2>2
<1>8. CASE UNCHANGED vars
  BY <1>8 DEF vars
<1> QED
  BY <1>1, <1>2, <1>3, <1>4, <1>5, <1>6, <1>7, <1>8 DEF Next, drainOnce

LEMMA HoldInvariant ==
  ASSUME ~SlowHandlers
  PROVE  Spec => [](TypeOK /\ HoldInv)
<1>1. Init => HoldInv
  BY DEF Init, HoldInv, OneWorker, Works, Ready
<1> QED
  BY <1>1, TypeInit, TypeNext, HoldNext, PTL DEF Spec

(* Two instances never work on the same event, although a starting one     *)
(* takes over the events of one that died, unless a handler runs for more  *)
(* than five minutes.                                                      *)
THEOREM OneWorkerPerEvent ==
  ASSUME ~SlowHandlers
  PROVE  Spec => []OneWorker
<1>1. HoldInv => OneWorker
  BY DEF HoldInv
<1> QED
  BY <1>1, HoldInvariant, PTL

(* A PROCESSED event is never handled or marked again, unless a handler    *)
(* runs for more than five minutes.                                        *)
THEOREM ProcessedStays ==
  ASSUME ~SlowHandlers
  PROVE  Spec => ProcessedIsFinal
<1>1. TypeOK /\ HoldInv /\ [Next]_vars =>
        [\A e \in EventIds : row[e].status = "PROCESSED" =>
           row'[e] = row[e] /\ commits'[e] = commits[e]]_vars
  <2> SUFFICES ASSUME TypeOK, HoldInv, Next, NEW e \in EventIds,
                      row[e].status = "PROCESSED"
               PROVE  row'[e] = row[e] /\ commits'[e] = commits[e]
    OBVIOUS
  <2>1. \A p \in Processors : ~Works(p, e)
    BY DEF HoldInv
  <2>2. ASSUME NEW p \in Processors, Claim(p) PROVE row'[e] = row[e] /\ commits' = commits
    <3>1. Unchanged(p) => job[p].event # e
      BY <2>2 DEF Claim, Unchanged, TypeOK
    <3> QED
      BY <2>2, <3>1 DEF Claim, TypeOK
  <2>3. ASSUME NEW p \in Processors, Handle(p) \/ MarkProcessed(p) \/ MarkFailed(p)
        PROVE  row'[e] = row[e] /\ commits'[e] = commits[e]
    <3>1. job[p].event # e
      BY <2>1, <2>3 DEF Handle, MarkProcessed, MarkFailed, Works
    <3> QED
      BY <2>3, <3>1 DEF Handle, MarkProcessed, MarkFailed, Mark, TypeOK
  <2>4. ASSUME NEW p \in Processors, Find(p) \/ MarkFails(p) \/ Crash(p) \/ onModuleInit(p)
        PROVE  row'[e] = row[e] /\ commits' = commits
    BY <2>4 DEF Find, MarkFails, Crash, onModuleInit, TypeOK
  <2>5. ASSUME NEW d \in EventIds, ingest(d) \/ FiveMinutesPass(d)
        PROVE  row'[e] = row[e] /\ commits' = commits
    BY <2>5 DEF ingest, FiveMinutesPass, TypeOK
  <2> QED
    BY <2>2, <2>3, <2>4, <2>5 DEF Next, drainOnce
<1> QED
  BY <1>1, HoldInvariant, PTL DEF Spec, ProcessedIsFinal

(***************************************************************************)
(* Order.  Where one processor polls the inbox, the event it has found is  *)
(* older than every other that is due, until its handler has run: what     *)
(* arrives meanwhile is younger, and nobody else makes an event due.       *)
(***************************************************************************)
OldestFound ==
  \A p \in Processors : job[p].pc \in {"claim", "handle"} =>
    /\ row[job[p].event].status # "NONE"
    /\ \A d \in EventIds : Due(d) => ~Older(d, job[p].event)

OrderInv ==
  /\ TypeOK
  /\ \A m \in DOMAIN arrival : row[arrival[m]].status # "NONE"
  /\ OldestFound

(* What is stored keeps its place, and what is stored now is the youngest. *)
LEMMA IngestIsYoungest ==
  ASSUME OrderInv, NEW x \in EventIds, ingest(x), row[x].status = "NONE",
         NEW e \in EventIds, row[e].status # "NONE", NEW d \in EventIds, Older(d, e)'
  PROVE  d # x /\ Older(d, e)
<1>1. arrival \in Seq(EventIds) /\ arrival' = Append(arrival, x)
  BY DEF OrderInv, TypeOK, ingest
<1>2. PICK m \in DOMAIN arrival', n \in DOMAIN arrival' :
        m < n /\ arrival'[m] = d /\ arrival'[n] = e
  BY DEF Older
<1>3. n # Len(arrival) + 1
  BY <1>1, <1>2
<1>4. /\ m \in DOMAIN arrival /\ n \in DOMAIN arrival
      /\ arrival[m] = d /\ arrival[n] = e
  BY <1>1, <1>2, <1>3
<1>5. d # x
  BY <1>4 DEF OrderInv
<1> QED
  BY <1>2, <1>4, <1>5 DEF Older

LEMMA OrderNext ==
  ASSUME \A p, q \in Processors : p = q
  PROVE  OrderInv /\ [Next]_vars => OrderInv'
<1> SUFFICES ASSUME OrderInv, [Next]_vars PROVE OrderInv'
  OBVIOUS
<1>0. TypeOK /\ TypeOK' /\ OldestFound
  BY TypeNext DEF OrderInv
<1>1. ASSUME NEW x \in EventIds, ingest(x) PROVE OrderInv'
  <2>1. CASE row[x].status = "NONE"
    <3>1. /\ arrival' = Append(arrival, x) /\ job' = job
          /\ row' = [row EXCEPT ![x].status = "RECEIVED"]
      BY <1>1, <2>1 DEF ingest
    <3>2. \A d \in EventIds : /\ d # x => row'[d] = row[d]
                              /\ row[d].status # "NONE" => row'[d].status # "NONE"
      BY <1>0, <3>1 DEF TypeOK, Row
    <3>3. row'[x].status = "RECEIVED"
      BY <1>0, <3>1 DEF TypeOK, Row
    <3>4. \A m \in DOMAIN arrival' : row'[arrival'[m]].status # "NONE"
      BY <1>0, <3>1, <3>2, <3>3 DEF OrderInv, TypeOK
    <3>5. ASSUME NEW p \in Processors, job[p].pc \in {"claim", "handle"},
                 NEW d \in EventIds, Due(d)', Older(d, job[p].event)'
          PROVE  FALSE
      <4>1. job[p].event \in EventIds /\ row[job[p].event].status # "NONE"
        BY <1>0, <3>5 DEF TypeOK, OldestFound
      <4>2. PICK e \in EventIds : e = job[p].event
        BY <4>1
      <4>3. Older(d, e)'
        BY <3>1, <3>5, <4>2 DEF Older
      <4>4. d # x /\ Older(d, e)
        BY <1>1, <2>1, <4>1, <4>2, <4>3, IngestIsYoungest
      <4>5. Due(d)
        BY <3>2, <3>5, <4>4 DEF Due
      <4> QED
        BY <1>0, <3>5, <4>2, <4>4, <4>5 DEF OldestFound
    <3>6. \A p \in Processors : job[p].pc \in {"claim", "handle"} =>
            row'[job[p].event].status # "NONE"
      BY <1>0, <3>2 DEF TypeOK, OldestFound
    <3> QED
      BY <1>0, <3>1, <3>4, <3>5, <3>6 DEF OrderInv, OldestFound
  <2>2. CASE row[x].status # "NONE"
    BY <1>0, <1>1, <2>2 DEF ingest, OrderInv, OldestFound, Due, Older
  <2> QED
    BY <2>1, <2>2
<1>2. ASSUME arrival' = arrival,
             \A d \in EventIds : /\ row[d].status # "NONE" => row'[d].status # "NONE"
                                 /\ Due(d)' => Due(d),
             \A p \in Processors : job'[p].pc \in {"claim", "handle"} =>
               \/ /\ job[p].pc \in {"claim", "handle"}
                  /\ job'[p].event = job[p].event
               \/ /\ row[job'[p].event].status # "NONE"
                  /\ \A d \in EventIds : Due(d) => ~Older(d, job'[p].event)
      PROVE  OrderInv'
  <2>1. \A m \in DOMAIN arrival' : row'[arrival'[m]].status # "NONE"
    BY <1>0, <1>2 DEF OrderInv, TypeOK
  <2>2. ASSUME NEW p \in Processors, job'[p].pc \in {"claim", "handle"}
        PROVE  /\ row'[job'[p].event].status # "NONE"
               /\ \A d \in EventIds : Due(d)' => ~Older(d, job[p].event)'
    <3>1. job'[p].event \in EventIds
      BY <1>0, <2>2 DEF TypeOK
    <3>2. /\ row[job'[p].event].status # "NONE"
          /\ \A d \in EventIds : Due(d) => ~Older(d, job'[p].event)
      BY <1>0, <1>2, <2>2 DEF OldestFound
    <3> QED
      BY <1>2, <3>1, <3>2 DEF Older
  <2> QED
    BY <1>0, <2>1, <2>2 DEF OrderInv, OldestFound
<1>3. ASSUME NEW e \in EventIds, FiveMinutesPass(e) PROVE OrderInv'
  BY <1>0, <1>2, <1>3 DEF FiveMinutesPass, TypeOK, Row, Due
<1>4. ASSUME NEW p \in Processors, Find(p) PROVE OrderInv'
  <2>1. PICK e \in EventIds :
          /\ Due(e)
          /\ \A d \in EventIds : Due(d) => ~Older(d, e)
          /\ job' = [job EXCEPT ![p] = [pc |-> "claim", event |-> e,
                       status |-> row[e].status, attempts |-> row[e].attempts]]
    BY <1>4 DEF Find
  <2>2. \A q \in Processors : q = p
    OBVIOUS
  <2>3. job'[p].event = e /\ row[e].status # "NONE"
    BY <1>0, <2>1 DEF TypeOK, Due
  <2>4. row' = row /\ arrival' = arrival
    BY <1>4 DEF Find
  <2> QED
    BY <1>2, <2>1, <2>2, <2>3, <2>4 DEF Due
<1>5. ASSUME NEW p \in Processors, Claim(p) PROVE OrderInv'
  <2>1. arrival' = arrival
    BY <1>5 DEF Claim
  <2>2. \A d \in EventIds : /\ row[d].status # "NONE" => row'[d].status # "NONE"
                            /\ Due(d)' => Due(d)
    <3>1. CASE Unchanged(p)
      <4>1. row' = [row EXCEPT ![job[p].event] =
                      [status |-> "PROCESSING", attempts |-> @.attempts + 1, stale |-> FALSE]]
        BY <1>5, <3>1 DEF Claim
      <4>2. \A d \in EventIds : row'[d] = row[d] \/ row'[d].status = "PROCESSING"
        BY <1>0, <4>1 DEF TypeOK
      <4> QED
        BY <4>2 DEF Due
    <3>2. CASE ~Unchanged(p)
      BY <1>5, <3>2 DEF Claim, Due
    <3> QED
      BY <3>1, <3>2
  <2>3. \A q \in Processors : job'[q].pc \in {"claim", "handle"} =>
          /\ job[q].pc \in {"claim", "handle"}
          /\ job'[q].event = job[q].event
    BY <1>0, <1>5 DEF Claim, Step, Ready, TypeOK, Job
  <2> QED
    BY <1>2, <2>1, <2>2, <2>3
<1>6. ASSUME NEW p \in Processors, Handle(p) \/ MarkFails(p) PROVE OrderInv'
  <2>1. \A q \in Processors : job'[q].pc \in {"claim", "handle"} => job'[q] = job[q]
    BY <1>0, <1>6 DEF Handle, MarkFails, Step, TypeOK, Job
  <2>2. row' = row /\ arrival' = arrival
    BY <1>6 DEF Handle, MarkFails
  <2> QED
    BY <1>2, <2>1, <2>2 DEF Due
<1>7. ASSUME NEW p \in Processors,
             MarkProcessed(p) \/ MarkFailed(p) \/ Crash(p) \/ onModuleInit(p)
      PROVE  OrderInv'
  <2>1. arrival' = arrival /\ \A q \in Processors : job'[q].pc \in {"down", "idle"}
    <3>1. arrival' = arrival
      BY <1>7 DEF MarkProcessed, MarkFailed, Mark, Crash, onModuleInit
    <3>2. job'[p].pc \in {"down", "idle"} /\ \A q \in Processors : q = p
      BY <1>0, <1>7, JobAfter
    <3> QED
      BY <3>1, <3>2
  <2>2. \A d \in EventIds : row[d].status # "NONE" => row'[d].status # "NONE"
    <3>1. CASE MarkProcessed(p) \/ MarkFailed(p)
      <4>1. \E s \in {"PROCESSED", "FAILED"} :
              row' = [row EXCEPT ![job[p].event].status = s, ![job[p].event].stale = FALSE]
        BY <3>1 DEF MarkProcessed, MarkFailed, Mark
      <4> QED
        BY <1>0, <4>1 DEF TypeOK, Row
    <3>2. CASE Crash(p)
      BY <3>2 DEF Crash
    <3>3. CASE onModuleInit(p)
      <4> SUFFICES ASSUME NEW d \in EventIds PROVE row'[d] = row[d] \/ row'[d].status = "RECEIVED"
        OBVIOUS
      <4>1. row[d] \in Row
        BY <1>0 DEF TypeOK
      <4> QED
        BY <3>3, <4>1 DEF onModuleInit, Row
    <3> QED
      BY <1>7, <3>1, <3>2, <3>3
  <2>3. \A m \in DOMAIN arrival' : row'[arrival'[m]].status # "NONE"
    BY <1>0, <2>1, <2>2 DEF OrderInv, TypeOK
  <2> QED
    BY <1>0, <2>1, <2>3 DEF OrderInv, OldestFound
<1>8. CASE UNCHANGED vars
  BY <1>0, <1>2, <1>8 DEF vars, Due
<1> QED
  BY <1>1, <1>3, <1>4, <1>5, <1>6, <1>7, <1>8 DEF Next, drainOnce

(* A single instance applies events in the order in which they arrived: it *)
(* overtakes none that is due, whatever arrives, fails, crashes or is      *)
(* taken back between finding an event and handling it.                    *)
THEOREM AppliedInOrder ==
  ASSUME \A p, q \in Processors : p = q
  PROVE  Spec => InOrder
<1>1. Init => OrderInv
  BY TypeInit DEF Init, OrderInv, OldestFound, Ready
<1>2. OrderInv /\ [Next]_vars =>
        [\A d, e \in EventIds : commits'[e] # commits[e] /\ Older(d, e) => ~Due(d)]_vars
  <2> SUFFICES ASSUME OrderInv, Next, NEW d \in EventIds, NEW e \in EventIds,
                      commits'[e] # commits[e]
               PROVE  Older(d, e) => ~Due(d)
    OBVIOUS
  <2>1. PICK p \in Processors : Handle(p)
    BY DEF Next, ingest, FiveMinutesPass, drainOnce, Find, Claim, MarkProcessed, MarkFailed,
       Mark, MarkFails, Crash, onModuleInit
  <2>2. job[p].pc = "handle" /\ job[p].event = e
    BY <2>1 DEF Handle, OrderInv, TypeOK
  <2> QED
    BY <2>2 DEF OrderInv, OldestFound
<1> QED
  BY <1>1, <1>2, OrderNext, PTL DEF Spec, InOrder

=============================================================================
