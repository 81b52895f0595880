---------------------------- MODULE LossProofs ----------------------------
(***************************************************************************)
(* The loss of a worker, for any number of workers, connections,           *)
(* executions and tickets: once the end of a connection was dealt with, no *)
(* attempt that was sent there is taken to be under way, but for the       *)
(* exceptions LossClassified lists.                                        *)
(*                                                                         *)
(* An attempt that is not under way never is again; a ticket names whom    *)
(* its attempt was granted to; and while a connection is open its entry    *)
(* names the execution of the last ticket that a dispatch sent there.      *)
(***************************************************************************)
EXTENDS RuntimeProofs

-----------------------------------------------------------------------------
(* Tickets and attempts.                                                   *)

\* The attempt of ticket t is in the history, granted to whom t names.
Grants(rec, t) ==
  \E i \in DOMAIN rec.attempts :
    /\ rec.attempts[i].id = t.attempt_id
    /\ rec.attempts[i].worker_id = t.worker_id
    /\ rec.attempts[i].worker_boot_id = t.worker_boot_id

BusyStates ==
  {"DISPATCHED", "RESUMING", "RUNNING", "CANCELLATION_REQUESTED",
   "PREEMPTION_REQUESTED"}

\* Both lifecycles say that the current attempt is under way.
Busy(rec) ==
  /\ Newest(rec).state \in {"DISPATCHED", "RUNNING"}
  /\ rec.state \in BusyStates

\* An execution that is READY again has no attempt that could still be running.
AtRest(rec) ==
  rec.state = "READY" /\ rec.current_attempt_id # 0 =>
    Newest(rec).state \notin {"DISPATCHED", "RUNNING"}

\* The record of x holds no epoch the engine has not reached.
RecordsAtRest ==
  \A x \in DOMAIN records :
    AtRest(records[x]) /\ records[x].coordinator_epoch <= epoch

TicketsGranted ==
  \A t \in tickets : Known(t.execution_id) /\ Grants(records[t.execution_id], t)

\* A worker's connection is known under the ids the worker gave.
ConnsNamed ==
  \A c \in DOMAIN conns :
    conns[c].is_worker => conns[c].worker_id = id[c] /\ conns[c].boot = c

LastTracked(i) ==
  /\ sent[i].tracked
  /\ \A j \in i + 1 .. Len(sent) : ~(sent[j].conn = sent[i].conn /\ sent[j].tracked)

\* What is known of a ticket that was sent by a dispatch.
TrackedOK(i) ==
  LET s == sent[i]
      x == s.ticket.execution_id
  IN  /\ s.tracked /\ records[x].current_attempt_id = s.ticket.attempt_id =>
           records[x].state # "RESUMING"
      /\ LastTracked(i) =>
           /\ s.ticket.worker_id = id[s.conn]
           /\ s.conn \in DOMAIN conns =>
                conns[s.conn].is_worker /\ conns[s.conn].active_execution = x

LossInv ==
  /\ RecordsAtRest
  /\ TicketsGranted
  /\ ConnsNamed
  /\ \A i \in DOMAIN sent : TrackedOK(i) /\ reader[sent[i].conn] # "none"
  /\ LossClassified

RInv == CInv /\ NetInv /\ LossInv

-----------------------------------------------------------------------------
(* What an operation does to the record, seen from its current attempt.    *)

\* The attempt that stays current is not taken up again.
Settles(rec, new) ==
  /\ AtRest(new)
  /\ rec.current_attempt_id # 0 /\ new.current_attempt_id = rec.current_attempt_id =>
       /\ Busy(new) => Busy(rec)
       /\ new.state = "RESUMING" => rec.state = "RESUMING"

\* No operation: nothing is taken up.
LEMMA SettlesSelf ==
  ASSUME NEW rec, AtRest(rec)
  PROVE  Settles(rec, rec)
  BY DEF Settles

\* An edit that does not start the current attempt, and leaves it at rest if it
\* goes back to READY.
LEMMA EditSettles ==
  ASSUME NEW rec, NEW new, AtRest(rec),
         new.current_attempt_id = rec.current_attempt_id,
         rec.current_attempt_id # 0 /\ Newest(new).state \in {"DISPATCHED", "RUNNING"} =>
           Newest(rec).state \in {"DISPATCHED", "RUNNING"},
         new.state \in BusyStates => rec.state \in BusyStates \cup {"READY"},
         new.state = "RESUMING" => rec.state = "RESUMING",
         new.state = "READY" =>
           \/ rec.state = "READY"
           \/ rec.current_attempt_id = 0
           \/ Newest(new).state \notin {"DISPATCHED", "RUNNING"}
  PROVE  Settles(rec, new)
  BY DEF Settles, AtRest, Busy, BusyStates

\* The current attempt is moved, then the execution, where the tables allow it.
LEMMA MovedTo ==
  ASSUME NEW n \in Nat, NEW rec, RecInv(n, rec), NEW at \in AttemptStates,
         NEW to \in ExecutionStates
  PROVE  LET new == Transition(MoveAttempt(rec, rec.current_attempt_id, at), to).rec
         IN  /\ new.current_attempt_id = rec.current_attempt_id
             /\ rec.current_attempt_id # 0 =>
                  Newest(new).state = IF AttemptFrom(Newest(rec).state, at)
                                      THEN at ELSE Newest(rec).state
             /\ new.state = IF ExecutionFrom(rec.state, to) THEN to ELSE rec.state
  <1> DEFINE m == MoveAttempt(rec, rec.current_attempt_id, at)
  <1>1. /\ m \in ExecutionRecords /\ SameFields(rec, m)
        /\ rec.current_attempt_id # 0 =>
             Newest(m).state = IF AttemptFrom(Newest(rec).state, at)
                               THEN at ELSE Newest(rec).state
    BY MoveCurrent
  <1> HIDE DEF m
  <1>2. Transition(m, to).rec =
          IF ExecutionFrom(rec.state, to) THEN [m EXCEPT !.state = to] ELSE m
    BY <1>1 DEF Transition, Decision, SameFields
  <1>3. [m EXCEPT !.state = to].attempts = m.attempts
    BY <1>1 DEF ExecutionRecords
  <1>4. Newest([m EXCEPT !.state = to]) = Newest(m)
    BY <1>3 DEF Newest
  <1>5. /\ [m EXCEPT !.state = to].current_attempt_id = m.current_attempt_id
        /\ [m EXCEPT !.state = to].state = to
    BY <1>1 DEF ExecutionRecords
  <1> QED
    BY <1>1, <1>2, <1>4, <1>5 DEF SameFields, KeepsHolder, m

\* START moves an attempt that was dispatched.
LEMMA MarkRunningSettles ==
  ASSUME NEW n \in Nat, NEW rec, RecInv(n, rec), AtRest(rec), NEW ep, NEW t
  PROVE  Settles(rec, mark_running(ep, rec, t).rec)
  <1> DEFINE new == Transition(MoveAttempt(rec, rec.current_attempt_id, "RUNNING"),
                               "RUNNING").rec
             r == mark_running(ep, rec, t)
  <1>1. CASE r.rec = rec
    BY <1>1, SettlesSelf
  <1>2. CASE /\ rec.state \in {"DISPATCHED", "RESUMING"}
             /\ ValidateStart(ep, rec, t) = "ALLOW"
    <2>1. t.attempt_id = rec.current_attempt_id /\ rec.current_attempt_id # 0
      BY <1>2 DEF ValidateStart
    <2>2. r.rec = new
      BY <1>2, <2>1 DEF mark_running
    <2>3. /\ new.current_attempt_id = rec.current_attempt_id
          /\ rec.current_attempt_id # 0 =>
               Newest(new).state = IF AttemptFrom(Newest(rec).state, "RUNNING")
                                   THEN "RUNNING" ELSE Newest(rec).state
          /\ new.state = IF ExecutionFrom(rec.state, "RUNNING")
                         THEN "RUNNING" ELSE rec.state
      <3>1. "RUNNING" \in AttemptStates /\ "RUNNING" \in ExecutionStates
        BY DEF AttemptStates, ExecutionStates
      <3> QED
        BY <3>1, MovedTo
    <2> HIDE DEF new, r
    <2>4. new.state = "RUNNING"
      BY <1>2, <2>3 DEF ExecutionFrom
    <2>5. Newest(new).state \in {"DISPATCHED", "RUNNING"} =>
            Newest(rec).state \in {"DISPATCHED", "RUNNING"}
      BY <2>1, <2>3 DEF AttemptFrom
    <2>6. Settles(rec, new)
      BY <1>2, <2>3, <2>4, <2>5, EditSettles DEF BusyStates
    <2> QED
      BY <2>2, <2>6 DEF r
  <1> QED
    BY <1>1, <1>2 DEF mark_running, Decision

\* COMPLETE ends it, or finds it ended.
LEMMA CompleteSettles ==
  ASSUME NEW n \in Nat, NEW rec, RecInv(n, rec), AtRest(rec), NEW ep, NEW t,
         NEW d \in Digests \cup {None}
  PROVE  Settles(rec, complete(ep, rec, t, d).rec)
  <1> DEFINE r == complete(ep, rec, t, d)
  <1>1. CASE r.rec = rec
    BY <1>1, SettlesSelf
  <1>2. CASE /\ ValidateTicket(ep, rec, t) = "ALLOW" /\ d # None
             /\ r = CommitResult(rec, t.attempt_id, d)
    <2>1. rec \in ExecutionRecords /\ d \in Digests
      BY <1>2 DEF RecInv
    <2>2. t.attempt_id = rec.current_attempt_id /\ rec.current_attempt_id # 0
      BY <1>2, TicketValid
    <2>3. PICK s : /\ MarkedHistory(rec, t.attempt_id, d, s)
                   /\ CommitResult(rec, t.attempt_id, d) = CommitOutcome(rec, s, d)
      BY <2>1, CommitResultFacts
    <2>4. s \in Seq(AttemptRecords)
      BY <2>3 DEF MarkedHistory
    <2> DEFINE new == r.rec
    <2>5. \/ new = CommittedRecord(rec, s, d)
          \/ new = [rec EXCEPT !.attempts = s]
      BY <1>2, <2>3 DEF CommitOutcome, Decision
    <2>6. new \in ExecutionRecords
      BY <2>1, CompleteType DEF Results
    <2> HIDE DEF new
    <2>7. /\ new.attempts = s /\ new.state \in {"COMMITTED", rec.state}
          /\ new.current_attempt_id = rec.current_attempt_id
          /\ new.ownership_generation = rec.ownership_generation
          /\ new.fence_generation = rec.fence_generation
          /\ new.resume_generation = rec.resume_generation
          /\ new.coordinator_epoch = rec.coordinator_epoch
          /\ new.generation = rec.generation
      <3>1. CASE new = [rec EXCEPT !.attempts = s]
        BY <2>1, <3>1 DEF ExecutionRecords
      <3>2. CASE new = CommittedRecord(rec, s, d)
        BY <2>1, <3>2 DEF CommittedRecord, ExecutionRecords
      <3> QED
        BY <2>5, <3>1, <3>2
    <2>8. Newest(new).state = IF AttemptFrom(Newest(rec).state, "COMPLETED")
                              THEN "COMPLETED" ELSE Newest(rec).state
      BY <2>1, <2>2, <2>3, <2>6, <2>7, MarkedTouched
    <2>9. Newest(new).state \in {"DISPATCHED", "RUNNING"} =>
            Newest(rec).state \in {"DISPATCHED", "RUNNING"}
      BY <2>8
    <2>10. Settles(rec, new)
      BY <2>7, <2>9, EditSettles DEF BusyStates
    <2> QED
      BY <2>10 DEF new
  <1> QED
    BY <1>1, <1>2 DEF complete, Decision

\* A request that edits a counter and the state, and no attempt.
LEMMA CounterSettles ==
  ASSUME NEW n \in Nat, NEW rec, RecInv(n, rec), AtRest(rec),
         NEW m \in ExecutionRecords, SameFields(rec, m), m.attempts = rec.attempts,
         NEW to \in {"CANCELLED", "CANCELLATION_REQUESTED", "PREEMPTION_REQUESTED",
                     "RESUMABLE"},
         to \in BusyStates => rec.state \in {"READY", "DISPATCHED", "RUNNING"}
  PROVE  Settles(rec, Transition(m, to).rec) /\ Settles(rec, m)
  <1>1. Newest(m) = Newest(rec) /\ Newest([m EXCEPT !.state = to]) = Newest(rec)
    BY DEF Newest, ExecutionRecords
  <1>2. /\ [m EXCEPT !.state = to].current_attempt_id = rec.current_attempt_id
        /\ [m EXCEPT !.state = to].state = to
        /\ m.current_attempt_id = rec.current_attempt_id
        /\ m.state = rec.state
    BY DEF ExecutionRecords, SameFields, KeepsHolder
  <1>3. Settles(rec, m)
    BY <1>1, <1>2, EditSettles
  <1>4. to \notin {"READY", "RESUMING"}
    OBVIOUS
  <1>5. Settles(rec, [m EXCEPT !.state = to])
    BY <1>1, <1>2, <1>4, EditSettles DEF BusyStates
  <1> QED
    BY <1>3, <1>5 DEF Transition, Decision

\* Cancellation and preemption are requested of an attempt that is under way, or
\* of an execution that has none.
LEMMA RequestsSettle ==
  ASSUME NEW n \in Nat, NEW rec, RecInv(n, rec), AtRest(rec), NEW ep, NEW e, NEW auth
  PROVE  /\ Settles(rec, cancel(ep, rec, e, auth).rec)
         /\ Settles(rec, preempt(ep, rec, e, auth).rec)
         /\ Settles(rec, mark_resumable(ep, rec, e).rec)
  <1> DEFINE c == [rec EXCEPT !.cancellation_generation = NextGen(@)]
             p == [rec EXCEPT !.preemption_generation = NextGen(@)]
  <1>1. rec \in ExecutionRecords /\ Settles(rec, rec)
    BY SettlesSelf DEF RecInv
  <1>2. /\ NextGen(rec.cancellation_generation) \in Gens
        /\ NextGen(rec.preemption_generation) \in Gens
    BY <1>1, NextGenFacts DEF ExecutionRecords
  <1>3. /\ c \in ExecutionRecords /\ SameFields(rec, c) /\ c.attempts = rec.attempts
        /\ p \in ExecutionRecords /\ SameFields(rec, p) /\ p.attempts = rec.attempts
        /\ SameFields(rec, rec)
    BY <1>1, <1>2 DEF ExecutionRecords, SameFields, KeepsHolder
  <1> HIDE DEF c, p
  <1>4. /\ Settles(rec, Transition(c, "CANCELLED").rec) /\ Settles(rec, c)
        /\ Settles(rec, Transition(rec, "RESUMABLE").rec)
    BY <1>1, <1>3, CounterSettles DEF BusyStates
  <1>5. rec.state \in {"READY", "DISPATCHED", "RUNNING"} =>
          /\ Settles(rec, Transition(c, "CANCELLATION_REQUESTED").rec)
          /\ Settles(rec, Transition(p, "PREEMPTION_REQUESTED").rec)
    BY <1>3, CounterSettles
  <1>6. Settles(rec, cancel(ep, rec, e, auth).rec)
    BY <1>1, <1>4, <1>5 DEF cancel, Decision, c
  <1>7. Settles(rec, preempt(ep, rec, e, auth).rec)
    BY <1>1, <1>5 DEF preempt, Decision, p
  <1>8. Settles(rec, mark_resumable(ep, rec, e).rec)
    BY <1>1, <1>4 DEF mark_resumable, Decision
  <1> QED
    BY <1>6, <1>7, <1>8

\* The acknowledgement of a preemption ends the attempt's execution.
LEMMA AcknowledgeSettles ==
  ASSUME NEW n \in Nat, NEW rec, RecInv(n, rec), AtRest(rec), NEW ep, NEW e
  PROVE  Settles(rec, acknowledge_preempt(ep, rec, e).rec)
  <1> DEFINE new == Transition(MoveAttempt(rec, rec.current_attempt_id, "PREEMPTED"),
                               "PREEMPTED").rec
  <1>1. CASE rec.state = "PREEMPTION_REQUESTED"
    <2>1. /\ new.current_attempt_id = rec.current_attempt_id
          /\ rec.current_attempt_id # 0 =>
               Newest(new).state = IF AttemptFrom(Newest(rec).state, "PREEMPTED")
                                   THEN "PREEMPTED" ELSE Newest(rec).state
          /\ new.state = IF ExecutionFrom(rec.state, "PREEMPTED")
                         THEN "PREEMPTED" ELSE rec.state
      <3>1. "PREEMPTED" \in AttemptStates /\ "PREEMPTED" \in ExecutionStates
        BY DEF AttemptStates, ExecutionStates
      <3> QED
        BY <3>1, MovedTo
    <2> HIDE DEF new
    <2>2. new.state = "PREEMPTED"
      BY <1>1, <2>1 DEF ExecutionFrom
    <2>3. Settles(rec, new)
      BY <2>1, <2>2, EditSettles DEF BusyStates
    <2> QED
      BY <1>1, <2>3, SettlesSelf DEF acknowledge_preempt, Decision, new
  <1>2. CASE rec.state # "PREEMPTION_REQUESTED"
    BY <1>2, SettlesSelf DEF acknowledge_preempt, Decision
  <1> QED
    BY <1>1, <1>2

\* A loss that is reported for the owner under no stale epoch ends the attempt
\* in any of these states, and no other report changes anything.
LEMMA LostCases ==
  ASSUME NEW n \in Nat, NEW rec, RecInv(n, rec), NEW ep, NEW e, NEW w, NEW b
  PROVE  LET new == mark_worker_lost(ep, rec, e, w, b).rec
         IN  IF /\ ~StaleEpoch(ep, rec, e)
                /\ rec.owner_worker = w /\ rec.owner_worker_boot = b
                /\ rec.state \in BusyStates \ {"RESUMING"}
             THEN /\ new.current_attempt_id = rec.current_attempt_id
                  /\ rec.current_attempt_id # 0 =>
                       Newest(new).state \notin {"DISPATCHED", "RUNNING"}
                  /\ new.state \in {"READY", "AMBIGUOUS", "CANCELLED", "PREEMPTED"}
             ELSE new = rec
  <1> DEFINE new == mark_worker_lost(ep, rec, e, w, b).rec
             m == MoveAttempt(rec, rec.current_attempt_id, "LOST")
             good == /\ ~StaleEpoch(ep, rec, e)
                     /\ rec.owner_worker = w /\ rec.owner_worker_boot = b
                     /\ rec.state \in BusyStates \ {"RESUMING"}
  <1>1. CASE good
    <2>1. PICK to \in {"READY", "AMBIGUOUS", "CANCELLED", "PREEMPTED"} :
            new = Transition(m, to).rec /\ ExecutionFrom(rec.state, to)
      <3>1. CASE rec.state = "DISPATCHED"
        <4>1. new = Transition(m, "READY").rec
          BY <1>1, <3>1 DEF mark_worker_lost, TerminalExecutionStates
        <4> QED
          BY <3>1, <4>1 DEF ExecutionFrom
      <3>2. CASE rec.state = "RUNNING"
        <4>1. new = Transition(m, "AMBIGUOUS").rec
          BY <1>1, <3>2 DEF mark_worker_lost, TerminalExecutionStates
        <4> QED
          BY <3>2, <4>1 DEF ExecutionFrom
      <3>3. CASE rec.state = "CANCELLATION_REQUESTED"
        <4>1. new = Transition(m, "CANCELLED").rec
          BY <1>1, <3>3 DEF mark_worker_lost, TerminalExecutionStates
        <4> QED
          BY <3>3, <4>1 DEF ExecutionFrom
      <3>4. CASE rec.state = "PREEMPTION_REQUESTED"
        <4>1. new = Transition(m, "PREEMPTED").rec
          BY <1>1, <3>4 DEF mark_worker_lost, TerminalExecutionStates
        <4> QED
          BY <3>4, <4>1 DEF ExecutionFrom
      <3> QED
        BY <1>1, <3>1, <3>2, <3>3, <3>4 DEF BusyStates
    <2>2. to \in ExecutionStates /\ "LOST" \in AttemptStates
      BY DEF ExecutionStates, AttemptStates
    <2>3. /\ new.current_attempt_id = rec.current_attempt_id
          /\ rec.current_attempt_id # 0 =>
               Newest(new).state = IF AttemptFrom(Newest(rec).state, "LOST")
                                   THEN "LOST" ELSE Newest(rec).state
          /\ new.state = IF ExecutionFrom(rec.state, to) THEN to ELSE rec.state
      BY <2>1, <2>2, MovedTo
    <2> HIDE DEF new
    <2>4. rec.current_attempt_id # 0 =>
            Newest(new).state \notin {"DISPATCHED", "RUNNING"}
      BY <2>3 DEF AttemptFrom
    <2> QED
      BY <1>1, <2>1, <2>3, <2>4 DEF new
  <1>2. CASE ~good
    <2>1. new = rec
      BY <1>2 DEF mark_worker_lost, Decision, BusyStates
    <2> QED
      BY <1>2, <2>1
  <1> QED
    BY <1>1, <1>2

\* A loss that is reported.
LEMMA LostSettles ==
  ASSUME NEW n \in Nat, NEW rec, RecInv(n, rec), AtRest(rec), NEW ep, NEW e, NEW w, NEW b
  PROVE  Settles(rec, mark_worker_lost(ep, rec, e, w, b).rec)
  <1>1. PICK new : new = mark_worker_lost(ep, rec, e, w, b).rec
    OBVIOUS
  <1>2. \/ new = rec
        \/ /\ new.current_attempt_id = rec.current_attempt_id
           /\ rec.current_attempt_id # 0 =>
                Newest(new).state \notin {"DISPATCHED", "RUNNING"}
           /\ new.state \in {"READY", "AMBIGUOUS", "CANCELLED", "PREEMPTED"}
    BY <1>1, LostCases
  <1>3. Settles(rec, new)
    BY <1>2, SettlesSelf, EditSettles DEF BusyStates
  <1> QED
    BY <1>1, <1>3

\* A grant takes the current attempt's place, and the execution is not READY.
LEMMA GrantsSettle ==
  ASSUME NEW n \in Nat, NEW rec, RecInv(n, rec), AtRest(rec), NEW ep, NEW e,
         NEW rg \in Gens, NEW w \in Workers, NEW b \in Boots
  PROVE  /\ Settles(rec, dispatch(ep, rec, e, n + 1, w, b).rec)
         /\ Settles(rec, resume(ep, rec, e, rg, n + 1, w, b).rec)
  <1>1. rec \in ExecutionRecords /\ n + 1 \in Nat \ {0}
    BY DEF RecInv
  <1>2. rec.current_attempt_id # 0 => rec.current_attempt_id \in Nat /\ rec.current_attempt_id <= n
    BY <1>1, LastIndex DEF RecInv, CurrentMatches, IdsBelow, Newest, ExecutionRecords
  <1>3. ASSUME NEW new, Granted(rec, new, n + 1), new.state # "READY"
        PROVE  Settles(rec, new)
    BY <1>2, <1>3 DEF Settles, AtRest, Granted
  <1>4. Settles(rec, dispatch(ep, rec, e, n + 1, w, b).rec)
    <2> DEFINE g == Dispatched(rec, n + 1, w, b)
    <2>1. PICK r : r = dispatch(ep, rec, e, n + 1, w, b)
      OBVIOUS
    <2>2. r.rec = rec \/ Granted(rec, r.rec, n + 1)
      BY <2>1, DispatchStep DEF StepOrGrant
    <2>3. g \in ExecutionRecords /\ g.state = rec.state
      BY <1>1, DispatchedType
    <2>4. \/ r.rec = rec
          \/ r.rec = [g EXCEPT !.state = "DISPATCHED"]
          \/ rec.state = "RESUMING" /\ r.rec = g
      BY <1>1, <2>1, DispatchCases
    <2> HIDE DEF g
    <2>5. r.rec = rec \/ r.rec.state # "READY"
      BY <2>3, <2>4 DEF ExecutionRecords
    <2> QED
      BY <1>3, <2>1, <2>2, <2>5, SettlesSelf
  <1>5. Settles(rec, resume(ep, rec, e, rg, n + 1, w, b).rec)
    <2> DEFINE g == Resumed(rec, rg, n + 1, w, b)
    <2>1. PICK r : r = resume(ep, rec, e, rg, n + 1, w, b)
      OBVIOUS
    <2>2. r.rec = rec \/ Granted(rec, r.rec, n + 1)
      BY <2>1, ResumeStep DEF StepOrGrant
    <2>3. g \in ExecutionRecords
      BY <1>1, ResumedType
    <2>4. r.rec = rec \/ r.rec = [g EXCEPT !.state = "RESUMING"]
      BY <1>1, <2>1, ResumeCases
    <2> HIDE DEF g
    <2>5. r.rec = rec \/ r.rec.state # "READY"
      BY <2>3, <2>4 DEF ExecutionRecords
    <2> QED
      BY <1>3, <2>1, <2>2, <2>5, SettlesSelf
  <1> QED
    BY <1>4, <1>5

-----------------------------------------------------------------------------
(* What a call of the engine does to the records.                          *)

\* No attempt that stays current is taken up again, and a new record has none.
Settling ==
  /\ \A x \in DOMAIN records : Settles(records[x], records'[x])
  /\ \A x \in DOMAIN records' \ DOMAIN records :
       AtRest(records'[x]) /\ records'[x].coordinator_epoch <= epoch'

\* The record of x alone is written, and settles.
LEMMA OneSettles ==
  ASSUME RecordsAtRest, NEW x \in DOMAIN records, NEW new, Changes(x, new),
         Settles(records[x], new)
  PROVE  Settling
  <1>1. /\ DOMAIN records' = DOMAIN records
        /\ records'[x] = new
        /\ \A y \in DOMAIN records : y # x => records'[y] = records[y]
    BY OthersKept
  <1>2. \A y \in DOMAIN records : Settles(records[y], records[y])
    BY SettlesSelf DEF RecordsAtRest
  <1> QED
    BY <1>1, <1>2 DEF Settling

\* No record is written.
LEMMA NoneSettles ==
  ASSUME RecordsAtRest, UNCHANGED records
  PROVE  Settling
  BY SettlesSelf DEF RecordsAtRest, Settling

\* A call that touches one record, or finds none.
LEMMA CallSettles ==
  ASSUME RecordsAtRest, NEW x, NEW r, CallOn(x, r),
         Known(x) => Settles(records[x], r.rec)
  PROVE  Settling
  BY OneSettles, NoneSettles DEF CallOn, Known, Changes

\* The calls that workers' frames, the loss of a connection and controllers'
\* requests make.
LEMMA CallsSettle ==
  ASSUME EngineInv, RecordsAtRest, NEW x, NEW e, NEW auth, NEW w, NEW b, NEW t,
         NEW d \in Digests \cup {None},
         \/ MarkRunning(t) \/ Complete(t, d)
         \/ Cancel(x, e, auth) \/ Preempt(x, e, auth)
         \/ AcknowledgePreempt(x, e) \/ MarkResumable(x, e)
         \/ MarkWorkerLost(x, w, b, e)
  PROVE  Settling
  <1>1. \A y \in DOMAIN records : RecInv(used, records[y]) /\ AtRest(records[y])
    BY DEF EngineInv, RecordsInv, RecordsAtRest
  <1>2. used \in Nat
    BY DEF EngineInv, TypeOK
  <1>3. CASE MarkRunning(t)
    BY <1>1, <1>2, <1>3, MarkRunningSettles, CallSettles DEF MarkRunning, Known
  <1>4. CASE Complete(t, d)
    BY <1>1, <1>2, <1>4, CompleteSettles, CallSettles DEF Complete, Known
  <1>5. CASE Cancel(x, e, auth)
    BY <1>1, <1>2, <1>5, RequestsSettle, CallSettles DEF Cancel, Known
  <1>6. CASE Preempt(x, e, auth)
    BY <1>1, <1>2, <1>6, RequestsSettle, CallSettles DEF Preempt, Known
  <1>7. CASE AcknowledgePreempt(x, e)
    BY <1>1, <1>2, <1>7, AcknowledgeSettles, CallSettles DEF AcknowledgePreempt, Known
  <1>8. CASE MarkResumable(x, e)
    BY <1>1, <1>2, <1>8, RequestsSettle, CallSettles DEF MarkResumable, Known
  <1>9. CASE MarkWorkerLost(x, w, b, e)
    BY <1>1, <1>2, <1>9, LostSettles, CallSettles DEF MarkWorkerLost, Known
  <1> QED
    BY <1>3, <1>4, <1>5, <1>6, <1>7, <1>8, <1>9

\* The calls that may grant an attempt.
LEMMA GrantCallsSettle ==
  ASSUME EngineInv, RecordsAtRest, NEW x, NEW w \in Workers, NEW b \in Boots, NEW e,
         NEW rg \in Gens, Dispatch(x, w, b, e) \/ Resume(x, w, b, e, rg)
  PROVE  Settling
  <1>1. \A y \in DOMAIN records : RecInv(used, records[y]) /\ AtRest(records[y])
    BY DEF EngineInv, RecordsInv, RecordsAtRest
  <1>2. used \in Nat
    BY DEF EngineInv, TypeOK
  <1>3. CASE Dispatch(x, w, b, e)
    BY <1>1, <1>2, <1>3, GrantsSettle, OneSettles DEF Dispatch, GrantOn, Known, Changes
  <1>4. CASE Resume(x, w, b, e, rg)
    <2>1. CASE Known(x)
      BY <1>1, <1>2, <1>4, <2>1, GrantsSettle, OneSettles
         DEF Resume, GrantOn, Known, Changes
    <2>2. CASE ~Known(x)
      BY <1>4, <2>2, NoneSettles DEF Resume
    <2> QED
      BY <2>1, <2>2
  <1> QED
    BY <1>3, <1>4

\* SUBMIT: a record is made, or none is written.
LEMMA SubmitSettles ==
  ASSUME EngineInv, RecordsAtRest, NEW x \in Execs, NEW e \in Epochs, Submit(x, e)
  PROVE  Settling
  <1> DEFINE ep == AdoptEpoch(epoch, e)
             new == activate(ep, NewRecord(ep), e).rec
  <1>1. CASE UNCHANGED records
    BY <1>1, NoneSettles
  <1>2. CASE /\ ~Known(x)
             /\ records' = [y \in DOMAIN records \cup {x} |->
                              IF y = x THEN new ELSE records[y]]
    <2>1. epoch' = ep /\ ep \in Epochs
      BY EpochType DEF Submit, EngineInv, TypeOK
    <2>2. new.current_attempt_id = 0 /\ new.coordinator_epoch = ep
      BY DEF activate, Transition, Decision, NewRecord
    <2> HIDE DEF new, ep
    <2>3. /\ DOMAIN records' = DOMAIN records \cup {x}
          /\ records'[x] = new
          /\ \A y \in DOMAIN records : records'[y] = records[y]
      BY <1>2 DEF Known
    <2>4. \A y \in DOMAIN records : Settles(records[y], records[y])
      BY SettlesSelf DEF RecordsAtRest
    <2>5. AtRest(new) /\ new.coordinator_epoch <= epoch'
      BY <2>1, <2>2 DEF AtRest, Epochs
    <2> QED
      BY <2>3, <2>4, <2>5 DEF Settling
  <1> QED
    BY <1>1, <1>2 DEF Submit

-----------------------------------------------------------------------------
(* What a call of the engine does to the tickets that were issued before.  *)

\* Records stay at rest, under epochs the engine has reached.
LEMMA RestKept ==
  ASSUME EngineInv, RecordsAtRest, Moves, Settling
  PROVE  RecordsAtRest'
  <1>1. epoch \in Nat /\ epoch' \in Nat /\ epoch <= epoch'
    BY DEF EngineInv, Moves, TypeOK, Epochs
  <1>2. ASSUME NEW x \in DOMAIN records
        PROVE  AtRest(records'[x]) /\ records'[x].coordinator_epoch <= epoch'
    <2>1. /\ records'[x].coordinator_epoch = records[x].coordinator_epoch
          /\ records[x].coordinator_epoch <= epoch
      BY DEF Moves, RecStep, AuthorityAdvances, RecordsAtRest
    <2>2. records[x].coordinator_epoch \in Nat
      BY DEF EngineInv, TypeOK, ExecutionRecords, Epochs
    <2> QED
      BY <1>1, <2>1, <2>2 DEF Settling, Settles
  <1> QED
    BY <1>2 DEF RecordsAtRest, Settling

\* An attempt keeps whom it was granted to.
LEMMA GrantsKept ==
  ASSUME NEW rec \in ExecutionRecords, NEW new \in ExecutionRecords,
         HistoryGrows(rec, new), NEW t, Grants(rec, t)
  PROVE  Grants(new, t)
  <1>1. PICK i \in DOMAIN rec.attempts :
          /\ rec.attempts[i].id = t.attempt_id
          /\ rec.attempts[i].worker_id = t.worker_id
          /\ rec.attempts[i].worker_boot_id = t.worker_boot_id
    BY DEF Grants
  <1>2. SameIdentity(rec.attempts[i], new.attempts[i])
    BY DEF HistoryGrows
  <1>3. i \in DOMAIN new.attempts
    BY LastIndex DEF HistoryGrows
  <1> QED
    BY <1>1, <1>2, <1>3 DEF Grants, SameIdentity

\* The attempt of a ticket that was issued becomes neither current nor busy
\* again, nor does its execution begin to resume.
LEMMA TicketSettles ==
  ASSUME EngineInv, TicketsGranted, Moves, Settling, NEW t \in tickets
  PROVE  /\ t.execution_id \in DOMAIN records'
         /\ Grants(records'[t.execution_id], t)
         /\ UnderWay(t)' => UnderWay(t)
         /\ records'[t.execution_id].current_attempt_id = t.attempt_id =>
              /\ records[t.execution_id].current_attempt_id = t.attempt_id
              /\ records'[t.execution_id].state = "RESUMING" =>
                   records[t.execution_id].state = "RESUMING"
  <1> DEFINE x == t.execution_id
             rec == records[x]
             new == records'[x]
  <1>1. x \in DOMAIN records /\ Grants(rec, t)
    BY DEF TicketsGranted, Known
  <1>2. /\ x \in DOMAIN records' /\ RecStep(rec, new) /\ Settles(rec, new)
        /\ rec \in ExecutionRecords /\ new \in ExecutionRecords
    BY <1>1 DEF Moves, Settling, EngineInv, TypeOK
  <1>3. Grants(new, t)
    BY <1>1, <1>2, GrantsKept DEF RecStep
  <1>4. ASSUME new.current_attempt_id = t.attempt_id
        PROVE  rec.current_attempt_id = t.attempt_id /\ t.attempt_id # 0
    <2>1. PICK i \in DOMAIN rec.attempts : rec.attempts[i].id = t.attempt_id
      BY <1>1 DEF Grants
    <2>2. t.attempt_id \in Nat \ {0}
      BY <1>2, <2>1, LastIndex DEF AttemptRecords
    <2>3. new.current_attempt_id \notin {0, rec.current_attempt_id} =>
            t.attempt_id < new.current_attempt_id
      BY <1>2, <2>1 DEF RecStep, AuthorityAdvances
    <2> QED
      BY <1>4, <2>2, <2>3
  <1>5. UnderWay(t)' <=> new.current_attempt_id = t.attempt_id /\ Busy(new)
    BY DEF UnderWay, Busy, BusyStates, Newest
  <1>6. UnderWay(t) <=> rec.current_attempt_id = t.attempt_id /\ Busy(rec)
    BY DEF UnderWay, Busy, BusyStates
  <1> HIDE DEF rec, new
  <1>7. new.current_attempt_id = t.attempt_id =>
          /\ rec.current_attempt_id = t.attempt_id
          /\ Busy(new) => Busy(rec)
          /\ new.state = "RESUMING" => rec.state = "RESUMING"
    BY <1>2, <1>4 DEF Settles
  <1> QED
    BY <1>2, <1>3, <1>5, <1>6, <1>7 DEF rec, new

\* A loss that is reported for the worker and boot id of a ticket, under the
\* engine's own epoch, ends its attempt unless the execution was resuming.
LEMMA LossEnds ==
  ASSUME EngineInv, RecordsAtRest, TicketsGranted, NEW t \in tickets,
         MarkWorkerLost(t.execution_id, t.worker_id, t.worker_boot_id, epoch),
         records[t.execution_id].state # "RESUMING",
         UnderWay(t)
  PROVE  ~UnderWay(t)'
  <1> DEFINE x == t.execution_id
             rec == records[x]
  <1>1. PICK r : r = mark_worker_lost(epoch, rec, epoch, t.worker_id, t.worker_boot_id)
    OBVIOUS
  <1>2. /\ x \in DOMAIN records /\ Grants(rec, t)
        /\ RecInv(used, rec) /\ used \in Nat /\ rec \in ExecutionRecords
        /\ rec.coordinator_epoch <= epoch /\ rec.coordinator_epoch \in Nat
        /\ epoch \in Nat
    BY DEF TicketsGranted, Known, EngineInv, RecordsInv, RecInv, TypeOK, RecordsAtRest,
           ExecutionRecords, Epochs
  <1>3. records'[x] = r.rec
    BY <1>1, <1>2 DEF MarkWorkerLost, CallOn, Known
  <1>4. /\ rec.current_attempt_id = t.attempt_id
        /\ rec.state \in BusyStates \ {"RESUMING"}
    BY DEF UnderWay, BusyStates
  <1>5. /\ rec.owner_worker = t.worker_id /\ rec.owner_worker_boot = t.worker_boot_id
        /\ rec.current_attempt_id # 0
    <2>1. PICK i \in DOMAIN rec.attempts :
            /\ rec.attempts[i].id = t.attempt_id
            /\ rec.attempts[i].worker_id = t.worker_id
            /\ rec.attempts[i].worker_boot_id = t.worker_boot_id
      BY <1>2 DEF Grants
    <2>2. rec.attempts[i].id \in Nat \ {0}
      BY <1>2, LastIndex DEF AttemptRecords
    <2>3. /\ Len(rec.attempts) > 0
          /\ Newest(rec).id = t.attempt_id
          /\ Newest(rec).worker_id = rec.owner_worker
          /\ Newest(rec).worker_boot_id = rec.owner_worker_boot
      BY <1>2, <1>4, <2>1, <2>2 DEF RecInv, CurrentMatches
    <2>4. i = Len(rec.attempts)
      <3>1. /\ Len(rec.attempts) \in DOMAIN rec.attempts /\ i \in Nat
            /\ i <= Len(rec.attempts) /\ Len(rec.attempts) \in Nat
        BY <1>2, <2>3, LastIndex
      <3>2. i < Len(rec.attempts) => rec.attempts[i].id < Newest(rec).id
        BY <1>2, <3>1 DEF RecInv, IdsInOrder, Newest
      <3> QED
        BY <2>1, <2>2, <2>3, <3>1, <3>2
    <2> QED
      BY <1>4, <2>1, <2>2, <2>3, <2>4 DEF Newest
  <1>6. ~StaleEpoch(epoch, rec, epoch)
    BY <1>2 DEF StaleEpoch
  <1>7. r.rec.state \in {"READY", "AMBIGUOUS", "CANCELLED", "PREEMPTED"}
    BY <1>1, <1>2, <1>4, <1>5, <1>6, LostCases
  <1> QED
    BY <1>3, <1>7 DEF UnderWay

-----------------------------------------------------------------------------
(* The invariant is inductive.                                             *)

\* What a step does to the network and the table, as far as losses go: what was
\* sent stays sent; an entry goes by its marker only; while an entry stays,
\* it keeps what it carries unless a dispatch sends something else there.
NetMoves ==
  /\ UNCHANGED <<id, own_epoch>>
  /\ \A c \in Conns : reader[c] # "none" => reader'[c] # "none"
  /\ Len(sent) <= Len(sent')
  /\ \A i \in DOMAIN sent : sent'[i] = sent[i]
  /\ \A c \in DOMAIN conns \ DOMAIN conns' : ConnClosed(c)
  /\ \A i \in DOMAIN sent :
       LastTracked(i)' /\ sent[i].conn \in DOMAIN conns' =>
         LET c == sent[i].conn
         IN  /\ c \in DOMAIN conns
             /\ conns[c].is_worker => conns'[c].is_worker
             /\ conns'[c].active_execution = conns[c].active_execution

\* A ticket that this step sent.
NewlySent(i) ==
  /\ TrackedOK(i)
  /\ reader[sent[i].conn] # "none"
  /\ ~Forgotten(sent[i].conn)

\* A step that moves the records, the network and the table like this keeps the
\* invariant.
LEMMA LossKeeps ==
  ASSUME RInv, NetInv', Moves, Settling, NetMoves, TicketsGranted', ConnsNamed',
         \A i \in DOMAIN sent' \ DOMAIN sent : NewlySent(i)'
  PROVE  LossInv'
  <1>1. EngineInv /\ LossInv /\ NetInv /\ CInv
    BY EngineOfCInv DEF RInv
  <1>2. /\ sent \in Seq(SentTickets) /\ DOMAIN sent = 1 .. Len(sent) /\ Len(sent) \in Nat
        /\ sent' \in Seq(SentTickets') /\ DOMAIN sent' = 1 .. Len(sent')
        /\ Len(sent') \in Nat
        /\ \A i \in DOMAIN sent : sent[i] \in SentTickets
    <2>1. sent \in Seq(SentTickets) /\ sent' \in Seq(SentTickets')
      BY <1>1 DEF NetInv, NetTypes
    <2> HIDE DEF SentTickets
    <2> QED
      BY <2>1
  <1>3. RecordsAtRest'
    BY <1>1, RestKept DEF LossInv
  <1>4. ASSUME NEW i \in DOMAIN sent
        PROVE  /\ i \in DOMAIN sent' /\ sent'[i] = sent[i]
               /\ sent[i].conn \in Conns /\ sent[i].ticket \in tickets
               /\ LastTracked(i)' => LastTracked(i)
               /\ TrackedOK(i)'
               /\ reader'[sent[i].conn] # "none"
    <2> DEFINE s == sent[i]
               t == s.ticket
               x == t.execution_id
    <2>1. i \in DOMAIN sent' /\ sent'[i] = s
      BY <1>2 DEF NetMoves
    <2>2. s.conn \in Conns /\ t \in tickets
      BY <1>2 DEF SentTickets
    <2>3. reader[s.conn] # "none" /\ TrackedOK(i)
      BY <1>1 DEF LossInv
    <2>4. LastTracked(i)' => LastTracked(i)
      <3>1. \A j \in i + 1 .. Len(sent) : j \in i + 1 .. Len(sent') /\ sent'[j] = sent[j]
        BY <1>2 DEF NetMoves
      <3> QED
        BY <2>1, <3>1 DEF LastTracked
    <2>5. s.tracked /\ records'[x].current_attempt_id = t.attempt_id =>
            records'[x].state # "RESUMING"
      BY <1>1, <2>2, <2>3, TicketSettles DEF TrackedOK, LossInv
    <2>6. LastTracked(i)' => t.worker_id = id'[s.conn]
      BY <2>3, <2>4 DEF TrackedOK, NetMoves
    <2>7. LastTracked(i)' /\ s.conn \in DOMAIN conns' =>
            conns'[s.conn].is_worker /\ conns'[s.conn].active_execution = x
      BY <2>3, <2>4 DEF TrackedOK, NetMoves
    <2>8. TrackedOK(i)'
      BY <2>1, <2>5, <2>6, <2>7 DEF TrackedOK
    <2> QED
      BY <2>1, <2>2, <2>3, <2>4, <2>8 DEF NetMoves
  <1>5. \A i \in DOMAIN sent' : TrackedOK(i)' /\ reader'[sent'[i].conn] # "none"
    BY <1>4 DEF NewlySent
  <1>6. ASSUME NEW i \in DOMAIN sent, NEW c, NEW t, c = sent[i].conn, t = sent[i].ticket,
               UnderWay(t)', Forgotten(c)', LastTracked(i)', t.worker_boot_id = c,
               ~(own_epoch' < epoch')
        PROVE  FALSE
    <2> DEFINE x == t.execution_id
    <2>1. c \in Conns /\ t \in tickets /\ LastTracked(i) /\ reader[c] # "none"
      BY <1>1, <1>4, <1>6 DEF LossInv
    <2>2. own_epoch = epoch
      <3>1. /\ own_epoch \in Nat /\ epoch \in Nat /\ epoch' \in Nat
            /\ own_epoch <= epoch /\ epoch <= epoch' /\ own_epoch' = own_epoch
        BY <1>1 DEF CInv, CTypeOK, Moves, EngineInv, TypeOK, Epochs, NetMoves
      <3> QED
        BY <1>6, <3>1
    <2>3. UnderWay(t)
      BY <1>1, <1>6, <2>1, TicketSettles DEF LossInv
    <2>4. ~Forgotten(c)
      <3>1. \A j \in i + 1 .. Len(sent) : ~(sent[j].conn = c /\ sent[j].tracked)
        BY <1>6, <2>1 DEF LastTracked
      <3>2. sent[i].tracked /\ ~(own_epoch < epoch)
        BY <1>1, <2>1, <2>2 DEF LastTracked, CInv, CTypeOK, Epochs
      <3> QED
        BY <1>1, <1>6, <2>3, <3>1, <3>2 DEF LossInv, LossClassified
    <2>5. c \in DOMAIN conns /\ c \notin DOMAIN conns'
      BY <1>1, <1>6, <2>1, <2>4 DEF Forgotten, NetInv, NetTypes, InOrder
    <2>6. ConnClosed(c)
      BY <2>5 DEF NetMoves
    <2>7. /\ conns[c].is_worker /\ conns[c].active_execution = x
          /\ t.worker_id = id[c] /\ sent[i].tracked
      BY <1>1, <1>6, <2>1, <2>5 DEF LossInv, TrackedOK, LastTracked
    <2>8. conns[c].worker_id = t.worker_id /\ conns[c].boot = t.worker_boot_id
      BY <1>1, <1>6, <2>5, <2>7 DEF LossInv, ConnsNamed
    <2>9. x # None
      BY <1>1, <2>1, CoordinatorAssumption DEF EngineInv, TypeOK, DispatchTickets
    <2>10. MarkWorkerLost(x, t.worker_id, t.worker_boot_id, epoch)
      BY <2>2, <2>6, <2>7, <2>8, <2>9 DEF ConnClosed
    <2>11. records[x].state # "RESUMING"
      BY <1>1, <1>6, <2>3, <2>7 DEF LossInv, TrackedOK, UnderWay
    <2> QED
      BY <1>1, <1>6, <2>1, <2>3, <2>10, <2>11, LossEnds DEF LossInv
  <1>7. LossClassified'
    <2>1. ASSUME NEW i \in DOMAIN sent', NEW s, s = sent'[i],
                 UnderWay(s.ticket)', Forgotten(s.conn)', s.tracked,
                 \A j \in i + 1 .. Len(sent') :
                   ~(sent'[j].conn = s.conn /\ sent'[j].tracked),
                 s.ticket.worker_boot_id = s.conn,
                 ~(own_epoch' < epoch')
          PROVE  FALSE
      <3>1. LastTracked(i)'
        BY <2>1 DEF LastTracked
      <3>2. i \in DOMAIN sent
        BY <2>1 DEF NewlySent, Forgotten
      <3>3. s = sent[i]
        BY <2>1, <3>2 DEF NetMoves
      <3> QED
        BY <1>6, <2>1, <3>1, <3>2, <3>3
    <2> QED
      BY <2>1 DEF LossClassified, UnderWay, Forgotten, Newest
  <1> QED
    BY <1>3, <1>5, <1>7 DEF LossInv

\* The memory stays as it is.
LEMMA MemoryStays ==
  ASSUME CInv, RecordsAtRest, UNCHANGED mem
  PROVE  Moves /\ Settling /\ UNCHANGED tickets
  <1>1. UNCHANGED vars /\ UNCHANGED records /\ UNCHANGED tickets
    BY DEF mem, vars
  <1> QED
    BY <1>1, EngineOfCInv, NextMoves, NoneSettles

\* The tickets that were issued, when no other is.
LEMMA GrantedStay ==
  ASSUME EngineInv, TicketsGranted, Moves, Settling, UNCHANGED tickets
  PROVE  TicketsGranted'
  BY TicketSettles DEF TicketsGranted, Known

\* A step that leaves the table alone and sends nothing.
LEMMA LossQuiet ==
  ASSUME RInv, NetInv', Moves, Settling, TicketsGranted',
         UNCHANGED <<conns, sent, id, own_epoch>>,
         \A c \in Conns : reader[c] # "none" => reader'[c] # "none"
  PROVE  LossInv'
  <1>1. ConnsNamed'
    BY DEF RInv, LossInv, ConnsNamed
  <1>2. sent \in Seq(SentTickets)
    BY DEF RInv, NetInv, NetTypes
  <1>3. Len(sent) <= Len(sent')
    <2> HIDE DEF SentTickets
    <2> QED
      BY <1>2
  <1>4. ASSUME NEW i \in DOMAIN sent, LastTracked(i)', sent[i].conn \in DOMAIN conns'
        PROVE  /\ sent[i].conn \in DOMAIN conns
               /\ conns'[sent[i].conn] = conns[sent[i].conn]
    BY <1>4
  <1>5. NetMoves
    BY <1>3, <1>4 DEF NetMoves
  <1> QED
    BY <1>1, <1>5, LossKeeps

\* Workers and readers.
LEMMA LossPeers ==
  ASSUME RInv, NetInv', NEW c \in Conns,
         \/ WorkerStarts(c) \/ WorkerTakes(c) \/ WorkerCompletes(c)
         \/ WorkerDies(c) \/ ReaderPushes(c) \/ ReaderEnds(c)
  PROVE  LossInv'
  <1>1. /\ UNCHANGED cvars /\ UNCHANGED <<sent, id>>
        /\ reader' \in {reader, [reader EXCEPT ![c] = "ended"]}
    BY DEF WorkerStarts, WorkerTakes, WorkerCompletes, WorkerDies, ReaderPushes,
           ReaderEnds
  <1>2. UNCHANGED mem /\ UNCHANGED <<conns, own_epoch>>
    BY <1>1 DEF cvars
  <1>3. Moves /\ Settling /\ UNCHANGED tickets
    BY <1>2, MemoryStays DEF RInv, LossInv
  <1>4. TicketsGranted'
    BY <1>3, GrantedStay, EngineOfCInv DEF RInv, LossInv
  <1>5. \A d \in Conns : reader[d] # "none" => reader'[d] # "none"
    BY <1>1 DEF RInv, NetInv, NetTypes
  <1> QED
    BY <1>1, <1>2, <1>3, <1>4, <1>5, LossQuiet

\* A step that changes the table and sends nothing.
LEMMA LossTable ==
  ASSUME RInv, NetInv', Moves, Settling, UNCHANGED tickets, ConnsNamed',
         UNCHANGED <<sent, id, own_epoch>>,
         \A c \in Conns : reader[c] # "none" => reader'[c] # "none",
         \A c \in DOMAIN conns \ DOMAIN conns' : ConnClosed(c),
         \A c \in DOMAIN conns' : reader[c] # "none" =>
           /\ c \in DOMAIN conns
           /\ conns[c].is_worker => conns'[c].is_worker
           /\ conns'[c].active_execution = conns[c].active_execution
  PROVE  LossInv'
  <1>1. TicketsGranted'
    BY GrantedStay, EngineOfCInv DEF RInv, LossInv
  <1>2. sent \in Seq(SentTickets)
    BY DEF RInv, NetInv, NetTypes
  <1>3. Len(sent) <= Len(sent')
    <2> HIDE DEF SentTickets
    <2> QED
      BY <1>2
  <1>4. \A i \in DOMAIN sent : reader[sent[i].conn] # "none"
    BY DEF RInv, LossInv
  <1>5. NetMoves
    BY <1>3, <1>4 DEF NetMoves
  <1> QED
    BY <1>1, <1>5, LossKeeps

\* A new connection: nothing was ever sent there.
LEMMA LossAcceptor ==
  ASSUME RInv, NetInv', NEW c \in Conns, Acceptor(c)
  PROVE  LossInv'
  <1>1. /\ UNCHANGED mem /\ UNCHANGED <<own_epoch, sent, id>>
        /\ reader[c] = "none" /\ reader' = [reader EXCEPT ![c] = "reading"]
        /\ conns' = [k \in DOMAIN conns \cup {c} |-> IF k = c THEN NewConn ELSE conns[k]]
    BY DEF Acceptor, Accept
  <1>2. Moves /\ Settling /\ UNCHANGED tickets
    BY <1>1, MemoryStays DEF RInv, LossInv
  <1>3. ConnsNamed'
    BY <1>1 DEF RInv, LossInv, ConnsNamed, NewConn
  <1>4. \A d \in Conns : reader[d] # "none" => reader'[d] # "none"
    BY <1>1 DEF RInv, NetInv, NetTypes
  <1>5. /\ DOMAIN conns \subseteq DOMAIN conns'
        /\ \A d \in DOMAIN conns' : reader[d] # "none" =>
             d \in DOMAIN conns /\ conns'[d] = conns[d]
    BY <1>1
  <1> QED
    BY <1>1, <1>2, <1>3, <1>4, <1>5, LossTable

\* A frame of a worker, or the marker of a connection.
LEMMA LossDecide ==
  ASSUME RInv, NetInv', Decide
  PROVE  LossInv'
  <1>0. RInv /\ CInv /\ NetInv /\ LossInv /\ EngineInv /\ TableOK
    BY EngineOfCInv DEF RInv
  <1>1. PICK c \in Conns, f \in Frames \cup Markers :
          /\ HandleFrame(c, f)
          /\ f.type \in {"START", "COMPLETE"} => f.ticket \in tickets
    BY <1>0, Taken
  <1>2. UNCHANGED <<sent, id, reader>>
    BY DEF Decide
  <1>3. CASE Hello(c, TRUE, id[c], c)
    <2>1. UNCHANGED mem /\ UNCHANGED own_epoch /\ c \in DOMAIN conns
      BY <1>3 DEF Hello
    <2>2. Moves /\ Settling /\ UNCHANGED tickets
      BY <1>0, <2>1, MemoryStays DEF LossInv
    <2>3. /\ DOMAIN conns' = DOMAIN conns
          /\ \A d \in DOMAIN conns :
               /\ d # c => conns'[d] = conns[d]
               /\ d = c => /\ conns'[d].is_worker
                           /\ conns'[d].worker_id = id[c] /\ conns'[d].boot = c
                           /\ conns'[d].active_execution = conns[d].active_execution
      BY <1>0, <1>3 DEF Hello, TableOK, ConnEntries
    <2>4. ConnsNamed'
      BY <1>0, <1>2, <2>3 DEF LossInv, ConnsNamed
    <2> QED
      BY <1>2, <2>1, <2>2, <2>3, <2>4, LossTable
  <1>4. ASSUME NEW t \in tickets, NEW d \in Digests \cup {None},
               HandleStart(t) \/ HandleComplete(t, d)
        PROVE  LossInv'
    <2>1. /\ MarkRunning(t) \/ Complete(t, d)
          /\ UNCHANGED <<conns, own_epoch>>
      BY <1>4 DEF HandleStart, HandleComplete
    <2>2. Next
      BY <2>1 DEF Next, Presented
    <2>3. UNCHANGED tickets
      BY <2>1 DEF MarkRunning, Complete, CallOn
    <2>4. Moves /\ Settling
      BY <1>0, <2>1, <2>2, NextMoves, CallsSettle DEF LossInv
    <2>5. TicketsGranted'
      BY <1>0, <2>3, <2>4, GrantedStay DEF LossInv
    <2> QED
      BY <1>2, <2>1, <2>4, <2>5, LossQuiet
  <1>5. CASE ConnClosed(c)
    <2>1. /\ conns' = [k \in DOMAIN conns \ {c} |-> conns[k]]
          /\ UNCHANGED own_epoch /\ c \in DOMAIN conns
      BY <1>5 DEF ConnClosed
    <2>2. Moves /\ Settling /\ UNCHANGED tickets
      <3>1. CASE conns[c].is_worker /\ conns[c].active_execution # None
        <4>1. /\ conns[c].active_execution \in Execs
              /\ conns[c].worker_id \in Workers /\ conns[c].boot \in Boots
              /\ own_epoch \in Epochs
          BY <1>0, <2>1, <3>1 DEF TableOK, ConnEntries, WorkersNamed, CInv, CTypeOK
        <4>2. MarkWorkerLost(conns[c].active_execution, conns[c].worker_id,
                             conns[c].boot, own_epoch)
          BY <1>5, <3>1 DEF ConnClosed
        <4>3. Next /\ UNCHANGED tickets
          BY <4>1, <4>2 DEF Next, MarkWorkerLost, CallOn
        <4>4. Settling
          BY <1>0, <4>2, CallsSettle DEF LossInv
        <4> QED
          BY <1>0, <4>3, <4>4, NextMoves
      <3>2. CASE ~(conns[c].is_worker /\ conns[c].active_execution # None)
        <4>1. UNCHANGED mem
          BY <1>5, <3>2 DEF ConnClosed
        <4> QED
          BY <1>0, <4>1, MemoryStays DEF LossInv
      <3> QED
        BY <3>1, <3>2
    <2>3. ConnsNamed'
      BY <1>0, <1>2, <2>1 DEF LossInv, ConnsNamed
    <2> QED
      BY <1>2, <1>5, <2>1, <2>2, <2>3, LossTable
  <1>6. \/ Hello(c, TRUE, id[c], c)
        \/ f.ticket \in tickets /\ HandleStart(f.ticket)
        \/ \E d \in Digests \cup {None} : f.ticket \in tickets /\ HandleComplete(f.ticket, d)
        \/ ConnClosed(c)
    BY <1>1 DEF HandleFrame
  <1> QED
    BY <1>3, <1>4, <1>5, <1>6

\* A ticket was granted: it names whom the newest attempt was granted to.
LEMMA IssuedGranted ==
  ASSUME EngineInv, TicketsGranted, Moves, Settling, NEW x \in DOMAIN records,
         NEW w, NEW b, Issued(x, w, b)
  PROVE  TicketsGranted'
  <1>1. x \in DOMAIN records' /\ records'[x] \in ExecutionRecords
    BY DEF Moves, EngineInv, TypeOK
  <1>2. records[x] \in ExecutionRecords
    BY DEF EngineInv, TypeOK
  <1>3. /\ Len(records'[x].attempts) > 0
        /\ Newest(records'[x]).id = used + 1
        /\ Newest(records'[x]).worker_id = w
        /\ Newest(records'[x]).worker_boot_id = b
    BY <1>2, LastIndex DEF Issued, Granted
  <1>4. Len(records'[x].attempts) \in DOMAIN records'[x].attempts
    BY <1>1, <1>3, LastIndex
  <1>5. PICK t : t = NewTicket
    OBVIOUS
  <1>6. Grants(records'[x], t) /\ t.execution_id = x
    BY <1>3, <1>4, <1>5 DEF Issued, Grants, Newest
  <1>7. tickets' = tickets \cup {t}
    BY <1>5 DEF Issued
  <1>8. \A u \in tickets : /\ u.execution_id \in DOMAIN records'
                           /\ Grants(records'[u.execution_id], u)
    BY TicketSettles
  <1> QED
    BY <1>1, <1>6, <1>7, <1>8 DEF TicketsGranted, Known

\* Ticket t is sent to connection c.  If that is tracked, the entry is told.
LEMMA LossSends ==
  ASSUME RInv, NetInv', Moves, Settling, TicketsGranted', ConnsNamed',
         UNCHANGED <<id, own_epoch, reader>>, DOMAIN conns' = DOMAIN conns,
         NEW c \in DOMAIN conns, NEW t, NEW tracked \in BOOLEAN,
         sent' = Append(sent, [conn |-> c, ticket |-> t, tracked |-> tracked]),
         \A d \in DOMAIN conns : d # c \/ ~tracked => conns'[d] = conns[d],
         tracked => /\ t.worker_id = id[c]
                    /\ conns'[c].is_worker
                    /\ conns'[c].active_execution = t.execution_id
                    /\ records'[t.execution_id].state # "RESUMING"
  PROVE  LossInv'
  <1>1. PICK s : s = [conn |-> c, ticket |-> t, tracked |-> tracked]
    OBVIOUS
  <1>2. sent \in Seq(SentTickets)
    BY DEF RInv, NetInv, NetTypes
  <1>3. PICK n : n = Len(sent) + 1
    OBVIOUS
  <1>4. /\ Len(sent) \in Nat /\ n \in Nat /\ DOMAIN sent = 1 .. Len(sent)
        /\ Len(sent') = n /\ Len(sent) <= Len(sent') /\ DOMAIN sent' = 1 .. n
        /\ \A i \in DOMAIN sent : sent'[i] = sent[i] /\ n \in i + 1 .. n
        /\ sent'[n] = s
    <2> HIDE DEF SentTickets
    <2> QED
      BY <1>1, <1>2, <1>3
  <1>5. s.conn = c /\ s.ticket = t /\ s.tracked = tracked
    BY <1>1
  <1>6. reader[c] # "none"
    BY EngineOfCInv DEF RInv, NetInv, InOrder, TableOK
  <1>7. ASSUME NEW i \in DOMAIN sent, LastTracked(i)', sent[i].conn \in DOMAIN conns'
        PROVE  conns'[sent[i].conn] = conns[sent[i].conn]
    <2>1. ~(sent'[n].conn = sent'[i].conn /\ sent'[n].tracked)
      BY <1>4, <1>7 DEF LastTracked
    <2>2. sent[i].conn # c \/ ~tracked
      BY <1>4, <1>5, <2>1
    <2> QED
      BY <1>7, <2>2
  <1>8. NetMoves
    BY <1>4, <1>7 DEF NetMoves
  <1>9. NewlySent(n)'
    <2>1. TrackedOK(n)'
      <3>1. LastTracked(n)' => tracked
        BY <1>4, <1>5 DEF LastTracked
      <3> QED
        BY <1>4, <1>5, <3>1 DEF TrackedOK
    <2> QED
      BY <1>4, <1>5, <1>6, <2>1 DEF NewlySent, Forgotten
  <1>10. \A i \in DOMAIN sent' \ DOMAIN sent : NewlySent(i)'
    <2>1. \A i \in DOMAIN sent' \ DOMAIN sent : i = n
      BY <1>3, <1>4
    <2> QED
      BY <1>9, <2>1
  <1> QED
    BY <1>8, <1>10, LossKeeps

\* DISPATCH: what is sent is tracked.
LEMMA LossDispatches ==
  ASSUME RInv, NetInv', NEW x \in Execs, NEW e \in Epochs, NEW w \in Workers,
         NEW b \in Boots, ControllerDispatches(x, w, b, e)
  PROVE  LossInv'
  <1>0. RInv /\ CInv /\ NetInv /\ LossInv /\ EngineInv /\ TableOK
    BY EngineOfCInv DEF RInv
  <1>1. PICK c \in ConnsOf(w) :
          /\ DispatchTo(c, x, w, b, e)
          /\ IF decision' = "ALLOW" THEN SendTicket(c, NewTicket, TRUE)
                                    ELSE UNCHANGED <<down, sent>>
    BY DEF ControllerDispatches
  <1>2. /\ c \in DOMAIN conns /\ conns[c].is_worker /\ conns[c].worker_id = w
        /\ conns[c] \in ConnEntries
    BY <1>0, <1>1 DEF ConnsOf, TableOK
  <1>3. /\ Dispatch(x, w, b, e) /\ x \in DOMAIN records
        /\ UNCHANGED <<id, own_epoch, reader>>
    BY <1>1 DEF ControllerDispatches, DispatchTo, Dispatch, Known
  <1>4. Moves /\ Settling
    <2>1. Next
      BY <1>3 DEF Next
    <2>2. 0 \in Gens
      BY SmallGens
    <2> QED
      BY <1>0, <1>3, <2>1, <2>2, NextMoves, GrantCallsSettle DEF LossInv
  <1>5. CASE decision' = "ALLOW"
    <2>1. Issued(x, w, b) /\ records'[x].state = "DISPATCHED"
      BY <1>0, <1>3, <1>5, DispatchIssues
    <2>2. TicketsGranted'
      BY <1>0, <1>3, <1>4, <2>1, IssuedGranted DEF LossInv
    <2>3. PICK t : t = NewTicket
      OBVIOUS
    <2>4. t.execution_id = x /\ t.worker_id = w
      BY <2>1, <2>3 DEF Issued
    <2>5. sent' = Append(sent, [conn |-> c, ticket |-> t, tracked |-> TRUE])
      BY <1>1, <1>5, <2>3 DEF SendTicket
    <2>6. conns' = [conns EXCEPT ![c].active_execution = x]
      BY <1>1, <1>5 DEF DispatchTo
    <2>7. /\ DOMAIN conns' = DOMAIN conns
          /\ \A d \in DOMAIN conns : d # c => conns'[d] = conns[d]
          /\ conns'[c].is_worker /\ conns'[c].active_execution = x
          /\ conns'[c].worker_id = conns[c].worker_id /\ conns'[c].boot = conns[c].boot
      BY <1>2, <2>6 DEF ConnEntries
    <2>8. w = id[c]
      BY <1>0, <1>2 DEF LossInv, ConnsNamed
    <2>9. ConnsNamed'
      BY <1>0, <1>2, <1>3, <2>7 DEF LossInv, ConnsNamed
    <2>10. records'[t.execution_id].state # "RESUMING"
      BY <2>1, <2>4
    <2> QED
      BY <1>2, <1>3, <1>4, <2>2, <2>4, <2>5, <2>7, <2>8, <2>9, <2>10, LossSends
  <1>6. CASE decision' # "ALLOW"
    <2>1. UNCHANGED <<conns, sent>>
      BY <1>1, <1>6 DEF DispatchTo
    <2>2. UNCHANGED tickets
      <3>1. PICK r : /\ r = dispatch(epoch, records[x], e, used + 1, w, b)
                     /\ GrantOn(x, r, epoch')
        BY <1>3 DEF Dispatch
      <3>2. records[x] \in ExecutionRecords /\ used + 1 \in Nat \ {0}
        BY <1>0, <1>3 DEF EngineInv, TypeOK
      <3>3. r.code \notin AllowedCodes \/ r.code = "ALLOW"
        BY <3>1, <3>2, DispatchCases
      <3> QED
        BY <1>6, <3>1, <3>3 DEF GrantOn
    <2>3. TicketsGranted'
      BY <1>0, <1>4, <2>2, GrantedStay DEF LossInv
    <2> QED
      BY <1>3, <1>4, <2>1, <2>3, LossQuiet
  <1> QED
    BY <1>5, <1>6

\* RESUME: the ticket is sent untracked, or to nobody.
LEMMA LossResumes ==
  ASSUME RInv, NetInv', NEW x \in Execs, NEW e \in Epochs, NEW w \in Workers,
         NEW b \in Boots, NEW rg \in Gens, ControllerResumes(x, w, b, e, rg)
  PROVE  LossInv'
  <1>0. RInv /\ CInv /\ NetInv /\ LossInv /\ EngineInv /\ TableOK
    BY EngineOfCInv DEF RInv
  <1>1. /\ Resume(x, w, b, e, rg)
        /\ UNCHANGED <<id, own_epoch, reader>> /\ UNCHANGED conns
    BY DEF ControllerResumes, HandleResume
  <1>2. Moves /\ Settling
    <2>1. Next
      BY <1>1 DEF Next
    <2> QED
      BY <1>0, <1>1, <2>1, NextMoves, GrantCallsSettle DEF LossInv
  <1>3. TicketsGranted'
    <2>1. CASE decision' = "RESUME_ALLOWED"
      <3>1. x \in DOMAIN records
        BY <1>1, <2>1 DEF Resume, Known
      <3> QED
        BY <1>0, <1>1, <1>2, <2>1, <3>1, ResumeIssues, IssuedGranted DEF LossInv
    <2>2. CASE decision' # "RESUME_ALLOWED"
      <3>1. UNCHANGED tickets
        <4>1. CASE ~Known(x)
          BY <1>1, <4>1 DEF Resume
        <4>2. CASE Known(x)
          <5>1. GrantOn(x, resume(epoch, records[x], e, rg, used + 1, w, b), epoch)
            BY <1>1, <4>2 DEF Resume
          <5>2. records[x] \in ExecutionRecords /\ used + 1 \in Nat \ {0}
            BY <1>0, <4>2 DEF EngineInv, TypeOK, Known
          <5>3. resume(epoch, records[x], e, rg, used + 1, w, b).code
                  \in (DecisionCodes \ AllowedCodes) \cup {"RESUME_ALLOWED"}
            <6>1. resume(epoch, records[x], e, rg, used + 1, w, b) \in Results
              BY <5>2, ResumeType
            <6>2. \/ resume(epoch, records[x], e, rg, used + 1, w, b).code \notin AllowedCodes
                  \/ resume(epoch, records[x], e, rg, used + 1, w, b).code = "RESUME_ALLOWED"
              BY <5>2, ResumeCases DEF AllowedCodes
            <6> QED
              BY <6>1, <6>2 DEF Results
          <5> QED
            BY <2>2, <5>1, <5>3 DEF GrantOn
        <4> QED
          BY <4>1, <4>2
      <3> QED
        BY <1>0, <1>2, <3>1, GrantedStay DEF LossInv
    <2> QED
      BY <2>1, <2>2
  <1>4. CASE decision' = "RESUME_ALLOWED" /\ ConnsOf(w) # {}
    <2>1. PICK c \in ConnsOf(w) : SendTicket(c, NewTicket, FALSE)
      BY <1>4 DEF ControllerResumes
    <2>2. PICK t : t = NewTicket
      OBVIOUS
    <2>3. sent' = Append(sent, [conn |-> c, ticket |-> t, tracked |-> FALSE])
      BY <2>1, <2>2 DEF SendTicket
    <2>4. c \in DOMAIN conns
      BY <2>1 DEF ConnsOf
    <2>5. ConnsNamed'
      BY <1>0, <1>1 DEF LossInv, ConnsNamed
    <2> QED
      BY <1>1, <1>2, <1>3, <2>3, <2>4, <2>5, LossSends
  <1>5. CASE ~(decision' = "RESUME_ALLOWED" /\ ConnsOf(w) # {})
    <2>1. UNCHANGED sent
      BY <1>5 DEF ControllerResumes
    <2> QED
      BY <1>1, <1>2, <1>3, <2>1, LossQuiet
  <1> QED
    BY <1>4, <1>5

\* The other requests of a controller send nothing.
LEMMA LossAsks ==
  ASSUME RInv, NetInv', NEW x \in Execs, NEW e \in Epochs, ControllerAsks(x, e)
  PROVE  LossInv'
  <1>0. RInv /\ CInv /\ NetInv /\ LossInv /\ EngineInv
    BY EngineOfCInv DEF RInv
  <1>1. UNCHANGED <<sent, id, reader>>
    BY DEF ControllerAsks, net
  <1>2. CASE Submit(x, e)
    <2>1. Moves /\ Settling
      BY <1>0, <1>2, SubmitMoves, SubmitSettles DEF LossInv
    <2>2. UNCHANGED <<conns, own_epoch>> /\ UNCHANGED tickets
      BY <1>2 DEF Submit
    <2>3. TicketsGranted'
      BY <1>0, <2>1, <2>2, GrantedStay DEF LossInv
    <2> QED
      BY <1>1, <2>1, <2>2, <2>3, LossQuiet
  <1>3. ASSUME NEW auth, NEW w, NEW b,
               \/ Cancel(x, e, auth) \/ Preempt(x, e, auth)
               \/ AcknowledgePreempt(x, e) \/ MarkResumable(x, e)
               \/ MarkWorkerLost(x, w, b, e),
               Next, UNCHANGED <<conns, own_epoch>>
        PROVE  LossInv'
    <2>1. Next
      BY <1>3
    <2>2. UNCHANGED tickets
      BY <1>3 DEF Cancel, Preempt, AcknowledgePreempt, MarkResumable, MarkWorkerLost,
                  CallOn
    <2>3. Settling
      <3>1. None \in Digests \cup {None}
        OBVIOUS
      <3> QED
        BY <1>0, <1>3, <3>1, CallsSettle DEF LossInv
    <2>4. Moves
      BY <1>0, <2>1, NextMoves
    <2>5. TicketsGranted'
      BY <1>0, <2>2, <2>3, <2>4, GrantedStay DEF LossInv
    <2> QED
      BY <1>1, <1>3, <2>3, <2>4, <2>5, LossQuiet
  <1>4. ASSUME HandleAckPreempt(x, e) \/ HandleMarkResumable(x, e) PROVE LossInv'
    <2>1. /\ AcknowledgePreempt(x, e) \/ MarkResumable(x, e)
          /\ Next /\ UNCHANGED <<conns, own_epoch>>
      BY <1>4 DEF HandleAckPreempt, HandleMarkResumable, Control, Next
    <2> QED
      BY <1>3, <2>1
  <1>5. ASSUME NEW auth \in Gens, HandleCancel(x, e, auth) \/ HandlePreempt(x, e, auth)
        PROVE  LossInv'
    <2>1. /\ Cancel(x, e, auth) \/ Preempt(x, e, auth)
          /\ Next /\ UNCHANGED <<conns, own_epoch>>
      BY <1>5 DEF HandleCancel, HandlePreempt, Control, Next
    <2> QED
      BY <1>3, <2>1
  <1>6. ASSUME NEW w \in Workers, NEW b \in Boots, HandleWorkerLost(x, w, b, e)
        PROVE  LossInv'
    <2>1. MarkWorkerLost(x, w, b, e) /\ Next /\ UNCHANGED <<conns, own_epoch>>
      BY <1>6 DEF HandleWorkerLost, Control, Next
    <2> QED
      BY <1>3, <2>1
  <1> QED
    BY <1>2, <1>4, <1>5, <1>6 DEF ControllerAsks

\* The three invariants together are inductive.
LEMMA LossNext == RInv /\ [RNext]_rvars => RInv'
  <1> SUFFICES ASSUME RInv, [RNext]_rvars PROVE RInv'
    OBVIOUS
  <1>1. CInv' /\ NetInv'
    BY NetNext DEF RInv
  <1>2. CASE UNCHANGED rvars
    <2>1. UNCHANGED mem /\ UNCHANGED <<conns, sent, id, own_epoch, reader>>
      BY <1>2 DEF rvars, cvars
    <2>2. Moves /\ Settling /\ UNCHANGED tickets
      BY <2>1, MemoryStays DEF RInv, LossInv
    <2>3. TicketsGranted'
      BY <2>2, GrantedStay, EngineOfCInv DEF RInv, LossInv
    <2> QED
      BY <1>1, <2>1, <2>2, <2>3, LossQuiet DEF RInv
  <1>3. ASSUME NEW c \in Conns,
               \/ WorkerStarts(c) \/ WorkerTakes(c) \/ WorkerCompletes(c)
               \/ WorkerDies(c) \/ ReaderPushes(c) \/ ReaderEnds(c)
        PROVE  LossInv'
    BY <1>1, <1>3, LossPeers
  <1>4. ASSUME NEW c \in Conns, Acceptor(c) PROVE LossInv'
    BY <1>1, <1>4, LossAcceptor
  <1>5. CASE Decide
    BY <1>1, <1>5, LossDecide DEF RInv
  <1>6. ASSUME NEW x \in Execs, NEW e \in Epochs, ControllerAsks(x, e)
        PROVE  LossInv'
    BY <1>1, <1>6, LossAsks
  <1>7. ASSUME NEW x \in Execs, NEW e \in Epochs, NEW w \in Workers, NEW b \in Boots,
               ControllerDispatches(x, w, b, e)
        PROVE  LossInv'
    BY <1>1, <1>7, LossDispatches
  <1>8. ASSUME NEW x \in Execs, NEW e \in Epochs, NEW w \in Workers, NEW b \in Boots,
               NEW rg \in Gens, ControllerResumes(x, w, b, e, rg)
        PROVE  LossInv'
    BY <1>1, <1>8, LossResumes
  <1>9. Controller => LossInv'
    BY <1>6, <1>7, <1>8 DEF Controller
  <1> QED
    BY <1>1, <1>2, <1>3, <1>4, <1>5, <1>9 DEF RNext, RInv

\* Nothing was submitted, issued or sent yet.
LEMMA LossInitially == RInit => LossInv
  <1> SUFFICES ASSUME RInit PROVE LossInv
    OBVIOUS
  <1>1. /\ DOMAIN records = {} /\ tickets = {} /\ DOMAIN conns = {}
        /\ sent = <<>>
    BY DEF RInit, CInit, Init, NoConns
  <1>2. DOMAIN sent = {}
    BY <1>1
  <1> QED
    BY <1>1, <1>2
       DEF LossInv, RecordsAtRest, TicketsGranted, ConnsNamed, LossClassified

-----------------------------------------------------------------------------
(* The theorem.                                                            *)

\* When on_conn_closed is done with a connection, no attempt that was sent there
\* is still taken to be under way, unless a resume sent it, a later dispatch took
\* the connection's active_execution, it was made out to another incarnation, or
\* the engine's epoch is ahead of the coordinator's: for any number of workers,
\* connections and executions, and wherever among its frames the worker dies.
THEOREM LossesClassified == RSpec => []LossClassified
  <1>1. RInit => RInv
    BY CInvInit, NetInitially, LossInitially DEF RInit, RInv
  <1>2. RInv => LossClassified
    BY DEF RInv, LossInv
  <1> QED
    BY <1>1, <1>2, LossNext, PTL DEF RSpec
=============================================================================
