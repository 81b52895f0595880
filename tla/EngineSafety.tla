---------------------------- MODULE EngineSafety ----------------------------
(***************************************************************************)
(* The safety argument, record by record.  RecInv(n, rec) is the inductive *)
(* invariant of one record when n attempt ids have been drawn; RecStep     *)
(* says what any operation may do to a record.  One lemma per operation    *)
(* shows that it keeps the first and does no more than the second.         *)
(***************************************************************************)
EXTENDS EngineProofs

-----------------------------------------------------------------------------
(* The inductive invariant of one record, and what one operation may do to *)
(* it.                                                                     *)

IdsBelow(n, rec) == \A i \in DOMAIN rec.attempts : rec.attempts[i].id <= n

Unactivated(rec) == rec.state = "CREATED" => rec.ownership_generation = 0

RecInv(n, rec) ==
  /\ rec \in ExecutionRecords
  /\ Unactivated(rec)
  /\ IdsInOrder(rec)
  /\ IdsBelow(n, rec)
  /\ CurrentMatches(rec)
  /\ OwnershipFences(rec)
  /\ rec.fence_generation = rec.ownership_generation
  /\ LifecyclePaired(rec)
  /\ CommittedOnce(rec)
  /\ CommittedByNewest(rec)

\* One step of FencedCommit, or a stutter, seen from the record.
SameAuthority(rec, new) ==
  /\ new.current_attempt_id = rec.current_attempt_id
  /\ NewestId(new) = NewestId(rec)

FencedStep(rec, new) ==
  \/ /\ SameAuthority(rec, new)
     /\ OutcomeOf(new) = OutcomeOf(rec)
     /\ new.committed_digest = rec.committed_digest
  \/ /\ OutcomeOf(rec) = "open"
     /\ \/ /\ OutcomeOf(new) = "open"
           /\ new.current_attempt_id > NewestId(rec)
           /\ NewestId(new) = new.current_attempt_id
           /\ new.committed_digest = rec.committed_digest
        \/ /\ OutcomeOf(new) \in {"open", "closed"}
           /\ new.current_attempt_id \in {0, rec.current_attempt_id}
           /\ NewestId(new) = NewestId(rec)
           /\ new.committed_digest = rec.committed_digest
        \/ /\ OutcomeOf(new) = "committed"
           /\ rec.current_attempt_id # 0
           /\ rec.current_attempt_id = NewestId(rec)
           /\ SameAuthority(rec, new)
           /\ new.committed_digest \in Digests

RecStep(rec, new) ==
  /\ FrozenIfTerminal(rec, new)
  /\ HistoryGrows(rec, new)
  /\ AuthorityAdvances(rec, new)
  /\ FencedStep(rec, new)

\* A step that commits nothing.
QuietStep(rec, new) ==
  RecStep(rec, new) /\ (new.state = "COMMITTED" => new = rec)

\* A call that leaves the record as it was is a quiet step.
LEMMA StutterStep ==
  ASSUME NEW n \in Nat, NEW rec, RecInv(n, rec)
  PROVE  QuietStep(rec, rec)
  <1>1. rec \in ExecutionRecords
    BY DEF RecInv
  <1> QED
    BY <1>1 DEF QuietStep, RecStep, FrozenIfTerminal, HistoryGrows, AuthorityAdvances,
                AttemptGenerationAdvances, FencedStep, SameAuthority, SameIdentity, ExecutionRecords, Gens

-----------------------------------------------------------------------------
(* Edits: operations that grant nothing.  They leave the identity of every *)
(* attempt alone and touch only the current one.                           *)

Touched(rec, new) ==
  /\ Len(new.attempts) = Len(rec.attempts)
  /\ DOMAIN new.attempts = DOMAIN rec.attempts
  /\ \A i \in DOMAIN rec.attempts :
       /\ SameIdentity(rec.attempts[i], new.attempts[i])
       /\ rec.attempts[i].id # rec.current_attempt_id
            => new.attempts[i] = rec.attempts[i]
  /\ new.ownership_generation = rec.ownership_generation
  /\ new.fence_generation = rec.fence_generation
  /\ new.resume_generation = rec.resume_generation
  /\ new.coordinator_epoch = rec.coordinator_epoch
  /\ rec.generation <= new.generation

KeepsHolder(rec, new) ==
  /\ new.current_attempt_id = rec.current_attempt_id
  /\ new.current_attempt_generation = rec.current_attempt_generation
  /\ new.owner_worker = rec.owner_worker
  /\ new.owner_worker_boot = rec.owner_worker_boot

\* What supersede() does, whether the lifecycle table then allows it or not.
DropsHolder(rec, new) ==
  /\ rec.generation < new.generation \/ rec.generation = MaxGen
  /\ new.current_attempt_id = 0
  /\ new.current_attempt_generation = 0
  /\ new.owner_worker = None
  /\ new.owner_worker_boot = None

\* Where the entries of a history are, and what they are.
LEMMA LastIndex ==
  ASSUME NEW rec \in ExecutionRecords
  PROVE  /\ Len(rec.attempts) \in Nat
         /\ DOMAIN rec.attempts = 1 .. Len(rec.attempts)
         /\ Len(rec.attempts) > 0 => Len(rec.attempts) \in DOMAIN rec.attempts
         /\ rec.attempts = <<>> <=> Len(rec.attempts) = 0
         /\ \A i \in DOMAIN rec.attempts : rec.attempts[i] \in AttemptRecords
  BY DEF ExecutionRecords

\* An edit keeps the order of the history, the fences and the current attempt,
\* whether the holder of authority is kept or dropped.
LEMMA TouchedKeeps ==
  ASSUME NEW n \in Nat, NEW rec, NEW new \in ExecutionRecords,
         RecInv(n, rec), Touched(rec, new),
         KeepsHolder(rec, new) \/ DropsHolder(rec, new)
  PROVE  /\ IdsInOrder(new)
         /\ IdsBelow(n, new)
         /\ CurrentMatches(new)
         /\ OwnershipFences(new)
         /\ new.fence_generation = new.ownership_generation
         /\ HistoryGrows(rec, new)
         /\ AuthorityAdvances(rec, new)
         /\ NewestId(new) = NewestId(rec)
  <1>1. rec \in ExecutionRecords
    BY DEF RecInv
  <1>2. IdsInOrder(new)
    BY DEF IdsInOrder, Touched, SameIdentity, RecInv
  <1>3. IdsBelow(n, new)
    BY DEF IdsBelow, Touched, SameIdentity, RecInv
  <1>4. OwnershipFences(new) /\ new.fence_generation = new.ownership_generation
    BY DEF OwnershipFences, Touched, SameIdentity, RecInv
  <1>5. CurrentMatches(new)
    <2>1. CASE DropsHolder(rec, new)
      BY <2>1 DEF CurrentMatches, DropsHolder
    <2>2. CASE KeepsHolder(rec, new) /\ rec.current_attempt_id = 0
      BY <2>2 DEF CurrentMatches, KeepsHolder, RecInv
    <2>3. CASE KeepsHolder(rec, new) /\ rec.current_attempt_id # 0
      <3>1. Len(rec.attempts) > 0
        BY <2>3 DEF CurrentMatches, RecInv
      <3>2. SameIdentity(Newest(rec), Newest(new))
        BY <1>1, <3>1, LastIndex DEF Touched, Newest
      <3> QED
        BY <2>3, <3>1, <3>2
           DEF CurrentMatches, KeepsHolder, RecInv, SameIdentity, Touched
    <2> QED
      BY <2>1, <2>2, <2>3
  <1>6. HistoryGrows(rec, new)
    BY <1>1, LastIndex DEF HistoryGrows, Touched
  <1>7. AuthorityAdvances(rec, new)
    <2>1. new.current_attempt_id \in {0, rec.current_attempt_id}
      BY DEF KeepsHolder, DropsHolder
    <2>2. AttemptGenerationAdvances(rec, new)
      BY <1>1, <2>1
         DEF AttemptGenerationAdvances, KeepsHolder, DropsHolder, ExecutionRecords, Gens
    <2> QED
      BY <1>1, <2>1, <2>2, SMTT(30) DEF AuthorityAdvances, Touched, ExecutionRecords, Gens
  <1>8. NewestId(new) = NewestId(rec)
    <2>1. CASE Len(rec.attempts) = 0
      BY <1>1, <2>1, LastIndex DEF NewestId, Touched
    <2>2. CASE Len(rec.attempts) # 0
      <3>1. Newest(new).id = Newest(rec).id
        BY <1>1, <2>2, LastIndex DEF Touched, Newest, SameIdentity
      <3> QED
        BY <1>1, <2>2, <3>1, LastIndex DEF NewestId, Touched
    <2> QED
      BY <2>1, <2>2
  <1> QED
    BY <1>2, <1>3, <1>4, <1>5, <1>6, <1>7, <1>8

\* An edit of a record that is not terminal, and that commits nothing.
LEMMA EditStep ==
  ASSUME NEW n \in Nat, NEW rec, NEW new \in ExecutionRecords,
         RecInv(n, rec), Touched(rec, new),
         KeepsHolder(rec, new) \/ DropsHolder(rec, new),
         rec.state \notin TerminalExecutionStates,
         new.state # "COMMITTED",
         new.state = "CREATED" => rec.state = "CREATED",
         new.committed_digest = rec.committed_digest,
         new.commit_generation = rec.commit_generation,
         LifecyclePaired(new)
  PROVE  RecInv(n, new) /\ QuietStep(rec, new)
  <1>1. /\ IdsInOrder(new)
        /\ IdsBelow(n, new)
        /\ CurrentMatches(new)
        /\ OwnershipFences(new)
        /\ new.fence_generation = new.ownership_generation
        /\ HistoryGrows(rec, new)
        /\ AuthorityAdvances(rec, new)
        /\ NewestId(new) = NewestId(rec)
    BY TouchedKeeps
  <1>2. rec.state # "COMMITTED"
    BY DEF TerminalExecutionStates
  <1>3. CommittedOnce(new) /\ CommittedByNewest(new)
    BY <1>2 DEF CommittedOnce, CommittedByNewest, RecInv
  <1>4. RecInv(n, new)
    BY <1>1, <1>3 DEF RecInv, Unactivated, Touched
  <1>5. FrozenIfTerminal(rec, new)
    BY DEF FrozenIfTerminal
  <1>6. OutcomeOf(rec) = "open" /\ OutcomeOf(new) \in {"open", "closed"}
    BY <1>2 DEF OutcomeOf
  <1>7. new.current_attempt_id \in {0, rec.current_attempt_id}
    BY DEF KeepsHolder, DropsHolder
  <1>8. FencedStep(rec, new)
    BY <1>1, <1>6, <1>7 DEF FencedStep
  <1> QED
    BY <1>1, <1>4, <1>5, <1>8 DEF QuietStep, RecStep

-----------------------------------------------------------------------------
(* Moving the current attempt, and the operations built on it.             *)

\* What every other field of a record keeps when only the history changes.
SameFields(rec, new) ==
  /\ KeepsHolder(rec, new)
  /\ new.state = rec.state
  /\ new.generation = rec.generation
  /\ new.coordinator_epoch = rec.coordinator_epoch
  /\ new.ownership_generation = rec.ownership_generation
  /\ new.fence_generation = rec.fence_generation
  /\ new.resume_generation = rec.resume_generation
  /\ new.commit_generation = rec.commit_generation
  /\ new.committed_digest = rec.committed_digest

\* Moving the current attempt is an edit; the newest attempt is the one that moves.
LEMMA MoveCurrent ==
  ASSUME NEW n \in Nat, NEW rec, RecInv(n, rec), NEW to \in AttemptStates
  PROVE  LET m == MoveAttempt(rec, rec.current_attempt_id, to)
         IN  /\ m \in ExecutionRecords
             /\ Touched(rec, m)
             /\ SameFields(rec, m)
             /\ rec.current_attempt_id # 0 =>
                  Newest(m).state = IF AttemptFrom(Newest(rec).state, to)
                                    THEN to ELSE Newest(rec).state
             /\ rec.attempts = <<>> => m.attempts = <<>>
  <1> DEFINE m == MoveAttempt(rec, rec.current_attempt_id, to)
  <1>1. rec \in ExecutionRecords
    BY DEF RecInv
  <1>2. m \in ExecutionRecords
    BY <1>1, MoveType
  <1>3. /\ Len(m.attempts) = Len(rec.attempts)
        /\ DOMAIN m.attempts = DOMAIN rec.attempts
        /\ m = [rec EXCEPT !.attempts = m.attempts]
        /\ \A i \in DOMAIN rec.attempts :
             m.attempts[i] = IF rec.attempts[i].id = rec.current_attempt_id
                             THEN TransitionAttempt(rec.attempts[i], to)
                             ELSE rec.attempts[i]
    BY <1>1, MoveFacts
  <1> HIDE DEF m
  <1>4. SameFields(rec, m)
    BY <1>1, <1>3 DEF SameFields, KeepsHolder, ExecutionRecords
  <1>5. \A at \in AttemptRecords :
          /\ SameIdentity(at, TransitionAttempt(at, to))
          /\ TransitionAttempt(at, to).state =
               IF AttemptFrom(at.state, to) THEN to ELSE at.state
    BY DEF SameIdentity, TransitionAttempt, AttemptRecords
  <1>6. \A i \in DOMAIN rec.attempts :
          /\ SameIdentity(rec.attempts[i], m.attempts[i])
          /\ rec.attempts[i].id # rec.current_attempt_id
               => m.attempts[i] = rec.attempts[i]
    <2> TAKE i \in DOMAIN rec.attempts
    <2>1. rec.attempts[i] \in AttemptRecords
      BY <1>1, LastIndex
    <2>2. SameIdentity(rec.attempts[i], rec.attempts[i])
      BY DEF SameIdentity
    <2> QED
      BY <1>3, <1>5, <2>1, <2>2
  <1>7. Touched(rec, m)
    BY <1>1, <1>3, <1>4, <1>6 DEF Touched, SameFields, ExecutionRecords, Gens
  <1>8. rec.current_attempt_id # 0 =>
          Newest(m).state = IF AttemptFrom(Newest(rec).state, to)
                            THEN to ELSE Newest(rec).state
    <2> HAVE rec.current_attempt_id # 0
    <2>1. Len(rec.attempts) > 0 /\ Newest(rec).id = rec.current_attempt_id
      BY DEF RecInv, CurrentMatches
    <2>2. Newest(rec) \in AttemptRecords
      BY <1>1, <2>1, LastIndex DEF Newest
    <2>3. Newest(m) = TransitionAttempt(Newest(rec), to)
      BY <1>1, <1>3, <2>1, LastIndex DEF Newest
    <2> QED
      BY <1>5, <2>2, <2>3
  <1>9. rec.attempts = <<>> => m.attempts = <<>>
    BY <1>1, <1>2, <1>3, LastIndex
  <1> QED
    BY <1>2, <1>4, <1>7, <1>8, <1>9 DEF m

\* A transition of a record whose history was edited: it does nothing the
\* invariant minds if the two states it leaves are an allowed pair.
LEMMA EditTransition ==
  ASSUME NEW n \in Nat, NEW rec, RecInv(n, rec),
         rec.state \notin TerminalExecutionStates,
         NEW m \in ExecutionRecords, Touched(rec, m),
         KeepsHolder(rec, m) \/ DropsHolder(rec, m),
         m.state = rec.state,
         m.committed_digest = rec.committed_digest,
         m.commit_generation = rec.commit_generation,
         NEW to \in ExecutionStates \ {"COMMITTED", "CREATED"},
         ~ExecutionFrom(rec.state, to) => LifecyclePaired(m),
         ExecutionFrom(rec.state, to) /\ m.current_attempt_id # 0 =>
           to # "SUPERSEDED" /\ AttemptBeside(to, Newest(m).state)
  PROVE  LET r == Transition(m, to)
         IN  RecInv(n, r.rec) /\ QuietStep(rec, r.rec)
  <1>1. CASE ~ExecutionFrom(rec.state, to)
    <2>1. Transition(m, to).rec = m
      BY <1>1 DEF Transition, Decision
    <2>2. m.state # "COMMITTED"
      BY DEF TerminalExecutionStates
    <2> QED
      BY <1>1, <2>1, <2>2, EditStep
  <1>2. CASE ExecutionFrom(rec.state, to)
    <2> DEFINE new == [m EXCEPT !.state = to]
    <2>1. Transition(m, to).rec = new
      BY <1>2 DEF Transition, Decision
    <2>2. /\ new \in ExecutionRecords
          /\ new.state = to
          /\ new.attempts = m.attempts
          /\ new.current_attempt_id = m.current_attempt_id
          /\ new.current_attempt_generation = m.current_attempt_generation
          /\ new.owner_worker = m.owner_worker
          /\ new.owner_worker_boot = m.owner_worker_boot
          /\ new.generation = m.generation
          /\ new.coordinator_epoch = m.coordinator_epoch
          /\ new.ownership_generation = m.ownership_generation
          /\ new.fence_generation = m.fence_generation
          /\ new.resume_generation = m.resume_generation
          /\ new.commit_generation = m.commit_generation
          /\ new.committed_digest = m.committed_digest
      BY DEF ExecutionRecords
    <2> HIDE DEF new
    <2>3. Touched(rec, new)
      BY <2>2 DEF Touched
    <2>4. KeepsHolder(rec, new) \/ DropsHolder(rec, new)
      BY <2>2 DEF KeepsHolder, DropsHolder
    <2>5. LifecyclePaired(new)
      BY <1>2, <2>2 DEF LifecyclePaired, Newest
    <2>6. RecInv(n, new) /\ QuietStep(rec, new)
      BY <2>2, <2>3, <2>4, <2>5, EditStep
    <2> QED
      BY <2>1, <2>6
  <1> QED
    BY <1>1, <1>2

\* A ticket validate_start accepts is for the current attempt.
LEMMA StartValid ==
  ASSUME NEW ep, NEW rec, NEW t, ValidateStart(ep, rec, t) = "ALLOW"
  PROVE  /\ rec.current_attempt_id # 0
         /\ t.attempt_id = rec.current_attempt_id
         /\ t.epoch = ep
  BY DEF ValidateStart

\* A ticket validate_ticket accepts is for the current attempt, the epoch of the
\* record and its generation.
LEMMA TicketValid ==
  ASSUME NEW ep, NEW rec, NEW t, ValidateTicket(ep, rec, t) = "ALLOW"
  PROVE  /\ rec.current_attempt_id # 0
         /\ t.attempt_id = rec.current_attempt_id
         /\ t.epoch = rec.coordinator_epoch
         /\ t.execution_generation = rec.generation
  BY DEF ValidateTicket, OtherEpoch

\* mark_running() is a quiet step.
LEMMA MarkRunningStep ==
  ASSUME NEW n \in Nat, NEW rec, RecInv(n, rec), NEW ep, NEW t
  PROVE  LET r == mark_running(ep, rec, t)
         IN  RecInv(n, r.rec) /\ QuietStep(rec, r.rec)
  <1> DEFINE r == mark_running(ep, rec, t)
             m == MoveAttempt(rec, rec.current_attempt_id, "RUNNING")
  <1>1. CASE \/ rec.state \notin {"DISPATCHED", "RESUMING"}
             \/ ValidateStart(ep, rec, t) # "ALLOW"
    <2>1. r.rec = rec
      BY <1>1 DEF mark_running, Decision
    <2> QED
      BY <2>1, StutterStep
  <1>2. CASE /\ rec.state \in {"DISPATCHED", "RESUMING"}
             /\ ValidateStart(ep, rec, t) = "ALLOW"
    <2>1. t.attempt_id = rec.current_attempt_id /\ rec.current_attempt_id # 0
      BY <1>2, StartValid
    <2>2. r = Transition(m, "RUNNING")
      BY <1>2, <2>1 DEF mark_running
    <2>3. /\ m \in ExecutionRecords /\ Touched(rec, m) /\ SameFields(rec, m)
          /\ Newest(m).state = IF AttemptFrom(Newest(rec).state, "RUNNING")
                               THEN "RUNNING" ELSE Newest(rec).state
      BY <2>1, MoveCurrent DEF AttemptStates
    <2>4. AttemptBeside(rec.state, Newest(rec).state)
      BY <2>1 DEF RecInv, LifecyclePaired
    <2> HIDE DEF m
    <2>5. AttemptBeside("RUNNING", Newest(m).state)
      BY <1>2, <2>3, <2>4 DEF AttemptBeside, AttemptFrom
    <2>6. ExecutionFrom(rec.state, "RUNNING")
      BY <1>2 DEF ExecutionFrom
    <2>7. rec.state \notin TerminalExecutionStates
      BY <1>2 DEF TerminalExecutionStates
    <2>8. "RUNNING" \in ExecutionStates \ {"COMMITTED", "CREATED"}
      BY DEF ExecutionStates
    <2>9. LET q == Transition(m, "RUNNING")
          IN  RecInv(n, q.rec) /\ QuietStep(rec, q.rec)
      BY <2>3, <2>5, <2>6, <2>7, <2>8, EditTransition DEF SameFields
    <2> QED
      BY <2>2, <2>9
  <1> QED
    BY <1>1, <1>2

\* Where finalize_cancel, acknowledge_preempt and mark_worker_lost move the
\* current attempt, and then the execution.
MovesTogether(state, at, to) ==
  \/ state = "CANCELLATION_REQUESTED" /\ at \in {"CANCELLED", "LOST"} /\ to = "CANCELLED"
  \/ state = "PREEMPTION_REQUESTED" /\ at \in {"PREEMPTED", "LOST"} /\ to = "PREEMPTED"
  \/ state = "DISPATCHED" /\ at = "LOST" /\ to = "READY"
  \/ state = "RUNNING" /\ at = "LOST" /\ to = "AMBIGUOUS"

\* Each of these moves leaves a pair of states that may stand side by side.
LEMMA MoveAndTransition ==
  ASSUME NEW n \in Nat, NEW rec, RecInv(n, rec), NEW at, NEW to,
         MovesTogether(rec.state, at, to)
  PROVE  LET r == Transition(MoveAttempt(rec, rec.current_attempt_id, at), to)
         IN  RecInv(n, r.rec) /\ QuietStep(rec, r.rec)
  <1> DEFINE m == MoveAttempt(rec, rec.current_attempt_id, at)
  <1>1. /\ m \in ExecutionRecords /\ Touched(rec, m) /\ SameFields(rec, m)
        /\ rec.current_attempt_id # 0 =>
             Newest(m).state = IF AttemptFrom(Newest(rec).state, at)
                               THEN at ELSE Newest(rec).state
    BY MoveCurrent DEF MovesTogether, AttemptStates
  <1>2. rec.current_attempt_id # 0 => AttemptBeside(rec.state, Newest(rec).state)
    BY DEF RecInv, LifecyclePaired
  <1> HIDE DEF m
  <1>3. m.current_attempt_id # 0 =>
          to # "SUPERSEDED" /\ AttemptBeside(to, Newest(m).state)
    BY <1>1, <1>2
       DEF MovesTogether, AttemptBeside, AttemptFrom, SameFields, KeepsHolder
  <1>4. /\ to \in ExecutionStates \ {"COMMITTED", "CREATED"}
        /\ ExecutionFrom(rec.state, to)
        /\ rec.state \notin TerminalExecutionStates
    BY DEF MovesTogether, ExecutionStates, ExecutionFrom, TerminalExecutionStates
  <1>5. /\ KeepsHolder(rec, m)
        /\ m.state = rec.state
        /\ m.committed_digest = rec.committed_digest
        /\ m.commit_generation = rec.commit_generation
    BY <1>1 DEF SameFields
  <1> QED
    BY <1>1, <1>3, <1>4, <1>5, EditTransition DEF m

\* finalize_cancel() is a quiet step.
LEMMA FinalizeCancelStep ==
  ASSUME NEW n \in Nat, NEW rec, RecInv(n, rec), NEW ep, NEW e
  PROVE  LET r == finalize_cancel(ep, rec, e)
         IN  RecInv(n, r.rec) /\ QuietStep(rec, r.rec)
  <1> DEFINE r == finalize_cancel(ep, rec, e)
  <1>1. CASE StaleEpoch(ep, rec, e) \/ rec.state # "CANCELLATION_REQUESTED"
    <2>1. r.rec = rec
      BY <1>1 DEF finalize_cancel, Decision
    <2> QED
      BY <2>1, StutterStep
  <1>2. CASE ~StaleEpoch(ep, rec, e) /\ rec.state = "CANCELLATION_REQUESTED"
    <2>1. r = Transition(MoveAttempt(rec, rec.current_attempt_id, "CANCELLED"),
                         "CANCELLED")
      BY <1>2 DEF finalize_cancel
    <2>2. MovesTogether(rec.state, "CANCELLED", "CANCELLED")
      BY <1>2 DEF MovesTogether
    <2> QED
      BY <2>1, <2>2, MoveAndTransition
  <1> QED
    BY <1>1, <1>2

\* acknowledge_preempt() is a quiet step.
LEMMA AcknowledgePreemptStep ==
  ASSUME NEW n \in Nat, NEW rec, RecInv(n, rec), NEW ep, NEW e
  PROVE  LET r == acknowledge_preempt(ep, rec, e)
         IN  RecInv(n, r.rec) /\ QuietStep(rec, r.rec)
  <1> DEFINE r == acknowledge_preempt(ep, rec, e)
  <1>1. CASE StaleEpoch(ep, rec, e) \/ rec.state # "PREEMPTION_REQUESTED"
    <2>1. r.rec = rec
      BY <1>1 DEF acknowledge_preempt, Decision
    <2> QED
      BY <2>1, StutterStep
  <1>2. CASE ~StaleEpoch(ep, rec, e) /\ rec.state = "PREEMPTION_REQUESTED"
    <2>1. r = Transition(MoveAttempt(rec, rec.current_attempt_id, "PREEMPTED"),
                         "PREEMPTED")
      BY <1>2 DEF acknowledge_preempt
    <2>2. MovesTogether(rec.state, "PREEMPTED", "PREEMPTED")
      BY <1>2 DEF MovesTogether
    <2> QED
      BY <2>1, <2>2, MoveAndTransition
  <1> QED
    BY <1>1, <1>2

\* mark_worker_lost() is a quiet step.
LEMMA MarkWorkerLostStep ==
  ASSUME NEW n \in Nat, NEW rec, RecInv(n, rec), NEW ep, NEW e, NEW w, NEW b
  PROVE  LET r == mark_worker_lost(ep, rec, e, w, b)
         IN  RecInv(n, r.rec) /\ QuietStep(rec, r.rec)
  <1> DEFINE r == mark_worker_lost(ep, rec, e, w, b)
             lost == MoveAttempt(rec, rec.current_attempt_id, "LOST")
             live == {"DISPATCHED", "RUNNING", "CANCELLATION_REQUESTED",
                      "PREEMPTION_REQUESTED"}
  <1>1. CASE \/ StaleEpoch(ep, rec, e)
             \/ rec.owner_worker # w \/ rec.owner_worker_boot # b
             \/ rec.state \notin live
    <2>1. r.rec = rec
      BY <1>1 DEF mark_worker_lost, Decision
    <2> QED
      BY <2>1, StutterStep
  <1>2. CASE /\ ~StaleEpoch(ep, rec, e)
             /\ ~(rec.owner_worker # w \/ rec.owner_worker_boot # b)
             /\ rec.state \in live
    <2>1. rec.state \notin TerminalExecutionStates
      BY <1>2 DEF TerminalExecutionStates
    <2>2. PICK to : MovesTogether(rec.state, "LOST", to) /\ r = Transition(lost, to)
      <3> HIDE DEF lost
      <3>1. CASE rec.state = "DISPATCHED"
        <4>1. /\ MovesTogether(rec.state, "LOST", "READY")
              /\ r = Transition(lost, "READY")
          BY <1>2, <2>1, <3>1 DEF mark_worker_lost, MovesTogether, lost
        <4> QED BY <4>1
      <3>2. CASE rec.state = "RUNNING"
        <4>1. /\ MovesTogether(rec.state, "LOST", "AMBIGUOUS")
              /\ r = Transition(lost, "AMBIGUOUS")
          BY <1>2, <2>1, <3>2 DEF mark_worker_lost, MovesTogether, lost
        <4> QED BY <4>1
      <3>3. CASE rec.state = "CANCELLATION_REQUESTED"
        <4>1. /\ MovesTogether(rec.state, "LOST", "CANCELLED")
              /\ r = Transition(lost, "CANCELLED")
          BY <1>2, <2>1, <3>3 DEF mark_worker_lost, MovesTogether, lost
        <4> QED BY <4>1
      <3>4. CASE rec.state = "PREEMPTION_REQUESTED"
        <4>1. /\ MovesTogether(rec.state, "LOST", "PREEMPTED")
              /\ r = Transition(lost, "PREEMPTED")
          BY <1>2, <2>1, <3>4 DEF mark_worker_lost, MovesTogether, lost
        <4> QED BY <4>1
      <3> QED
        BY <1>2, <3>1, <3>2, <3>3, <3>4
    <2> QED
      BY <2>2, MoveAndTransition
  <1> QED
    BY <1>1, <1>2

-----------------------------------------------------------------------------
(* Operations that leave the history alone.                                *)

\* Counting a request up changes nothing that the invariant reads.
LEMMA CounterEdit ==
  ASSUME NEW n \in Nat, NEW rec, RecInv(n, rec),
         NEW m \in ExecutionRecords, SameFields(rec, m),
         m.attempts = rec.attempts
  PROVE  /\ Touched(rec, m)
         /\ LifecyclePaired(m)
         /\ Newest(m) = Newest(rec)
  <1>1. rec \in ExecutionRecords
    BY DEF RecInv
  <1>2. Touched(rec, m)
    BY <1>1 DEF Touched, SameFields, SameIdentity, ExecutionRecords, Gens
  <1>3. Newest(m) = Newest(rec)
    BY DEF Newest
  <1>4. LifecyclePaired(m)
    BY <1>3 DEF LifecyclePaired, SameFields, KeepsHolder, RecInv
  <1> QED
    BY <1>2, <1>3, <1>4

\* The transitions that keep the current attempt as it is.
LEMMA PlainTransition ==
  ASSUME NEW n \in Nat, NEW rec, RecInv(n, rec),
         NEW m \in ExecutionRecords, SameFields(rec, m),
         m.attempts = rec.attempts,
         NEW to \in {"CANCELLED", "CANCELLATION_REQUESTED",
                     "PREEMPTION_REQUESTED", "RESUMABLE"},
         \/ rec.state = "CREATED"
         \/ /\ rec.state \in {"READY", "DISPATCHED", "RUNNING"}
            /\ to = "CANCELLATION_REQUESTED"
         \/ /\ rec.state \in {"DISPATCHED", "RUNNING"}
            /\ to = "PREEMPTION_REQUESTED"
         \/ rec.state = "PREEMPTED" /\ to = "RESUMABLE"
  PROVE  LET r == Transition(m, to)
         IN  RecInv(n, r.rec) /\ QuietStep(rec, r.rec)
  <1>1. Touched(rec, m) /\ LifecyclePaired(m) /\ Newest(m) = Newest(rec)
    BY CounterEdit
  <1>2. rec.state \notin TerminalExecutionStates
    BY DEF TerminalExecutionStates
  <1>3. m.current_attempt_id # 0 =>
          to # "SUPERSEDED" /\ AttemptBeside(to, Newest(m).state)
    <2> HAVE m.current_attempt_id # 0
    <2>1. rec.current_attempt_id # 0
      BY DEF SameFields, KeepsHolder
    <2>2. rec.state # "CREATED"
      BY <2>1, LastIndex DEF RecInv, LifecyclePaired, CurrentMatches
    <2>3. AttemptBeside(rec.state, Newest(rec).state)
      BY <2>1 DEF RecInv, LifecyclePaired
    <2> QED
      BY <1>1, <2>2, <2>3 DEF AttemptBeside
  <1>4. to \in ExecutionStates \ {"COMMITTED", "CREATED"}
    BY DEF ExecutionStates
  <1> QED
    BY <1>1, <1>2, <1>3, <1>4, EditTransition DEF SameFields

\* cancel() is a quiet step, also where it refuses after counting the request.
LEMMA CancelStep ==
  ASSUME NEW n \in Nat, NEW rec, RecInv(n, rec), NEW ep, NEW e, NEW auth
  PROVE  LET r == cancel(ep, rec, e, auth)
         IN  RecInv(n, r.rec) /\ QuietStep(rec, r.rec)
  <1> DEFINE r == cancel(ep, rec, e, auth)
             bumped == [rec EXCEPT !.cancellation_generation = NextGen(@)]
  <1>1. rec \in ExecutionRecords
    BY DEF RecInv
  <1>2. /\ bumped \in ExecutionRecords /\ SameFields(rec, bumped)
        /\ bumped.attempts = rec.attempts
    BY <1>1, NextGenFacts DEF ExecutionRecords, SameFields, KeepsHolder
  <1>3. \/ r.rec = rec
        \/ rec.state = "CREATED" /\ r = Transition(bumped, "CANCELLED")
        \/ /\ rec.state \in {"READY", "DISPATCHED", "RUNNING"}
           /\ r = Transition(bumped, "CANCELLATION_REQUESTED")
        \/ rec.state \notin TerminalExecutionStates /\ r.rec = bumped
    BY DEF cancel, Decision
  <1> HIDE DEF bumped, r
  <1>4. CASE r.rec = rec
    BY <1>4, StutterStep DEF r
  <1>5. CASE rec.state = "CREATED" /\ r = Transition(bumped, "CANCELLED")
    BY <1>2, <1>5, PlainTransition DEF r
  <1>6. CASE /\ rec.state \in {"READY", "DISPATCHED", "RUNNING"}
             /\ r = Transition(bumped, "CANCELLATION_REQUESTED")
    BY <1>2, <1>6, PlainTransition DEF r
  <1>7. CASE rec.state \notin TerminalExecutionStates /\ r.rec = bumped
    <2>1. Touched(rec, bumped) /\ LifecyclePaired(bumped)
      BY <1>2, CounterEdit
    <2>2. bumped.state # "COMMITTED"
      BY <1>2, <1>7 DEF SameFields, TerminalExecutionStates
    <2>3. RecInv(n, bumped) /\ QuietStep(rec, bumped)
      BY <1>2, <1>7, <2>1, <2>2, EditStep DEF SameFields
    <2> QED
      BY <1>7, <2>3 DEF r
  <1> QED
    BY <1>3, <1>4, <1>5, <1>6, <1>7

\* preempt() is a quiet step.
LEMMA PreemptStep ==
  ASSUME NEW n \in Nat, NEW rec, RecInv(n, rec), NEW ep, NEW e, NEW auth
  PROVE  LET r == preempt(ep, rec, e, auth)
         IN  RecInv(n, r.rec) /\ QuietStep(rec, r.rec)
  <1> DEFINE r == preempt(ep, rec, e, auth)
             bumped == [rec EXCEPT !.preemption_generation = NextGen(@)]
  <1>1. rec \in ExecutionRecords
    BY DEF RecInv
  <1>2. /\ bumped \in ExecutionRecords /\ SameFields(rec, bumped)
        /\ bumped.attempts = rec.attempts
    BY <1>1, NextGenFacts DEF ExecutionRecords, SameFields, KeepsHolder
  <1>3. \/ r.rec = rec
        \/ /\ rec.state \in {"DISPATCHED", "RUNNING"}
           /\ r = Transition(bumped, "PREEMPTION_REQUESTED")
    BY DEF preempt, Decision
  <1> HIDE DEF bumped, r
  <1>4. CASE r.rec = rec
    BY <1>4, StutterStep DEF r
  <1>5. CASE /\ rec.state \in {"DISPATCHED", "RUNNING"}
             /\ r = Transition(bumped, "PREEMPTION_REQUESTED")
    BY <1>2, <1>5, PlainTransition DEF r
  <1> QED
    BY <1>3, <1>4, <1>5

\* mark_resumable() is a quiet step.
LEMMA MarkResumableStep ==
  ASSUME NEW n \in Nat, NEW rec, RecInv(n, rec), NEW ep, NEW e
  PROVE  LET r == mark_resumable(ep, rec, e)
         IN  RecInv(n, r.rec) /\ QuietStep(rec, r.rec)
  <1> DEFINE r == mark_resumable(ep, rec, e)
  <1>1. rec \in ExecutionRecords /\ SameFields(rec, rec)
    BY DEF RecInv, SameFields, KeepsHolder
  <1>2. \/ r.rec = rec
        \/ rec.state = "PREEMPTED" /\ r = Transition(rec, "RESUMABLE")
    BY DEF mark_resumable, Decision
  <1> HIDE DEF r
  <1>3. CASE r.rec = rec
    BY <1>3, StutterStep DEF r
  <1>4. CASE rec.state = "PREEMPTED" /\ r = Transition(rec, "RESUMABLE")
    BY <1>1, <1>4, PlainTransition DEF r
  <1> QED
    BY <1>2, <1>3, <1>4

\* activate() runs before the first attempt, so its reset of the ownership and
\* fence generations to 1 cannot move them back.
LEMMA ActivateStep ==
  ASSUME NEW n \in Nat, NEW rec, RecInv(n, rec), NEW ep, NEW e
  PROVE  LET r == activate(ep, rec, e)
         IN  RecInv(n, r.rec) /\ QuietStep(rec, r.rec)
  <1> DEFINE r == activate(ep, rec, e)
             new == [rec EXCEPT !.ownership_generation = 1,
                                !.fence_generation = 1, !.state = "READY"]
  <1>1. rec \in ExecutionRecords
    BY DEF RecInv
  <1>2. CASE StaleEpoch(ep, rec, e) \/ rec.state # "CREATED"
    <2>1. r.rec = rec
      BY <1>2 DEF activate, Decision
    <2> QED
      BY <2>1, StutterStep
  <1>3. CASE ~StaleEpoch(ep, rec, e) /\ rec.state = "CREATED"
    <2>1. /\ new \in ExecutionRecords
          /\ new.state = "READY" /\ new.attempts = rec.attempts
          /\ new.ownership_generation = 1 /\ new.fence_generation = 1
          /\ KeepsHolder(rec, new)
          /\ new.generation = rec.generation
          /\ new.coordinator_epoch = rec.coordinator_epoch
          /\ new.resume_generation = rec.resume_generation
          /\ new.commit_generation = rec.commit_generation
          /\ new.committed_digest = rec.committed_digest
      BY <1>1, SmallGens DEF ExecutionRecords, ExecutionStates, KeepsHolder
    <2>2. r.rec = new
      <3> DEFINE half == [rec EXCEPT !.ownership_generation = 1,
                                     !.fence_generation = 1]
      <3>1. half.state = "CREATED" /\ [half EXCEPT !.state = "READY"] = new
        BY <1>1, <1>3 DEF ExecutionRecords
      <3>2. r = Transition(half, "READY")
        BY <1>3 DEF activate
      <3> HIDE DEF half, new
      <3>3. ExecutionFrom(half.state, "READY")
        BY <3>1 DEF ExecutionFrom
      <3> QED
        BY <3>1, <3>2, <3>3 DEF Transition, Decision
    <2> HIDE DEF new
    <2>3. /\ rec.attempts = <<>> /\ rec.current_attempt_id = 0
          /\ Len(rec.attempts) = 0
      BY <1>1, <1>3, LastIndex DEF RecInv, LifecyclePaired, CurrentMatches
    <2>4. DOMAIN rec.attempts = {}
      BY <1>1, <2>3, LastIndex
    <2>5. IdsInOrder(new) /\ IdsBelow(n, new) /\ OwnershipFences(new)
      BY <2>1, <2>4 DEF IdsInOrder, IdsBelow, OwnershipFences
    <2>6. CurrentMatches(new) /\ LifecyclePaired(new)
      BY <2>1, <2>3 DEF RecInv, CurrentMatches, LifecyclePaired, KeepsHolder
    <2>7. CommittedOnce(new) /\ CommittedByNewest(new)
      BY <1>3, <2>1 DEF RecInv, CommittedOnce, CommittedByNewest
    <2>8. RecInv(n, new)
      BY <2>1, <2>5, <2>6, <2>7 DEF RecInv, Unactivated
    <2>9. rec.ownership_generation \in {0, 1} /\ rec.fence_generation \in {0, 1}
      BY <1>3 DEF RecInv, Unactivated
    <2>10. FrozenIfTerminal(rec, new) /\ HistoryGrows(rec, new)
      BY <1>3, <2>1, <2>3, <2>4
         DEF FrozenIfTerminal, TerminalExecutionStates, HistoryGrows
    <2>11. AuthorityAdvances(rec, new)
      BY <1>1, <2>1, <2>9
         DEF AuthorityAdvances, AttemptGenerationAdvances, KeepsHolder,
             ExecutionRecords, Gens
    <2>12. FencedStep(rec, new)
      BY <1>3, <2>1, <2>3
         DEF FencedStep, SameAuthority, NewestId, OutcomeOf, KeepsHolder,
             TerminalExecutionStates
    <2> QED
      BY <2>1, <2>2, <2>8, <2>10, <2>11, <2>12 DEF QuietStep, RecStep
  <1> QED
    BY <1>2, <1>3

\* supersede() withdraws authority even when the table refuses SUPERSEDED.
LEMMA SupersedeStep ==
  ASSUME NEW n \in Nat, NEW rec, RecInv(n, rec), NEW ep, NEW e
  PROVE  LET r == supersede(ep, rec, e)
         IN  RecInv(n, r.rec) /\ QuietStep(rec, r.rec)
  <1> DEFINE r == supersede(ep, rec, e)
             m == MoveAttempt(rec, rec.current_attempt_id, "SUPERSEDED")
             new == [m EXCEPT !.generation = NextGen(@),
                              !.current_attempt_id = 0,
                              !.current_attempt_generation = 0,
                              !.owner_worker = None,
                              !.owner_worker_boot = None]
  <1>1. rec \in ExecutionRecords
    BY DEF RecInv
  <1>2. CASE OtherEpoch(ep, rec, e) \/ rec.state \in TerminalExecutionStates
    <2>1. r.rec = rec
      BY <1>2 DEF supersede, Decision
    <2> QED
      BY <2>1, StutterStep
  <1>3. CASE ~OtherEpoch(ep, rec, e) /\ rec.state \notin TerminalExecutionStates
    <2>1. r = Transition(new, "SUPERSEDED")
      BY <1>3 DEF supersede
    <2>2. /\ m \in ExecutionRecords /\ Touched(rec, m) /\ SameFields(rec, m)
          /\ rec.attempts = <<>> => m.attempts = <<>>
      BY MoveCurrent DEF AttemptStates
    <2> HIDE DEF m
    <2>3. /\ new \in ExecutionRecords
          /\ new.current_attempt_id = 0 /\ new.current_attempt_generation = 0
          /\ new.owner_worker = None /\ new.owner_worker_boot = None
          /\ new.attempts = m.attempts /\ new.state = m.state
          /\ new.generation = NextGen(m.generation)
          /\ new.coordinator_epoch = m.coordinator_epoch
          /\ new.ownership_generation = m.ownership_generation
          /\ new.fence_generation = m.fence_generation
          /\ new.resume_generation = m.resume_generation
          /\ new.commit_generation = m.commit_generation
          /\ new.committed_digest = m.committed_digest
      BY <2>2, NextGenFacts, SmallGens DEF ExecutionRecords
    <2> HIDE DEF new
    <2>4. /\ rec.generation <= new.generation
          /\ DropsHolder(rec, new)
      BY <1>1, <2>2, <2>3, NextGenFacts DEF ExecutionRecords, SameFields, DropsHolder
    <2>5. Touched(rec, new)
      BY <2>2, <2>3, <2>4 DEF Touched
    <2>6. new.state = rec.state /\ new.state # "SUPERSEDED"
      BY <1>3, <2>2, <2>3 DEF SameFields, TerminalExecutionStates
    <2>7. LifecyclePaired(new)
      BY <2>2, <2>3, <2>6 DEF LifecyclePaired, RecInv
    <2>8. "SUPERSEDED" \in ExecutionStates \ {"COMMITTED", "CREATED"}
      BY DEF ExecutionStates
    <2>9. LET q == Transition(new, "SUPERSEDED")
          IN  RecInv(n, q.rec) /\ QuietStep(rec, q.rec)
      BY <1>3, <2>2, <2>3, <2>4, <2>5, <2>6, <2>7, <2>8, EditTransition
         DEF SameFields
    <2> QED
      BY <2>1, <2>9
  <1> QED
    BY <1>2, <1>3

-----------------------------------------------------------------------------
(* complete().                                                             *)

\* Marking the current attempt completed with a digest is an edit.
LEMMA MarkedTouched ==
  ASSUME NEW n \in Nat, NEW rec, RecInv(n, rec), NEW d \in Digests, NEW s,
         rec.current_attempt_id # 0,
         MarkedHistory(rec, rec.current_attempt_id, d, s),
         NEW new \in ExecutionRecords,
         new.attempts = s,
         new.ownership_generation = rec.ownership_generation,
         new.fence_generation = rec.fence_generation,
         new.resume_generation = rec.resume_generation,
         new.coordinator_epoch = rec.coordinator_epoch,
         new.generation = rec.generation
  PROVE  /\ Touched(rec, new)
         /\ Newest(new).result_digest = d
         /\ Newest(new).state = IF AttemptFrom(Newest(rec).state, "COMPLETED")
                                THEN "COMPLETED" ELSE Newest(rec).state
  <1>1. rec \in ExecutionRecords
    BY DEF RecInv
  <1> DEFINE Done(at) == [TransitionAttempt(at, "COMPLETED")
                            EXCEPT !.result_digest = d]
  <1>2. \A at \in AttemptRecords :
          /\ SameIdentity(at, Done(at))
          /\ Done(at).result_digest = d
          /\ Done(at).state = IF AttemptFrom(at.state, "COMPLETED")
                              THEN "COMPLETED" ELSE at.state
    BY DEF SameIdentity, TransitionAttempt, AttemptRecords
  <1>3. /\ Len(s) = Len(rec.attempts) /\ DOMAIN s = DOMAIN rec.attempts
        /\ \A i \in DOMAIN rec.attempts :
             s[i] = IF rec.attempts[i].id = rec.current_attempt_id
                    THEN Done(rec.attempts[i]) ELSE rec.attempts[i]
    BY DEF MarkedHistory
  <1> HIDE DEF Done
  <1>4. \A i \in DOMAIN rec.attempts :
          /\ SameIdentity(rec.attempts[i], s[i])
          /\ rec.attempts[i].id # rec.current_attempt_id => s[i] = rec.attempts[i]
    <2> TAKE i \in DOMAIN rec.attempts
    <2>1. rec.attempts[i] \in AttemptRecords
      BY <1>1, LastIndex
    <2>2. SameIdentity(rec.attempts[i], rec.attempts[i])
      BY DEF SameIdentity
    <2> QED
      BY <1>2, <1>3, <2>1, <2>2
  <1>5. Touched(rec, new)
    BY <1>1, <1>3, <1>4 DEF Touched, ExecutionRecords, Gens
  <1>6. Len(rec.attempts) > 0 /\ Newest(rec).id = rec.current_attempt_id
    BY DEF RecInv, CurrentMatches
  <1>7. Newest(rec) \in AttemptRecords
    BY <1>1, <1>6, LastIndex DEF Newest
  <1>8. Newest(new) = Done(Newest(rec))
    BY <1>1, <1>3, <1>6, LastIndex DEF Newest
  <1> QED
    BY <1>2, <1>5, <1>7, <1>8

\* The tail of complete() commits the result of the newest attempt, or only
\* marks that attempt; the holder stays.
LEMMA CommitResultStep ==
  ASSUME NEW n \in Nat, NEW rec, RecInv(n, rec), NEW d \in Digests,
         rec.current_attempt_id # 0,
         rec.state \notin TerminalExecutionStates \cup {"PREEMPTED"}
  PROVE  LET r == CommitResult(rec, rec.current_attempt_id, d)
         IN  /\ RecInv(n, r.rec) /\ RecStep(rec, r.rec)
             /\ KeepsHolder(rec, r.rec)
             /\ r.rec.generation = rec.generation
  <1> DEFINE r == CommitResult(rec, rec.current_attempt_id, d)
  <1>1. rec \in ExecutionRecords
    BY DEF RecInv
  <1>2. PICK s : /\ MarkedHistory(rec, rec.current_attempt_id, d, s)
                 /\ r = CommitOutcome(rec, s, d)
    BY <1>1, CommitResultFacts
  <1>3. s \in Seq(AttemptRecords)
    BY <1>2 DEF MarkedHistory
  <1>4. AttemptBeside(rec.state, Newest(rec).state)
    BY DEF RecInv, LifecyclePaired
  <1> HIDE DEF r
  <1>5. CASE ~ExecutionFrom(rec.state, "COMPLETED")
    <2> DEFINE new == [rec EXCEPT !.attempts = s]
    <2>1. r.rec = new
      BY <1>2, <1>5 DEF CommitOutcome, Decision
    <2>2. new \in ExecutionRecords /\ SameFields(rec, new) /\ new.attempts = s
      BY <1>1, <1>3 DEF ExecutionRecords, SameFields, KeepsHolder
    <2> HIDE DEF new
    <2>3. /\ Touched(rec, new)
          /\ Newest(new).state = IF AttemptFrom(Newest(rec).state, "COMPLETED")
                                 THEN "COMPLETED" ELSE Newest(rec).state
      BY <1>2, <2>2, MarkedTouched DEF SameFields
    <2>4. rec.state \notin {"CREATED", "SUPERSEDED", "COMMITTED"}
      BY <1>1, LastIndex
         DEF RecInv, LifecyclePaired, CurrentMatches, TerminalExecutionStates
    <2>5. LifecyclePaired(new)
      <3>1. rec.state \in {"READY", "RESUMABLE", "RESUMING"}
        BY <1>4, <1>5, <2>4 DEF AttemptBeside, ExecutionFrom, TerminalExecutionStates
      <3>2. AttemptBeside(rec.state, Newest(new).state)
        BY <1>4, <2>3, <3>1 DEF AttemptBeside, AttemptFrom
      <3> QED
        BY <2>2, <2>4, <3>2 DEF LifecyclePaired, SameFields
    <2>6. RecInv(n, new) /\ QuietStep(rec, new)
      BY <2>2, <2>3, <2>4, <2>5, EditStep DEF SameFields
    <2> QED
      BY <2>1, <2>2, <2>6 DEF QuietStep, SameFields, r
  <1>6. CASE ExecutionFrom(rec.state, "COMPLETED")
    <2> DEFINE new == CommittedRecord(rec, s, d)
    <2>1. r.rec = new
      BY <1>2, <1>6 DEF CommitOutcome, Decision
    <2>2. /\ new \in ExecutionRecords /\ KeepsHolder(rec, new)
          /\ new.attempts = s
          /\ new.state = "COMMITTED"
          /\ new.committed_digest = d
          /\ new.commit_generation = NextGen(rec.commit_generation)
          /\ new.generation = rec.generation
          /\ new.coordinator_epoch = rec.coordinator_epoch
          /\ new.ownership_generation = rec.ownership_generation
          /\ new.fence_generation = rec.fence_generation
          /\ new.resume_generation = rec.resume_generation
      BY <1>1, <1>3, NextGenFacts
         DEF CommittedRecord, ExecutionRecords, ExecutionStates, KeepsHolder
    <2> HIDE DEF new
    <2>3. /\ Touched(rec, new)
          /\ Newest(new).result_digest = d
          /\ Newest(new).state = IF AttemptFrom(Newest(rec).state, "COMPLETED")
                                 THEN "COMPLETED" ELSE Newest(rec).state
      BY <1>2, <2>2, MarkedTouched
    <2>4. /\ IdsInOrder(new) /\ IdsBelow(n, new)
          /\ CurrentMatches(new) /\ OwnershipFences(new)
          /\ new.fence_generation = new.ownership_generation
          /\ HistoryGrows(rec, new)
          /\ AuthorityAdvances(rec, new)
          /\ NewestId(new) = NewestId(rec)
      BY <2>2, <2>3, TouchedKeeps
    <2>5. rec.state # "RESUMABLE"
      BY <1>6 DEF ExecutionFrom
    <2>6. Newest(rec).state \in {"DISPATCHED", "RUNNING", "COMPLETED", "LOST"}
      BY <1>4, <2>5 DEF AttemptBeside, TerminalExecutionStates
    <2>7. Newest(new).state \in {"COMPLETED", "LOST"}
      BY <2>3, <2>6 DEF AttemptFrom
    <2>8. LifecyclePaired(new)
      BY <2>2, <2>7 DEF LifecyclePaired, AttemptBeside
    <2>9. rec.state # "COMMITTED" /\ rec.commit_generation = 0
      BY DEF RecInv, CommittedOnce, TerminalExecutionStates
    <2>10. NextGen(0) = 1
      BY MaxGenAssumption DEF NextGen
    <2>11. CommittedOnce(new) /\ CommittedByNewest(new)
      BY <2>2, <2>3, <2>7, <2>9, <2>10, EngineAssumption
         DEF CommittedOnce, CommittedByNewest, KeepsHolder
    <2>12. RecInv(n, new)
      BY <2>2, <2>4, <2>8, <2>11 DEF RecInv, Unactivated
    <2>13. rec.current_attempt_id = NewestId(rec)
      BY <1>1, LastIndex DEF RecInv, CurrentMatches, NewestId
    <2>14. OutcomeOf(rec) = "open" /\ OutcomeOf(new) = "committed"
      BY <2>2, <2>9 DEF OutcomeOf
    <2>15. FencedStep(rec, new)
      BY <2>2, <2>4, <2>13, <2>14 DEF FencedStep, SameAuthority, KeepsHolder
    <2> QED
      BY <2>1, <2>2, <2>4, <2>12, <2>15 DEF RecStep, FrozenIfTerminal, r
  <1> QED
    BY <1>5, <1>6

\* complete() changes a record only on a valid ticket.
LEMMA CompleteStep ==
  ASSUME NEW n \in Nat, NEW rec, RecInv(n, rec), NEW ep, NEW t,
         NEW d \in Digests \cup {None}
  PROVE  LET r == complete(ep, rec, t, d)
         IN  /\ RecInv(n, r.rec) /\ RecStep(rec, r.rec)
             /\ \/ r.rec = rec
                \/ /\ ValidateTicket(ep, rec, t) = "ALLOW"
                   /\ KeepsHolder(rec, r.rec)
                   /\ r.rec.generation = rec.generation
  <1> DEFINE r == complete(ep, rec, t, d)
  <1>1. \/ r.rec = rec
        \/ /\ ValidateTicket(ep, rec, t) = "ALLOW"
           /\ rec.state \notin TerminalExecutionStates \cup {"PREEMPTED"}
           /\ d \in Digests
           /\ r = CommitResult(rec, t.attempt_id, d)
    BY DEF complete, Decision
  <1> HIDE DEF r
  <1>2. CASE r.rec = rec
    BY <1>2, StutterStep DEF QuietStep, r
  <1>3. CASE /\ ValidateTicket(ep, rec, t) = "ALLOW"
             /\ rec.state \notin TerminalExecutionStates \cup {"PREEMPTED"}
             /\ d \in Digests
             /\ r = CommitResult(rec, t.attempt_id, d)
    <2>1. t.attempt_id = rec.current_attempt_id /\ rec.current_attempt_id # 0
      BY <1>3, TicketValid
    <2> QED
      BY <1>3, <2>1, CommitResultStep DEF r
  <1> QED
    BY <1>1, <1>2, <1>3

-----------------------------------------------------------------------------
(* dispatch() and resume(): a fresh attempt on top of an edited history.   *)

Granted(rec, new, id) ==
  /\ Len(new.attempts) = Len(rec.attempts) + 1
  /\ \A i \in DOMAIN rec.attempts :
       /\ SameIdentity(rec.attempts[i], new.attempts[i])
       /\ rec.attempts[i].id # rec.current_attempt_id
            => new.attempts[i] = rec.attempts[i]
  /\ new.current_attempt_id = id
  /\ new.current_attempt_generation # 0
  /\ new.current_attempt_generation =
       IF rec.current_attempt_generation = 0
       THEN 1 ELSE NextGen(rec.current_attempt_generation)
  /\ new.ownership_generation = NextGen(rec.ownership_generation)
  /\ new.fence_generation = NextGen(rec.fence_generation)
  /\ Newest(new).id = id
  /\ Newest(new).dispatch_id = id
  /\ Newest(new).generation = new.current_attempt_generation
  /\ Newest(new).worker_id = new.owner_worker
  /\ Newest(new).worker_boot_id = new.owner_worker_boot
  /\ Newest(new).ownership_generation = new.ownership_generation
  /\ Newest(new).fence_generation = new.fence_generation
  /\ Newest(new).state = "DISPATCHED"
  /\ new.generation = rec.generation
  /\ new.coordinator_epoch = rec.coordinator_epoch
  /\ rec.resume_generation <= new.resume_generation
  /\ new.commit_generation = rec.commit_generation
  /\ new.committed_digest = rec.committed_digest

\* The next ownership generation is above every earlier one, or both are the
\* saturated one.
LEMMA NextOwnership ==
  ASSUME NEW own \in Gens, NEW a \in 1 .. own
  PROVE  /\ a \in 1 .. NextGen(own)
         /\ a < NextGen(own) \/ a = MaxGen
  BY MaxGenAssumption DEF NextGen, Gens

\* A grant puts attempt n + 1 on top of the history with fences above all others.
LEMMA GrantStep ==
  ASSUME NEW n \in Nat, NEW rec, RecInv(n, rec),
         NEW new \in ExecutionRecords, Granted(rec, new, n + 1),
         rec.state \notin TerminalExecutionStates \cup {"CREATED"},
         new.state \in {"DISPATCHED", "RESUMING"}
  PROVE  RecInv(n + 1, new) /\ QuietStep(rec, new)
  <1> DEFINE len == Len(rec.attempts)
             old(i) == rec.attempts[i]
             at(i) == new.attempts[i]
  <1>1. rec \in ExecutionRecords
    BY DEF RecInv
  <1>2. /\ len \in Nat
        /\ DOMAIN rec.attempts = 1 .. len
        /\ DOMAIN new.attempts = 1 .. len + 1
        /\ Len(new.attempts) = len + 1
        /\ Newest(new) = at(len + 1)
        /\ \A i \in 1 .. len + 1 : at(i) \in AttemptRecords
        /\ \A i \in 1 .. len : old(i) \in AttemptRecords
    BY <1>1, LastIndex DEF Granted, Newest
  <1>3. \A i \in 1 .. len :
          /\ at(i).id = old(i).id
          /\ at(i).dispatch_id = old(i).dispatch_id
          /\ at(i).ownership_generation = old(i).ownership_generation
          /\ at(i).fence_generation = old(i).fence_generation
    BY <1>2 DEF Granted, SameIdentity
  <1>4. \A i \in 1 .. len : old(i).id <= n /\ old(i).id \in Nat
    BY <1>2 DEF RecInv, IdsBelow, AttemptRecords
  <1>5. IdsBelow(n + 1, new)
    <2>1. \A i \in 1 .. len : at(i).id <= n + 1
      BY <1>3, <1>4
    <2>2. at(len + 1).id <= n + 1
      BY <1>2 DEF Granted
    <2> QED
      BY <1>2, <2>1, <2>2 DEF IdsBelow
  <1>6. IdsInOrder(new)
    <2>1. ASSUME NEW i \in 1 .. len + 1, NEW j \in 1 .. len + 1, i < j
          PROVE  at(i).id < at(j).id
      <3>1. i \in 1 .. len
        BY <1>2, <2>1
      <3>2. CASE j \in 1 .. len
        BY <1>2, <1>3, <2>1, <3>1, <3>2 DEF RecInv, IdsInOrder
      <3>3. CASE j = len + 1
        BY <1>2, <1>3, <1>4, <3>1, <3>3, SMTT(30) DEF Granted
      <3> QED
        BY <1>2, <3>2, <3>3
    <2>2. ASSUME NEW i \in 1 .. len + 1
          PROVE  at(i).dispatch_id = at(i).id
      <3>1. CASE i \in 1 .. len
        BY <1>2, <1>3, <3>1 DEF RecInv, IdsInOrder
      <3>2. CASE i = len + 1
        BY <1>2, <3>2 DEF Granted
      <3> QED
        BY <1>2, <3>1, <3>2
    <2> QED
      BY <1>2, <2>1, <2>2 DEF IdsInOrder
  <1>7. CurrentMatches(new)
    BY <1>2 DEF Granted, CurrentMatches
  <1> DEFINE own == rec.ownership_generation
  <1>8. /\ own \in Gens /\ rec.fence_generation = own
        /\ new.ownership_generation = NextGen(own)
        /\ new.fence_generation = NextGen(own)
        /\ NextGen(own) \in Gens /\ NextGen(own) # 0
        /\ own <= NextGen(own)
        /\ own < NextGen(own) \/ own = MaxGen
    BY <1>1, NextGenFacts DEF RecInv, Granted, ExecutionRecords
  <1>9. \A i \in 1 .. len :
          /\ old(i).ownership_generation \in 1 .. own
          /\ old(i).fence_generation = old(i).ownership_generation
    BY <1>2 DEF RecInv, OwnershipFences
  <1>10. /\ at(len + 1).ownership_generation = NextGen(own)
         /\ at(len + 1).fence_generation = NextGen(own)
    BY <1>2, <1>8 DEF Granted
  <1>11. OwnershipFences(new)
    <2>1. ASSUME NEW i \in 1 .. len + 1, NEW j \in 1 .. len + 1, i < j
          PROVE  \/ /\ at(i).ownership_generation < at(j).ownership_generation
                    /\ at(i).fence_generation < at(j).fence_generation
                 \/ at(i).ownership_generation = MaxGen
      <3>1. i \in 1 .. len
        BY <1>2, <2>1
      <3>2. CASE j \in 1 .. len
        BY <1>2, <1>3, <2>1, <3>1, <3>2 DEF RecInv, OwnershipFences
      <3>3. CASE j = len + 1
        <4>1. \/ old(i).ownership_generation < NextGen(own)
              \/ old(i).ownership_generation = MaxGen
          BY <1>8, <1>9, <3>1, NextOwnership
        <4> QED
          BY <1>3, <1>9, <1>10, <3>1, <3>3, <4>1
      <3> QED
        BY <1>2, <3>2, <3>3, SMTT(30)
    <2>2. ASSUME NEW i \in 1 .. len + 1
          PROVE  /\ at(i).ownership_generation \in 1 .. new.ownership_generation
                 /\ at(i).fence_generation = at(i).ownership_generation
      <3>1. CASE i \in 1 .. len
        <4>1. old(i).ownership_generation \in 1 .. NextGen(own)
          BY <1>8, <1>9, <3>1, NextOwnership
        <4> QED
          BY <1>3, <1>8, <1>9, <3>1, <4>1
      <3>2. CASE i = len + 1
        <4>1. NextGen(own) \in 1 .. NextGen(own)
          BY <1>8 DEF Gens
        <4> QED
          BY <1>8, <1>10, <3>2, <4>1
      <3> QED
        BY <1>2, <3>1, <3>2
    <2> QED
      BY <1>2, <2>1, <2>2 DEF OwnershipFences
  <1>12. LifecyclePaired(new)
    BY DEF LifecyclePaired, Granted, AttemptBeside
  <1>13. CommittedOnce(new) /\ CommittedByNewest(new)
    BY DEF RecInv, Granted, CommittedOnce, CommittedByNewest, TerminalExecutionStates
  <1>14. RecInv(n + 1, new)
    BY <1>5, <1>6, <1>7, <1>8, <1>11, <1>12, <1>13 DEF RecInv, Unactivated
  <1>15. HistoryGrows(rec, new)
    BY <1>2 DEF HistoryGrows, Granted
  <1>16. AuthorityAdvances(rec, new)
    <2>1. \A i \in DOMAIN rec.attempts :
            rec.attempts[i].id < new.current_attempt_id
      BY <1>2, <1>4 DEF Granted
    <2>2. rec.generation <= new.generation
      BY <1>1, SMTT(30) DEF Granted, ExecutionRecords, Gens
    <2>3. AttemptGenerationAdvances(rec, new)
      <3>1. rec.current_attempt_generation \in Gens
        BY <1>1 DEF ExecutionRecords
      <3> QED
        BY <3>1, NextGenFacts DEF AttemptGenerationAdvances, Granted, Gens
    <2> QED
      BY <1>8, <2>1, <2>2, <2>3 DEF AuthorityAdvances, Granted
  <1>17. FencedStep(rec, new)
    <2>1. NewestId(rec) \in Nat /\ NewestId(rec) <= n
      BY <1>1, <1>2, <1>4, LastIndex DEF NewestId, Newest
    <2>2. NewestId(new) = n + 1
      BY <1>2, LastIndex DEF Granted, NewestId
    <2>3. OutcomeOf(rec) = "open" /\ OutcomeOf(new) = "open"
      BY DEF OutcomeOf, TerminalExecutionStates
    <2>4. new.current_attempt_id = n + 1 /\ new.committed_digest = rec.committed_digest
      BY DEF Granted
    <2> QED
      BY <2>1, <2>2, <2>3, <2>4 DEF FencedStep
  <1> QED
    BY <1>14, <1>15, <1>16, <1>17
       DEF QuietStep, RecStep, FrozenIfTerminal, TerminalExecutionStates

\* q is m with resume generation rg.
AtResume(m, q, rg) ==
  /\ q.attempts = m.attempts /\ q.state = m.state
  /\ q.current_attempt_generation = m.current_attempt_generation
  /\ q.ownership_generation = m.ownership_generation
  /\ q.fence_generation = m.fence_generation
  /\ q.generation = m.generation
  /\ q.coordinator_epoch = m.coordinator_epoch
  /\ q.resume_generation = rg
  /\ q.commit_generation = m.commit_generation
  /\ q.committed_digest = m.committed_digest

\* A grant on top of a touched history, and the state it then goes to.
LEMMA GrantOnTouched ==
  ASSUME NEW n \in Nat, NEW rec, RecInv(n, rec), NEW id \in Nat \ {0},
         NEW m \in ExecutionRecords, Touched(rec, m), SameFields(rec, m),
         NEW q \in ExecutionRecords, NEW rg \in Gens,
         AtResume(m, q, rg),
         rec.resume_generation <= rg,
         NEW w \in Workers, NEW b \in Boots, NEW to \in ExecutionStates
  PROVE  LET g == GrantAttempt(q, id, w, b)
             new == [g EXCEPT !.state = to]
         IN  /\ g \in ExecutionRecords /\ Granted(rec, g, id)
             /\ g.state = rec.state
             /\ new \in ExecutionRecords /\ Granted(rec, new, id)
             /\ new.state = to
  <1> DEFINE g == GrantAttempt(q, id, w, b)
             new == [g EXCEPT !.state = to]
  <1>1. rec \in ExecutionRecords
    BY DEF RecInv
  <1>2. /\ g \in ExecutionRecords
        /\ Len(g.attempts) = Len(q.attempts) + 1
        /\ \A i \in DOMAIN q.attempts : g.attempts[i] = q.attempts[i]
        /\ g.current_attempt_id = id
        /\ g.current_attempt_generation # 0
        /\ g.current_attempt_generation =
             IF q.current_attempt_generation = 0
             THEN 1 ELSE NextGen(q.current_attempt_generation)
        /\ g.ownership_generation = NextGen(q.ownership_generation)
        /\ g.fence_generation = NextGen(q.fence_generation)
        /\ Newest(g).id = id
        /\ Newest(g).dispatch_id = id
        /\ Newest(g).generation = g.current_attempt_generation
        /\ Newest(g).worker_id = g.owner_worker
        /\ Newest(g).worker_boot_id = g.owner_worker_boot
        /\ Newest(g).ownership_generation = g.ownership_generation
        /\ Newest(g).fence_generation = g.fence_generation
        /\ Newest(g).state = "DISPATCHED"
        /\ g.state = q.state
        /\ g.generation = q.generation
        /\ g.coordinator_epoch = q.coordinator_epoch
        /\ g.resume_generation = q.resume_generation
        /\ g.commit_generation = q.commit_generation
        /\ g.committed_digest = q.committed_digest
    BY GrantShape, GrantGeneration
  <1> HIDE DEF g
  <1>3. \A i \in DOMAIN rec.attempts :
          /\ SameIdentity(rec.attempts[i], g.attempts[i])
          /\ rec.attempts[i].id # rec.current_attempt_id
               => g.attempts[i] = rec.attempts[i]
    BY <1>2 DEF AtResume, Touched
  <1>4. Granted(rec, g, id) /\ g.state = rec.state
    BY <1>2, <1>3 DEF AtResume, Granted, Touched, SameFields, KeepsHolder
  <1>5. /\ new \in ExecutionRecords /\ new.state = to
        /\ new.attempts = g.attempts
        /\ new.current_attempt_id = g.current_attempt_id
        /\ new.current_attempt_generation = g.current_attempt_generation
        /\ new.owner_worker = g.owner_worker
        /\ new.owner_worker_boot = g.owner_worker_boot
        /\ new.ownership_generation = g.ownership_generation
        /\ new.fence_generation = g.fence_generation
        /\ new.generation = g.generation
        /\ new.coordinator_epoch = g.coordinator_epoch
        /\ new.resume_generation = g.resume_generation
        /\ new.commit_generation = g.commit_generation
        /\ new.committed_digest = g.committed_digest
    BY <1>2 DEF ExecutionRecords
  <1> HIDE DEF new
  <1>6. Newest(new) = Newest(g)
    BY <1>5 DEF Newest
  <1>7. Granted(rec, new, id)
    BY <1>4, <1>5, <1>6 DEF Granted
  <1> QED
    BY <1>2, <1>4, <1>5, <1>7 DEF g, new

\* A record is left alone, or given attempt n + 1.
StepOrGrant(n, rec, new) ==
  \/ new = rec
  \/ /\ RecInv(n + 1, new)
     /\ QuietStep(rec, new)
     /\ Granted(rec, new, n + 1)

\* dispatch() leaves the record alone or grants the next attempt.
LEMMA DispatchStep ==
  ASSUME NEW n \in Nat, NEW rec, RecInv(n, rec), NEW ep, NEW e,
         NEW w \in Workers, NEW b \in Boots
  PROVE  StepOrGrant(n, rec, dispatch(ep, rec, e, n + 1, w, b).rec)
  <1> DEFINE r == dispatch(ep, rec, e, n + 1, w, b)
             g == Dispatched(rec, n + 1, w, b)
             m == MoveAttempt(rec, rec.current_attempt_id, "SUPERSEDED")
             new == [g EXCEPT !.state = "DISPATCHED"]
  <1>1. rec \in ExecutionRecords /\ n + 1 \in Nat \ {0}
    BY DEF RecInv
  <1>2. \/ r.rec = rec
        \/ /\ rec.state \in {"READY", "DISPATCHED", "RUNNING", "AMBIGUOUS"}
           /\ r.rec = new
        \/ rec.state = "RESUMING" /\ r.rec = g
    BY <1>1, DispatchCases
  <1>3. m \in ExecutionRecords /\ Touched(rec, m) /\ SameFields(rec, m)
    BY MoveCurrent DEF AttemptStates
  <1>4. g = GrantAttempt(m, n + 1, w, b)
    BY DEF Dispatched
  <1> HIDE DEF m
  <1>5. /\ AtResume(m, m, rec.resume_generation)
        /\ rec.resume_generation \in Gens
        /\ rec.resume_generation <= rec.resume_generation
    BY <1>1, <1>3 DEF ExecutionRecords, SameFields, Gens, AtResume
  <1>6. "DISPATCHED" \in ExecutionStates
    BY DEF ExecutionStates
  <1> HIDE DEF g
  <1>7. /\ g \in ExecutionRecords /\ Granted(rec, g, n + 1)
        /\ g.state = rec.state
        /\ new \in ExecutionRecords /\ Granted(rec, new, n + 1)
        /\ new.state = "DISPATCHED"
    BY <1>1, <1>3, <1>4, <1>5, <1>6, GrantOnTouched
  <1> HIDE DEF new, r
  <1>8. CASE r.rec = rec
    BY <1>8 DEF StepOrGrant, r
  <1>9. CASE /\ rec.state \in {"READY", "DISPATCHED", "RUNNING", "AMBIGUOUS"}
             /\ r.rec = new
    <2>1. /\ rec.state \notin TerminalExecutionStates \cup {"CREATED"}
          /\ new.state \in {"DISPATCHED", "RESUMING"}
      BY <1>7, <1>9 DEF TerminalExecutionStates
    <2>2. RecInv(n + 1, new) /\ QuietStep(rec, new)
      BY <1>7, <2>1, GrantStep
    <2> QED
      BY <1>7, <1>9, <2>2 DEF StepOrGrant, r
  <1>10. CASE rec.state = "RESUMING" /\ r.rec = g
    <2>1. /\ rec.state \notin TerminalExecutionStates \cup {"CREATED"}
          /\ g.state \in {"DISPATCHED", "RESUMING"}
      BY <1>7, <1>10 DEF TerminalExecutionStates
    <2>2. RecInv(n + 1, g) /\ QuietStep(rec, g)
      BY <1>7, <2>1, GrantStep
    <2> QED
      BY <1>7, <1>10, <2>2 DEF StepOrGrant, r
  <1> QED
    BY <1>2, <1>8, <1>9, <1>10

\* resume() leaves the record alone or grants the next attempt.
LEMMA ResumeStep ==
  ASSUME NEW n \in Nat, NEW rec, RecInv(n, rec), NEW ep, NEW e, NEW rg \in Gens,
         NEW w \in Workers, NEW b \in Boots
  PROVE  StepOrGrant(n, rec, resume(ep, rec, e, rg, n + 1, w, b).rec)
  <1> DEFINE r == resume(ep, rec, e, rg, n + 1, w, b)
             g == Resumed(rec, rg, n + 1, w, b)
             m == SupersedePreempted(rec)
             q == [m EXCEPT !.resume_generation = rg]
             new == [g EXCEPT !.state = "RESUMING"]
  <1>1. rec \in ExecutionRecords /\ n + 1 \in Nat \ {0}
    BY DEF RecInv
  <1>2. \/ r.rec = rec
        \/ /\ rec.state = "RESUMABLE"
           /\ rg = NextGen(rec.resume_generation)
           /\ r.rec = new
    BY <1>1, ResumeCases
  <1>3. m \in ExecutionRecords /\ Touched(rec, m) /\ SameFields(rec, m)
    <2> DEFINE v == MoveAttempt(rec, rec.current_attempt_id, "SUPERSEDED")
    <2>1. v \in ExecutionRecords /\ Touched(rec, v) /\ SameFields(rec, v)
      BY MoveCurrent DEF AttemptStates
    <2>2. SameFields(rec, rec) /\ rec.attempts = rec.attempts
      BY DEF SameFields, KeepsHolder
    <2>3. Touched(rec, rec)
      BY <1>1, <2>2, CounterEdit
    <2>4. m \in {v, rec}
      BY DEF SupersedePreempted
    <2> HIDE DEF v, m
    <2> QED
      BY <1>1, <2>1, <2>2, <2>3, <2>4
  <1>4. g = GrantAttempt(q, n + 1, w, b)
    BY DEF Resumed
  <1> HIDE DEF m, g
  <1>5. q \in ExecutionRecords /\ AtResume(m, q, rg)
    BY <1>3 DEF ExecutionRecords, AtResume
  <1> HIDE DEF q
  <1>6. "RESUMING" \in ExecutionStates
    BY DEF ExecutionStates
  <1>7. ASSUME rec.resume_generation <= rg
        PROVE  /\ new \in ExecutionRecords /\ Granted(rec, new, n + 1)
               /\ new.state = "RESUMING"
    BY <1>1, <1>3, <1>4, <1>5, <1>6, <1>7, GrantOnTouched
  <1> HIDE DEF new, r
  <1>8. CASE r.rec = rec
    BY <1>8 DEF StepOrGrant, r
  <1>9. CASE /\ rec.state = "RESUMABLE"
             /\ rg = NextGen(rec.resume_generation)
             /\ r.rec = new
    <2>1. rec.resume_generation <= rg
      BY <1>1, <1>9, NextGenFacts DEF ExecutionRecords
    <2>2. /\ rec.state \notin TerminalExecutionStates \cup {"CREATED"}
          /\ new.state \in {"DISPATCHED", "RESUMING"}
      BY <1>7, <1>9, <2>1 DEF TerminalExecutionStates
    <2>3. RecInv(n + 1, new) /\ QuietStep(rec, new)
      BY <1>7, <2>1, <2>2, GrantStep
    <2> QED
      BY <1>7, <1>9, <2>1, <2>3 DEF StepOrGrant, r
  <1> QED
    BY <1>2, <1>8, <1>9
=============================================================================
