---------------------------- MODULE EngineProofs ----------------------------
(***************************************************************************)
(* Facts about the operations of the engine for every value of the         *)
(* constants: what each does to the history of an execution, and that each *)
(* returns values of the right type.  TypeCorrect is the type invariant.   *)
(***************************************************************************)
EXTENDS Engine, TLAPS, SequenceTheorems

-----------------------------------------------------------------------------
(* Generations, and histories changed in place.                            *)

\* The successor of a generation is a generation, never 0 and never smaller, and
\* larger unless the counter is saturated.
LEMMA NextGenFacts ==
  ASSUME NEW g \in Gens
  PROVE  /\ NextGen(g) \in Gens
         /\ NextGen(g) # 0
         /\ g <= NextGen(g)
         /\ g < NextGen(g) \/ g = MaxGen
  BY MaxGenAssumption DEF NextGen, Gens

\* The generations create() and activate() write.
LEMMA SmallGens == 0 \in Gens /\ 1 \in Gens
  BY MaxGenAssumption DEF Gens

\* Rewriting a sequence entry by entry keeps it a sequence over the same set.
LEMMA SeqMap ==
  ASSUME NEW S, NEW s \in Seq(S), NEW F(_),
         \A i \in DOMAIN s : F(i) \in S
  PROVE  LET f == [i \in DOMAIN s |-> F(i)]
         IN  f \in Seq(S) /\ Len(f) = Len(s) /\ DOMAIN f = DOMAIN s
  <1> DEFINE f == [i \in DOMAIN s |-> F(i)]
  <1>1. Len(s) \in Nat /\ DOMAIN s = 1 .. Len(s)
    OBVIOUS
  <1>2. f \in [1 .. Len(s) -> S]
    BY <1>1
  <1>3. f \in Seq(S)
    BY <1>1, <1>2, SeqDef
  <1>4. DOMAIN f = 1 .. Len(s)
    BY <1>1
  <1> QED
    BY <1>1, <1>3, <1>4

\* A move of one attempt, allowed or refused, yields an attempt record.
LEMMA TransitionAttemptType ==
  ASSUME NEW at \in AttemptRecords, NEW to \in AttemptStates
  PROVE  TransitionAttempt(at, to) \in AttemptRecords
  BY DEF TransitionAttempt, AttemptRecords

\* What the loop over rec.attempts does: only the attempts with this id move, and
\* no other field of the record changes.
LEMMA MoveFacts ==
  ASSUME NEW rec \in ExecutionRecords, NEW id, NEW to \in AttemptStates
  PROVE  LET m == MoveAttempt(rec, id, to)
         IN  /\ m.attempts \in Seq(AttemptRecords)
             /\ Len(m.attempts) = Len(rec.attempts)
             /\ DOMAIN m.attempts = DOMAIN rec.attempts
             /\ m = [rec EXCEPT !.attempts = m.attempts]
             /\ \A i \in DOMAIN rec.attempts :
                  m.attempts[i] = IF rec.attempts[i].id = id
                                  THEN TransitionAttempt(rec.attempts[i], to)
                                  ELSE rec.attempts[i]
  <1> DEFINE F(i) == IF rec.attempts[i].id = id
                     THEN TransitionAttempt(rec.attempts[i], to)
                     ELSE rec.attempts[i]
             f == [i \in DOMAIN rec.attempts |-> F(i)]
  <1>1. rec.attempts \in Seq(AttemptRecords)
    BY DEF ExecutionRecords
  <1>2. \A i \in DOMAIN rec.attempts : rec.attempts[i] \in AttemptRecords
    BY <1>1
  <1>3. \A i \in DOMAIN rec.attempts : F(i) \in AttemptRecords
    BY <1>2, TransitionAttemptType
  <1>4. f \in Seq(AttemptRecords) /\ Len(f) = Len(rec.attempts)
          /\ DOMAIN f = DOMAIN rec.attempts
    <2> HIDE DEF F
    <2> QED BY <1>1, <1>3, SeqMap
  <1>5. MoveAttempt(rec, id, to) = [rec EXCEPT !.attempts = f]
    BY DEF MoveAttempt
  <1>6. MoveAttempt(rec, id, to).attempts = f
    BY <1>5 DEF ExecutionRecords
  <1> QED
    BY <1>4, <1>5, <1>6

-----------------------------------------------------------------------------
(* Every operation returns a code and a record of the right type.          *)

Results == [code : DecisionCodes, rec : ExecutionRecords]

\* A code and a record make a result.
LEMMA DecisionType ==
  ASSUME NEW code \in DecisionCodes, NEW rec \in ExecutionRecords
  PROVE  Decision(code, rec) \in Results
  BY DEF Decision, Results

\* Moving an attempt yields an execution record.
LEMMA MoveType ==
  ASSUME NEW rec \in ExecutionRecords, NEW id, NEW to \in AttemptStates
  PROVE  MoveAttempt(rec, id, to) \in ExecutionRecords
  <1> DEFINE m == MoveAttempt(rec, id, to)
  <1>1. m.attempts \in Seq(AttemptRecords) /\ m = [rec EXCEPT !.attempts = m.attempts]
    BY MoveFacts
  <1> QED
    BY <1>1 DEF ExecutionRecords

\* Moving an execution, allowed or refused, yields a result.
LEMMA TransitionType ==
  ASSUME NEW rec \in ExecutionRecords, NEW to \in ExecutionStates
  PROVE  Transition(rec, to) \in Results
  <1>1. [rec EXCEPT !.state = to] \in ExecutionRecords
    BY DEF ExecutionRecords
  <1>2. {"ALLOW", "REJECT_ALREADY_TERMINAL"} \subseteq DecisionCodes
    BY DEF DecisionCodes
  <1> QED
    BY <1>1, <1>2, DecisionType DEF Transition

\* A grant yields an execution record with one attempt appended.
LEMMA GrantFacts ==
  ASSUME NEW rec \in ExecutionRecords, NEW id \in Nat \ {0},
         NEW w \in Workers, NEW b \in Boots
  PROVE  LET g   == GrantAttempt(rec, id, w, b)
             gen == IF rec.current_attempt_generation = 0
                    THEN 1 ELSE NextGen(rec.current_attempt_generation)
             own == NextGen(rec.ownership_generation)
             fen == NextGen(rec.fence_generation)
             at  == AttemptRecord(id, gen, w, b, own, fen)
         IN  /\ g \in ExecutionRecords
             /\ at \in AttemptRecords
             /\ gen \in Gens /\ gen # 0
             /\ g.attempts = Append(rec.attempts, at)
             /\ g = [rec EXCEPT !.current_attempt_id = id,
                                !.current_attempt_generation = gen,
                                !.owner_worker = w,
                                !.owner_worker_boot = b,
                                !.ownership_generation = own,
                                !.fence_generation = fen,
                                !.attempts = Append(rec.attempts, at)]
  <1> DEFINE gen == IF rec.current_attempt_generation = 0
                    THEN 1 ELSE NextGen(rec.current_attempt_generation)
             own == NextGen(rec.ownership_generation)
             fen == NextGen(rec.fence_generation)
             at  == AttemptRecord(id, gen, w, b, own, fen)
             g   == GrantAttempt(rec, id, w, b)
  <1>1. gen \in Gens /\ gen # 0
    BY NextGenFacts, MaxGenAssumption DEF ExecutionRecords, Gens
  <1>2. own \in Gens /\ fen \in Gens
    BY NextGenFacts DEF ExecutionRecords
  <1>3. at \in AttemptRecords
    <2> HIDE DEF gen, own, fen
    <2> QED BY <1>1, <1>2 DEF AttemptRecord, AttemptRecords, AttemptStates
  <1>4. Append(rec.attempts, at) \in Seq(AttemptRecords)
    <2> HIDE DEF at
    <2> QED BY <1>3 DEF ExecutionRecords
  <1>5. g = [rec EXCEPT !.current_attempt_id = id,
                        !.current_attempt_generation = gen,
                        !.owner_worker = w,
                        !.owner_worker_boot = b,
                        !.ownership_generation = own,
                        !.fence_generation = fen,
                        !.attempts = Append(rec.attempts, at)]
    BY DEF GrantAttempt
  <1>6. g \in ExecutionRecords /\ g.attempts = Append(rec.attempts, at)
    <2> HIDE DEF gen, own, fen, at, g
    <2> QED BY <1>1, <1>2, <1>4, <1>5 DEF ExecutionRecords
  <1> QED
    BY <1>1, <1>3, <1>5, <1>6

\* A grant in terms of the history: one entry more, which is the newest, holds
\* authority, and is what the record repeats.
LEMMA GrantShape ==
  ASSUME NEW rec \in ExecutionRecords, NEW id \in Nat \ {0},
         NEW w \in Workers, NEW b \in Boots
  PROVE  LET g == GrantAttempt(rec, id, w, b)
         IN  /\ g \in ExecutionRecords
             /\ Len(g.attempts) = Len(rec.attempts) + 1
             /\ DOMAIN rec.attempts = 1 .. Len(rec.attempts)
             /\ DOMAIN g.attempts = 1 .. Len(rec.attempts) + 1
             /\ \A i \in DOMAIN rec.attempts : g.attempts[i] = rec.attempts[i]
             /\ g.current_attempt_id = id
             /\ g.current_attempt_generation # 0
             /\ g.ownership_generation = NextGen(rec.ownership_generation)
             /\ g.fence_generation = NextGen(rec.fence_generation)
             /\ Newest(g).id = id
             /\ Newest(g).dispatch_id = id
             /\ Newest(g).generation = g.current_attempt_generation
             /\ Newest(g).worker_id = g.owner_worker
             /\ Newest(g).worker_boot_id = g.owner_worker_boot
             /\ Newest(g).ownership_generation = g.ownership_generation
             /\ Newest(g).fence_generation = g.fence_generation
             /\ Newest(g).state = "DISPATCHED"
             /\ g.state = rec.state
             /\ g.generation = rec.generation
             /\ g.coordinator_epoch = rec.coordinator_epoch
             /\ g.resume_generation = rec.resume_generation
             /\ g.commit_generation = rec.commit_generation
             /\ g.committed_digest = rec.committed_digest
  <1> DEFINE gen == IF rec.current_attempt_generation = 0
                    THEN 1 ELSE NextGen(rec.current_attempt_generation)
             own == NextGen(rec.ownership_generation)
             fen == NextGen(rec.fence_generation)
             at  == AttemptRecord(id, gen, w, b, own, fen)
             g   == GrantAttempt(rec, id, w, b)
  <1>1. /\ g \in ExecutionRecords
        /\ at \in AttemptRecords
        /\ gen \in Gens /\ gen # 0
        /\ g.attempts = Append(rec.attempts, at)
        /\ g = [rec EXCEPT !.current_attempt_id = id,
                           !.current_attempt_generation = gen,
                           !.owner_worker = w,
                           !.owner_worker_boot = b,
                           !.ownership_generation = own,
                           !.fence_generation = fen,
                           !.attempts = Append(rec.attempts, at)]
    BY GrantFacts
  <1>2. /\ at.id = id /\ at.dispatch_id = id /\ at.generation = gen
        /\ at.worker_id = w /\ at.worker_boot_id = b
        /\ at.ownership_generation = own /\ at.fence_generation = fen
        /\ at.state = "DISPATCHED"
    <2> HIDE DEF gen, own, fen
    <2> QED BY DEF AttemptRecord
  <1> HIDE DEF gen, at, g
  <1>3. /\ Len(g.attempts) = Len(rec.attempts) + 1
        /\ DOMAIN rec.attempts = 1 .. Len(rec.attempts)
        /\ DOMAIN g.attempts = 1 .. Len(rec.attempts) + 1
        /\ \A i \in DOMAIN rec.attempts : g.attempts[i] = rec.attempts[i]
        /\ Newest(g) = at
    BY <1>1 DEF ExecutionRecords, Newest
  <1>4. /\ g.current_attempt_id = id
        /\ g.current_attempt_generation = gen
        /\ g.owner_worker = w /\ g.owner_worker_boot = b
        /\ g.ownership_generation = own /\ g.fence_generation = fen
        /\ g.state = rec.state
        /\ g.generation = rec.generation
        /\ g.coordinator_epoch = rec.coordinator_epoch
        /\ g.resume_generation = rec.resume_generation
        /\ g.commit_generation = rec.commit_generation
        /\ g.committed_digest = rec.committed_digest
    BY <1>1 DEF ExecutionRecords
  <1> QED
    BY <1>1, <1>2, <1>3, <1>4 DEF g

\* The first attempt has generation 1, the next one the successor.
LEMMA GrantGeneration ==
  ASSUME NEW rec \in ExecutionRecords, NEW id, NEW w, NEW b
  PROVE  GrantAttempt(rec, id, w, b).current_attempt_generation =
           IF rec.current_attempt_generation = 0
           THEN 1 ELSE NextGen(rec.current_attempt_generation)
  BY DEF GrantAttempt, ExecutionRecords

\* The history complete() leaves: the attempt it was called for is moved and
\* given the digest.  And the record after a commit.
MarkedHistory(rec, id, d, s) ==
  /\ s \in Seq(AttemptRecords)
  /\ Len(s) = Len(rec.attempts)
  /\ DOMAIN s = DOMAIN rec.attempts
  /\ \A i \in DOMAIN rec.attempts :
       s[i] = IF rec.attempts[i].id = id
              THEN [TransitionAttempt(rec.attempts[i], "COMPLETED")
                      EXCEPT !.result_digest = d]
              ELSE rec.attempts[i]

CommittedRecord(rec, s, d) ==
  [rec EXCEPT !.attempts = s, !.state = "COMMITTED", !.committed_digest = d,
              !.commit_generation = NextGen(rec.commit_generation)]

CommitOutcome(rec, s, d) ==
  IF ExecutionFrom(rec.state, "COMPLETED")
  THEN Decision("ALLOW", CommittedRecord(rec, s, d))
  ELSE Decision("REJECT_ALREADY_TERMINAL", [rec EXCEPT !.attempts = s])

\* The tail of complete() in closed form: the marked history, committed if the
\* lifecycle table allows COMPLETED and left behind if it does not.
LEMMA CommitResultFacts ==
  ASSUME NEW rec \in ExecutionRecords, NEW id, NEW d \in Digests
  PROVE  \E s : /\ MarkedHistory(rec, id, d, s)
                /\ CommitResult(rec, id, d) = CommitOutcome(rec, s, d)
  <1> DEFINE m == MoveAttempt(rec, id, "COMPLETED")
             F(i) == IF m.attempts[i].id = id
                     THEN [m.attempts[i] EXCEPT !.result_digest = d]
                     ELSE m.attempts[i]
             s == [i \in DOMAIN m.attempts |-> F(i)]
             marked == [m EXCEPT !.attempts = s]
  <1>0. "COMPLETED" \in AttemptStates
    BY DEF AttemptStates
  <1>1. /\ m.attempts \in Seq(AttemptRecords)
        /\ Len(m.attempts) = Len(rec.attempts)
        /\ DOMAIN m.attempts = DOMAIN rec.attempts
        /\ m = [rec EXCEPT !.attempts = m.attempts]
        /\ \A i \in DOMAIN rec.attempts :
             m.attempts[i] = IF rec.attempts[i].id = id
                             THEN TransitionAttempt(rec.attempts[i], "COMPLETED")
                             ELSE rec.attempts[i]
    BY <1>0, MoveFacts
  <1>2. \A i \in DOMAIN m.attempts : m.attempts[i] \in AttemptRecords
    BY <1>1
  <1>3. \A i \in DOMAIN m.attempts : F(i) \in AttemptRecords
    <2> HIDE DEF m
    <2> QED BY <1>2 DEF AttemptRecords
  <1>4. s \in Seq(AttemptRecords) /\ Len(s) = Len(m.attempts)
          /\ DOMAIN s = DOMAIN m.attempts
    <2> HIDE DEF F, m
    <2> QED BY <1>1, <1>3, SeqMap
  <1>5. \A i \in DOMAIN rec.attempts :
          TransitionAttempt(rec.attempts[i], "COMPLETED").id = rec.attempts[i].id
    <2> TAKE i \in DOMAIN rec.attempts
    <2>1. rec.attempts[i] \in AttemptRecords
      BY DEF ExecutionRecords
    <2> QED BY <2>1 DEF TransitionAttempt, AttemptRecords
  <1>6. \A i \in DOMAIN rec.attempts :
          s[i] = IF rec.attempts[i].id = id
                 THEN [TransitionAttempt(rec.attempts[i], "COMPLETED")
                         EXCEPT !.result_digest = d]
                 ELSE rec.attempts[i]
    <2> HIDE DEF m
    <2> QED BY <1>1, <1>5
  <1>7. /\ marked = [rec EXCEPT !.attempts = s]
        /\ marked.state = rec.state
        /\ marked.commit_generation = rec.commit_generation
        /\ marked \in ExecutionRecords
    <2> HIDE DEF m, s
    <2> QED BY <1>1, <1>4 DEF ExecutionRecords
  <1>8. CommitResult(rec, id, d) =
          LET done == Transition(marked, "COMPLETED")
          IN  IF done.code # "ALLOW" THEN done
              ELSE Transition([done.rec EXCEPT !.committed_digest = d,
                                 !.commit_generation = NextGen(@)], "COMMITTED")
    BY DEF CommitResult
  <1>9. MarkedHistory(rec, id, d, s)
    <2> HIDE DEF m, s
    <2> QED BY <1>1, <1>4, <1>6 DEF MarkedHistory
  <1>10. CASE ~ExecutionFrom(rec.state, "COMPLETED")
    <2>1. Transition(marked, "COMPLETED")
            = Decision("REJECT_ALREADY_TERMINAL", marked)
      <3> HIDE DEF marked
      <3> QED BY <1>7, <1>10 DEF Transition
    <2>2. CommitResult(rec, id, d) = Decision("REJECT_ALREADY_TERMINAL", marked)
      <3> HIDE DEF marked
      <3> QED BY <1>8, <2>1 DEF Decision
    <2>3. CommitResult(rec, id, d) = CommitOutcome(rec, s, d)
      <3> HIDE DEF m, s, marked
      <3> QED BY <1>7, <1>10, <2>2 DEF CommitOutcome
    <2> HIDE DEF s
    <2> QED BY <1>9, <2>3
  <1>11. CASE ExecutionFrom(rec.state, "COMPLETED")
    <2> DEFINE c == [marked EXCEPT !.state = "COMPLETED"]
               n == [c EXCEPT !.committed_digest = d,
                              !.commit_generation = NextGen(@)]
    <2>1. Transition(marked, "COMPLETED") = Decision("ALLOW", c)
      <3> HIDE DEF marked
      <3> QED BY <1>7, <1>11 DEF Transition
    <2>2. CommitResult(rec, id, d) = Transition(n, "COMMITTED")
      <3> HIDE DEF c, marked
      <3>1. /\ Transition(marked, "COMPLETED").code = "ALLOW"
            /\ Transition(marked, "COMPLETED").rec = c
        BY <2>1 DEF Decision
      <3> QED BY <1>8, <3>1, Zenon
    <2>3. n.state = "COMPLETED"
      <3> HIDE DEF marked
      <3> QED BY <1>7 DEF ExecutionRecords
    <2>4. ExecutionFrom("COMPLETED", "COMMITTED")
      BY DEF ExecutionFrom
    <2>5. Transition(n, "COMMITTED") = Decision("ALLOW", [n EXCEPT !.state = "COMMITTED"])
      <3> HIDE DEF n
      <3> QED BY <2>3, <2>4 DEF Transition
    <2>6. [n EXCEPT !.state = "COMMITTED"] = CommittedRecord(rec, s, d)
      <3> HIDE DEF m, s
      <3> QED BY <1>4, <1>7 DEF ExecutionRecords, CommittedRecord
    <2>7. CommitResult(rec, id, d) = CommitOutcome(rec, s, d)
      <3> HIDE DEF marked, n, s
      <3> QED BY <1>11, <2>2, <2>5, <2>6 DEF CommitOutcome
    <2> HIDE DEF s
    <2> QED BY <1>9, <2>7
  <1> QED
    BY <1>10, <1>11

\* The tail of complete() yields a result.
LEMMA CommitResultType ==
  ASSUME NEW rec \in ExecutionRecords, NEW id, NEW d \in Digests
  PROVE  CommitResult(rec, id, d) \in Results
  <1>1. PICK s : /\ MarkedHistory(rec, id, d, s)
                 /\ CommitResult(rec, id, d) = CommitOutcome(rec, s, d)
    BY CommitResultFacts
  <1>2. NextGen(rec.commit_generation) \in Gens
    BY NextGenFacts DEF ExecutionRecords
  <1>3. [rec EXCEPT !.attempts = s] \in ExecutionRecords
    BY <1>1 DEF ExecutionRecords, MarkedHistory
  <1>4. CommittedRecord(rec, s, d) \in ExecutionRecords
    BY <1>1, <1>2 DEF ExecutionRecords, ExecutionStates, MarkedHistory, CommittedRecord
  <1>5. {"ALLOW", "REJECT_ALREADY_TERMINAL"} \subseteq DecisionCodes
    BY DEF DecisionCodes
  <1> QED
    BY <1>1, <1>3, <1>4, <1>5, DecisionType DEF CommitOutcome

\* activate() yields a result.
LEMMA ActivateType ==
  ASSUME NEW rec \in ExecutionRecords, NEW ep, NEW e
  PROVE  activate(ep, rec, e) \in Results
  <1>1. [rec EXCEPT !.ownership_generation = 1, !.fence_generation = 1]
          \in ExecutionRecords
    BY SmallGens DEF ExecutionRecords
  <1> QED
    BY <1>1, DecisionType, TransitionType
       DEF activate, DecisionCodes, ExecutionStates

\* dispatch() yields a result.
LEMMA DispatchType ==
  ASSUME NEW rec \in ExecutionRecords, NEW ep, NEW e, NEW id \in Nat \ {0},
         NEW w \in Workers, NEW b \in Boots
  PROVE  dispatch(ep, rec, e, id, w, b) \in Results
  <1> DEFINE m == MoveAttempt(rec, rec.current_attempt_id, "SUPERSEDED")
             g == GrantAttempt(m, id, w, b)
  <1>1. m \in ExecutionRecords
    BY MoveType DEF AttemptStates
  <1>2. g \in ExecutionRecords
    <2> HIDE DEF m
    <2> QED BY <1>1, GrantFacts
  <1>3. Transition(g, "DISPATCHED") \in Results
    <2> HIDE DEF g
    <2> QED BY <1>2, TransitionType DEF ExecutionStates
  <1> HIDE DEF m, g
  <1> QED
    BY <1>3, DecisionType DEF dispatch, DecisionCodes, m, g

\* mark_running() yields a result.
LEMMA MarkRunningType ==
  ASSUME NEW rec \in ExecutionRecords, NEW ep, NEW t
  PROVE  mark_running(ep, rec, t) \in Results
  <1>1. ValidateStart(ep, rec, t) \in DecisionCodes
    BY DEF ValidateStart, DecisionCodes
  <1>2. MoveAttempt(rec, t.attempt_id, "RUNNING") \in ExecutionRecords
    BY MoveType DEF AttemptStates
  <1>3. Transition(MoveAttempt(rec, t.attempt_id, "RUNNING"), "RUNNING") \in Results
    BY <1>2, TransitionType DEF ExecutionStates
  <1> QED
    BY <1>1, <1>3, DecisionType DEF mark_running, DecisionCodes

\* complete() yields a result.
LEMMA CompleteType ==
  ASSUME NEW rec \in ExecutionRecords, NEW ep, NEW t, NEW d \in Digests \cup {None}
  PROVE  complete(ep, rec, t, d) \in Results
  <1>1. ValidateTicket(ep, rec, t) \in DecisionCodes
    BY DEF ValidateTicket, DecisionCodes
  <1>2. d # None => CommitResult(rec, t.attempt_id, d) \in Results
    BY CommitResultType
  <1> QED
    BY <1>1, <1>2, DecisionType DEF complete, DecisionCodes

\* cancel() yields a result.
LEMMA CancelType ==
  ASSUME NEW rec \in ExecutionRecords, NEW ep, NEW e, NEW auth
  PROVE  cancel(ep, rec, e, auth) \in Results
  <1> DEFINE n == [rec EXCEPT !.cancellation_generation = NextGen(@)]
  <1>1. n \in ExecutionRecords
    BY NextGenFacts DEF ExecutionRecords
  <1> HIDE DEF n
  <1> QED
    BY <1>1, DecisionType, TransitionType
       DEF cancel, DecisionCodes, ExecutionStates, n

\* finalize_cancel() yields a result.
LEMMA FinalizeCancelType ==
  ASSUME NEW rec \in ExecutionRecords, NEW ep, NEW e
  PROVE  finalize_cancel(ep, rec, e) \in Results
  <1>1. MoveAttempt(rec, rec.current_attempt_id, "CANCELLED") \in ExecutionRecords
    BY MoveType DEF AttemptStates
  <1> QED
    BY <1>1, DecisionType, TransitionType
       DEF finalize_cancel, DecisionCodes, ExecutionStates

\* preempt() yields a result.
LEMMA PreemptType ==
  ASSUME NEW rec \in ExecutionRecords, NEW ep, NEW e, NEW auth
  PROVE  preempt(ep, rec, e, auth) \in Results
  <1> DEFINE n == [rec EXCEPT !.preemption_generation = NextGen(@)]
  <1>1. n \in ExecutionRecords
    BY NextGenFacts DEF ExecutionRecords
  <1> HIDE DEF n
  <1> QED
    BY <1>1, DecisionType, TransitionType
       DEF preempt, DecisionCodes, ExecutionStates, n

\* acknowledge_preempt() yields a result.
LEMMA AcknowledgePreemptType ==
  ASSUME NEW rec \in ExecutionRecords, NEW ep, NEW e
  PROVE  acknowledge_preempt(ep, rec, e) \in Results
  <1>1. MoveAttempt(rec, rec.current_attempt_id, "PREEMPTED") \in ExecutionRecords
    BY MoveType DEF AttemptStates
  <1> QED
    BY <1>1, DecisionType, TransitionType
       DEF acknowledge_preempt, DecisionCodes, ExecutionStates

\* mark_resumable() yields a result.
LEMMA MarkResumableType ==
  ASSUME NEW rec \in ExecutionRecords, NEW ep, NEW e
  PROVE  mark_resumable(ep, rec, e) \in Results
  BY DecisionType, TransitionType
     DEF mark_resumable, DecisionCodes, ExecutionStates

\* resume() yields a result.
LEMMA ResumeType ==
  ASSUME NEW rec \in ExecutionRecords, NEW ep, NEW e, NEW rg \in Gens,
         NEW id \in Nat \ {0}, NEW w \in Workers, NEW b \in Boots
  PROVE  resume(ep, rec, e, rg, id, w, b) \in Results
  <1> DEFINE p == SupersedePreempted(rec)
             q == [p EXCEPT !.resume_generation = rg]
             g == GrantAttempt(q, id, w, b)
             tr == Transition(g, "RESUMING")
  <1>1. p \in ExecutionRecords
    BY MoveType DEF SupersedePreempted, AttemptStates
  <1>2. q \in ExecutionRecords
    <2> HIDE DEF p
    <2> QED BY <1>1 DEF ExecutionRecords
  <1>3. g \in ExecutionRecords
    <2> HIDE DEF q
    <2> QED BY <1>2, GrantFacts
  <1>4. tr \in Results
    <2> HIDE DEF g
    <2> QED BY <1>3, TransitionType DEF ExecutionStates
  <1>5. tr.rec \in ExecutionRecords
    <2> HIDE DEF tr
    <2> QED BY <1>4 DEF Results
  <1> HIDE DEF p, q, g, tr
  <1>6. Decision("RESUME_ALLOWED", tr.rec) \in Results
    BY <1>5, DecisionType DEF DecisionCodes
  <1> QED
    BY <1>4, <1>6, DecisionType DEF resume, DecisionCodes, p, q, g, tr

\* mark_worker_lost() yields a result.
LEMMA MarkWorkerLostType ==
  ASSUME NEW rec \in ExecutionRecords, NEW ep, NEW e, NEW w, NEW b
  PROVE  mark_worker_lost(ep, rec, e, w, b) \in Results
  <1>1. MoveAttempt(rec, rec.current_attempt_id, "LOST") \in ExecutionRecords
    BY MoveType DEF AttemptStates
  <1> QED
    BY <1>1, DecisionType, TransitionType
       DEF mark_worker_lost, DecisionCodes, ExecutionStates

\* supersede() yields a result.
LEMMA SupersedeType ==
  ASSUME NEW rec \in ExecutionRecords, NEW ep, NEW e
  PROVE  supersede(ep, rec, e) \in Results
  <1> DEFINE m == MoveAttempt(rec, rec.current_attempt_id, "SUPERSEDED")
             n == [m EXCEPT !.generation = NextGen(@),
                            !.current_attempt_id = 0,
                            !.current_attempt_generation = 0,
                            !.owner_worker = None,
                            !.owner_worker_boot = None]
  <1>1. m \in ExecutionRecords
    BY MoveType DEF AttemptStates
  <1>2. NextGen(m.generation) \in Gens /\ 0 \in Gens
    <2> HIDE DEF m
    <2> QED BY <1>1, NextGenFacts, SmallGens DEF ExecutionRecords
  <1>3. n \in ExecutionRecords
    <2> HIDE DEF m
    <2> QED BY <1>1, <1>2 DEF ExecutionRecords
  <1>4. Transition(n, "SUPERSEDED") \in Results
    <2> HIDE DEF n
    <2> QED BY <1>3, TransitionType DEF ExecutionStates
  <1> HIDE DEF m, n
  <1> QED
    BY <1>4, DecisionType DEF supersede, DecisionCodes, m, n

-----------------------------------------------------------------------------
(* The two operations that grant an attempt, by cases.                     *)

Dispatched(rec, id, w, b) ==
  GrantAttempt(MoveAttempt(rec, rec.current_attempt_id, "SUPERSEDED"), id, w, b)

Resumed(rec, rg, id, w, b) ==
  GrantAttempt([SupersedePreempted(rec) EXCEPT !.resume_generation = rg], id, w, b)

\* The record dispatch() asks the table about: of the right type, in the state it
\* was in, and with a history that grew.
LEMMA DispatchedType ==
  ASSUME NEW rec \in ExecutionRecords, NEW id \in Nat \ {0},
         NEW w \in Workers, NEW b \in Boots
  PROVE  /\ Dispatched(rec, id, w, b) \in ExecutionRecords
         /\ Dispatched(rec, id, w, b).state = rec.state
         /\ Len(Dispatched(rec, id, w, b).attempts) > 0
         /\ Dispatched(rec, id, w, b).attempts # rec.attempts
  <1> DEFINE m == MoveAttempt(rec, rec.current_attempt_id, "SUPERSEDED")
             g == GrantAttempt(m, id, w, b)
  <1>1. /\ m \in ExecutionRecords
        /\ m.state = rec.state
        /\ Len(m.attempts) = Len(rec.attempts)
    <2>0. "SUPERSEDED" \in AttemptStates
      BY DEF AttemptStates
    <2>1. m = [rec EXCEPT !.attempts = m.attempts] /\ Len(m.attempts) = Len(rec.attempts)
      BY <2>0, MoveFacts
    <2>2. m \in ExecutionRecords
      BY MoveType DEF AttemptStates
    <2> HIDE DEF m
    <2> QED BY <2>1, <2>2 DEF ExecutionRecords
  <1>2. /\ g \in ExecutionRecords
        /\ g.state = m.state
        /\ Len(g.attempts) = Len(m.attempts) + 1
    <2> HIDE DEF m
    <2>1. m \in ExecutionRecords
      BY <1>1
    <2> QED BY <2>1, GrantShape
  <1>3. Len(rec.attempts) \in Nat
    BY DEF ExecutionRecords
  <1> HIDE DEF m, g
  <1> QED
    BY <1>1, <1>2, <1>3 DEF Dispatched, m, g

\* dispatch() refuses and leaves the record alone, grants, or (from RESUMING) is
\* refused by the table after the attempt was added.
LEMMA DispatchCases ==
  ASSUME NEW rec \in ExecutionRecords, NEW ep, NEW e, NEW id \in Nat \ {0},
         NEW w \in Workers, NEW b \in Boots
  PROVE  LET r == dispatch(ep, rec, e, id, w, b)
             g == Dispatched(rec, id, w, b)
         IN  \/ r.code \notin AllowedCodes /\ r.rec = rec
             \/ /\ rec.state \in {"READY", "DISPATCHED", "RUNNING", "AMBIGUOUS"}
                /\ r.code = "ALLOW"
                /\ r.rec = [g EXCEPT !.state = "DISPATCHED"]
             \/ /\ rec.state = "RESUMING"
                /\ r.code \notin AllowedCodes
                /\ r.rec = g
  <1> DEFINE r == dispatch(ep, rec, e, id, w, b)
             g == Dispatched(rec, id, w, b)
  <1>1. CASE \/ StaleEpoch(ep, rec, e)
             \/ rec.state \notin {"READY", "DISPATCHED", "RUNNING", "AMBIGUOUS", "RESUMING"}
    <2>1. r.code \notin AllowedCodes /\ r.rec = rec
      BY <1>1 DEF dispatch, Decision, AllowedCodes
    <2> QED BY <2>1
  <1>2. CASE /\ ~StaleEpoch(ep, rec, e)
             /\ rec.state \in {"READY", "DISPATCHED", "RUNNING", "AMBIGUOUS", "RESUMING"}
    <2>1. r = Transition(g, "DISPATCHED")
      BY <1>2 DEF dispatch, Dispatched
    <2>2. g.state = rec.state
      BY DispatchedType
    <2> HIDE DEF r, g
    <2>3. rec.state = "RESUMING" => r.code \notin AllowedCodes /\ r.rec = g
      BY <2>1, <2>2 DEF Transition, ExecutionFrom, Decision, AllowedCodes
    <2>4. rec.state # "RESUMING" =>
            r.code = "ALLOW" /\ r.rec = [g EXCEPT !.state = "DISPATCHED"]
      BY <1>2, <2>1, <2>2 DEF Transition, ExecutionFrom, Decision
    <2> QED BY <1>2, <2>3, <2>4 DEF r, g
  <1> QED
    BY <1>1, <1>2

\* The record resume() asks the table about.
LEMMA ResumedType ==
  ASSUME NEW rec \in ExecutionRecords, NEW rg \in Gens, NEW id \in Nat \ {0},
         NEW w \in Workers, NEW b \in Boots
  PROVE  /\ Resumed(rec, rg, id, w, b) \in ExecutionRecords
         /\ Resumed(rec, rg, id, w, b).state = rec.state
         /\ Len(Resumed(rec, rg, id, w, b).attempts) > 0
         /\ Resumed(rec, rg, id, w, b).attempts # rec.attempts
  <1> DEFINE m == SupersedePreempted(rec)
             q == [m EXCEPT !.resume_generation = rg]
             g == GrantAttempt(q, id, w, b)
  <1>1. /\ m \in ExecutionRecords
        /\ m.state = rec.state
        /\ Len(m.attempts) = Len(rec.attempts)
    <2> DEFINE n == MoveAttempt(rec, rec.current_attempt_id, "SUPERSEDED")
    <2>0. "SUPERSEDED" \in AttemptStates
      BY DEF AttemptStates
    <2>1. n = [rec EXCEPT !.attempts = n.attempts] /\ Len(n.attempts) = Len(rec.attempts)
      BY <2>0, MoveFacts
    <2>2. n \in ExecutionRecords
      BY MoveType DEF AttemptStates
    <2>3. m \in {n, rec}
      BY DEF SupersedePreempted
    <2> HIDE DEF m, n
    <2> QED BY <2>1, <2>2, <2>3 DEF ExecutionRecords
  <1>2. /\ q \in ExecutionRecords
        /\ q.state = rec.state
        /\ q.attempts = m.attempts
    <2> HIDE DEF m
    <2> QED BY <1>1 DEF ExecutionRecords
  <1>3. /\ g \in ExecutionRecords
        /\ g.state = q.state
        /\ Len(g.attempts) = Len(q.attempts) + 1
    <2> HIDE DEF q
    <2> QED BY <1>2, GrantShape, SMTT(30)
  <1>4. Len(rec.attempts) \in Nat
    BY DEF ExecutionRecords
  <1> HIDE DEF m, q, g
  <1> QED
    BY <1>1, <1>2, <1>3, <1>4 DEF Resumed, m, q, g

\* resume() refuses and leaves the record alone, or grants.
LEMMA ResumeCases ==
  ASSUME NEW rec \in ExecutionRecords, NEW ep, NEW e, NEW rg \in Gens,
         NEW id \in Nat \ {0}, NEW w \in Workers, NEW b \in Boots
  PROVE  LET r == resume(ep, rec, e, rg, id, w, b)
             g == Resumed(rec, rg, id, w, b)
         IN  \/ r.code \notin AllowedCodes /\ r.rec = rec
             \/ /\ rec.state = "RESUMABLE"
                /\ rg = NextGen(rec.resume_generation)
                /\ r.code = "RESUME_ALLOWED"
                /\ r.rec = [g EXCEPT !.state = "RESUMING"]
  <1> DEFINE r == resume(ep, rec, e, rg, id, w, b)
             g == Resumed(rec, rg, id, w, b)
  <1>1. CASE \/ OtherEpoch(ep, rec, e)
             \/ rec.state # "RESUMABLE"
             \/ rg # NextGen(rec.resume_generation)
    <2>1. r.code \notin AllowedCodes /\ r.rec = rec
      BY <1>1 DEF resume, Decision, AllowedCodes
    <2> QED BY <2>1
  <1>2. CASE /\ ~OtherEpoch(ep, rec, e)
             /\ rec.state = "RESUMABLE"
             /\ rg = NextGen(rec.resume_generation)
    <2> DEFINE tr == Transition(g, "RESUMING")
    <2>1. r = IF tr.code = "ALLOW" THEN Decision("RESUME_ALLOWED", tr.rec) ELSE tr
      BY <1>2 DEF resume, Resumed
    <2>2. g.state = rec.state
      BY ResumedType
    <2> HIDE DEF g
    <2>3. tr = Decision("ALLOW", [g EXCEPT !.state = "RESUMING"])
      BY <1>2, <2>2 DEF Transition, ExecutionFrom
    <2> HIDE DEF r, tr
    <2>4. r = Decision("RESUME_ALLOWED", [g EXCEPT !.state = "RESUMING"])
      BY <2>1, <2>3 DEF Decision
    <2> QED BY <1>2, <2>4 DEF r, g, Decision
  <1> QED
    BY <1>1, <1>2

-----------------------------------------------------------------------------
(* Type correctness of the engine.                                         *)

\* Adopting an epoch keeps it in range and never lowers it.
LEMMA EpochType ==
  ASSUME NEW ep \in Epochs, NEW e \in Epochs
  PROVE  AdoptEpoch(ep, e) \in Epochs /\ ep <= AdoptEpoch(ep, e)
  BY EngineAssumption DEF AdoptEpoch, Epochs

\* A ticket for the newest attempt names that attempt, the execution, its
\* generation and the epoch it was issued under.
LEMMA TicketType ==
  ASSUME NEW x \in Execs, NEW ep \in Epochs, NEW rec \in ExecutionRecords,
         Len(rec.attempts) > 0
  PROVE  /\ TicketFor(x, ep, rec) \in DispatchTickets
         /\ TicketFor(x, ep, rec).execution_id = x
         /\ TicketFor(x, ep, rec).attempt_id = Newest(rec).id
         /\ TicketFor(x, ep, rec).epoch = ep
         /\ TicketFor(x, ep, rec).execution_generation = rec.generation
  <1>1. Newest(rec) \in AttemptRecords
    BY DEF Newest, ExecutionRecords
  <1>2. rec.generation \in Gens
    BY DEF ExecutionRecords
  <1> QED
    BY <1>1, <1>2 DEF TicketFor, DispatchTickets, Newest, AttemptRecords

\* create() inserts an execution record.
LEMMA NewRecordType ==
  ASSUME NEW ep \in Epochs
  PROVE  NewRecord(ep) \in ExecutionRecords
  <1>1. <<>> \in Seq(AttemptRecords)
    OBVIOUS
  <1> QED
    BY <1>1, SmallGens DEF NewRecord, ExecutionRecords, ExecutionStates

\* A step that calls on one execution and replaces its record.
LEMMA CallType ==
  ASSUME TypeOK, NEW x \in Execs, NEW r,
         Known(x) => r \in Results,
         CallOn(x, r)
  PROVE  TypeOK'
  <1>1. CASE Known(x)
    <2>1. r.rec \in ExecutionRecords /\ r.code \in DecisionCodes
      BY <1>1 DEF Results
    <2>2. records' = [records EXCEPT ![x] = r.rec] /\ decision' = r.code
      BY <1>1 DEF CallOn
    <2> QED
      BY <1>1, <2>1, <2>2 DEF CallOn, TypeOK, Known
  <1>2. CASE ~Known(x)
    BY <1>2 DEF CallOn, TypeOK, DecisionCodes
  <1> QED
    BY <1>1, <1>2

\* Behind every ticket a worker presents there is an issued one for the same
\* attempt, epoch and generation.
LEMMA PresentedFacts ==
  ASSUME TypeOK, NEW t \in Presented
  PROVE  \E u \in tickets : /\ t.execution_id = u.execution_id
                            /\ t.attempt_id = u.attempt_id
                            /\ t.epoch = u.epoch
                            /\ t.execution_generation = u.execution_generation
                            /\ u \in DispatchTickets
  <1>1. \A u \in tickets : u \in DispatchTickets
    BY DEF TypeOK
  <1>2. CASE t \in tickets
    BY <1>1, <1>2
  <1>3. ASSUME NEW u \in tickets, NEW b, t = [u EXCEPT !.worker_boot_id = b]
        PROVE  /\ t.execution_id = u.execution_id
               /\ t.attempt_id = u.attempt_id
               /\ t.epoch = u.epoch
               /\ t.execution_generation = u.execution_generation
    BY <1>1, <1>3 DEF DispatchTickets
  <1>4. ASSUME NEW u \in tickets, NEW b, t = [u EXCEPT !.dispatch_id = b]
        PROVE  /\ t.execution_id = u.execution_id
               /\ t.attempt_id = u.attempt_id
               /\ t.epoch = u.epoch
               /\ t.execution_generation = u.execution_generation
    BY <1>1, <1>4 DEF DispatchTickets
  <1> QED
    BY <1>1, <1>2, <1>3, <1>4 DEF Presented

\* A call that may grant an attempt keeps the types.
LEMMA GrantStepType ==
  ASSUME TypeOK, NEW x \in Execs, NEW r \in Results, NEW ep \in Epochs,
         Known(x),
         r.code \in AllowedCodes => Len(r.rec.attempts) > 0,
         GrantOn(x, r, ep), epoch' = ep
  PROVE  TypeOK'
  <1>1. r.rec \in ExecutionRecords /\ r.code \in DecisionCodes
    BY DEF Results
  <1>2. epoch' \in Epochs /\ decision' \in DecisionCodes /\ used' \in Nat
    BY <1>1 DEF GrantOn, TypeOK
  <1>3. /\ DOMAIN records' \subseteq Execs
        /\ \A y \in DOMAIN records' : records'[y] \in ExecutionRecords
    BY <1>1 DEF GrantOn, TypeOK, Known
  <1>4. tickets' \subseteq DispatchTickets
    BY <1>1, TicketType DEF GrantOn, TypeOK
  <1> QED
    BY <1>2, <1>3, <1>4 DEF TypeOK

\* The engine starts with the right types.
LEMMA TypeInit == Init => TypeOK
  BY DEF Init, TypeOK, DecisionCodes

\* Every call keeps the types, one step per operation of the engine.
LEMMA TypeNext == TypeOK /\ [Next]_vars => TypeOK'
  <1> SUFFICES ASSUME TypeOK, [Next]_vars PROVE TypeOK'
    OBVIOUS
  <1>0. \A x \in DOMAIN records : records[x] \in ExecutionRecords
    BY DEF TypeOK
  <1>e. epoch \in Epochs /\ used \in Nat
    BY DEF TypeOK
  <1>1. ASSUME NEW x \in Execs, NEW e \in Epochs, Create(x, e) PROVE TypeOK'
    <2>1. epoch' \in Epochs
      BY <1>1, <1>e, EpochType DEF Create
    <2>2. NewRecord(epoch') \in ExecutionRecords
      BY <2>1, NewRecordType
    <2>3. /\ DOMAIN records' \subseteq Execs
          /\ \A y \in DOMAIN records' : records'[y] \in ExecutionRecords
      BY <1>1, <2>2 DEF Create, TypeOK
    <2> QED
      BY <1>1, <2>1, <2>3 DEF Create, TypeOK, DecisionCodes
  <1>2. ASSUME NEW x \in Execs, NEW e \in Epochs, Activate(x, e) PROVE TypeOK'
    <2> DEFINE r == activate(epoch, records[x], e)
    <2>1. r \in Results
      BY <1>0, <1>2, ActivateType DEF Activate, Known
    <2>2. r.rec \in ExecutionRecords /\ r.code \in DecisionCodes
      <3> HIDE DEF r
      <3> QED BY <2>1 DEF Results
    <2>3. records' = [records EXCEPT ![x] = r.rec] /\ decision' = r.code
      BY <1>2 DEF Activate
    <2>4. epoch' \in Epochs
      BY <1>2, <1>e, EpochType DEF Activate, EpochAfter
    <2> HIDE DEF r
    <2> QED
      BY <1>2, <2>2, <2>3, <2>4 DEF Activate, TypeOK, Known
  <1>3. ASSUME NEW x \in Execs, NEW w \in Workers, NEW b \in Boots,
               NEW e \in Epochs, Dispatch(x, w, b, e)
        PROVE  TypeOK'
    <2> DEFINE r == dispatch(epoch, records[x], e, used + 1, w, b)
               g == Dispatched(records[x], used + 1, w, b)
    <2>1. records[x] \in ExecutionRecords /\ used + 1 \in Nat \ {0} /\ Known(x)
      BY <1>0, <1>e, <1>3 DEF Dispatch, Known
    <2>2. r \in Results
      BY <2>1, DispatchType
    <2>3. g \in ExecutionRecords /\ Len(g.attempts) > 0
      BY <2>1, DispatchedType
    <2>4. r.code \in AllowedCodes => r.rec = [g EXCEPT !.state = "DISPATCHED"]
      BY <2>1, DispatchCases
    <2>5. epoch' \in Epochs
      BY <1>3, <1>e, EpochType DEF Dispatch, EpochAfter
    <2>6. GrantOn(x, r, epoch')
      BY <1>3 DEF Dispatch
    <2> HIDE DEF r, g
    <2>7. r.code \in AllowedCodes => Len(r.rec.attempts) > 0
      BY <2>3, <2>4 DEF ExecutionRecords
    <2> QED
      BY <2>1, <2>2, <2>5, <2>6, <2>7, GrantStepType
  <1>4. ASSUME NEW x \in Execs, NEW w \in Workers, NEW b \in Boots,
               NEW e \in Epochs, NEW rg \in Gens, Resume(x, w, b, e, rg)
        PROVE  TypeOK'
    <2>1. CASE ~Known(x)
      BY <1>4, <2>1 DEF Resume, TypeOK, DecisionCodes
    <2>2. CASE Known(x)
      <3> DEFINE r == resume(epoch, records[x], e, rg, used + 1, w, b)
                 g == Resumed(records[x], rg, used + 1, w, b)
      <3>1. records[x] \in ExecutionRecords /\ used + 1 \in Nat \ {0}
        BY <1>0, <1>e, <2>2 DEF Known
      <3>2. r \in Results
        BY <3>1, ResumeType
      <3>3. g \in ExecutionRecords /\ Len(g.attempts) > 0
        BY <3>1, ResumedType
      <3>4. r.code \in AllowedCodes => r.rec = [g EXCEPT !.state = "RESUMING"]
        BY <3>1, ResumeCases
      <3>5. GrantOn(x, r, epoch) /\ epoch' = epoch
        BY <1>4, <2>2 DEF Resume
      <3> HIDE DEF r, g
      <3>6. r.code \in AllowedCodes => Len(r.rec.attempts) > 0
        BY <3>3, <3>4 DEF ExecutionRecords
      <3> QED
        BY <1>e, <2>2, <3>2, <3>5, <3>6, GrantStepType
    <2> QED
      BY <2>1, <2>2
  <1>5. ASSUME NEW t \in Presented, MarkRunning(t) PROVE TypeOK'
    <2>1. t.execution_id \in Execs
      BY PresentedFacts DEF DispatchTickets
    <2> QED
      BY <1>0, <1>5, <2>1, MarkRunningType, CallType DEF MarkRunning, Known
  <1>6. ASSUME NEW t \in Presented, NEW d \in Digests \cup {None}, Complete(t, d)
        PROVE  TypeOK'
    <2>1. t.execution_id \in Execs
      BY PresentedFacts DEF DispatchTickets
    <2> QED
      BY <1>0, <1>6, <2>1, CompleteType, CallType DEF Complete, Known
  <1>7. ASSUME NEW x \in Execs, NEW e \in Epochs, NEW auth \in Gens, Cancel(x, e, auth)
        PROVE  TypeOK'
    BY <1>0, <1>7, CancelType, CallType DEF Cancel, Known
  <1>8. ASSUME NEW x \in Execs, NEW e \in Epochs, FinalizeCancel(x, e) PROVE TypeOK'
    BY <1>0, <1>8, FinalizeCancelType, CallType DEF FinalizeCancel, Known
  <1>9. ASSUME NEW x \in Execs, NEW e \in Epochs, NEW auth \in Gens, Preempt(x, e, auth)
        PROVE  TypeOK'
    BY <1>0, <1>9, PreemptType, CallType DEF Preempt, Known
  <1>10. ASSUME NEW x \in Execs, NEW e \in Epochs, AcknowledgePreempt(x, e)
         PROVE  TypeOK'
    BY <1>0, <1>10, AcknowledgePreemptType, CallType DEF AcknowledgePreempt, Known
  <1>11. ASSUME NEW x \in Execs, NEW e \in Epochs, MarkResumable(x, e) PROVE TypeOK'
    BY <1>0, <1>11, MarkResumableType, CallType DEF MarkResumable, Known
  <1>12. ASSUME NEW x \in Execs, NEW w \in Workers, NEW b \in Boots,
                NEW e \in Epochs, MarkWorkerLost(x, w, b, e)
         PROVE  TypeOK'
    BY <1>0, <1>12, MarkWorkerLostType, CallType DEF MarkWorkerLost, Known
  <1>13. ASSUME NEW x \in Execs, NEW e \in Epochs, Supersede(x, e) PROVE TypeOK'
    BY <1>0, <1>13, SupersedeType, CallType DEF Supersede, Known
  <1>14. ASSUME NEW e \in Epochs, RaiseEpoch(e) PROVE TypeOK'
    BY <1>14, <1>e, EpochType DEF RaiseEpoch, TypeOK
  <1>15. CASE UNCHANGED vars
    BY <1>15 DEF vars, TypeOK
  <1> QED
    BY <1>1, <1>2, <1>3, <1>4, <1>5, <1>6, <1>7, <1>8, <1>9, <1>10, <1>11,
       <1>12, <1>13, <1>14, <1>15 DEF Next

\* The engine's state keeps the types of its C++ declarations, whatever calls
\* are made in whatever order and under whatever epoch.
THEOREM TypeCorrect == Spec => []TypeOK
  BY TypeInit, TypeNext, PTL DEF Spec
=============================================================================
